--------------------------- MODULE OutboxPublisher ---------------------------
(***************************************************************************)
(* The way of a business event to its notification: a service commits a    *)
(* change, then (not awaited) appends a row to OutboxEvent; the publisher  *)
(* ticks, claims the oldest due rows and runs their handlers one by one,   *)
(* marking each row PUBLISHED, RETRY with a backoff, or FAILED.  A handler *)
(* may hand one mail to the provider, resending it there and then when the *)
(* provider does not answer well.  One backend process does all of it and  *)
(* may restart between any two steps.                                      *)
(***************************************************************************)
EXTENDS Naturals, FiniteSets

CONSTANTS Events,
          Handled,     \* events a handler is registered for
          BatchSize, MaxAttempts,
          MaxSends,    \* attempts of one handler run to hand over its mail
          MaxFaults    \* bound on restarts, failing database statements and
                       \* lost answers of the provider

ASSUME OutboxAssumption ==
  /\ Handled \subseteq Events
  /\ BatchSize \in Nat \ {0} /\ MaxAttempts \in Nat \ {0}
  /\ MaxSends \in Nat \ {0} /\ MaxFaults \in Nat

VARIABLES committed, \* events whose business change is in the database
          appending, \* committed, the append to the outbox still to run
          appended,  \* how many rows were appended so far
          outbox,    \* the OutboxEvent table
          pc, batch, \* the publisher: where it is in its tick, the rows left of it
          try,       \* the attempt a handler is at with its mail, else 0
          sent,      \* deliveries the mail provider accepted, per event
          hidden,    \* history: events with a delivery failure a handler hid
          moot,      \* history: events a handler had nothing to send for
          faults

vars == <<committed, appending, appended, outbox, pc, batch, try, sent, hidden, moot, faults>>

NoRow == [status |-> "ABSENT", attempts |-> 0, due |-> FALSE, createdAt |-> 0]
Rows  == [ status    : {"ABSENT", "PENDING", "RETRY", "PUBLISHED", "FAILED"},
           attempts  : 0 .. MaxAttempts,
           due       : BOOLEAN,   \* availableAt has passed
           createdAt : Nat ]

\* A claimed row keeps the attempts it was read with.
Claimed == [id : Events, attempts : 0 .. MaxAttempts, createdAt : Nat]

TypeOK == /\ committed \subseteq Events
          /\ appending \subseteq committed
          /\ outbox \in [Events -> Rows]
          /\ appended \in Nat
          /\ pc \in {"idle", "dispatch", "sending", "published", "failed"}
          /\ batch \subseteq Claimed
          /\ try \in 0 .. MaxSends
          /\ sent \in [Events -> Nat]
          /\ hidden \subseteq Events /\ moot \subseteq Events
          /\ faults \in 0 .. MaxFaults

Init == /\ committed = {} /\ appending = {} /\ appended = 0
        /\ outbox = [e \in Events |-> NoRow]
        /\ pc = "idle" /\ batch = {} /\ try = 0
        /\ sent = [e \in Events |-> 0]
        /\ hidden = {} /\ moot = {}
        /\ faults = 0

-----------------------------------------------------------------------------
(* Producers: the change is committed, then the event is appended. *)

Change(e) ==
  /\ e \notin committed
  /\ committed' = committed \cup {e}
  /\ appending' = appending \cup {e}
  /\ UNCHANGED <<appended, outbox, pc, batch, try, sent, hidden, moot, faults>>

NewRow == [status |-> "PENDING", attempts |-> 0, due |-> TRUE, createdAt |-> appended]

\* Mutant of AppendOutbox: an error of the insert is taken for success.
AppendUnchecked(e) ==
  /\ e \in appending
  /\ appending' = appending \ {e}
  /\ \/ /\ appended' = appended + 1
        /\ outbox' = [outbox EXCEPT ![e] = NewRow]
     \/ UNCHANGED <<appended, outbox>>
  /\ UNCHANGED <<committed, pc, batch, try, sent, hidden, moot, faults>>

AppendOutbox(e) ==
  /\ e \in appending
  /\ appending' = appending \ {e}
  /\ appended' = appended + 1
  /\ outbox' = [outbox EXCEPT ![e] = NewRow]
  /\ UNCHANGED <<committed, pc, batch, try, sent, hidden, moot, faults>>

\* The insert fails; nobody awaits the call, and nothing repeats it.
AppendFails(e) ==
  /\ e \in appending
  /\ faults < MaxFaults
  /\ faults' = faults + 1
  /\ appending' = appending \ {e}
  /\ UNCHANGED <<committed, appended, outbox, pc, batch, try, sent, hidden, moot>>

-----------------------------------------------------------------------------
(* The publisher's tick. *)

\* Mutant of Claimable: rows already published are claimed again.
ClaimableAgain(e) == outbox[e].status \in {"PENDING", "RETRY", "PUBLISHED"} /\ outbox[e].due

Claimable(e) == outbox[e].status \in {"PENDING", "RETRY"} /\ outbox[e].due

Due == {e \in Events : Claimable(e)}

\* claimBatch: ORDER BY createdAt, at most BatchSize rows.
Oldest == {e \in Due : Cardinality({d \in Due : outbox[d].createdAt < outbox[e].createdAt}) < BatchSize}

Batch == {[id |-> e, attempts |-> outbox[e].attempts, createdAt |-> outbox[e].createdAt] : e \in Oldest}

Tick == /\ pc = "idle"
        /\ Batch # {}
        /\ batch' = Batch
        /\ pc' = "dispatch"
        /\ UNCHANGED <<committed, appending, appended, outbox, try, sent, hidden, moot, faults>>

\* The rows are taken in the order of the query.
AtHand(row) == \A other \in batch \ {row} : row.createdAt < other.createdAt

\* The row at hand is done with: the next one, or the end of the tick.
Advance(row) == /\ batch' = batch \ {row}
                /\ pc' = IF batch = {row} THEN "idle" ELSE "dispatch"

\* Mutant of Skip: a row nobody handles is settled to get it out of the way.
SkipPublished(row) ==
  /\ pc = "dispatch" /\ AtHand(row)
  /\ row.id \notin Handled
  /\ outbox' = [outbox EXCEPT ![row.id].status = "PUBLISHED"]
  /\ Advance(row)
  /\ UNCHANGED <<committed, appending, appended, try, sent, hidden, moot, faults>>

\* No handler: the row stays as it is.
Skip(row) ==
  /\ pc = "dispatch" /\ AtHand(row)
  /\ row.id \notin Handled
  /\ Advance(row)
  /\ UNCHANGED <<committed, appending, appended, outbox, try, sent, hidden, moot, faults>>

\* The handler runs the translator's dispatch: it throws before there is a
\* mail, finds that there is none to send, or starts to send one.
Dispatch(row) ==
  /\ pc = "dispatch" /\ AtHand(row)
  /\ row.id \in Handled
  /\ \/ pc' = "failed" /\ UNCHANGED <<try, moot>>
     \/ pc' = "published" /\ moot' = moot \cup {row.id} /\ UNCHANGED try
     \/ pc' = "sending" /\ try' = 1 /\ UNCHANGED moot
  /\ UNCHANGED <<committed, appending, appended, outbox, batch, sent, hidden, faults>>

\* The provider takes the mail and says so, and that is on record.
Deliver(row) ==
  /\ pc = "sending" /\ AtHand(row)
  /\ sent' = [sent EXCEPT ![row.id] = @ + 1]
  /\ pc' = "published" /\ try' = 0
  /\ UNCHANGED <<committed, appending, appended, outbox, batch, hidden, moot, faults>>

\* What the handler makes of a failure: another attempt if it may pass, or an
\* end of the delivery that dispatchQuietly keeps to itself.
Resend(row) ==
  \/ try < MaxSends /\ try' = try + 1 /\ UNCHANGED <<pc, hidden>>
  \/ pc' = "published" /\ try' = 0 /\ hidden' = hidden \cup {row.id}

\* The provider does not take the mail, or a statement before that fails.
Refuse(row) ==
  /\ pc = "sending" /\ AtHand(row)
  /\ Resend(row)
  /\ UNCHANGED <<committed, appending, appended, outbox, batch, sent, moot, faults>>

\* The provider takes the mail, but its answer is lost (a reset, a timeout),
\* or cannot be put on record.
LoseAnswer(row) ==
  /\ pc = "sending" /\ AtHand(row)
  /\ faults < MaxFaults
  /\ faults' = faults + 1
  /\ sent' = [sent EXCEPT ![row.id] = @ + 1]
  /\ Resend(row)
  /\ UNCHANGED <<committed, appending, appended, outbox, batch, moot>>

MarkPublished(row) ==
  /\ pc = "published" /\ AtHand(row)
  /\ outbox' = [outbox EXCEPT ![row.id].status = "PUBLISHED"]
  /\ Advance(row)
  /\ UNCHANGED <<committed, appending, appended, try, sent, hidden, moot, faults>>

\* markPublished throws inside the try: counted as a failed attempt.
PublishFails ==
  /\ pc = "published"
  /\ faults < MaxFaults
  /\ faults' = faults + 1
  /\ pc' = "failed"
  /\ UNCHANGED <<committed, appending, appended, outbox, batch, try, sent, hidden, moot>>

\* The row after attempt n: given up, or to be retried later.
Retried(row, n) == [status |-> "RETRY", attempts |-> n, due |-> FALSE, createdAt |-> row.createdAt]
GivenUp(row, n) == [status |-> "FAILED", attempts |-> n, due |-> TRUE, createdAt |-> row.createdAt]

\* Mutants of Failed: > for >= ; the attempts are not stored.
FailedAbove(row) ==
  IF row.attempts + 1 > MaxAttempts THEN GivenUp(row, row.attempts + 1) ELSE Retried(row, row.attempts + 1)
FailedUncounted(row) ==
  IF row.attempts + 1 >= MaxAttempts THEN GivenUp(row, row.attempts + 1) ELSE Retried(row, row.attempts)

Failed(row) ==
  IF row.attempts + 1 >= MaxAttempts THEN GivenUp(row, row.attempts + 1) ELSE Retried(row, row.attempts + 1)

MarkFailure(row) ==
  /\ pc = "failed" /\ AtHand(row)
  /\ outbox' = [outbox EXCEPT ![row.id] = Failed(row)]
  /\ Advance(row)
  /\ UNCHANGED <<committed, appending, appended, try, sent, hidden, moot, faults>>

\* markRetry or markFailed throws: tickSafe ends the tick.
AbortTick ==
  /\ pc = "failed"
  /\ faults < MaxFaults
  /\ faults' = faults + 1
  /\ pc' = "idle" /\ batch' = {}
  /\ UNCHANGED <<committed, appending, appended, outbox, try, sent, hidden, moot>>

\* availableAt passes for a row that waits out its backoff.
BackoffElapses(e) ==
  /\ outbox[e].status = "RETRY" /\ ~ outbox[e].due
  /\ outbox' = [outbox EXCEPT ![e].due = TRUE]
  /\ UNCHANGED <<committed, appending, appended, pc, batch, try, sent, hidden, moot, faults>>

\* Everything in memory is lost, appends under way included.
Restart ==
  /\ faults < MaxFaults
  /\ faults' = faults + 1
  /\ appending' = {} /\ pc' = "idle" /\ batch' = {} /\ try' = 0
  /\ UNCHANGED <<committed, appended, outbox, sent, hidden, moot>>

Publisher == \/ Tick
             \/ \E row \in batch : \/ Skip(row) \/ Dispatch(row) \/ Deliver(row) \/ Refuse(row)
                                  \/ MarkPublished(row) \/ MarkFailure(row)

Next == \/ \E e \in Events : Change(e) \/ AppendOutbox(e) \/ AppendFails(e) \/ BackoffElapses(e)
        \/ \E row \in batch : LoseAnswer(row)
        \/ Publisher \/ PublishFails \/ AbortTick \/ Restart

\* The interval timer keeps ticking, clocks advance, started calls go on.
Fairness == /\ WF_vars(Publisher)
            /\ \A e \in Events : WF_vars(AppendOutbox(e)) /\ WF_vars(BackoffElapses(e))

Spec == Init /\ [][Next]_vars /\ Fairness

-----------------------------------------------------------------------------
(* Properties *)

(***************************************************************************)
(* At-least-once with a price: the provider accepts an event once, and     *)
(* again only for a fault that hid an acceptance: a restart, a failing     *)
(* statement, an answer lost on the way back.  Neither the retries of the  *)
(* publisher nor the resends inside a handler duplicate on their own.      *)
(***************************************************************************)
DuplicatesNeedFaults == \A e \in Events : sent[e] <= 1 + faults

(***************************************************************************)
(* An event is given up only after MaxAttempts failed attempts, and a      *)
(* settled row is never touched again.                                     *)
(***************************************************************************)
SettledIsFinal ==
  [][\A e \in Events :
       /\ outbox[e].status \in {"PUBLISHED", "FAILED"} => outbox'[e] = outbox[e]
       /\ outbox[e].status # "FAILED" /\ outbox'[e].status = "FAILED"
            => outbox[e].attempts = MaxAttempts - 1]_vars

(***************************************************************************)
(* The publisher "dispatches each PENDING / RETRY row whose availableAt    *)
(* has elapsed to a handler registered": every appended event with a       *)
(* handler is settled in the end, through failures and restarts.           *)
(***************************************************************************)
HandledEventsSettle ==
  \A e \in Handled :
    (outbox[e].status # "ABSENT") ~> (outbox[e].status \in {"PUBLISHED", "FAILED"})

(***************************************************************************)
(* An event whose change is committed is on its way into the outbox or in  *)
(* it for good; only a restart or a failing statement can have lost it.    *)
(***************************************************************************)
OnlyFaultsLoseEvents ==
  \A e \in committed : e \in appending \/ outbox[e].status # "ABSENT" \/ faults > 0

(***************************************************************************)
(* What is PUBLISHED was accepted by the provider at least once, unless a  *)
(* handler run had nothing to send for it (no recipient is configured, the *)
(* event has no mail) or kept a failed delivery to itself.  A row nobody   *)
(* handled, or whose runs all threw, is never taken for published.         *)
(***************************************************************************)
PublishedWasHandled ==
  \A e \in Events :
    outbox[e].status = "PUBLISHED" => sent[e] > 0 \/ e \in hidden \/ e \in moot
=============================================================================
