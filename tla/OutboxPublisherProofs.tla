------------------------ MODULE OutboxPublisherProofs ------------------------
(***************************************************************************)
(* Theorems about OutboxPublisher, for any number of events, handlers,     *)
(* rows per tick, attempts, resends and faults.  What the publisher        *)
(* claimed in its tick agrees with the table (BatchFits); how often an     *)
(* event was sent is counted against the faults and against where its row  *)
(* is in the tick (SentCounted); whatever left a handler was sent, hidden  *)
(* by the handler, or nothing to send for (WasHandled).                    *)
(***************************************************************************)
EXTENDS OutboxPublisher, TLAPS

Absent(e) == outbox[e].status = "ABSENT"
Open(e)   == outbox[e].status \in {"PENDING", "RETRY"}

\* An event has no row until it is appended, and is appended once; a row
\* that is still to be handled has attempts left.
RowsFit ==
  /\ \A e \in Events \ committed : Absent(e)
  /\ \A e \in appending : Absent(e)
  /\ \A e \in Events : Open(e) => outbox[e].attempts < MaxAttempts

\* The publisher is busy while it has rows, each as it is in the table.
BatchFits ==
  /\ pc = "idle" <=> batch = {}
  /\ \A row \in batch : /\ Open(row.id)
                        /\ outbox[row.id].attempts = row.attempts
                        /\ outbox[row.id].createdAt = row.createdAt

\* The event whose row is at hand after its handler returned.
InHand(e) == pc = "published" /\ \E row \in batch : row.id = e /\ AtHand(row)

\* A send the table does not know of costs a fault.
SentCounted ==
  \A e \in Events :
    /\ sent[e] <= 1 + faults
    /\ outbox[e].status # "PUBLISHED" /\ ~ InHand(e) => sent[e] <= faults

\* A handler that returned has sent the event, hid why it did not, or had
\* nothing to send.
WasHandled ==
  \A e \in Events :
    outbox[e].status = "PUBLISHED" \/ InHand(e) => sent[e] > 0 \/ e \in hidden \/ e \in moot

Table == TypeOK /\ RowsFit /\ BatchFits
Deliveries == SentCounted /\ WasHandled

-----------------------------------------------------------------------------
(* The rows of a tick *)

LEMMA RowFields ==
  ASSUME TypeOK, NEW row \in batch
  PROVE  /\ row.id \in Events /\ row.attempts \in 0 .. MaxAttempts /\ row.createdAt \in Nat
         /\ row = [id |-> row.id, attempts |-> row.attempts, createdAt |-> row.createdAt]
BY DEF TypeOK, Claimed

LEMMA TableFields ==
  ASSUME TypeOK, NEW e \in Events
  PROVE  /\ outbox[e].status \in {"ABSENT", "PENDING", "RETRY", "PUBLISHED", "FAILED"}
         /\ outbox[e].attempts \in 0 .. MaxAttempts
         /\ outbox[e].due \in BOOLEAN
         /\ outbox[e].createdAt \in Nat
BY DEF TypeOK, Rows

\* No event is in the batch twice, and at most one row is at hand.
LEMMA OneRow ==
  ASSUME TypeOK, BatchFits, NEW row \in batch, NEW other \in batch, row.id = other.id
  PROVE  row = other
BY RowFields DEF BatchFits

LEMMA OneAtHand ==
  ASSUME TypeOK, NEW row \in batch, NEW other \in batch, AtHand(row), AtHand(other)
  PROVE  row = other
BY RowFields DEF AtHand

-----------------------------------------------------------------------------
(* The table and the batch *)

\* The publisher writes the row at hand and goes on to the next one.
LEMMA TableAdvances ==
  ASSUME OutboxAssumption, Table, NEW row \in batch, Advance(row),
         NEW new \in Rows, new.status \in {"RETRY", "PUBLISHED", "FAILED"},
         new.status = "RETRY" => new.attempts < MaxAttempts,
         outbox' = [outbox EXCEPT ![row.id] = new],
         UNCHANGED <<committed, appending, appended, try, sent, hidden, moot, faults>>
  PROVE  Table'
<1>1. /\ row.id \in Events /\ outbox' \in [Events -> Rows] /\ outbox'[row.id] = new
      /\ \A e \in Events \ {row.id} : outbox'[e] = outbox[e]
  BY RowFields DEF Table, TypeOK
<1>2. /\ batch' \subseteq Claimed /\ pc' \in {"idle", "dispatch"}
      /\ pc' = "idle" <=> batch' = {}
  BY DEF Advance, Table, TypeOK
<1>3. TypeOK'
  BY <1>1, <1>2 DEF Table, TypeOK
<1>4. ~ Absent(row.id)
  BY DEF Table, BatchFits, Open, Absent
<1>5. RowsFit'
  BY <1>1, <1>4 DEF Table, RowsFit, Absent, Open, TypeOK
<1>6. ASSUME NEW other \in batch' PROVE outbox'[other.id] = outbox[other.id] /\ other \in batch
  <2>1. other \in batch /\ other # row
    BY <1>6 DEF Advance
  <2> QED BY <1>1, <2>1, OneRow, RowFields DEF Table
<1>7. BatchFits'
  BY <1>2, <1>6 DEF Table, BatchFits, Open
<1> QED BY <1>3, <1>5, <1>7 DEF Table

LEMMA PublishedRow ==
  ASSUME Table, NEW row \in batch
  PROVE  /\ [outbox[row.id] EXCEPT !.status = "PUBLISHED"] \in Rows
         /\ [outbox[row.id] EXCEPT !.status = "PUBLISHED"].status = "PUBLISHED"
BY RowFields, TableFields DEF Table, TypeOK, Rows

LEMMA FailedRow ==
  ASSUME OutboxAssumption, Table, NEW row \in batch
  PROVE  /\ Failed(row) \in Rows
         /\ Failed(row).status \in {"RETRY", "FAILED"}
         /\ Failed(row).status = "RETRY" => Failed(row).attempts < MaxAttempts
         /\ Failed(row).status = "FAILED" => outbox[row.id].attempts = MaxAttempts - 1
<1>1. /\ row.attempts \in 0 .. MaxAttempts /\ row.createdAt \in Nat
      /\ outbox[row.id].attempts = row.attempts /\ row.attempts < MaxAttempts
  BY RowFields DEF Table, BatchFits, RowsFit
<1>2. CASE row.attempts + 1 >= MaxAttempts
  BY <1>1, <1>2 DEF Failed, GivenUp, Rows, OutboxAssumption
<1>3. CASE ~ (row.attempts + 1 >= MaxAttempts)
  BY <1>1, <1>3 DEF Failed, Retried, Rows, OutboxAssumption
<1> QED BY <1>2, <1>3

LEMMA TableInit == OutboxAssumption /\ Init => Table
BY DEF OutboxAssumption, Init, Table, TypeOK, RowsFit, BatchFits, Absent, Open, NoRow, Rows

LEMMA TickStep ==
  ASSUME OutboxAssumption, Table, Tick PROVE Table'
<1>1. batch' = Batch /\ batch' # {} /\ pc' = "dispatch"
      /\ UNCHANGED <<committed, appending, appended, outbox, try, sent, hidden, moot, faults>>
  BY DEF Tick
<1>2. ASSUME NEW row \in batch'
      PROVE  /\ row \in Claimed /\ Open(row.id) /\ outbox[row.id].attempts = row.attempts
             /\ outbox[row.id].createdAt = row.createdAt
  <2>1. PICK e \in Oldest :
          row = [id |-> e, attempts |-> outbox[e].attempts, createdAt |-> outbox[e].createdAt]
    BY <1>1, <1>2 DEF Batch
  <2>2. e \in Events /\ Open(e)
    BY DEF Oldest, Due, Claimable, Open
  <2> QED BY <2>1, <2>2, TableFields DEF Table, Claimed
<1>3. TypeOK'
  BY <1>1, <1>2 DEF Table, TypeOK
<1>4. RowsFit'
  BY <1>1 DEF Table, RowsFit, Absent, Open
<1>5. BatchFits'
  BY <1>1, <1>2 DEF BatchFits, Open
<1> QED BY <1>3, <1>4, <1>5 DEF Table

LEMMA ProducerStep ==
  ASSUME OutboxAssumption, Table, NEW e \in Events,
         Change(e) \/ AppendOutbox(e) \/ AppendFails(e) \/ BackoffElapses(e)
  PROVE  Table'
<1>1. CASE Change(e)
  <2>1. TypeOK'
    BY <1>1 DEF Change, Table, TypeOK
  <2> QED BY <1>1, <2>1 DEF Change, Table, RowsFit, BatchFits, Absent, Open
<1>2. CASE AppendOutbox(e)
  <2>1. /\ outbox' = [outbox EXCEPT ![e] = NewRow] /\ NewRow \in Rows /\ Absent(e)
        /\ e \in committed /\ NewRow.status = "PENDING" /\ NewRow.attempts = 0
    BY <1>2 DEF AppendOutbox, Table, TypeOK, RowsFit, NewRow, Rows, OutboxAssumption
  <2>2. /\ outbox'[e] = NewRow /\ outbox' \in [Events -> Rows]
        /\ \A d \in Events \ {e} : outbox'[d] = outbox[d]
    BY <2>1 DEF Table, TypeOK
  <2>3. \A row \in batch : row.id # e /\ row.id \in Events
    BY <2>1, RowFields DEF Table, BatchFits, Absent, Open
  <2>4. TypeOK'
    BY <1>2, <2>2 DEF AppendOutbox, Table, TypeOK
  <2>5. RowsFit'
    BY <1>2, <2>1, <2>2 DEF AppendOutbox, Table, RowsFit, Absent, Open, OutboxAssumption, TypeOK
  <2>6. BatchFits'
    BY <1>2, <2>2, <2>3 DEF AppendOutbox, Table, BatchFits, Open
  <2> QED BY <2>4, <2>5, <2>6 DEF Table
<1>3. CASE AppendFails(e)
  <2>1. TypeOK'
    BY <1>3 DEF AppendFails, Table, TypeOK, OutboxAssumption
  <2> QED BY <1>3, <2>1 DEF AppendFails, Table, RowsFit, BatchFits, Absent, Open
<1>4. CASE BackoffElapses(e)
  <2> DEFINE new == [outbox[e] EXCEPT !.due = TRUE]
  <2>1. outbox' = [outbox EXCEPT ![e] = new]
    BY <1>4 DEF BackoffElapses, Table, TypeOK
  <2>2. /\ new \in Rows /\ new.status = outbox[e].status
        /\ new.attempts = outbox[e].attempts /\ new.createdAt = outbox[e].createdAt
    BY TableFields DEF Table, TypeOK, Rows
  <2> HIDE DEF new
  <2>3. /\ outbox' \in [Events -> Rows]
        /\ \A d \in Events : /\ outbox'[d].status = outbox[d].status
                             /\ outbox'[d].attempts = outbox[d].attempts
                             /\ outbox'[d].createdAt = outbox[d].createdAt
    BY <2>1, <2>2 DEF Table, TypeOK
  <2>4. TypeOK'
    BY <1>4, <2>3 DEF BackoffElapses, Table, TypeOK
  <2>5. RowsFit'
    BY <1>4, <2>3 DEF BackoffElapses, Table, RowsFit, Absent, Open, TypeOK
  <2>6. BatchFits'
    BY <1>4, <2>3, RowFields DEF BackoffElapses, Table, BatchFits, Open
  <2> QED BY <2>4, <2>5, <2>6 DEF Table
<1> QED BY <1>1, <1>2, <1>3, <1>4

\* The steps of a handler, up to its end.
Handles(row) == Dispatch(row) \/ Deliver(row) \/ Refuse(row) \/ LoseAnswer(row)

\* A handler works on the row at hand and touches no table of the publisher.
\* What it adds to the deliveries of the row ends it or costs a fault; once it
\* has ended well, the row was sent, hidden, or nothing to send for.
LEMMA HandlerWorks ==
  ASSUME OutboxAssumption, TypeOK, NEW row \in batch, Handles(row)
  PROVE  /\ AtHand(row) /\ pc \in {"dispatch", "sending"}
         /\ pc' \in {"sending", "published", "failed"} /\ try' \in 0 .. MaxSends
         /\ UNCHANGED <<committed, appending, appended, outbox, batch>>
         /\ hidden \subseteq hidden' /\ hidden' \subseteq hidden \cup {row.id}
         /\ moot \subseteq moot' /\ moot' \subseteq moot \cup {row.id}
         /\ sent' \in [Events -> Nat] /\ faults' \in 0 .. MaxFaults
         /\ \A e \in Events \ {row.id} : sent'[e] = sent[e]
         /\ \/ sent'[row.id] = sent[row.id] /\ faults' = faults
            \/ /\ sent'[row.id] = sent[row.id] + 1
               /\ (pc' = "published" /\ faults' = faults) \/ faults' = faults + 1
         /\ pc' = "published" =>
              sent'[row.id] > 0 \/ row.id \in hidden' \/ row.id \in moot'
<1> USE DEF OutboxAssumption, TypeOK
<1> row.id \in Events /\ sent[row.id] \in Nat /\ sent[row.id] + 1 > 0
  BY RowFields
<1>1. CASE Dispatch(row)
  BY <1>1 DEF Dispatch
<1>2. CASE Deliver(row)
  BY <1>2 DEF Deliver
<1>3. CASE Refuse(row)
  BY <1>3 DEF Refuse, Resend
<1>4. CASE LoseAnswer(row)
  BY <1>4 DEF LoseAnswer, Resend
<1> QED BY <1>1, <1>2, <1>3, <1>4 DEF Handles

LEMMA RowStep ==
  ASSUME OutboxAssumption, Table, NEW row \in batch,
         Skip(row) \/ Handles(row) \/ MarkPublished(row) \/ MarkFailure(row)
  PROVE  Table'
<1> row.id \in Events
  BY RowFields DEF Table
<1>1. CASE Skip(row)
  <2>1. /\ batch' \subseteq batch /\ pc' \in {"idle", "dispatch"}
        /\ pc' = "idle" <=> batch' = {}
        /\ UNCHANGED <<committed, appending, appended, outbox, try, sent, hidden, moot, faults>>
    BY <1>1 DEF Skip, Advance
  <2>2. TypeOK'
    BY <2>1 DEF Table, TypeOK
  <2> QED BY <2>1, <2>2 DEF Table, RowsFit, BatchFits, Absent, Open
<1>2. CASE Handles(row)
  <2>1. /\ pc \in {"dispatch", "sending"} /\ pc' \in {"sending", "failed", "published"}
        /\ UNCHANGED <<committed, appending, appended, outbox, batch>>
        /\ try' \in 0 .. MaxSends /\ sent' \in [Events -> Nat] /\ faults' \in 0 .. MaxFaults
        /\ hidden' \subseteq hidden \cup {row.id} /\ moot' \subseteq moot \cup {row.id}
    BY <1>2, HandlerWorks DEF Table
  <2>2. TypeOK'
    BY <2>1 DEF Table, TypeOK
  <2> QED BY <2>1, <2>2 DEF Table, RowsFit, BatchFits, Absent, Open
<1>3. CASE MarkPublished(row)
  <2>1. outbox' = [outbox EXCEPT ![row.id] = [outbox[row.id] EXCEPT !.status = "PUBLISHED"]]
    BY <1>3 DEF MarkPublished
  <2> QED BY <1>3, <2>1, PublishedRow, TableAdvances DEF MarkPublished
<1>4. CASE MarkFailure(row)
  BY <1>4, FailedRow, TableAdvances DEF MarkFailure
<1> QED BY <1>1, <1>2, <1>3, <1>4

LEMMA FaultStep ==
  ASSUME OutboxAssumption, Table, PublishFails \/ AbortTick \/ Restart PROVE Table'
<1>1. TypeOK'
  BY DEF OutboxAssumption, PublishFails, AbortTick, Restart, Table, TypeOK
<1>2. RowsFit'
  BY DEF PublishFails, AbortTick, Restart, Table, RowsFit, Absent, Open
<1>3. BatchFits'
  BY DEF PublishFails, AbortTick, Restart, Table, BatchFits, Open
<1> QED BY <1>1, <1>2, <1>3 DEF Table

LEMMA TableStep == OutboxAssumption /\ Table /\ [Next]_vars => Table'
<1> SUFFICES ASSUME OutboxAssumption, Table, [Next]_vars PROVE Table'
  OBVIOUS
<1>1. CASE Next
  BY <1>1, ProducerStep, TickStep, RowStep, FaultStep DEF Next, Publisher, Handles
<1>2. CASE UNCHANGED vars
  BY <1>2 DEF vars, Table, TypeOK, RowsFit, BatchFits, Absent, Open
<1> QED BY <1>1, <1>2

-----------------------------------------------------------------------------
(* Deliveries *)

\* Nothing was sent, and whoever was in hand is settled or a fault counted.
LEMMA NoDelivery ==
  ASSUME Table, Deliveries, UNCHANGED <<sent, hidden, moot>>,
         faults' \in Nat, faults <= faults',
         \A e \in Events : InHand(e)' => InHand(e),
         \A e \in Events : /\ outbox[e].status = "PUBLISHED" => outbox'[e].status = "PUBLISHED"
                           /\ outbox'[e].status = "PUBLISHED"
                                => outbox[e].status = "PUBLISHED" \/ InHand(e),
         \A e \in Events : InHand(e) => \/ InHand(e)'
                                        \/ outbox'[e].status = "PUBLISHED"
                                        \/ faults < faults'
  PROVE  Deliveries'
<1>1. faults \in Nat /\ \A e \in Events : sent[e] \in Nat
  BY DEF Table, TypeOK
<1>2. SentCounted'
  BY <1>1 DEF Deliveries, SentCounted
<1>3. WasHandled'
  BY DEF Deliveries, WasHandled
<1> QED BY <1>2, <1>3 DEF Deliveries

LEMMA NoneInHand ==
  ASSUME NEW e, pc # "published" PROVE ~ InHand(e)
BY DEF InHand

LEMMA HandlerDelivers ==
  ASSUME OutboxAssumption, Table, Deliveries, NEW row \in batch, Handles(row)
  PROVE  Deliveries'
<1>1. /\ row.id \in Events /\ faults \in Nat /\ faults' \in Nat
      /\ sent \in [Events -> Nat] /\ sent' \in [Events -> Nat]
      /\ outbox[row.id].status # "PUBLISHED"
      /\ UNCHANGED outbox
  BY RowFields, HandlerWorks DEF Table, TypeOK, BatchFits, Open
<1>2. \A e \in Events : ~ InHand(e)
  BY HandlerWorks, NoneInHand DEF Table
<1>3. \A e \in Events : InHand(e)' => e = row.id /\ pc' = "published"
  BY HandlerWorks, OneAtHand DEF InHand, AtHand, Table
<1>4. pc' = "published" => InHand(row.id)'
  BY HandlerWorks DEF InHand, AtHand, Table
<1>5. /\ \A e \in Events \ {row.id} : sent'[e] = sent[e]
      /\ hidden \subseteq hidden' /\ moot \subseteq moot'
      /\ \/ sent'[row.id] = sent[row.id] /\ faults' = faults
         \/ /\ sent'[row.id] = sent[row.id] + 1
            /\ (pc' = "published" /\ faults' = faults) \/ faults' = faults + 1
      /\ pc' = "published" => sent'[row.id] > 0 \/ row.id \in hidden' \/ row.id \in moot'
  BY HandlerWorks DEF Table
<1>6. SentCounted'
  <2> SUFFICES ASSUME NEW e \in Events
               PROVE  /\ sent'[e] <= 1 + faults'
                      /\ outbox[e].status # "PUBLISHED" /\ ~ InHand(e)' => sent'[e] <= faults'
    BY <1>1 DEF SentCounted
  <2>1. CASE e = row.id
    BY <1>1, <1>2, <1>4, <1>5, <2>1 DEF Deliveries, SentCounted
  <2>2. CASE e # row.id
    BY <1>1, <1>2, <1>5, <2>2 DEF Deliveries, SentCounted
  <2> QED BY <2>1, <2>2
<1>7. WasHandled'
  BY <1>1, <1>2, <1>3, <1>5 DEF Deliveries, WasHandled
<1> QED BY <1>6, <1>7 DEF Deliveries

LEMMA PublisherDelivers ==
  ASSUME OutboxAssumption, Table, Deliveries, Publisher PROVE Deliveries'
<1> faults \in Nat
  BY DEF Table, TypeOK
<1>1. CASE Tick
  <2>1. /\ \A e \in Events : ~ InHand(e) /\ ~ InHand(e)'
        /\ UNCHANGED <<outbox, sent, hidden, moot, faults>>
    BY <1>1 DEF Tick, InHand
  <2> QED BY <2>1, NoDelivery
<1>2. ASSUME NEW row \in batch, Skip(row) PROVE Deliveries'
  <2>1. /\ \A e \in Events : ~ InHand(e) /\ ~ InHand(e)'
        /\ UNCHANGED <<outbox, sent, hidden, moot, faults>>
    BY <1>2 DEF Skip, Advance, InHand
  <2> QED BY <2>1, NoDelivery
<1>3. ASSUME NEW row \in batch, Dispatch(row) \/ Deliver(row) \/ Refuse(row)
      PROVE  Deliveries'
  BY <1>3, HandlerDelivers DEF Handles
<1>4. ASSUME NEW row \in batch, MarkPublished(row) PROVE Deliveries'
  <2>1. /\ \A e \in Events : ~ InHand(e)' /\ (InHand(e) => e = row.id)
        /\ InHand(row.id) /\ UNCHANGED <<sent, hidden, moot, faults>>
    BY <1>4, OneAtHand DEF MarkPublished, Advance, InHand, Table
  <2>2. row.id \in Events
    BY RowFields DEF Table
  <2>3. /\ outbox'[row.id].status = "PUBLISHED"
        /\ \A e \in Events \ {row.id} : outbox'[e] = outbox[e]
    BY <1>4, <2>2, TableFields DEF MarkPublished, Table, TypeOK, Rows
  <2> QED BY <2>1, <2>3, NoDelivery
<1>5. ASSUME NEW row \in batch, MarkFailure(row) PROVE Deliveries'
  <2>1. /\ \A e \in Events : ~ InHand(e) /\ ~ InHand(e)'
        /\ UNCHANGED <<sent, hidden, moot, faults>>
    BY <1>5 DEF MarkFailure, Advance, InHand
  <2>2. row.id \in Events /\ outbox[row.id].status # "PUBLISHED"
    BY RowFields DEF Table, BatchFits, Open
  <2>3. /\ outbox'[row.id].status # "PUBLISHED"
        /\ \A e \in Events \ {row.id} : outbox'[e] = outbox[e]
    BY <1>5, <2>2, FailedRow DEF MarkFailure, Table, TypeOK
  <2> QED BY <2>1, <2>2, <2>3, NoDelivery
<1> QED BY <1>1, <1>2, <1>3, <1>4, <1>5 DEF Publisher

LEMMA DeliveriesStep ==
  OutboxAssumption /\ Table /\ Deliveries /\ [Next]_vars => Deliveries'
<1> SUFFICES ASSUME OutboxAssumption, Table, Deliveries, [Next]_vars PROVE Deliveries'
  OBVIOUS
<1> faults \in Nat
  BY DEF Table, TypeOK
<1>1. ASSUME NEW e \in Events, Change(e) PROVE Deliveries'
  BY <1>1, NoDelivery DEF Change, InHand, AtHand
<1>2. ASSUME NEW e \in Events, AppendOutbox(e) PROVE Deliveries'
  <2>1. /\ outbox[e].status = "ABSENT" /\ outbox'[e].status = "PENDING"
        /\ \A d \in Events \ {e} : outbox'[d] = outbox[d]
        /\ UNCHANGED <<pc, batch, sent, hidden, moot, faults>>
    BY <1>2 DEF AppendOutbox, NewRow, Table, TypeOK, RowsFit, Absent
  <2>2. \A d \in Events : InHand(d)' <=> InHand(d)
    BY <2>1 DEF InHand, AtHand
  <2> QED BY <2>1, <2>2, NoDelivery
<1>3. ASSUME NEW e \in Events, AppendFails(e) PROVE Deliveries'
  BY <1>3, NoDelivery DEF AppendFails, InHand, AtHand
<1>4. ASSUME NEW e \in Events, BackoffElapses(e) PROVE Deliveries'
  <2>1. /\ \A d \in Events : outbox'[d].status = outbox[d].status
        /\ UNCHANGED <<pc, batch, sent, hidden, moot, faults>>
    BY <1>4, TableFields DEF BackoffElapses, Table, TypeOK, Rows
  <2>2. \A d \in Events : InHand(d)' <=> InHand(d)
    BY <2>1 DEF InHand, AtHand
  <2> QED BY <2>1, <2>2, NoDelivery
<1>5. CASE Publisher
  BY <1>5, PublisherDelivers
<1>6. CASE PublishFails \/ AbortTick \/ Restart
  <2>1. /\ faults' = faults + 1 /\ UNCHANGED <<outbox, sent, hidden, moot>>
        /\ \A e \in Events : ~ InHand(e)'
    BY <1>6 DEF PublishFails, AbortTick, Restart, InHand
  <2> QED BY <2>1, NoDelivery
<1>7. CASE UNCHANGED vars
  BY <1>7, NoDelivery DEF vars, InHand, AtHand
<1>8. ASSUME NEW row \in batch, LoseAnswer(row) PROVE Deliveries'
  BY <1>8, HandlerDelivers DEF Handles
<1> QED BY <1>1, <1>2, <1>3, <1>4, <1>5, <1>6, <1>7, <1>8 DEF Next

-----------------------------------------------------------------------------
(* Theorems *)

LEMMA Invariant == Spec => [](Table /\ Deliveries)
<1>1. Init => Deliveries
  BY OutboxAssumption DEF OutboxAssumption, Init, Deliveries, SentCounted, WasHandled, NoRow, InHand
<1> QED BY <1>1, TableInit, TableStep, DeliveriesStep, OutboxAssumption, PTL DEF Spec

(***************************************************************************)
(* Type correctness: in particular no row counts more than MaxAttempts     *)
(* attempts, whatever the publisher, its restarts and the database do.     *)
(***************************************************************************)
THEOREM TypeCorrect == Spec => []TypeOK
BY Invariant, PTL DEF Table

(***************************************************************************)
(* An event is sent once, and once more for every fault at most: neither   *)
(* the publisher's retries nor a handler's resends duplicate a             *)
(* notification unless an acceptance was lost.                             *)
(***************************************************************************)
THEOREM DuplicatesAreFaults == Spec => []DuplicatesNeedFaults
<1>1. Deliveries => DuplicatesNeedFaults
  BY DEF Deliveries, SentCounted, DuplicatesNeedFaults
<1> QED BY <1>1, Invariant, PTL

(***************************************************************************)
(* What is PUBLISHED was accepted by the provider, or a handler run had    *)
(* nothing to send for it or swallowed its delivery failure.               *)
(***************************************************************************)
THEOREM PublishedMeansHandled == Spec => []PublishedWasHandled
<1>1. Deliveries => PublishedWasHandled
  BY DEF Deliveries, WasHandled, PublishedWasHandled
<1> QED BY <1>1, Invariant, PTL

(***************************************************************************)
(* A committed event is under way or in the outbox, but for a fault that   *)
(* hit its append.                                                         *)
(***************************************************************************)
THEOREM LossesAreFaults == Spec => []OnlyFaultsLoseEvents
<1>1. Init => OnlyFaultsLoseEvents
  BY DEF Init, OnlyFaultsLoseEvents
<1>2. Table /\ Table' /\ OnlyFaultsLoseEvents /\ [Next]_vars => OnlyFaultsLoseEvents'
  <2> SUFFICES ASSUME Table, Table', OnlyFaultsLoseEvents, [Next]_vars
               PROVE  OnlyFaultsLoseEvents'
    OBVIOUS
  <2> USE DEF OnlyFaultsLoseEvents
  <2> faults \in Nat /\ outbox \in [Events -> Rows] /\ committed \subseteq Events
    BY DEF Table, TypeOK
  <2>1. ASSUME NEW e \in Events, Change(e) PROVE OnlyFaultsLoseEvents'
    BY <2>1 DEF Change
  <2>2. ASSUME NEW e \in Events, AppendOutbox(e) PROVE OnlyFaultsLoseEvents'
    BY <2>2 DEF AppendOutbox, NewRow
  <2>3. ASSUME NEW e \in Events, BackoffElapses(e) PROVE OnlyFaultsLoseEvents'
    BY <2>3, TableFields DEF BackoffElapses, Table, Rows
  <2>4. ASSUME NEW row \in batch, Skip(row) \/ Handles(row) PROVE OnlyFaultsLoseEvents'
    BY <2>4 DEF Skip, Handles, Dispatch, Deliver, Refuse, LoseAnswer
  <2>5. ASSUME NEW row \in batch, MarkPublished(row) \/ MarkFailure(row)
        PROVE  OnlyFaultsLoseEvents'
    <3>1. row.id \in Events /\ outbox[row.id].status # "ABSENT"
      BY RowFields DEF Table, BatchFits, Open
    <3>2. \A d \in Events \ {row.id} : outbox'[d] = outbox[d]
      BY <2>5 DEF MarkPublished, MarkFailure
    <3>3. outbox'[row.id].status # "ABSENT"
      <4>1. CASE MarkPublished(row)
        BY <3>1, <4>1, PublishedRow DEF MarkPublished
      <4>2. CASE MarkFailure(row)
        BY <3>1, <4>2, FailedRow, OutboxAssumption DEF MarkFailure
      <4> QED BY <2>5, <4>1, <4>2
    <3> QED BY <2>5, <3>1, <3>2, <3>3 DEF MarkPublished, MarkFailure
  <2>6. ASSUME faults' = faults + 1, UNCHANGED <<committed, outbox>> PROVE OnlyFaultsLoseEvents'
    BY <2>6
  <2>7. CASE Tick \/ UNCHANGED vars
    BY <2>7 DEF Tick, vars
  <2> QED BY <2>1, <2>2, <2>3, <2>4, <2>5, <2>6, <2>7
      DEF Next, Publisher, Handles, AppendFails, PublishFails, AbortTick, Restart
<1> QED BY <1>1, <1>2, Invariant, PTL DEF Spec

(***************************************************************************)
(* A row that is PUBLISHED or FAILED is never written again, and FAILED    *)
(* comes exactly with the last attempt allowed.                            *)
(***************************************************************************)
THEOREM SettledForGood == Spec => SettledIsFinal
<1> DEFINE Kept == \A e \in Events :
       /\ outbox[e].status \in {"PUBLISHED", "FAILED"} => outbox'[e] = outbox[e]
       /\ outbox[e].status # "FAILED" /\ outbox'[e].status = "FAILED"
            => outbox[e].attempts = MaxAttempts - 1
<1>1. Table /\ [Next]_vars => [Kept]_vars
  <2> SUFFICES ASSUME Table, Next PROVE Kept
    BY DEF vars
  <2> outbox \in [Events -> Rows]
    BY DEF Table, TypeOK
  <2>1. ASSUME NEW e \in Events, AppendOutbox(e) PROVE Kept
    <3>1. outbox[e].status = "ABSENT"
      BY <2>1 DEF AppendOutbox, Table, RowsFit, Absent
    <3> QED BY <2>1, <3>1 DEF AppendOutbox, NewRow
  <2>2. ASSUME NEW e \in Events, BackoffElapses(e) PROVE Kept
    BY <2>2, TableFields DEF BackoffElapses, Table, Rows
  <2>3. ASSUME NEW row \in batch, MarkPublished(row) \/ MarkFailure(row) PROVE Kept
    <3>1. row.id \in Events /\ outbox[row.id].status \in {"PENDING", "RETRY"}
      BY RowFields DEF Table, BatchFits, Open
    <3>2. CASE MarkPublished(row)
      BY <3>1, <3>2, PublishedRow DEF MarkPublished
    <3>3. CASE MarkFailure(row)
      BY <3>1, <3>3, FailedRow, OutboxAssumption DEF MarkFailure
    <3> QED BY <2>3, <3>2, <3>3
  <2>4. CASE UNCHANGED outbox
    BY <2>4
  <2> QED BY <2>1, <2>2, <2>3, <2>4
      DEF Next, Publisher, Change, AppendFails, Tick, Skip, Dispatch, Deliver, Refuse, LoseAnswer,
          PublishFails, AbortTick, Restart
<1> QED BY <1>1, Invariant, PTL DEF Spec, SettledIsFinal
=============================================================================
