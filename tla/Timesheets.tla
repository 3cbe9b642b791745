----------------------------- MODULE Timesheets -----------------------------
(***************************************************************************)
(* The timesheet weeks of one person.  Every handler reads the week, looks *)
(* at its status and then writes entries, or the week by id, in statements *)
(* of their own; nothing compares the version of the week.  The owner's    *)
(* handlers, the approver's and the period locks of finance interleave     *)
(* between these statements.  A slot is one entry key of a week, one a     *)
(* date; labels, the dates a week may be submitted on and the approver     *)
(* chain are left out.                                                     *)
(***************************************************************************)
EXTENDS Naturals, FiniteSetsExt

CONSTANTS Weeks, Slots, Requests,
          WeekOf,     \* the week a slot belongs to
          Hours,      \* hours an entry may have
          MaxPerWeek  \* maxHoursPerWeek

ASSUME TimesheetAssumption == /\ Weeks # {} /\ IsFiniteSet(Slots)
                              /\ WeekOf \in [Slots -> Weeks]
                              /\ Hours \subseteq Nat \ {0}
                              /\ MaxPerWeek \in Nat

VARIABLES week,      \* the TimesheetWeek table: status and the totals stamped
          entry,     \* the TimesheetEntry table: hours, 0 for no row
          locked,    \* the slots whose date a period lock covers
          req,       \* the requests in flight
          raced      \* history: weeks written by a request that read them otherwise

vars == <<week, entry, locked, req, raced>>

-----------------------------------------------------------------------------
Absent == "ABSENT"
Statuses == {"DRAFT", "SUBMITTED", "APPROVED", "REJECTED"}

Kinds == {"entry", "submit", "revoke", "reset", "approve", "reject", "fill"}

Request == [ pc    : {"idle", "lock", "write", "week"},
             kind  : Kinds,
             week  : Weeks,
             slots : SUBSET Slots,                 \* the entries to write
             seen  : Statuses \cup {Absent},       \* the status as read
             total : Nat,                          \* the hours as read
             late  : BOOLEAN ]                     \* history: locked after its check

Idle == [ pc |-> "idle", kind |-> "entry", week |-> CHOOSE w \in Weeks : TRUE,
          slots |-> {}, seen |-> Absent, total |-> 0, late |-> FALSE ]

TypeOK == /\ week \in [Weeks -> [status : Statuses \cup {Absent}, total : 0 .. MaxPerWeek]]
          /\ entry \in [Slots -> Hours \cup {0}]
          /\ locked \subseteq Slots
          /\ req \in [Requests -> Request]
          /\ raced \subseteq Weeks

Init == /\ week = [w \in Weeks |-> [status |-> Absent, total |-> 0]]
        /\ entry = [s \in Slots |-> 0]
        /\ locked = {}
        /\ req = [r \in Requests |-> Idle]
        /\ raced = {}

-----------------------------------------------------------------------------
(* Helpers *)

SlotsOf(w) == {s \in Slots : WeekOf[s] = w}

Worked(w) == SumFunctionOnSet(entry, SlotsOf(w))

\* Mutant of Accepts: a submitted week may still be edited.
AcceptsSubmitted(kind, status) ==
  CASE kind = "entry"               -> status \in {"DRAFT", "REJECTED", "SUBMITTED"}
    [] kind \in {"submit", "reset"} -> status = "DRAFT"
    [] kind = "revoke"              -> status \in {"SUBMITTED", "REJECTED"}
    [] kind \in {"approve", "reject"} -> status = "SUBMITTED"

\* The status each handler insists on.  Revoking a draft changes nothing.
Accepts(kind, status) ==
  CASE kind = "entry"               -> status \in {"DRAFT", "REJECTED"}
    [] kind \in {"submit", "reset"} -> status = "DRAFT"
    [] kind = "revoke"              -> status \in {"SUBMITTED", "REJECTED"}
    [] kind \in {"approve", "reject"} -> status = "SUBMITTED"

StatusAfter(kind) ==
  CASE kind = "submit"  -> "SUBMITTED"
    [] kind = "revoke"  -> "DRAFT"
    [] kind = "approve" -> "APPROVED"
    [] kind = "reject"  -> "REJECTED"

End(r) == req' = [req EXCEPT ![r] = Idle]

\* Whoever writes now read something else.
Note(r, outdated) == raced' = IF outdated THEN raced \cup {req[r].week} ELSE raced

StatusMoved(r) == week[req[r].week].status # req[r].seen

-----------------------------------------------------------------------------
(* TimesheetsService: read and check *)

\* getMyWeek; upsertEntry and the monthly fills create a missing week, too.
CreateWeek(w) ==
  /\ week[w].status = Absent
  /\ week' = [week EXCEPT ![w] = [status |-> "DRAFT", total |-> 0]]
  /\ UNCHANGED <<entry, locked, req, raced>>

Start(r, kind, pc, w, slots) ==
  /\ req[r].pc = "idle"
  /\ Accepts(kind, week[w].status)
  /\ req' = [req EXCEPT ![r] = [ pc |-> pc, kind |-> kind, week |-> w, slots |-> slots,
                                 seen |-> week[w].status, total |-> Worked(w),
                                 late |-> FALSE ]]
  /\ UNCHANGED <<week, entry, locked, raced>>

UpsertEntry(r) == \E s \in Slots : Start(r, "entry", "lock", WeekOf[s], {s})

\* Mutant of WithinCap: the cap is held against single entries.
EachWithinCap(w) == \A s \in SlotsOf(w) : entry[s] <= MaxPerWeek

\* The weekly cap, on the entries as read.
WithinCap(w) == Worked(w) <= MaxPerWeek

SubmitWeek(r) ==
  \E w \in Weeks : WithinCap(w) /\ Start(r, "submit", "write", w, {})

RevokeWeek(r)  == \E w \in Weeks : Start(r, "revoke", "write", w, {})
ResetWeek(r)   == \E w \in Weeks : Start(r, "reset", "write", w, SlotsOf(w))
ApproveWeek(r) == \E w \in Weeks : Start(r, "approve", "write", w, {})
RejectWeek(r)  == \E w \in Weeks : Start(r, "reject", "write", w, {})

\* Mutant of Unlocked: the lock is not looked up.
AnyPeriod(s) == TRUE

Unlocked(s) == s \notin locked

\* upsertEntry: findLocksForDate.
CheckLock(r) ==
  /\ req[r].pc = "lock"
  /\ IF \A s \in req[r].slots : Unlocked(s)
     THEN req' = [req EXCEPT ![r].pc = "write"] ELSE End(r)
  /\ UNCHANGED <<week, entry, locked, raced>>

-----------------------------------------------------------------------------
(* ... and write *)

\* upsertEntry: by key, whatever the week has become.
SaveEntry(r) ==
  /\ req[r].pc = "write" /\ req[r].kind = "entry"
  /\ \E s \in req[r].slots, h \in Hours : entry' = [entry EXCEPT ![s] = h]
  /\ Note(r, StatusMoved(r))
  /\ End(r)
  /\ UNCHANGED <<week, locked>>

\* resetWeek: deleteMany by week id.
DeleteEntries(r) ==
  /\ req[r].pc = "write" /\ req[r].kind = "reset"
  /\ entry' = [s \in Slots |-> IF s \in req[r].slots THEN 0 ELSE entry[s]]
  /\ Note(r, StatusMoved(r))
  /\ End(r)
  /\ UNCHANGED <<week, locked>>

\* updateWeek by id: the totals are those of the read.  A submission whose
\* read is still good puts the week in order again.
UpdateWeek(r) ==
  LET w == req[r].week
      submit == req[r].kind = "submit"
      outdated == StatusMoved(r) \/ (submit /\ req[r].total # Worked(w))
  IN
  /\ req[r].pc = "write" /\ req[r].kind \in {"submit", "revoke", "approve", "reject"}
  /\ week' = [week EXCEPT ![w] = [ status |-> StatusAfter(req[r].kind),
                                   total  |-> IF submit THEN req[r].total ELSE @.total ]]
  /\ raced' = IF outdated THEN raced \cup {w} ELSE IF submit THEN raced \ {w} ELSE raced
  /\ End(r)
  /\ UNCHANGED <<entry, locked>>

\* Mutant of RowWeeks: the row is deleted from every week of the month.
EveryWeek == Weeks

\* deleteRow: one statement, WHERE the week is a DRAFT.
RowWeeks == {w \in Weeks : week[w].status = "DRAFT"}

DeleteRow ==
  /\ \E S \in SUBSET Slots :
       entry' = [s \in Slots |-> IF s \in S /\ WeekOf[s] \in RowWeeks THEN 0 ELSE entry[s]]
  /\ UNCHANGED <<week, locked, req, raced>>

-----------------------------------------------------------------------------
(* MonthlyTimesheetService.autoFill and copyPrevious: the slots without an *)
(* entry are read first, then filled one by one; locks are not consulted.  *)

\* Holidays, leave and the fills of the person choose among the free dates.
FillRead(r) ==
  /\ req[r].pc = "idle"
  /\ \E S \in SUBSET {s \in Slots : entry[s] = 0} \ {{}} :
       req' = [req EXCEPT ![r] = [Idle EXCEPT !.pc = "week", !.kind = "fill", !.slots = S]]
  /\ UNCHANGED <<week, entry, locked, raced>>

Drop(r, s) ==
  IF req[r].slots = {s} THEN End(r) ELSE req' = [req EXCEPT ![r].slots = @ \ {s}, ![r].pc = "week"]

\* The week of a date, created if missing; the date is skipped unless a draft.
FillWeek(r) ==
  /\ req[r].pc = "week"
  /\ \E s \in req[r].slots :
       LET w == WeekOf[s] IN
       \/ /\ week[w].status \in {Absent, "DRAFT"}
          /\ week' = [week EXCEPT ![w].status = "DRAFT"]
          /\ req' = [req EXCEPT ![r].pc = "write", ![r].week = w, ![r].seen = "DRAFT"]
       \/ /\ week[w].status \notin {Absent, "DRAFT"}
          /\ Drop(r, s)
          /\ UNCHANGED week
  /\ UNCHANGED <<entry, locked, raced>>

\* An upsert that leaves the hours of an entry made meanwhile alone.
FillWrite(r) ==
  /\ req[r].pc = "write" /\ req[r].kind = "fill"
  /\ \E s \in req[r].slots \cap SlotsOf(req[r].week) :
       /\ \E h \in Hours : entry' = [entry EXCEPT ![s] = IF @ = 0 THEN h ELSE @]
       /\ Drop(r, s)
  /\ Note(r, StatusMoved(r))
  /\ UNCHANGED <<week, locked>>

-----------------------------------------------------------------------------
(* Finance, and failures *)

\* FinancialService.createPeriodLock: any range of dates.
LockPeriod ==
  /\ \E S \in SUBSET Slots \ {{}} :
       /\ locked' = locked \cup S
       /\ req' = [r \in Requests |->
                    [req[r] EXCEPT !.late = @ \/ (req[r].pc = "write" /\ req[r].slots \cap S # {})]]
  /\ UNCHANGED <<week, entry, raced>>

UnlockPeriod ==
  /\ \E S \in SUBSET locked : locked' = locked \ S
  /\ UNCHANGED <<week, entry, req, raced>>

\* The request dies; what it wrote stays.
Fail(r) ==
  /\ req[r].pc # "idle"
  /\ End(r)
  /\ UNCHANGED <<week, entry, locked, raced>>

RequestStep(r) ==
  \/ UpsertEntry(r) \/ SubmitWeek(r) \/ RevokeWeek(r) \/ ResetWeek(r)
  \/ ApproveWeek(r) \/ RejectWeek(r) \/ CheckLock(r) \/ SaveEntry(r)
  \/ DeleteEntries(r) \/ UpdateWeek(r) \/ FillRead(r) \/ FillWeek(r)
  \/ FillWrite(r) \/ Fail(r)

Next == \/ \E r \in Requests : RequestStep(r)
        \/ \E w \in Weeks : CreateWeek(w)
        \/ DeleteRow \/ LockPeriod \/ UnlockPeriod

Spec == Init /\ [][Next]_vars

-----------------------------------------------------------------------------
(* Properties *)

\* The hours stamped on a submitted or approved week are those of its entries
\* and within the cap, unless a handler wrote the week on an outdated read
\* (timesheets.service.ts:244-256; the version of the week is never compared).
TotalsMatchUnlessRaced ==
  \A w \in Weeks :
    week[w].status \in {"SUBMITTED", "APPROVED"} /\ w \notin raced =>
      week[w].total = Worked(w)

\* An approved week keeps its status, its hours and its entries through every
\* edit, deletion and monthly fill; only a handler that read the week before the
\* approval can still change them (timesheets.service.ts:114, 277, 307).
ApprovedIsFinalUnlessRaced ==
  [][\A w \in Weeks :
       week[w].status = "APPROVED" /\ w \notin raced' =>
         /\ week'[w] = week[w]
         /\ \A s \in SlotsOf(w) : entry'[s] = entry[s]]_vars

\* The owner's save reaches a locked date only when the lock was set after the
\* save had looked it up, however locks come and go (timesheets.service.ts:124).
LockStopsSaves ==
  [][\A r \in Requests, s \in Slots :
       /\ s \in locked /\ entry'[s] # entry[s]
       /\ req[r].kind = "entry" /\ req[r].pc = "write" /\ req'[r].pc = "idle"
       => req[r].late]_vars
=============================================================================
