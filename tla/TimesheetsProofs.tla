-------------------------- MODULE TimesheetsProofs --------------------------
(***************************************************************************)
(* Theorems about the timesheet weeks, for any weeks, entries, requests    *)
(* and hours.  The invariant says what a request may count on: the status  *)
(* it read was one its kind accepts, the hours it read fit the cap if it   *)
(* submits, and a lock it did not see was set after it looked.             *)
(***************************************************************************)
EXTENDS Timesheets, SumTheorems

Pcs == {"idle", "lock", "write", "week"}

WeekRow == [status : Statuses \cup {Absent}, total : 0 .. MaxPerWeek]

LEMMA WorkedNat ==
  ASSUME entry \in [Slots -> Hours \cup {0}], NEW w
  PROVE  IsFiniteSet(SlotsOf(w)) /\ Worked(w) \in Nat
<1>1. IsFiniteSet(SlotsOf(w))
  <2>1. SlotsOf(w) \in SUBSET Slots
    BY DEF SlotsOf
  <2> QED BY <2>1, FS_Subset, TimesheetAssumption
<1>2. \A s \in SlotsOf(w) : entry[s] \in Nat
  <2>1. Hours \cup {0} \subseteq Nat
    BY TimesheetAssumption
  <2> QED BY <2>1 DEF SlotsOf
<1> QED BY <1>1, <1>2, SumNat DEF Worked

\* What a request under way may count on: the status it read was one its kind
\* accepts, and an owner's request writes entries of its own week only.
ReadWasLegal(x) ==
  IF x.kind = "fill"
  THEN x.pc = "week" \/ (x.pc = "write" /\ x.seen = "DRAFT")
  ELSE /\ x.pc # "week"
       /\ Accepts(x.kind, x.seen)
       /\ x.slots \subseteq SlotsOf(x.week)
       /\ x.kind = "submit" => x.total <= MaxPerWeek

\* A save whose entry is locked by now had looked before the lock was set.
LockNoted(x) ==
  x.kind = "entry" /\ x.pc = "write" => x.slots \cap locked = {} \/ x.late

UnderWay(x) == x.pc # "idle" => ReadWasLegal(x) /\ LockNoted(x)

TInv == TypeOK /\ \A r \in Requests : UnderWay(req[r])

-----------------------------------------------------------------------------
\* Writing one field of a request leaves the others as they are.
LEMMA EditPc ==
  ASSUME NEW q \in Request, NEW v \in Pcs, NEW x, x = [q EXCEPT !.pc = v]
  PROVE  x \in Request /\ x.pc = v /\ x.kind = q.kind /\ x.slots = q.slots /\ x.seen = q.seen
BY DEF Request, Pcs

LEMMA EditKind ==
  ASSUME NEW q \in Request, NEW v \in Kinds, NEW x, x = [q EXCEPT !.kind = v]
  PROVE  x \in Request /\ x.kind = v /\ x.pc = q.pc /\ x.slots = q.slots /\ x.seen = q.seen
BY DEF Request

LEMMA EditWeek ==
  ASSUME NEW q \in Request, NEW v \in Weeks, NEW x, x = [q EXCEPT !.week = v]
  PROVE  x \in Request /\ x.week = v /\ x.pc = q.pc /\ x.kind = q.kind /\ x.slots = q.slots /\ x.seen = q.seen
BY DEF Request

LEMMA EditSlots ==
  ASSUME NEW q \in Request, NEW v \in SUBSET Slots, NEW x, x = [q EXCEPT !.slots = v]
  PROVE  x \in Request /\ x.slots = v /\ x.pc = q.pc /\ x.kind = q.kind /\ x.seen = q.seen
BY DEF Request

LEMMA EditSeen ==
  ASSUME NEW q \in Request, NEW v \in Statuses \cup {Absent}, NEW x, x = [q EXCEPT !.seen = v]
  PROVE  x \in Request /\ x.seen = v /\ x.pc = q.pc /\ x.kind = q.kind /\ x.slots = q.slots
BY DEF Request

\* An idle request holds nothing that could go wrong.
LEMMA IdleLike == Idle \in Request /\ UnderWay(Idle)
BY TimesheetAssumption DEF Idle, Request, UnderWay, Kinds

\* A step that replaces one request and neither locks nor unlocks keeps TInv
\* if the new request is in order.
LEMMA OneRequest ==
  ASSUME TInv, NEW c \in Requests, NEW x, req' = [req EXCEPT ![c] = x],
         x \in Request, UnderWay(x), locked' = locked,
         week' \in [Weeks -> WeekRow], entry' \in [Slots -> Hours \cup {0}],
         raced' \subseteq Weeks
  PROVE  TInv'
<1>1. \A r \in Requests : req'[r] = IF r = c THEN x ELSE req[r]
  BY DEF TInv, TypeOK
<1>2. \A r \in Requests : req'[r] \in Request
  BY <1>1 DEF TInv, TypeOK
<1>3. \A r \in Requests : UnderWay(req[r])' 
  <2> TAKE r \in Requests
  <2>1. UnderWay(IF r = c THEN x ELSE req[r])
    BY DEF TInv
  <2>2. LockNoted(IF r = c THEN x ELSE req[r]) => LockNoted(req[r])'
    BY <1>1 DEF LockNoted
  <2> QED BY <1>1, <2>1, <2>2 DEF UnderWay, ReadWasLegal
<1>4. req' = [r \in Requests |-> req'[r]]
  BY DEF TInv, TypeOK
<1> QED BY <1>2, <1>3, <1>4 DEF TInv, TypeOK, WeekRow

\* Every request touches only itself, and none a lock.
LEMMA StepIsOwn ==
  ASSUME TInv, NEW c \in Requests, RequestStep(c)
  PROVE  locked' = locked /\ \A r \in Requests \ {c} : req'[r] = req[r]
<1> USE DEF TInv, TypeOK
<1>1. CASE UpsertEntry(c) \/ SubmitWeek(c) \/ RevokeWeek(c) \/ ResetWeek(c)
             \/ ApproveWeek(c) \/ RejectWeek(c)
  BY <1>1 DEF UpsertEntry, SubmitWeek, RevokeWeek, ResetWeek, ApproveWeek, RejectWeek, Start
<1>2. CASE CheckLock(c) \/ SaveEntry(c) \/ DeleteEntries(c) \/ UpdateWeek(c) \/ Fail(c)
  BY <1>2 DEF CheckLock, SaveEntry, DeleteEntries, UpdateWeek, Fail, End
<1>3. CASE FillRead(c) \/ FillWeek(c) \/ FillWrite(c)
  BY <1>3 DEF FillRead, FillWeek, FillWrite, Drop, End
<1> QED BY <1>1, <1>2, <1>3 DEF RequestStep

LEMMA StepKeeps ==
  ASSUME TInv, NEW c \in Requests, RequestStep(c)
  PROVE  TInv'
<1> DEFINE q == req[c]
<1> q \in Request /\ UnderWay(q)
  BY DEF TInv, TypeOK
<1> Idle \in Request /\ UnderWay(Idle)
  BY IdleLike
<1>a. ASSUME NEW kind \in Kinds \ {"fill"}, NEW pc \in {"lock", "write"}, NEW w \in Weeks,
             NEW S \in SUBSET SlotsOf(w), Start(c, kind, pc, w, S),
             kind = "entry" => pc = "lock", kind = "submit" => WithinCap(w)
      PROVE  TInv'
  <2> DEFINE x == [ pc |-> pc, kind |-> kind, week |-> w, slots |-> S,
                    seen |-> week[w].status, total |-> Worked(w), late |-> FALSE ]
  <2>0. Worked(w) \in Nat /\ week[w].status \in Statuses \cup {Absent}
    BY WorkedNat DEF TInv, TypeOK
  <2>1. x \in Request
    BY <2>0 DEF Request, SlotsOf
  <2>2. UnderWay(x)
    BY <1>a DEF UnderWay, ReadWasLegal, LockNoted, Start, WithinCap
  <2> QED BY <1>a, <2>1, <2>2, OneRequest DEF Start, TInv, TypeOK, WeekRow
<1>1. CASE UpsertEntry(c)
  <2>1. PICK s \in Slots : Start(c, "entry", "lock", WeekOf[s], {s})
    BY <1>1 DEF UpsertEntry
  <2>2. WeekOf[s] \in Weeks /\ {s} \subseteq SlotsOf(WeekOf[s])
    BY TimesheetAssumption DEF SlotsOf
  <2> QED BY <1>a, <2>1, <2>2 DEF Kinds
<1>2. CASE SubmitWeek(c) \/ RevokeWeek(c) \/ ApproveWeek(c) \/ RejectWeek(c)
  BY <1>a, <1>2 DEF SubmitWeek, RevokeWeek, ApproveWeek, RejectWeek, Kinds
<1>3. CASE ResetWeek(c)
  BY <1>a, <1>3 DEF ResetWeek, Kinds
<1>4. CASE CheckLock(c)
  <2>1. CASE \A s \in q.slots : Unlocked(s)
    <3> DEFINE x == [q EXCEPT !.pc = "write"]
    <3>1. x \in Request /\ x.pc = "write" /\ x.kind = q.kind /\ x.slots = q.slots
            /\ x.seen = q.seen /\ x.week = q.week
      BY DEF Request, Pcs
    <3>2. UnderWay(x)
      BY <1>4, <2>1, <3>1 DEF UnderWay, ReadWasLegal, LockNoted, Unlocked, CheckLock
    <3>3. req' = [req EXCEPT ![c] = x]
      BY <1>4, <2>1 DEF CheckLock
    <3> QED BY <1>4, <3>1, <3>2, <3>3, OneRequest DEF CheckLock, TInv, TypeOK, WeekRow
  <2>2. CASE ~ \A s \in q.slots : Unlocked(s)
    BY <1>4, <2>2, OneRequest DEF CheckLock, End, TInv, TypeOK, WeekRow
  <2> QED BY <2>1, <2>2
<1>n. Note(c, StatusMoved(c)) => raced' \subseteq Weeks
  BY DEF Note, Request, TInv, TypeOK
<1>5. CASE SaveEntry(c)
  <2>1. entry' \in [Slots -> Hours \cup {0}]
    BY <1>5 DEF SaveEntry, TInv, TypeOK
  <2> QED BY <1>5, <1>n, <2>1, OneRequest DEF SaveEntry, End, TInv, TypeOK, WeekRow
<1>6. CASE DeleteEntries(c)
  <2>1. entry' \in [Slots -> Hours \cup {0}]
    BY <1>6 DEF DeleteEntries, TInv, TypeOK
  <2> QED BY <1>6, <1>n, <2>1, OneRequest DEF DeleteEntries, End, TInv, TypeOK, WeekRow
<1>7. CASE UpdateWeek(c)
  <2> DEFINE v == IF q.kind = "submit" THEN q.total ELSE week[q.week].total
  <2>1. week' = [week EXCEPT ![q.week] = [status |-> StatusAfter(q.kind), total |-> v]]
    BY <1>7 DEF UpdateWeek
  <2>2. q.week \in Weeks /\ q.total \in Nat /\ week \in [Weeks -> WeekRow]
    BY DEF Request, TInv, TypeOK, WeekRow
  <2>3. StatusAfter(q.kind) \in Statuses \cup {Absent}
    BY <1>7 DEF UpdateWeek, StatusAfter, Statuses
  <2>4. q.kind = "submit" => q.total <= MaxPerWeek
    BY <1>7 DEF UpdateWeek, UnderWay, ReadWasLegal
  <2>5. v \in 0 .. MaxPerWeek
    BY <2>2, <2>4, TimesheetAssumption DEF WeekRow
  <2>6. week' \in [Weeks -> WeekRow]
    BY <2>1, <2>2, <2>3, <2>5 DEF WeekRow
  <2>7. raced' \subseteq Weeks
    BY <1>7, <2>2 DEF UpdateWeek, TInv, TypeOK
  <2> QED BY <1>7, <2>6, <2>7, OneRequest DEF UpdateWeek, End, TInv, TypeOK
<1>8. CASE FillRead(c)
  <2>1. PICK S \in SUBSET Slots :
          req' = [req EXCEPT ![c] = [Idle EXCEPT !.pc = "week", !.kind = "fill", !.slots = S]]
    BY <1>8 DEF FillRead
  <2> DEFINE x1 == [Idle EXCEPT !.pc = "week"]
             x2 == [x1 EXCEPT !.kind = "fill"]
             x  == [x2 EXCEPT !.slots = S]
  <2>2. x1 \in Request /\ x1.pc = "week"
    BY EditPc DEF Pcs
  <2>3. x2 \in Request /\ x2.pc = "week" /\ x2.kind = "fill"
    <3> HIDE DEF x1
    <3> QED BY <2>2, EditKind DEF Kinds
  <2>4. x \in Request /\ x.pc = "week" /\ x.kind = "fill"
    <3> HIDE DEF x2
    <3> QED BY <2>3, EditSlots
  <2>5. UnderWay(x)
    <3> HIDE DEF x
    <3> QED BY <2>4 DEF UnderWay, ReadWasLegal, LockNoted
  <2>6. req' = [req EXCEPT ![c] = x]
    BY <2>1
  <2> QED BY <1>8, <2>4, <2>5, <2>6, OneRequest DEF FillRead, TInv, TypeOK, WeekRow
<1>d. ASSUME NEW s \in Slots, Drop(c, s), q.kind = "fill", locked' = locked,
             week' = week, entry' \in [Slots -> Hours \cup {0}], raced' \subseteq Weeks
      PROVE  TInv'
  <2>1. CASE q.slots = {s}
    BY <1>d, <2>1, OneRequest DEF Drop, End, TInv, TypeOK, WeekRow
  <2>2. CASE q.slots # {s}
    <3> DEFINE x1 == [q EXCEPT !.slots = q.slots \ {s}]
               x  == [x1 EXCEPT !.pc = "week"]
    <3>1. x1 \in Request /\ x1.kind = "fill"
      <4>1. q.slots \ {s} \in SUBSET Slots
        BY DEF Request
      <4> HIDE DEF q
      <4> QED BY <1>d, <4>1, EditSlots
    <3>2. x \in Request /\ x.pc = "week" /\ x.kind = "fill"
      <4> HIDE DEF x1
      <4> QED BY <3>1, EditPc DEF Pcs
    <3>3. UnderWay(x)
      <4> HIDE DEF x
      <4> QED BY <3>2 DEF UnderWay, ReadWasLegal, LockNoted
    <3>4. req' = [req EXCEPT ![c] = x]
      BY <1>d, <2>2 DEF Drop, TInv, TypeOK
    <3> QED BY <1>d, <3>2, <3>3, <3>4, OneRequest DEF TInv, TypeOK, WeekRow
  <2> QED BY <2>1, <2>2
<1>9. CASE FillWeek(c)
  <2>1. q.pc = "week" /\ q.kind = "fill" /\ locked' = locked /\ entry' = entry /\ raced' = raced
    BY <1>9 DEF FillWeek, UnderWay, ReadWasLegal
  <2>2. PICK s \in q.slots :
          \/ /\ week' = [week EXCEPT ![WeekOf[s]].status = "DRAFT"]
             /\ req' = [req EXCEPT ![c].pc = "write", ![c].week = WeekOf[s], ![c].seen = "DRAFT"]
          \/ Drop(c, s) /\ week' = week
    BY <1>9 DEF FillWeek
  <2>3. s \in Slots /\ WeekOf[s] \in Weeks
    BY TimesheetAssumption DEF Request
  <2>4. CASE Drop(c, s) /\ week' = week
    BY <1>d, <2>1, <2>3, <2>4 DEF TInv, TypeOK
  <2>5. CASE /\ week' = [week EXCEPT ![WeekOf[s]].status = "DRAFT"]
             /\ req' = [req EXCEPT ![c].pc = "write", ![c].week = WeekOf[s], ![c].seen = "DRAFT"]
    <3> DEFINE x1 == [q EXCEPT !.pc = "write"]
               x2 == [x1 EXCEPT !.week = WeekOf[s]]
               x  == [x2 EXCEPT !.seen = "DRAFT"]
    <3>1. x1 \in Request /\ x1.pc = "write" /\ x1.kind = "fill"
      <4> HIDE DEF q
      <4> QED BY <2>1, EditPc DEF Pcs
    <3>2. x2 \in Request /\ x2.pc = "write" /\ x2.kind = "fill"
      <4> HIDE DEF x1
      <4> QED BY <2>3, <3>1, EditWeek
    <3>3. x \in Request /\ x.pc = "write" /\ x.kind = "fill" /\ x.seen = "DRAFT"
      <4> HIDE DEF x2
      <4> QED BY <3>2, EditSeen DEF Statuses
    <3>4. UnderWay(x)
      <4> HIDE DEF x
      <4> QED BY <3>3 DEF UnderWay, ReadWasLegal, LockNoted
    <3>6. req' = [req EXCEPT ![c] = x]
      BY <2>5 DEF TInv, TypeOK
    <3>5. week' \in [Weeks -> WeekRow]
      BY <2>3, <2>5 DEF TInv, TypeOK, WeekRow, Statuses
    <3> QED BY <2>1, <3>3, <3>4, <3>5, <3>6, OneRequest DEF TInv, TypeOK
  <2> QED BY <2>2, <2>4, <2>5
<1>10. CASE FillWrite(c)
  <2>1. q.kind = "fill" /\ week' = week /\ locked' = locked
    BY <1>10 DEF FillWrite
  <2>2. PICK s \in Slots : Drop(c, s) /\ \E h \in Hours : entry' = [entry EXCEPT ![s] = IF @ = 0 THEN h ELSE @]
    BY <1>10 DEF FillWrite, SlotsOf
  <2>3. entry' \in [Slots -> Hours \cup {0}]
    BY <2>2 DEF TInv, TypeOK
  <2>4. raced' \subseteq Weeks
    BY <1>10, <1>n DEF FillWrite
  <2> QED BY <1>d, <2>1, <2>2, <2>3, <2>4
<1>11. CASE Fail(c)
  BY <1>11, OneRequest DEF Fail, End, TInv, TypeOK, WeekRow
<1> QED BY <1>1, <1>2, <1>3, <1>4, <1>5, <1>6, <1>7, <1>8, <1>9, <1>10, <1>11 DEF RequestStep

-----------------------------------------------------------------------------
LEMMA InitHolds == ASSUME Init PROVE TInv
<1>1. TypeOK
  <2>1. req \in [Requests -> Request]
    BY IdleLike DEF Init
  <2> QED BY <2>1, TimesheetAssumption DEF Init, TypeOK
<1> QED BY <1>1 DEF TInv, Init, Idle, UnderWay

LEMMA NextKeeps == ASSUME TInv, [Next]_vars PROVE TInv'
<1>1. ASSUME NEW w \in Weeks, CreateWeek(w) PROVE TInv'
  <2>1. week' \in [Weeks -> WeekRow]
    BY <1>1, TimesheetAssumption DEF CreateWeek, TInv, TypeOK, WeekRow, Statuses
  <2>2. TypeOK'
    BY <1>1, <2>1 DEF CreateWeek, TInv, TypeOK, WeekRow
  <2> QED BY <1>1, <2>2 DEF CreateWeek, TInv, UnderWay, ReadWasLegal, LockNoted
<1>2. CASE DeleteRow
  <2>1. entry' \in [Slots -> Hours \cup {0}]
    BY <1>2 DEF DeleteRow, TInv, TypeOK
  <2> QED BY <1>2, <2>1 DEF DeleteRow, TInv, TypeOK, UnderWay, ReadWasLegal, LockNoted
<1>3. CASE LockPeriod
  <2>1. PICK S \in SUBSET Slots :
          /\ locked' = locked \cup S
          /\ req' = [r \in Requests |-> [req[r] EXCEPT
                       !.late = @ \/ (req[r].pc = "write" /\ req[r].slots \cap S # {})]]
    BY <1>3 DEF LockPeriod
  <2>2. ASSUME NEW r \in Requests PROVE req'[r] \in Request /\ UnderWay(req[r])'
    <3>1. req[r] \in Request /\ UnderWay(req[r])
      BY DEF TInv, TypeOK
    <3>2. /\ req'[r].pc = req[r].pc /\ req'[r].kind = req[r].kind
          /\ req'[r].slots = req[r].slots /\ req'[r].seen = req[r].seen
          /\ req'[r].week = req[r].week /\ req'[r].total = req[r].total
          /\ req'[r].late = (req[r].late \/ (req[r].pc = "write" /\ req[r].slots \cap S # {}))
      BY <2>1, <3>1 DEF Request
    <3>3. req'[r] \in Request
      BY <2>1, <3>1, <3>2 DEF Request
    <3>4. UnderWay(req[r])'
      BY <2>1, <3>1, <3>2 DEF UnderWay, ReadWasLegal, LockNoted
    <3> QED BY <3>3, <3>4
  <2>3. req' = [r \in Requests |-> req'[r]]
    BY <2>1
  <2> QED BY <1>3, <2>2, <2>3 DEF LockPeriod, TInv, TypeOK
<1>4. CASE UnlockPeriod
  <2>1. locked' \subseteq locked
    BY <1>4 DEF UnlockPeriod
  <2> QED BY <1>4, <2>1 DEF UnlockPeriod, TInv, TypeOK, UnderWay, ReadWasLegal, LockNoted
<1>5. CASE UNCHANGED vars
  BY <1>5 DEF vars, TInv, TypeOK, UnderWay, ReadWasLegal, LockNoted
<1> QED BY <1>1, <1>2, <1>3, <1>4, <1>5, StepKeeps DEF Next

\* Every request of TimesheetsService under way read a status its handler
\* accepts, and one about to save an entry saw the lock or came before it.
THEOREM Invariant == Spec => []TInv
<1>1. Init => TInv
  BY InitHolds
<1>2. TInv /\ [Next]_vars => TInv'
  BY NextKeeps
<1> QED BY <1>1, <1>2, PTL DEF Spec

-----------------------------------------------------------------------------
(***************************************************************************)
(* Weeks, entries, locks and requests stay well-formed; the hours a week   *)
(* is stamped with never exceed the cap, although they were summed up in   *)
(* an earlier query.                                                       *)
(***************************************************************************)
THEOREM TypeCorrect == Spec => []TypeOK
<1>1. TInv => TypeOK
  BY DEF TInv
<1> QED BY <1>1, Invariant, PTL

\* The entries of a week that waits for approval or has it are changed by
\* requests only that are then noted as having read it otherwise.
LEMMA SettledEntries ==
  ASSUME TInv, [Next]_vars, NEW w \in Weeks, week[w].status \in {"SUBMITTED", "APPROVED"},
         NEW s \in Slots, WeekOf[s] = w, entry'[s] # entry[s]
  PROVE  w \in raced'
<1>1. CASE DeleteRow
  BY <1>1 DEF DeleteRow, RowWeeks, TInv, TypeOK
<1>2. ASSUME NEW c \in Requests, RequestStep(c)
      PROVE  w \in raced'
  <2> DEFINE q == req[c]
  <2>0. q \in Request /\ UnderWay(q)
    BY DEF TInv, TypeOK
  <2>1. SaveEntry(c) \/ DeleteEntries(c) \/ FillWrite(c)
    BY <1>2 DEF RequestStep, UpsertEntry, SubmitWeek, RevokeWeek, ResetWeek, ApproveWeek,
       RejectWeek, Start, CheckLock, UpdateWeek, FillRead, FillWeek, Fail
  <2>2. q.pc = "write" /\ Note(c, StatusMoved(c)) /\ ReadWasLegal(q)
    BY <2>0, <2>1 DEF SaveEntry, DeleteEntries, FillWrite, UnderWay
  <2>3. s \in SlotsOf(q.week)
    <3>1. CASE SaveEntry(c) \/ DeleteEntries(c)
      <4>1. q.slots \subseteq SlotsOf(q.week)
        BY <2>2, <3>1 DEF SaveEntry, DeleteEntries, ReadWasLegal
      <4> QED BY <3>1, <4>1 DEF SaveEntry, DeleteEntries, TInv, TypeOK
    <3>2. CASE FillWrite(c)
      BY <3>2 DEF FillWrite, TInv, TypeOK
    <3> QED BY <2>1, <3>1, <3>2
  <2>4. q.week = w
    BY <2>3 DEF SlotsOf
  <2>5. q.seen \notin {"SUBMITTED", "APPROVED"}
    BY <2>1, <2>2 DEF SaveEntry, DeleteEntries, FillWrite, ReadWasLegal, Accepts
  <2> QED BY <2>2, <2>4, <2>5 DEF Note, StatusMoved
<1> QED BY <1>1, <1>2 DEF Next, CreateWeek, LockPeriod, UnlockPeriod, vars

\* What happens to the row of a week: nothing, a draft, or the owner's or the
\* approver's update; only a submission clears what was noted.
LEMMA WeekMoves ==
  ASSUME TInv, [Next]_vars, NEW w \in Weeks
  PROVE  \/ week'[w] = week[w] /\ (w \in raced => w \in raced')
         \/ week'[w].status = "DRAFT"
         \/ \E c \in Requests : UpdateWeek(c) /\ req[c].week = w
<1> USE DEF TInv, TypeOK
<1>1. ASSUME NEW c \in Requests, RequestStep(c)
      PROVE  \/ week'[w] = week[w] /\ (w \in raced => w \in raced')
             \/ week'[w].status = "DRAFT"
             \/ UpdateWeek(c) /\ req[c].week = w
  <2>1. CASE UpsertEntry(c) \/ SubmitWeek(c) \/ RevokeWeek(c) \/ ResetWeek(c)
               \/ ApproveWeek(c) \/ RejectWeek(c)
    BY <2>1 DEF UpsertEntry, SubmitWeek, RevokeWeek, ResetWeek, ApproveWeek, RejectWeek, Start
  <2>2. CASE CheckLock(c) \/ FillRead(c) \/ Fail(c)
    BY <2>2 DEF CheckLock, FillRead, Fail
  <2>3. CASE SaveEntry(c) \/ DeleteEntries(c) \/ FillWrite(c)
    BY <2>3 DEF SaveEntry, DeleteEntries, FillWrite, Note
  <2>4. CASE FillWeek(c)
    <3>1. PICK v : \/ week' = week
                   \/ week' = [week EXCEPT ![v].status = "DRAFT"]
      BY <2>4 DEF FillWeek
    <3> QED BY <2>4, <3>1 DEF FillWeek
  <2>5. CASE UpdateWeek(c)
    BY <2>5 DEF UpdateWeek
  <2> QED BY <1>1, <2>1, <2>2, <2>3, <2>4, <2>5 DEF RequestStep
<1>2. CASE DeleteRow \/ LockPeriod \/ UnlockPeriod \/ UNCHANGED vars
  BY <1>2 DEF DeleteRow, LockPeriod, UnlockPeriod, vars
<1>3. ASSUME NEW v \in Weeks, CreateWeek(v)
      PROVE  (week'[w] = week[w] /\ raced' = raced) \/ week'[w].status = "DRAFT"
  BY <1>3 DEF CreateWeek
<1> QED BY <1>1, <1>2, <1>3 DEF Next

LEMMA TotalsStep ==
  ASSUME TInv, TInv', TotalsMatchUnlessRaced, [Next]_vars
  PROVE  TotalsMatchUnlessRaced'
<1> SUFFICES ASSUME NEW w \in Weeks, week'[w].status \in {"SUBMITTED", "APPROVED"},
                    w \notin raced'
             PROVE  week'[w].total = Worked(w)'
  BY DEF TotalsMatchUnlessRaced
<1>1. ASSUME \A s \in SlotsOf(w) : entry'[s] = entry[s]
      PROVE  Worked(w)' = Worked(w)
  <2>1. IsFiniteSet(SlotsOf(w)) /\ \A s \in SlotsOf(w) : entry[s] \in Int
    <3>1. Hours \cup {0} \subseteq Int
      BY TimesheetAssumption
    <3> QED BY <3>1, WorkedNat DEF TInv, TypeOK, SlotsOf
  <2>2. SumFunctionOnSet(entry', SlotsOf(w)) = SumFunctionOnSet(entry, SlotsOf(w))
    BY <1>1, <2>1, SumSame
  <2>3. Worked(w)' = SumFunctionOnSet(entry', SlotsOf(w))
    BY DEF Worked, SlotsOf
  <2> QED BY <2>2, <2>3 DEF Worked
<1>2. CASE week'[w] = week[w] /\ (w \in raced => w \in raced')
  <2>1. \A s \in SlotsOf(w) : entry'[s] = entry[s]
    BY <1>2, SettledEntries DEF SlotsOf
  <2> QED BY <1>1, <1>2, <2>1 DEF TotalsMatchUnlessRaced
<1>3. ASSUME NEW c \in Requests, UpdateWeek(c), req[c].week = w
      PROVE  week'[w].total = Worked(w)'
  <2> DEFINE q == req[c]
  <2>1. UnderWay(q) /\ q.pc = "write" /\ UNCHANGED entry
    BY <1>3 DEF UpdateWeek, TInv
  <2>2. Worked(w)' = Worked(w)
    BY <1>1, <2>1
  <2>3. ~ StatusMoved(c)
    BY <1>3 DEF UpdateWeek
  <2>4. CASE q.kind = "submit"
    <3>1. q.total = Worked(w) /\ week'[w].total = q.total
      BY <1>3, <2>4 DEF UpdateWeek, TInv, TypeOK
    <3> QED BY <2>2, <3>1
  <2>5. CASE q.kind # "submit"
    <3>1. week'[w].status = StatusAfter(q.kind) /\ week'[w].total = week[w].total
          /\ q.kind \in {"revoke", "approve", "reject"} /\ w \notin raced
      BY <1>3, <2>5 DEF UpdateWeek, TInv, TypeOK
    <3>2. q.kind = "approve"
      BY <3>1 DEF StatusAfter
    <3>3. week[w].status = "SUBMITTED"
      BY <1>3, <2>1, <2>3, <3>2 DEF UnderWay, ReadWasLegal, Accepts, StatusMoved
    <3> QED BY <2>2, <3>1, <3>3 DEF TotalsMatchUnlessRaced
  <2> QED BY <2>4, <2>5
<1> QED BY <1>2, <1>3, WeekMoves

(***************************************************************************)
(* The total a submitted or approved week shows is the sum of its entries, *)
(* for any number of weeks, entries and requests, unless a handler wrote   *)
(* the week on a read that was no longer true.                             *)
(***************************************************************************)
THEOREM TotalsMatch == Spec => []TotalsMatchUnlessRaced
<1>1. Init => TotalsMatchUnlessRaced
  BY DEF Init, TotalsMatchUnlessRaced, Absent
<1> QED BY <1>1, TotalsStep, Invariant, PTL DEF Spec

(***************************************************************************)
(* An approved week keeps its status, its totals and its entries unless a  *)
(* handler that read the week before the approval writes it, for any       *)
(* number of weeks, entries and requests.                                  *)
(***************************************************************************)
THEOREM ApprovedForGood == Spec => ApprovedIsFinalUnlessRaced
<1>1. TInv /\ [Next]_vars =>
        [\A w \in Weeks :
           week[w].status = "APPROVED" /\ w \notin raced' =>
             /\ week'[w] = week[w]
             /\ \A s \in SlotsOf(w) : entry'[s] = entry[s]]_vars
  <2> SUFFICES ASSUME TInv, Next, NEW w \in Weeks,
                      week[w].status = "APPROVED", w \notin raced'
               PROVE  /\ week'[w] = week[w]
                      /\ \A s \in Slots : WeekOf[s] = w => entry'[s] = entry[s]
    BY DEF SlotsOf
  <2>1. CASE DeleteRow
    BY <2>1 DEF DeleteRow, RowWeeks, TInv, TypeOK
  <2>2. CASE LockPeriod \/ UnlockPeriod \/ \E v \in Weeks : CreateWeek(v)
    BY <2>2 DEF LockPeriod, UnlockPeriod, CreateWeek, Absent, TInv, TypeOK
  <2>3. ASSUME NEW c \in Requests, RequestStep(c)
        PROVE  /\ week'[w] = week[w]
               /\ \A s \in Slots : WeekOf[s] = w => entry'[s] = entry[s]
    <3> DEFINE q == req[c]
    <3> q \in Request /\ UnderWay(q)
      BY DEF TInv, TypeOK
    <3>1. q.seen = "APPROVED" /\ q.pc = "write" => q.kind = "revoke" /\ FALSE
      BY DEF UnderWay, ReadWasLegal, Accepts, Request, Kinds
    <3>2. CASE UpsertEntry(c) \/ SubmitWeek(c) \/ RevokeWeek(c) \/ ResetWeek(c)
                 \/ ApproveWeek(c) \/ RejectWeek(c)
      BY <3>2 DEF UpsertEntry, SubmitWeek, RevokeWeek, ResetWeek, ApproveWeek, RejectWeek, Start
    <3>3. CASE CheckLock(c) \/ FillRead(c) \/ Fail(c)
      BY <3>3 DEF CheckLock, FillRead, Fail
    <3>4. CASE SaveEntry(c) \/ DeleteEntries(c) \/ FillWrite(c)
      <4>1. week' = week /\ q.pc = "write" /\ Note(c, StatusMoved(c))
        BY <3>4 DEF SaveEntry, DeleteEntries, FillWrite
      <4>2. w # q.week
        BY <3>1, <4>1 DEF Note, StatusMoved
      <4>3. \A s \in Slots : s \in SlotsOf(q.week) => WeekOf[s] # w
        BY <4>2 DEF SlotsOf
      <4>4. \A s \in Slots : entry'[s] # entry[s] => s \in SlotsOf(q.week)
        <5>1. CASE SaveEntry(c)
          <6>1. q.slots \subseteq SlotsOf(q.week)
            BY <4>1, <5>1 DEF SaveEntry, UnderWay, ReadWasLegal
          <6> QED BY <5>1, <6>1 DEF SaveEntry, TInv, TypeOK
        <5>2. CASE DeleteEntries(c)
          <6>1. q.slots \subseteq SlotsOf(q.week)
            BY <4>1, <5>2 DEF DeleteEntries, UnderWay, ReadWasLegal
          <6> QED BY <5>2, <6>1 DEF DeleteEntries, TInv, TypeOK
        <5>3. CASE FillWrite(c)
          BY <5>3 DEF FillWrite, TInv, TypeOK
        <5> QED BY <3>4, <5>1, <5>2, <5>3
      <4> QED BY <4>1, <4>3, <4>4
    <3>5. CASE UpdateWeek(c)
      <4>1. q.week # w
        BY <3>1, <3>5 DEF UpdateWeek, StatusMoved
      <4> QED BY <3>5, <4>1 DEF UpdateWeek, TInv, TypeOK
    <3>6. CASE FillWeek(c)
      <4>1. entry' = entry
        BY <3>6 DEF FillWeek
      <4>2. PICK v : \/ week' = week
                   \/ /\ week[v].status \in {Absent, "DRAFT"}
                      /\ week' = [week EXCEPT ![v].status = "DRAFT"]
        BY <3>6 DEF FillWeek
      <4> QED BY <4>1, <4>2 DEF Absent, TInv, TypeOK
    <3> QED BY <2>3, <3>2, <3>3, <3>4, <3>5, <3>6 DEF RequestStep
  <2> QED BY <2>1, <2>2, <2>3 DEF Next
<1> QED BY <1>1, Invariant, PTL DEF Spec, ApprovedIsFinalUnlessRaced

(***************************************************************************)
(* The owner's save changes an entry on a locked date only if the lock was *)
(* set between its check and the save, for any number of requests and      *)
(* locks.                                                                  *)
(***************************************************************************)
THEOREM LocksHold == Spec => LockStopsSaves
<1>1. TInv /\ [Next]_vars =>
        [\A r \in Requests, s \in Slots :
           /\ s \in locked /\ entry'[s] # entry[s]
           /\ req[r].kind = "entry" /\ req[r].pc = "write" /\ req'[r].pc = "idle"
           => req[r].late]_vars
  <2> SUFFICES ASSUME TInv, Next, NEW r \in Requests, NEW s \in Slots,
                      s \in locked, entry'[s] # entry[s], req[r].kind = "entry",
                      req[r].pc = "write", req'[r].pc = "idle"
               PROVE  req[r].late
    OBVIOUS
  <2>1. req[r] = req'[r] => FALSE
    OBVIOUS
  <2>2. PICK c \in Requests : RequestStep(c)
    BY <2>1 DEF Next, CreateWeek, DeleteRow, LockPeriod, UnlockPeriod
  <2>3. c = r
    BY <2>1, <2>2, StepIsOwn
  <2>4. SaveEntry(r)
    BY <2>2, <2>3 DEF RequestStep, UpsertEntry, SubmitWeek, RevokeWeek, ResetWeek, ApproveWeek,
       RejectWeek, Start, CheckLock, DeleteEntries, UpdateWeek, FillRead, FillWeek, FillWrite, Fail
  <2>5. s \in req[r].slots
    BY <2>4 DEF SaveEntry, TInv, TypeOK
  <2> QED BY <2>5 DEF TInv, UnderWay, LockNoted
<1> QED BY <1>1, Invariant, PTL DEF Spec, LockStopsSaves
=============================================================================
