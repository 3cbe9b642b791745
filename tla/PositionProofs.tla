--------------------------- MODULE PositionProofs ---------------------------
(***************************************************************************)
(* What holds of the position table for every number of positions, persons *)
(* and concurrent requests: first under its own write paths, then with the *)
(* planner beside them, then with terminations beside them.                *)
(***************************************************************************)
EXTENDS PlannerScenarios, Employment, SumTheorems

\* Rows that exist are never mistaken for missing ones.
LEMMA StatusFacts ==
  /\ Absent \notin FillStatuses
  /\ FillTargets \subseteq FillStatuses
  /\ AllocationConsuming \subseteq FillStatuses
  BY DEF Absent, FillStatuses, FillTargets, AllocationConsuming

LEMMA NoRowType == NoRow \in Row /\ NoRows \in [Positions -> Row]
  BY DEF NoRow, NoRows, Row

LEMMA IdleType == Idle \in Request
  BY NoRowType DEF Idle, Request

\* transitionFill keeps the aggregate well-formed.
LEMMA TransitionedType ==
  ASSUME NEW x \in Row, NEW to \in FillStatuses,
         NEW person \in Persons \cup {NoPerson}, NEW alloc \in Allocs \cup {NoAlloc}
  PROVE  /\ Transitioned(x, to, person, alloc) \in Row
         /\ Transitioned(x, to, person, alloc).version = x.version + 1
         /\ Transitioned(x, to, person, alloc).status = to
  BY DEF Transitioned, Row

\* A reassign keeps it well-formed too, and counts as one version.
LEMMA ReassignedType ==
  ASSUME NEW x \in Row, NEW toPerson \in Persons \cup {NoPerson, KeepPerson}
  PROVE  /\ Reassigned(x, toPerson) \in Row
         /\ Reassigned(x, toPerson).version = x.version + 1
         /\ x.status # Absent => Reassigned(x, toPerson).status # Absent
  <1>1. CASE toPerson = KeepPerson
    BY <1>1 DEF Reassigned, Row
  <1>2. CASE toPerson # KeepPerson /\ x.status = "PROPOSED" /\ toPerson # NoPerson
    <2>1. Reassigned(x, toPerson) = Transitioned(x, "BOOKED", toPerson, NoAlloc)
      BY <1>2 DEF Reassigned
    <2>2. "BOOKED" \in FillStatuses /\ "BOOKED" # Absent
      BY DEF FillStatuses, Absent
    <2> QED BY <1>2, <2>1, <2>2, TransitionedType
  <1>3. CASE toPerson # KeepPerson /\ ~(x.status = "PROPOSED" /\ toPerson # NoPerson)
    <2>1. Reassigned(x, toPerson) = [x EXCEPT !.person = toPerson, !.version = @ + 1]
      BY <1>3 DEF Reassigned
    <2>2. toPerson \in Persons \cup {NoPerson}
      BY <1>3
    <2>3. Reassigned(x, toPerson) =
            [status |-> x.status, person |-> toPerson, alloc |-> x.alloc,
             version |-> x.version + 1]
      BY <2>1 DEF Row
    <2> QED BY <2>2, <2>3 DEF Row
  <1> QED BY <1>1, <1>2, <1>3

-----------------------------------------------------------------------------
(* Type correctness *)

\* Whoever an allocation guard charges is a person.
ChargedIsPerson ==
  \A r \in Requests : req[r].pc \in {"check", "bookCheck", "bookCommit"} \/ req[r].exceeded
                       => req[r].person \in Persons

TypeInv == TypeOK /\ ChargedIsPerson

\* Replacing one request by a well-formed one keeps the requests well-formed.
LEMMA StartedType ==
  ASSUME TypeInv, NEW r \in Requests, NEW started \in Request,
         req' = [req EXCEPT ![r] = started],
         started.pc \in {"check", "bookCheck", "bookCommit"} \/ started.exceeded => started.person \in Persons,
         UNCHANGED <<row, ledger, overridden, active>>
  PROVE  TypeInv'
  BY DEF TypeInv, TypeOK, ChargedIsPerson

LEMMA RefuseType ==
  ASSUME TypeInv, NEW r \in Requests, Refuse(r)
  PROVE  TypeInv'
  <1>1. Idle.pc \notin {"check", "bookCheck", "bookCommit"} /\ ~ Idle.exceeded
    BY DEF Idle
  <1> QED BY <1>1, IdleType, StartedType DEF Refuse

LEMMA GuardedType ==
  ASSUME TypeInv, NEW r \in Requests, NEW total,
         req[r].pc \in {"check", "bookCheck", "bookCommit"},
         NEW pc \in {"commit", "bookCommit"}, Guarded(r, total, pc)
  PROVE  TypeInv'
  <1>1. CASE Refuse(r)
    BY <1>1, RefuseType
  <1>2. ASSUME NEW exceeded \in BOOLEAN, Proceed(r, pc, exceeded)
        PROVE  TypeInv'
    <2> DEFINE started == [req[r] EXCEPT !.pc = pc, !.exceeded = exceeded]
    <2>1. started \in Request /\ started.person = req[r].person
      BY DEF TypeInv, TypeOK, Request
    <2>2. req' = [req EXCEPT ![r] = started]
      BY <1>2 DEF Proceed, TypeInv, TypeOK
    <2>3. started.person \in Persons
      BY <2>1 DEF TypeInv, ChargedIsPerson
    <2> HIDE DEF started
    <2> QED BY <1>2, <2>1, <2>2, <2>3, StartedType DEF Proceed
  <1> QED BY <1>1, <1>2 DEF Guarded

\* Every request a handler sets up is well-formed.
LEMMA TransitionReadType ==
  ASSUME TypeInv, NEW r \in Requests, TransitionRead(r)
  PROVE  TypeInv'
  <1>1. PICK p \in Positions, to \in FillStatuses, role \in Roles, hasReason \in BOOLEAN,
             allowOverallocation \in BOOLEAN,
             person \in Persons \cup {NoPerson}, alloc \in Allocs \cup {NoAlloc} :
          /\ MayTransition(row[p], to, role, hasReason, person)
          /\ req' = [req EXCEPT ![r] =
                       Driven(p, to, role, allowOverallocation, person, alloc)]
    BY Zenon DEF TransitionRead
  <1> DEFINE next == Transitioned(row[p], to, person, alloc)
             pc == IF to \in AllocationConsuming THEN "check" ELSE "commit"
             mayExceed == allowOverallocation /\ role \in OverrideRoles
             started == [Idle EXCEPT
               !.pc = pc, !.targets = {p}, !.person = next.person, !.mayExceed = mayExceed,
               !.seen[p] = row[p], !.entity[p] = next]
  <1>2. row[p] \in Row
    BY DEF TypeInv, TypeOK
  <1>3. next \in Row /\ next.person \in Persons \cup {NoPerson}
    BY <1>2, TransitionedType DEF Row
  <1>4. mayExceed \in BOOLEAN /\ pc \in {"check", "commit"}
    OBVIOUS
  <1>5. to \in AllocationConsuming => next.person \in Persons
    <2>1. to \in AllocationConsuming => to \in FillTargets /\ ~RejectsCandidate(row[p].status, to)
      BY DEF AllocationConsuming, FillTargets, RejectsCandidate
    <2> QED BY <1>1, <1>2, <2>1 DEF Transitioned, MayTransition, Row
  <1>6. pc = "check" => to \in AllocationConsuming
    OBVIOUS
  <1>7. req' = [req EXCEPT ![r] = started]
    BY <1>1 DEF Driven
  <1>8. UNCHANGED <<row, ledger, overridden, active>>
    BY DEF TransitionRead
  <1> HIDE DEF next, mayExceed, pc
  <1>9. /\ started \in Request
        /\ started.pc = pc /\ started.person = next.person /\ ~ started.exceeded
    BY <1>2, <1>3, <1>4, NoRowType DEF Request, Idle
  <1> HIDE DEF started
  <1> QED BY <1>4, <1>5, <1>6, <1>7, <1>8, <1>9, StartedType

LEMMA BulkStartType ==
  ASSUME TypeInv, NEW r \in Requests, BulkStart(r)
  PROVE  TypeInv'
  <1>1. PICK ids \in SUBSET Positions, toPerson \in active \cup {NoPerson, KeepPerson},
             mayExceed \in BOOLEAN :
          req' = [req EXCEPT ![r] =
            [Idle EXCEPT !.pc = "bulkRead", !.targets = ids, !.person = toPerson,
                         !.mayExceed = mayExceed]]
    BY DEF BulkStart
  <1> DEFINE started == [Idle EXCEPT !.pc = "bulkRead", !.targets = ids, !.person = toPerson,
                                     !.mayExceed = mayExceed]
  <1>2. started \in Request /\ started.pc = "bulkRead" /\ ~ started.exceeded
    BY NoRowType DEF Idle, Request, TypeInv, TypeOK
  <1> HIDE DEF started
  <1>3. req' = [req EXCEPT ![r] = started]
    BY <1>1 DEF started
  <1> QED BY <1>2, <1>3, StartedType DEF BulkStart

LEMMA BulkReadType ==
  ASSUME TypeInv, NEW r \in Requests, BulkRead(r)
  PROVE  TypeInv'
  <1> DEFINE toPerson == req[r].person
             eligible == Eligible(req[r].targets, toPerson)
             pc   == IF toPerson \in Persons THEN "check" ELSE "commit"
             read == [p \in Positions |-> IF p \in eligible THEN row[p] ELSE NoRow]
             made == [p \in Positions |->
                       IF p \in eligible THEN Reassigned(row[p], toPerson) ELSE NoRow]
             next == [req[r] EXCEPT !.pc = pc, !.targets = eligible,
                                    !.seen = read, !.entity = made]
  <1>1. CASE req' = [req EXCEPT ![r].pc = pc, ![r].targets = eligible,
                                ![r].seen = read, ![r].entity = made]
             /\ UNCHANGED <<row, ledger, overridden, active>>
    <2>1. toPerson \in Persons \cup {NoPerson, KeepPerson} /\ req[r] \in Request
      BY DEF TypeInv, TypeOK, Request
    <2>2. eligible \in SUBSET Positions
      BY DEF TypeInv, TypeOK, Request, Eligible
    <2>3. read \in [Positions -> Row] /\ made \in [Positions -> Row]
      BY <2>1, NoRowType, ReassignedType DEF TypeInv, TypeOK
    <2>4. pc \in {"check", "commit"} /\ (pc = "check" => toPerson \in Persons)
      OBVIOUS
    <2>5. req' = [req EXCEPT ![r] = next]
      BY <1>1 DEF TypeInv, TypeOK
    <2>6. req[r].exceeded => toPerson \in Persons
      BY DEF TypeInv, ChargedIsPerson
    <2>7. /\ next \in Request
          /\ next.pc = pc /\ next.person = toPerson /\ next.exceeded = req[r].exceeded
      <3> HIDE DEF pc, eligible, read, made
      <3> QED BY <2>1, <2>2, <2>3, <2>4 DEF Request
    <2> HIDE DEF next, pc
    <2> QED BY <1>1, <2>4, <2>5, <2>6, <2>7, StartedType
  <1>2. CASE Refuse(r)
    BY <1>2, RefuseType
  <1> QED BY <1>1, <1>2 DEF BulkRead

LEMMA CommitType ==
  ASSUME TypeInv, NEW r \in Requests, Commit(r)
  PROVE  TypeInv'
  <1>1. CASE StillCurrent(r)
    <2>1. req[r] \in Request /\ req[r].targets \in SUBSET Positions
          /\ req[r].entity \in [Positions -> Row] /\ req[r].seen \in [Positions -> Row]
      BY DEF TypeInv, TypeOK, Request
    <2>2. row' \in [Positions -> Row]
      BY <1>1, <2>1 DEF Commit, TypeInv, TypeOK
    <2>3. ledger' \in [Positions -> Entry]
      <3>1. \A p \in Positions : EntryFor(req[r].seen[p], req[r].entity[p]) \in Entry
        BY <2>1 DEF EntryFor, Entry, Row
      <3> QED BY <1>1, <3>1 DEF Commit, TypeInv, TypeOK
    <2>4. overridden' \subseteq Persons
      BY <1>1 DEF Commit, TypeInv, TypeOK, ChargedIsPerson
    <2>5. req' = [req EXCEPT ![r] = Idle] /\ UNCHANGED active
      BY <1>1 DEF Commit
    <2>6. req' \in [Requests -> Request] /\ ChargedIsPerson'
      BY <2>5, IdleType DEF TypeInv, TypeOK, ChargedIsPerson, Idle
    <2> QED BY <2>2, <2>3, <2>4, <2>5, <2>6 DEF TypeInv, TypeOK
  <1>2. CASE ~ StillCurrent(r)
    BY <1>2, RefuseType DEF Commit
  <1> QED BY <1>1, <1>2

LEMMA BookStartType ==
  ASSUME TypeInv, NEW r \in Requests, BookStart(r)
  PROVE  TypeInv'
  <1>1. PICK person \in active, alloc \in Allocs, mayExceed \in BOOLEAN :
          req' = [req EXCEPT ![r] =
            [Idle EXCEPT !.pc = "bookCheck", !.person = person, !.alloc = alloc,
                         !.mayExceed = mayExceed]]
    BY DEF BookStart
  <1> DEFINE started == [Idle EXCEPT !.pc = "bookCheck", !.person = person, !.alloc = alloc,
                                     !.mayExceed = mayExceed]
  <1>2. started \in Request /\ started.person \in Persons
    BY NoRowType DEF Idle, Request, TypeInv, TypeOK
  <1> HIDE DEF started
  <1>3. req' = [req EXCEPT ![r] = started]
    BY <1>1 DEF started
  <1> QED BY <1>2, <1>3, StartedType DEF BookStart

LEMMA CreatedType ==
  ASSUME NEW status \in FillStatuses
  PROVE  Created(status) \in Row /\ Created(status).version = 1
         /\ Created(status).status = status /\ Created(status).person = NoPerson
  BY DEF Created, Row

\* The three saves of create-and-book, of which only the last is visible.
LEMMA BookedType ==
  ASSUME NEW r \in Requests, req[r].person \in Persons, req[r].alloc \in Allocs \cup {NoAlloc}
  PROVE  /\ Proposed(r) \in Row /\ Booked(r) \in Row
         /\ Booked(r).status = "BOOKED" /\ Booked(r).person = req[r].person
         /\ Booked(r).version = 3
  <1>1. "OPEN" \in FillStatuses /\ "PROPOSED" \in FillStatuses /\ "BOOKED" \in FillStatuses
    BY DEF FillStatuses
  <1>2. /\ Proposed(r) \in Row /\ Proposed(r).version = 2
        /\ Proposed(r).status = "PROPOSED"
    BY <1>1, CreatedType, TransitionedType DEF Proposed
  <1>3. Proposed(r).person = req[r].person
    <2>1. /\ req[r].person # NoPerson /\ "PROPOSED" \in FillTargets
          /\ ~ RejectsCandidate(Created("OPEN").status, "PROPOSED")
      BY PersonAssumption DEF FillTargets, RejectsCandidate
    <2> QED BY <2>1 DEF Proposed, Transitioned
  <1>4. Booked(r) \in Row /\ Booked(r).status = "BOOKED" /\ Booked(r).version = 3
    <2>1. NoPerson \in Persons \cup {NoPerson} /\ NoAlloc \in Allocs \cup {NoAlloc}
      OBVIOUS
    <2> DEFINE booked == Transitioned(Proposed(r), "BOOKED", NoPerson, NoAlloc)
    <2>2. /\ booked \in Row /\ booked.status = "BOOKED"
          /\ booked.version = Proposed(r).version + 1
      BY <1>1, <1>2, <2>1, TransitionedType, ZenonT(30)
    <2> QED BY <1>2, <2>2 DEF Booked
  <1>5. Booked(r).person = req[r].person
    <2>1. ~ RejectsCandidate(Proposed(r).status, "BOOKED")
      BY DEF RejectsCandidate
    <2> QED BY <1>3, <2>1 DEF Booked, Transitioned
  <1> QED BY <1>2, <1>4, <1>5

LEMMA BookCommitType ==
  ASSUME TypeInv, NEW r \in Requests, BookCommit(r)
  PROVE  TypeInv'
  <1>1. PICK p \in Positions :
          /\ row' = [row EXCEPT ![p] = Booked(r)]
          /\ ledger' = [ledger EXCEPT ![p] = EntryFor(Proposed(r), Booked(r))]
    BY DEF BookCommit
  <1>2. req[r].alloc \in Allocs \cup {NoAlloc} /\ req[r].person \in Persons
    BY DEF TypeInv, TypeOK, Request, ChargedIsPerson, BookCommit
  <1>3. Proposed(r) \in Row /\ Booked(r) \in Row
    BY <1>2, BookedType
  <1>4. EntryFor(Proposed(r), Booked(r)) \in Entry
    BY <1>3 DEF EntryFor, Entry, Row
  <1>5. row' \in [Positions -> Row] /\ ledger' \in [Positions -> Entry]
    BY <1>1, <1>3, <1>4 DEF TypeInv, TypeOK
  <1>6. overridden' \subseteq Persons /\ active' \subseteq Persons
    BY <1>2 DEF BookCommit, TypeInv, TypeOK
  <1>7. req' = [req EXCEPT ![r] = Idle]
    BY DEF BookCommit
  <1>8. req' \in [Requests -> Request] /\ ChargedIsPerson'
    BY <1>7, IdleType DEF TypeInv, TypeOK, ChargedIsPerson, Idle
  <1> QED BY <1>5, <1>6, <1>8 DEF TypeInv, TypeOK

LEMMA CreateType ==
  ASSUME TypeInv, NEW p \in Positions, NEW openImmediately \in BOOLEAN,
         Create(p, openImmediately)
  PROVE  TypeInv'
  <1> DEFINE status == IF openImmediately THEN "OPEN" ELSE "DRAFT"
  <1>1. status \in FillStatuses
    BY DEF FillStatuses
  <1>2. row' = [row EXCEPT ![p] = Created(status)] /\ UNCHANGED <<ledger, overridden, active, req>>
    BY DEF Create
  <1> HIDE DEF status
  <1> QED BY <1>1, <1>2, CreatedType DEF TypeInv, TypeOK, ChargedIsPerson

LEMMA TypeInvStep == TypeInv /\ [Next]_vars => TypeInv'
  <1> SUFFICES ASSUME TypeInv, [Next]_vars PROVE TypeInv'
    OBVIOUS
  <1>1. ASSUME NEW p \in Positions, NEW openImmediately \in BOOLEAN, Create(p, openImmediately)
        PROVE  TypeInv'
    BY <1>1, CreateType
  <1>2. ASSUME NEW r \in Requests, RequestStep(r)
        PROVE  TypeInv'
    <2>1. CASE TransitionRead(r) BY <2>1, TransitionReadType
    <2>2. CASE BulkStart(r)      BY <2>2, BulkStartType
    <2>3. CASE BulkRead(r)       BY <2>3, BulkReadType
    <2>4. CASE CheckAllocation(r)
      BY <2>4, GuardedType DEF CheckAllocation
    <2>5. CASE Commit(r)         BY <2>5, CommitType
    <2>6. CASE BookStart(r)      BY <2>6, BookStartType
    <2>7. CASE BookCheck(r)
      BY <2>7, GuardedType DEF BookCheck
    <2>8. CASE BookCommit(r)     BY <2>8, BookCommitType
    <2>9. CASE Fail(r)           BY <2>9, RefuseType DEF Fail
    <2> QED BY <1>2, <2>1, <2>2, <2>3, <2>4, <2>5, <2>6, <2>7, <2>8, <2>9 DEF RequestStep
  <1>3. CASE UNCHANGED vars
    BY <1>3 DEF vars, TypeInv, TypeOK, ChargedIsPerson
  <1> QED BY <1>1, <1>2, <1>3 DEF Next

LEMMA TypeInvInit == Init => TypeInv
  <1>1. NoEntry \in Entry
    BY NoRowType DEF NoEntry, EntryFor, Entry, Row
  <1>2. Init => TypeOK
    BY <1>1, NoRowType, IdleType, PersonAssumption DEF Init, TypeOK
  <1>3. Idle.pc = "idle" /\ ~ Idle.exceeded
    BY DEF Idle
  <1>4. Init => ChargedIsPerson
    BY <1>3 DEF Init, ChargedIsPerson
  <1> QED BY <1>2, <1>4 DEF TypeInv

(***************************************************************************)
(* Rows, ledger and requests always have their types: in particular nobody *)
(* but an employee is ever recorded as over-allocated, although the guard  *)
(* takes the person from the aggregate and not from the command.           *)
(***************************************************************************)
THEOREM TypeCorrect == Spec => []TypeOK
  <1>1. TypeInv => TypeOK
    BY DEF TypeInv
  <1> QED BY <1>1, TypeInvInit, TypeInvStep, PTL DEF Spec

-----------------------------------------------------------------------------
(* The inductive invariant *)

\* What a single save may make of a row.
LegalMove(x, y) ==
  \/ /\ HasEdge(x.status, y.status)
     /\ y.status \in FillTargets => y.person \in Persons
     /\ RejectsCandidate(x.status, y.status) => y.person = NoPerson
     /\ y.status \notin FillTargets /\ ~ RejectsCandidate(x.status, y.status)
          => y.person = x.person
  \/ /\ x.status \in FillTargets \cup {"ON_HOLD"}
     /\ y.status = x.status
  \/ y.status = x.status /\ y.person = x.person

Successor(x, y) == /\ x.status \notin {Absent, "RELEASED"}
                   /\ y.status # Absent
                   /\ y.version = x.version + 1
                   /\ LegalMove(x, y)

\* A request about to commit holds a legal next version of a row it read,
\* and what it read is either the row as it is or an older version of it.
Sound(q, rows) ==
  q.pc \in {"check", "commit"} =>
    \A p \in q.targets :
      /\ Successor(q.seen[p], q.entity[p])
      /\ q.seen[p].version <= rows[p].version
      /\ q.seen[p].version = rows[p].version => q.seen[p] = rows[p]

AbsentIsNew ==
  \A p \in Positions : row[p].status = Absent => row[p].version = 0 /\ row[p].person = NoPerson

IInv == /\ TypeInv
        /\ AbsentIsNew
        /\ UnfilledHasNoHolder
        /\ \A r \in Requests : Sound(req[r], row)

LEMMA EdgeFacts ==
  \A e \in FillTransitions : e.from \in FillStatuses \ {"RELEASED"} /\ e.to \in FillStatuses
  BY DEF FillTransitions, Edge, FillStatuses

LEMMA DrivenSuccessor ==
  ASSUME NEW x \in Row, NEW to \in FillStatuses, NEW role, NEW hasReason,
         NEW person \in Persons \cup {NoPerson}, NEW alloc \in Allocs \cup {NoAlloc},
         MayTransition(x, to, role, hasReason, person)
  PROVE  Successor(x, Transitioned(x, to, person, alloc))
  <1> DEFINE y == Transitioned(x, to, person, alloc)
  <1>1. HasEdge(x.status, to) /\ x.status \in FillStatuses \ {"RELEASED"}
    BY EdgeFacts DEF MayTransition, HasEdge
  <1>2. y \in Row /\ y.status = to /\ y.version = x.version + 1
    BY TransitionedType
  <1>3. ~(to \in FillTargets /\ RejectsCandidate(x.status, to))
    BY DEF FillTargets, RejectsCandidate
  <1>4. to \in FillTargets => y.person \in Persons
    BY <1>3 DEF Transitioned, MayTransition, Row
  <1>5. RejectsCandidate(x.status, to) => y.person = NoPerson
    BY <1>3 DEF Transitioned
  <1>6. to \notin FillTargets /\ ~ RejectsCandidate(x.status, to) => y.person = x.person
    BY DEF Transitioned
  <1> HIDE DEF y
  <1>7. LegalMove(x, y)
    BY <1>1, <1>2, <1>4, <1>5, <1>6 DEF LegalMove
  <1>8. Successor(x, y)
    BY <1>1, <1>2, <1>7, StatusFacts DEF Successor
  <1> QED BY <1>8 DEF y

LEMMA ReassignedSuccessor ==
  ASSUME NEW x \in Row, NEW toPerson \in Persons \cup {NoPerson, KeepPerson},
         x.status \notin {Absent, "RELEASED"},
         toPerson # KeepPerson => x.status \notin {"DRAFT", "OPEN"}
  PROVE  Successor(x, Reassigned(x, toPerson))
  <1> DEFINE y == Reassigned(x, toPerson)
  <1>1. y.version = x.version + 1 /\ y.status # Absent
    BY ReassignedType
  <1>2. CASE toPerson = KeepPerson
    <2>1. y.status = x.status /\ y.person = x.person
      BY <1>2 DEF Reassigned, Row
    <2> HIDE DEF y
    <2>2. Successor(x, y)
      BY <1>1, <2>1 DEF Successor, LegalMove
    <2> QED BY <2>2 DEF y
  <1>3. CASE toPerson # KeepPerson /\ x.status = "PROPOSED" /\ toPerson # NoPerson
    <2>1. y = Transitioned(x, "BOOKED", toPerson, NoAlloc) /\ toPerson \in Persons
      BY <1>3 DEF Reassigned
    <2>2. HasEdge("PROPOSED", "BOOKED")
      <3> DEFINE e == Edge("PROPOSED", "BOOKED", PmDmDirectorAdmin, FALSE)
      <3>1. e \in FillTransitions
        BY DEF FillTransitions
      <3>2. e.from = "PROPOSED" /\ e.to = "BOOKED"
        BY DEF Edge
      <3> QED BY <3>1, <3>2 DEF HasEdge
    <2>3. "BOOKED" \in FillTargets /\ ~ RejectsCandidate("PROPOSED", "BOOKED")
      BY DEF FillTargets, RejectsCandidate
    <2>4. y.status = "BOOKED" /\ y.person = toPerson
      BY <1>3, <2>1, <2>3 DEF Transitioned
    <2> HIDE DEF y
    <2>5. Successor(x, y)
      BY <1>1, <1>3, <2>1, <2>2, <2>3, <2>4 DEF Successor, LegalMove
    <2> QED BY <2>5 DEF y
  <1>4. CASE toPerson # KeepPerson /\ ~(x.status = "PROPOSED" /\ toPerson # NoPerson)
    <2>1. y.status = x.status
      <3>1. y = [x EXCEPT !.person = toPerson, !.version = @ + 1]
        BY <1>4 DEF Reassigned
      <3> QED BY <3>1 DEF Row
    <2>2. x.status \in FillTargets \cup {"ON_HOLD"}
      BY <1>4 DEF FillTargets, Row, FillStatuses
    <2> HIDE DEF y
    <2>3. Successor(x, y)
      BY <1>1, <2>1, <2>2 DEF Successor, LegalMove
    <2> QED BY <2>3 DEF y
  <1> QED BY <1>2, <1>3, <1>4

-----------------------------------------------------------------------------
(* Every step keeps the inductive invariant *)

LEMMA IdleSound == Sound(Idle, row) /\ Sound(Idle, row')
  BY DEF Sound, Idle

\* A step that only replaces one request by a sound one.
LEMMA StartedInv ==
  ASSUME IInv, TypeInv', NEW r \in Requests,
         UNCHANGED <<row, ledger, overridden, active>>,
         \E started : req' = [req EXCEPT ![r] = started] /\ Sound(started, row)
  PROVE  IInv'
  <1>1. \A q \in Requests : Sound(req'[q], row)
    BY DEF IInv, TypeInv, TypeOK
  <1> QED BY <1>1 DEF IInv, AbsentIsNew, UnfilledHasNoHolder

\* A row that moves on to a later version outdates what was read of it.
LEMMA SoundUnderProgress ==
  ASSUME NEW q \in Request, NEW rows \in [Positions -> Row], NEW later \in [Positions -> Row],
         Sound(q, rows),
         \A p \in Positions : later[p] = rows[p] \/ later[p].version > rows[p].version
  PROVE  Sound(q, later)
  <1> SUFFICES ASSUME q.pc \in {"check", "commit"}, NEW p \in q.targets
               PROVE  /\ Successor(q.seen[p], q.entity[p])
                      /\ q.seen[p].version <= later[p].version
                      /\ q.seen[p].version = later[p].version => q.seen[p] = later[p]
    BY DEF Sound
  <1>1. p \in Positions /\ q.seen[p] \in Row
    BY DEF Request
  <1>2. q.seen[p].version \in Nat /\ rows[p].version \in Nat /\ later[p].version \in Nat
    BY <1>1 DEF Row
  <1>3. /\ Successor(q.seen[p], q.entity[p])
        /\ q.seen[p].version <= rows[p].version
        /\ q.seen[p].version = rows[p].version => q.seen[p] = rows[p]
    BY DEF Sound
  <1> QED BY <1>1, <1>2, <1>3

\* A step that moves rows on and finishes, or leaves alone, every request.
LEMMA ProgressInv ==
  ASSUME IInv, TypeInv',
         \A p \in Positions : row'[p] = row[p] \/ row'[p].version > row[p].version,
         \A q \in Requests : req'[q] = req[q] \/ req'[q] = Idle,
         AbsentIsNew', UnfilledHasNoHolder'
  PROVE  IInv'
  <1>1. ASSUME NEW q \in Requests PROVE Sound(req'[q], row')
    <2>1. req[q] \in Request /\ row \in [Positions -> Row] /\ row' \in [Positions -> Row]
          /\ Sound(req[q], row)
      BY DEF IInv, TypeInv, TypeOK
    <2>2. Sound(req[q], row')
      BY <2>1, SoundUnderProgress
    <2> QED BY <2>2, IdleSound
  <1> QED BY <1>1 DEF IInv

LEMMA RefuseInv ==
  ASSUME IInv, TypeInv', NEW r \in Requests, Refuse(r)
  PROVE  IInv'
  BY IdleSound, StartedInv DEF Refuse

LEMMA GuardedInv ==
  ASSUME IInv, TypeInv', NEW r \in Requests, NEW total,
         \/ req[r].pc = "check" /\ Guarded(r, total, "commit")
         \/ Guarded(r, total, "bookCommit")
  PROVE  IInv'
  <1>1. CASE Refuse(r)
    BY <1>1, RefuseInv
  <1>2. ASSUME NEW pc \in {"commit", "bookCommit"}, NEW exceeded \in BOOLEAN,
               pc = "commit" => req[r].pc = "check", Proceed(r, pc, exceeded)
        PROVE  IInv'
    <2> DEFINE started == [req[r] EXCEPT !.pc = pc, !.exceeded = exceeded]
    <2>1. req[r] \in Request /\ Sound(req[r], row)
      BY DEF IInv, TypeInv, TypeOK
    <2>2. /\ started.pc = pc /\ started.targets = req[r].targets
          /\ started.seen = req[r].seen /\ started.entity = req[r].entity
      BY <2>1 DEF Request
    <2>3. req' = [req EXCEPT ![r] = started]
      BY <1>2 DEF Proceed, IInv, TypeInv, TypeOK
    <2> HIDE DEF started
    <2>4. Sound(started, row)
      BY <1>2, <2>1, <2>2 DEF Sound
    <2> QED BY <1>2, <2>3, <2>4, StartedInv DEF Proceed
  <1> QED BY <1>1, <1>2 DEF Guarded

LEMMA TransitionReadInv ==
  ASSUME IInv, TypeInv', NEW r \in Requests, TransitionRead(r)
  PROVE  IInv'
  <1>1. PICK p \in Positions, to \in FillStatuses, role \in Roles, hasReason \in BOOLEAN,
             allowOverallocation \in BOOLEAN,
             person \in Persons \cup {NoPerson}, alloc \in Allocs \cup {NoAlloc} :
          /\ MayTransition(row[p], to, role, hasReason, person)
          /\ req' = [req EXCEPT ![r] =
                       Driven(p, to, role, allowOverallocation, person, alloc)]
    BY Zenon DEF TransitionRead
  <1> DEFINE next == Transitioned(row[p], to, person, alloc)
             started == Driven(p, to, role, allowOverallocation, person, alloc)
  <1>2. row[p] \in Row
    BY DEF IInv, TypeInv, TypeOK
  <1>3. Successor(row[p], next)
    BY <1>1, <1>2, DrivenSuccessor
  <1>4. /\ started.targets = {p} /\ started.seen[p] = row[p] /\ started.entity[p] = next
    <2> HIDE DEF next
    <2>1. Driven(p, to, role, allowOverallocation, person, alloc) =
            [Idle EXCEPT !.pc = IF to \in AllocationConsuming THEN "check" ELSE "commit",
                         !.targets = {p},
                         !.person = next.person,
                         !.mayExceed = allowOverallocation /\ role \in OverrideRoles,
                         !.seen[p] = row[p],
                         !.entity[p] = next]
      BY DEF Driven, next
    <2> QED BY <2>1, NoRowType DEF Idle
  <1>5. row[p].version \in Nat
    BY <1>2 DEF Row
  <1> HIDE DEF started, next
  <1>6. Sound(started, row)
    BY <1>3, <1>4, <1>5 DEF Sound
  <1>7. UNCHANGED <<row, ledger, overridden, active>>
    BY DEF TransitionRead
  <1>8. req' = [req EXCEPT ![r] = started]
    BY <1>1 DEF started
  <1> QED BY <1>6, <1>7, <1>8, StartedInv

LEMMA BulkReadInv ==
  ASSUME IInv, TypeInv', NEW r \in Requests, BulkRead(r)
  PROVE  IInv'
  <1> DEFINE toPerson == req[r].person
             eligible == Eligible(req[r].targets, toPerson)
             pc   == IF toPerson \in Persons THEN "check" ELSE "commit"
             read == [p \in Positions |-> IF p \in eligible THEN row[p] ELSE NoRow]
             made == [p \in Positions |->
                       IF p \in eligible THEN Reassigned(row[p], toPerson) ELSE NoRow]
             next == [req[r] EXCEPT !.pc = pc, !.targets = eligible,
                                    !.seen = read, !.entity = made]
  <1>1. CASE /\ \A p \in req[r].targets : row[p].status \notin {Absent, "RELEASED"}
             /\ req' = [req EXCEPT ![r].pc = pc, ![r].targets = eligible,
                                   ![r].seen = read, ![r].entity = made]
             /\ UNCHANGED <<row, ledger, overridden, active>>
    <2>1. toPerson \in Persons \cup {NoPerson, KeepPerson} /\ req[r] \in Request
      BY DEF IInv, TypeInv, TypeOK, Request
    <2>2. /\ eligible \subseteq req[r].targets
          /\ eligible \in SUBSET Positions
          /\ \A p \in eligible : toPerson # KeepPerson => row[p].status \notin {"DRAFT", "OPEN"}
      BY <2>1 DEF Request, Eligible
    <2>3. next.targets = eligible /\ next.seen = read /\ next.entity = made
      BY <2>1 DEF Request
    <2>4. req' = [req EXCEPT ![r] = next]
      BY <1>1 DEF IInv, TypeInv, TypeOK
    <2> HIDE DEF eligible, next
    <2>5. ASSUME NEW p \in eligible
          PROVE  /\ Successor(read[p], made[p])
                 /\ read[p] = row[p]
                 /\ read[p].version <= row[p].version
      <3>1. p \in Positions /\ row[p] \in Row /\ row[p].version \in Nat
        BY <2>2 DEF IInv, TypeInv, TypeOK, Row
      <3>2. Successor(row[p], Reassigned(row[p], toPerson))
        BY <1>1, <2>1, <2>2, <3>1, ReassignedSuccessor
      <3> QED BY <3>1, <3>2
    <2> HIDE DEF read, made
    <2>6. Sound(next, row)
      BY <2>3, <2>5 DEF Sound
    <2> QED BY <1>1, <2>4, <2>6, StartedInv
  <1>2. CASE Refuse(r)
    BY <1>2, RefuseInv
  <1> QED BY <1>1, <1>2 DEF BulkRead

\* What a commit that goes through does to one of its rows.
LEMMA CommitSucceeds ==
  ASSUME IInv, NEW r \in Requests, Commit(r), StillCurrent(r), NEW p \in req[r].targets
  PROVE  /\ p \in Positions
         /\ req[r].seen[p] = row[p]
         /\ row'[p] = req[r].entity[p]
         /\ ledger'[p] = EntryFor(row[p], row'[p])
         /\ Successor(row[p], row'[p])
  <1>1. p \in Positions
    BY DEF IInv, TypeInv, TypeOK, Request
  <1>2. Sound(req[r], row) /\ req[r].pc = "commit"
    BY DEF IInv, Commit
  <1>3. req[r].seen[p] = row[p] /\ Successor(row[p], req[r].entity[p])
    BY <1>2 DEF Sound, StillCurrent
  <1>4. /\ row'[p] = req[r].entity[p]
        /\ ledger'[p] = EntryFor(req[r].seen[p], req[r].entity[p])
    BY <1>1 DEF Commit
  <1> QED BY <1>1, <1>3, <1>4

LEMMA CommitLeaves ==
  ASSUME NEW r \in Requests, Commit(r), StillCurrent(r),
         NEW p \in Positions \ req[r].targets
  PROVE  row'[p] = row[p] /\ ledger'[p] = ledger[p]
  BY DEF Commit

LEMMA LegalMoveUnfilled ==
  ASSUME NEW x \in Row, NEW y \in Row, Successor(x, y),
         x.status \in {"DRAFT", "OPEN"} => x.person = NoPerson,
         y.status \in {"DRAFT", "OPEN"}
  PROVE  y.person = NoPerson
  <1>1. CASE y.status = x.status /\ y.person = x.person
    BY <1>1
  <1>2. CASE x.status \in FillTargets \cup {"ON_HOLD"} /\ y.status = x.status
    BY <1>2 DEF FillTargets
  <1>3. CASE /\ HasEdge(x.status, y.status)
             /\ RejectsCandidate(x.status, y.status) => y.person = NoPerson
             /\ y.status \notin FillTargets /\ ~ RejectsCandidate(x.status, y.status)
                  => y.person = x.person
    <2>1. y.status \notin FillTargets
      BY DEF FillTargets
    <2>2. x.status \in {"DRAFT", "PROPOSED"} /\ y.status = "OPEN"
      BY <1>3 DEF HasEdge, FillTransitions, Edge
    <2> QED BY <1>3, <2>1, <2>2 DEF RejectsCandidate
  <1> QED BY <1>1, <1>2, <1>3 DEF Successor, LegalMove

LEMMA CommitInv ==
  ASSUME IInv, TypeInv', NEW r \in Requests, Commit(r)
  PROVE  IInv'
  <1>1. CASE StillCurrent(r)
    <2>1. ASSUME NEW p \in Positions
          PROVE  /\ row'[p] = row[p] \/ row'[p].version > row[p].version
                 /\ row'[p].status = Absent => row'[p] = row[p]
                 /\ row'[p].status \in {"DRAFT", "OPEN"} => row'[p].person = NoPerson
      <3>1. row[p] \in Row /\ row'[p] \in Row /\ row[p].version \in Nat
        BY DEF IInv, TypeInv, TypeOK, Row
      <3>2. row[p].status \in {"DRAFT", "OPEN"} => row[p].person = NoPerson
        BY DEF IInv, UnfilledHasNoHolder
      <3>3. CASE p \in req[r].targets
        <4>1. Successor(row[p], row'[p])
          BY <1>1, <3>3, CommitSucceeds
        <4>2. row'[p].version = row[p].version + 1 /\ row'[p].status # Absent
          BY <4>1 DEF Successor
        <4> QED BY <3>1, <3>2, <4>1, <4>2, LegalMoveUnfilled
      <3>4. CASE p \notin req[r].targets
        BY <1>1, <3>2, <3>4, CommitLeaves
      <3> QED BY <3>3, <3>4
    <2>2. AbsentIsNew' /\ UnfilledHasNoHolder'
      BY <2>1 DEF IInv, AbsentIsNew, UnfilledHasNoHolder
    <2>3. \A q \in Requests : req'[q] = req[q] \/ req'[q] = Idle
      BY <1>1 DEF Commit, IInv, TypeInv, TypeOK
    <2> QED BY <2>1, <2>2, <2>3, ProgressInv
  <1>2. CASE ~ StillCurrent(r)
    BY <1>2, RefuseInv DEF Commit
  <1> QED BY <1>1, <1>2

\* A row that did not exist and now does, with no holder unless it is filled.
LEMMA InsertInv ==
  ASSUME IInv, TypeInv', NEW p \in Positions, NEW y \in Row,
         row[p].status = Absent, row' = [row EXCEPT ![p] = y],
         y.version > 0, y.status # Absent,
         y.status \in {"DRAFT", "OPEN"} => y.person = NoPerson,
         \A q \in Requests : req'[q] = req[q] \/ req'[q] = Idle
  PROVE  IInv'
  <1>1. row \in [Positions -> Row] /\ row[p].version = 0
    BY DEF IInv, TypeInv, TypeOK, AbsentIsNew
  <1>2. \A q \in Positions : row'[q] = row[q] \/ row'[q].version > row[q].version
    BY <1>1
  <1>3. AbsentIsNew' /\ UnfilledHasNoHolder'
    BY <1>1 DEF IInv, AbsentIsNew, UnfilledHasNoHolder
  <1> QED BY <1>2, <1>3, ProgressInv

LEMMA CreateInv ==
  ASSUME IInv, TypeInv', NEW p \in Positions, NEW openImmediately \in BOOLEAN,
         Create(p, openImmediately)
  PROVE  IInv'
  <1> DEFINE status == IF openImmediately THEN "OPEN" ELSE "DRAFT"
  <1>1. status \in FillStatuses /\ status # Absent
    BY DEF FillStatuses, Absent
  <1>2. row' = [row EXCEPT ![p] = Created(status)] /\ row[p].status = Absent /\ UNCHANGED req
    BY DEF Create
  <1> HIDE DEF status
  <1>3. /\ Created(status) \in Row /\ Created(status).version = 1
        /\ Created(status).status = status /\ Created(status).person = NoPerson
    BY <1>1, CreatedType
  <1> DEFINE y == Created(status)
  <1>4. y \in Row /\ y.version > 0 /\ y.status # Absent /\ y.person = NoPerson
    BY <1>1, <1>3
  <1>5. row' = [row EXCEPT ![p] = y]
    BY <1>2
  <1> HIDE DEF y
  <1> QED BY <1>2, <1>4, <1>5, InsertInv

LEMMA BookCommitInv ==
  ASSUME IInv, TypeInv', NEW r \in Requests, BookCommit(r)
  PROVE  IInv'
  <1>1. PICK p \in Positions : row[p].status = Absent /\ row' = [row EXCEPT ![p] = Booked(r)]
    BY DEF BookCommit
  <1>2. req[r].alloc \in Allocs \cup {NoAlloc} /\ req[r].person \in Persons
    BY DEF IInv, TypeInv, TypeOK, Request, ChargedIsPerson, BookCommit
  <1>3. Booked(r) \in Row /\ Booked(r).status = "BOOKED" /\ Booked(r).version = 3
    BY <1>2, BookedType
  <1>4. Booked(r).version > 0 /\ Booked(r).status # Absent
        /\ Booked(r).status \notin {"DRAFT", "OPEN"}
    BY <1>3 DEF Absent
  <1>5. \A q \in Requests : req'[q] = req[q] \/ req'[q] = Idle
    BY DEF BookCommit, IInv, TypeInv, TypeOK
  <1> QED BY <1>1, <1>3, <1>4, <1>5, InsertInv

LEMMA StartInv ==
  ASSUME IInv, TypeInv', NEW r \in Requests, BulkStart(r) \/ BookStart(r)
  PROVE  IInv'
  <1>1. ASSUME NEW started, req' = [req EXCEPT ![r] = started],
               started.pc \notin {"check", "commit"}
        PROVE  IInv'
    <2>1. Sound(started, row)
      BY <1>1 DEF Sound
    <2>2. UNCHANGED <<row, ledger, overridden, active>>
      BY DEF BulkStart, BookStart
    <2> QED BY <1>1, <2>1, <2>2, StartedInv
  <1>2. CASE BulkStart(r)
    <2>1. PICK ids, toPerson, mayExceed :
            req' = [req EXCEPT ![r] =
              [Idle EXCEPT !.pc = "bulkRead", !.targets = ids, !.person = toPerson,
                           !.mayExceed = mayExceed]]
      BY <1>2 DEF BulkStart
    <2> DEFINE started == [Idle EXCEPT !.pc = "bulkRead", !.targets = ids, !.person = toPerson,
                                       !.mayExceed = mayExceed]
    <2>2. started.pc = "bulkRead" /\ req' = [req EXCEPT ![r] = started]
      BY <2>1 DEF Idle
    <2> HIDE DEF started
    <2> QED BY <1>1, <2>2
  <1>3. CASE BookStart(r)
    <2>1. PICK person, alloc, mayExceed :
            req' = [req EXCEPT ![r] =
              [Idle EXCEPT !.pc = "bookCheck", !.person = person, !.alloc = alloc,
                           !.mayExceed = mayExceed]]
      BY <1>3 DEF BookStart
    <2> DEFINE started == [Idle EXCEPT !.pc = "bookCheck", !.person = person, !.alloc = alloc,
                                       !.mayExceed = mayExceed]
    <2>2. started.pc = "bookCheck" /\ req' = [req EXCEPT ![r] = started]
      BY <2>1 DEF Idle
    <2> HIDE DEF started
    <2> QED BY <1>1, <2>2
  <1> QED BY <1>2, <1>3

LEMMA IInvInit == Init => IInv
  <1>1. /\ NoRow.status = Absent /\ NoRow.version = 0 /\ NoRow.person = NoPerson
        /\ Absent \notin {"DRAFT", "OPEN"}
    BY DEF NoRow, Absent
  <1>2. Init => AbsentIsNew /\ UnfilledHasNoHolder
    BY <1>1 DEF Init, NoRows, AbsentIsNew, UnfilledHasNoHolder
  <1>3. Init => \A r \in Requests : Sound(req[r], row)
    BY IdleSound DEF Init
  <1> QED BY <1>2, <1>3, TypeInvInit DEF IInv

LEMMA IInvStep == IInv /\ [Next]_vars => IInv'
  <1> SUFFICES ASSUME IInv, [Next]_vars PROVE IInv'
    OBVIOUS
  <1>0. TypeInv'
    BY TypeInvStep DEF IInv
  <1>1. ASSUME NEW p \in Positions, NEW openImmediately \in BOOLEAN, Create(p, openImmediately)
        PROVE  IInv'
    BY <1>0, <1>1, CreateInv
  <1>2. ASSUME NEW r \in Requests, RequestStep(r)
        PROVE  IInv'
    <2>1. CASE TransitionRead(r)             BY <1>0, <2>1, TransitionReadInv
    <2>2. CASE BulkStart(r) \/ BookStart(r)  BY <1>0, <2>2, StartInv
    <2>3. CASE BulkRead(r)                   BY <1>0, <2>3, BulkReadInv
    <2>4. CASE CheckAllocation(r)            BY <1>0, <2>4, GuardedInv DEF CheckAllocation
    <2>5. CASE Commit(r)                     BY <1>0, <2>5, CommitInv
    <2>6. CASE BookCheck(r)                  BY <1>0, <2>6, GuardedInv DEF BookCheck
    <2>7. CASE BookCommit(r)                 BY <1>0, <2>7, BookCommitInv
    <2>8. CASE Fail(r)                       BY <1>0, <2>8, RefuseInv DEF Fail
    <2> QED BY <1>2, <2>1, <2>2, <2>3, <2>4, <2>5, <2>6, <2>7, <2>8 DEF RequestStep
  <1>3. CASE UNCHANGED vars
    BY <1>0, <1>3 DEF vars, IInv, AbsentIsNew, UnfilledHasNoHolder
  <1> QED BY <1>1, <1>2, <1>3 DEF Next

LEMMA Inductive == Spec => []IInv
  BY IInvInit, IInvStep, PTL DEF Spec

-----------------------------------------------------------------------------
(* What follows from it *)

(***************************************************************************)
(* Optimistic concurrency works: a version that is still the row's names   *)
(* the very content the request read, for any number of concurrent         *)
(* requests, so a versioned save never buries another one.                 *)
(***************************************************************************)
THEOREM VersionedReads == Spec => []VersionNamesContent
  <1>1. IInv => VersionNamesContent
    BY DEF IInv, Sound, VersionNamesContent
  <1> QED BY <1>1, Inductive, PTL

(***************************************************************************)
(* A position that is DRAFT or OPEN holds nobody, whatever rejections and  *)
(* bulk reassigns were in flight together.                                 *)
(***************************************************************************)
THEOREM UnfilledEmpty == Spec => []UnfilledHasNoHolder
  <1>1. IInv => UnfilledHasNoHolder
    BY DEF IInv
  <1> QED BY <1>1, Inductive, PTL

\* The ways a step may touch a row: not at all, create it unfilled, create it
\* booked, or save a legal successor together with its ledger entry.
RowStep(p) ==
  \/ row'[p] = row[p]
  \/ row[p].status = Absent /\ row'[p].status \in {"DRAFT", "OPEN"} /\ row'[p].person = NoPerson
  \/ row[p].status = Absent /\ row'[p].status = "BOOKED" /\ row'[p].person \in Persons
  \/ Successor(row[p], row'[p]) /\ ledger'[p] = EntryFor(row[p], row'[p])

LEMMA RowSteps ==
  ASSUME IInv, [Next]_vars, NEW p \in Positions
  PROVE  RowStep(p)
  <1>0. row \in [Positions -> Row]
    BY DEF IInv, TypeInv, TypeOK
  <1>1. CASE row' = row
    BY <1>1 DEF RowStep
  <1>2. ASSUME NEW q \in Positions, NEW openImmediately \in BOOLEAN, Create(q, openImmediately)
        PROVE  \/ row'[p] = row[p]
               \/ row[p].status = Absent /\ row'[p].status \in {"DRAFT", "OPEN"}
                  /\ row'[p].person = NoPerson
    <2> DEFINE status == IF openImmediately THEN "OPEN" ELSE "DRAFT"
    <2>1. row' = [row EXCEPT ![q] = Created(status)] /\ row[q].status = Absent
      BY <1>2 DEF Create
    <2>2. Created(status).status = status /\ Created(status).person = NoPerson
      BY DEF Created
    <2> QED BY <1>0, <2>1, <2>2
  <1>3. ASSUME NEW r \in Requests, Commit(r), StillCurrent(r)
        PROVE  \/ row'[p] = row[p]
               \/ Successor(row[p], row'[p]) /\ ledger'[p] = EntryFor(row[p], row'[p])
    BY <1>3, CommitSucceeds, CommitLeaves
  <1>4. ASSUME NEW r \in Requests, BookCommit(r)
        PROVE  \/ row'[p] = row[p]
               \/ /\ row[p].status = Absent /\ row'[p].status = "BOOKED"
                  /\ row'[p].person \in Persons
    <2>1. PICK q \in Positions : row[q].status = Absent /\ row' = [row EXCEPT ![q] = Booked(r)]
      BY <1>4 DEF BookCommit
    <2>2. req[r].alloc \in Allocs \cup {NoAlloc} /\ req[r].person \in Persons
      BY <1>4 DEF IInv, TypeInv, TypeOK, Request, ChargedIsPerson, BookCommit
    <2>3. Booked(r).status = "BOOKED" /\ Booked(r).person \in Persons
      BY <2>2, BookedType
    <2> QED BY <1>0, <2>1, <2>3
  <1>5. ASSUME NEW r \in Requests, RequestStep(r)
        PROVE  row' = row \/ (Commit(r) /\ StillCurrent(r)) \/ BookCommit(r)
    BY <1>5 DEF RequestStep, TransitionRead, BulkStart, BulkRead, CheckAllocation, Commit,
                BookStart, BookCheck, Fail, Guarded, Proceed, Refuse
  <1>6. CASE UNCHANGED vars
    BY <1>6 DEF vars, RowStep
  <1> QED BY <1>1, <1>2, <1>3, <1>4, <1>5, <1>6 DEF Next, RowStep

(***************************************************************************)
(* No interleaving of transitions and bulk reassigns makes the fill        *)
(* history drift from the position: every change of an existing row comes  *)
(* with an entry that has its exact before and after.                      *)
(***************************************************************************)
THEOREM AuditTrail == Spec => AuditTrailExact
  <1>1. IInv /\ [Next]_vars =>
          [\A p \in Positions :
             row[p].status # Absent
             /\ <<row'[p].status, row'[p].person>> # <<row[p].status, row[p].person>>
               => ledger'[p] = EntryFor(row[p], row'[p])]_vars
    BY RowSteps DEF RowStep
  <1> QED BY <1>1, Inductive, PTL DEF Spec, AuditTrailExact

(***************************************************************************)
(* No late commit touches a position after its release.                    *)
(***************************************************************************)
THEOREM ReleaseIsFinal == Spec => ReleasedIsFinal
  <1>1. IInv /\ [Next]_vars =>
          [\A p \in Positions : row[p].status = "RELEASED" => row'[p] = row[p]]_vars
    BY RowSteps DEF RowStep, Successor, Absent
  <1> QED BY <1>1, Inductive, PTL DEF Spec, ReleasedIsFinal

\* Both modules read the same matrix.
LEMMA SameMatrix ==
  /\ \A x, y : Lifecycle!HasEdge(x, y) <=> HasEdge(x, y)
  /\ \A x, y : Lifecycle!RejectsCandidate(x, y) <=> RejectsCandidate(x, y)
  /\ Lifecycle!FillTargets = FillTargets
  <1>1. Lifecycle!FillTransitions = FillTransitions
    BY DEF FillTransitions, Lifecycle!FillTransitions, Edge, Lifecycle!Edge,
           FillStatuses, Lifecycle!FillStatuses, Roles, Lifecycle!Roles,
           PmDmDirectorAdmin, Lifecycle!PmDmDirectorAdmin, PmDmDirectorRmAdmin,
           Lifecycle!PmDmDirectorRmAdmin, RmDm, Lifecycle!RmDm, HoldRoles, Lifecycle!HoldRoles
  <1>2. Lifecycle!FillTargets = FillTargets
    BY DEF FillTargets, Lifecycle!FillTargets
  <1> QED BY <1>1, <1>2 DEF HasEdge, Lifecycle!HasEdge,
                            RejectsCandidate, Lifecycle!RejectsCandidate

\* Steps that touch every row in one of those ways are steps of the abstract
\* life of the positions.
LEMMA LifecycleStep ==
  ASSUME TypeInv', \A p \in Positions : RowStep(p)
  PROVE  Lifecycle!Next
  <1> SUFFICES ASSUME NEW p \in Positions
               PROVE  \/ Lifecycle!Create(p) \/ Lifecycle!Advance(p)
                      \/ Lifecycle!HandOver(p) \/ Lifecycle!Same(p)
    BY DEF Lifecycle!Next
  <1>1. CASE row'[p] = row[p]
    BY <1>1 DEF Lifecycle!Same
  <1>2. CASE \/ row[p].status = Absent /\ row'[p].status \in {"DRAFT", "OPEN"}
                /\ row'[p].person = NoPerson
             \/ row[p].status = Absent /\ row'[p].status = "BOOKED" /\ row'[p].person \in Persons
    BY <1>2 DEF Lifecycle!Create, Absent, Lifecycle!Absent
  <1>3. CASE Successor(row[p], row'[p])
    <2>1. row'[p].person \in Persons \cup {NoPerson}
      BY DEF TypeInv, TypeOK, Row
    <2>2. CASE /\ HasEdge(row[p].status, row'[p].status)
               /\ row'[p].status \in FillTargets => row'[p].person \in Persons
               /\ RejectsCandidate(row[p].status, row'[p].status) => row'[p].person = NoPerson
               /\ /\ row'[p].status \notin FillTargets
                  /\ ~ RejectsCandidate(row[p].status, row'[p].status)
                  => row'[p].person = row[p].person
      <3>1. ~(row'[p].status \in FillTargets /\ RejectsCandidate(row[p].status, row'[p].status))
        BY DEF FillTargets, RejectsCandidate
      <3> QED BY <2>2, <3>1, SameMatrix DEF Lifecycle!Advance
    <2>3. CASE /\ row[p].status \in FillTargets \cup {"ON_HOLD"}
               /\ row'[p].status = row[p].status
      BY <2>1, <2>3, SameMatrix DEF Lifecycle!HandOver, Lifecycle!Holders
    <2>4. CASE row'[p].status = row[p].status /\ row'[p].person = row[p].person
      BY <2>4 DEF Lifecycle!Same
    <2> QED BY <1>3, <2>2, <2>3, <2>4 DEF Successor, LegalMove
  <1> QED BY <1>1, <1>2, <1>3 DEF RowStep

LEMMA LifecycleInit == Init => Lifecycle!Init
  BY DEF Init, Lifecycle!Init, NoRows, NoRow, Absent, Lifecycle!Absent

(***************************************************************************)
(* The concurrent write paths implement the abstract life of a position:   *)
(* seen from outside every step moves each position along one documented   *)
(* edge, hands it over in place, creates it or leaves it alone.            *)
(***************************************************************************)
THEOREM Refinement == Spec => ImplementsLifecycle
  <1>1. IInv /\ [Next]_vars => [Lifecycle!Next]_Lifecycle!vars
    BY RowSteps, TypeInvStep, LifecycleStep DEF IInv
  <1> QED BY <1>1, LifecycleInit, Inductive, PTL DEF Spec, ImplementsLifecycle, Lifecycle!Spec

-----------------------------------------------------------------------------
(***************************************************************************)
(* The cap.  A person has no version, so requests that read his load at    *)
(* the same time all commit.  What holds them back is what each of them    *)
(* saw when its guard let it pass: the load it saw and its own addition    *)
(* were within the cap.  It has then pledged at most one cap, and of any   *)
(* set of pledged requests the one that passed last saw what the others    *)
(* had not yet committed missing (Bounded).  A request that writes without *)
(* a guard adds to nobody's load (Light).                                  *)
(***************************************************************************)
Share(rows) == [p \in Positions |-> Effective(p, rows[p])]

Aims(q) == \A p \in q.targets : q.entity[p].person = q.person

Light(x, y) == \/ y.status \notin AllocationConsuming
               \/ y.person \notin Persons
               \/ y.status = x.status /\ y.person = x.person /\ y.alloc = x.alloc

AllLight(q) == q.pc = "commit" /\ \A p \in q.targets : Light(q.seen[p], q.entity[p])

\* What a request that is about to commit adds to the load of its person.
Adds(q) == IF q.pc = "commit" THEN SumFunctionOnSet(Share(q.entity), q.targets) ELSE q.alloc

\* What a request has made sure of where it is.
Secured(q) ==
  /\ q.pc = "check" => Aims(q)
  /\ q.pc = "commit" => \/ AllLight(q)
                        \/ Aims(q) /\ (q.exceeded \/ Adds(q) <= Cap)
  /\ q.pc \in {"bookCheck", "bookCommit"} => q.alloc \in Allocs /\ q.targets = {}
  /\ q.pc = "bookCommit" => q.exceeded \/ Adds(q) <= Cap

\* The requests a guard has granted a place in this person's capacity.
Pledges(x, q) == /\ x.pc \in {"commit", "bookCommit"}
                 /\ ~ x.exceeded
                 /\ x.person = q
                 /\ ~ AllLight(x)

Pledged(q) == {r \in Requests : Pledges(req[r], q)}

Claimed(S) == UNION {req[s].targets : s \in S}

\* The cap for every request that is not in S.
Room(S) == Cap * (Cardinality(Requests) - Cardinality(S))

Fits(q, S) ==
  \/ LoadWithout(q, Claimed(S)) <= Room(S)
  \/ \E s \in S : LoadWithout(q, Claimed(S)) + Adds(req[s]) <= Room(S) + Cap

Bounded(q) == \A S \in SUBSET Pledged(q) : Fits(q, S)

CapInv == /\ \A r \in Requests : Secured(req[r])
          /\ \A q \in Persons \ overridden : Bounded(q)

LEMMA ShareType ==
  ASSUME NEW rows \in [Positions -> Row]
  PROVE  \A p \in Positions : Share(rows)[p] = Effective(p, rows[p]) /\ Share(rows)[p] \in Nat
BY AllocAssumption DEF Share, Effective, Row

LEMMA ConsumingFinite ==
  ASSUME NEW q
  PROVE  /\ IsFiniteSet(Consuming(q)) /\ Consuming(q) \subseteq Positions
         /\ IsFiniteSet(Consuming(q)') /\ Consuming(q)' \subseteq Positions
         /\ \A T \in SUBSET Positions : IsFiniteSet(T)
BY FS_Subset, PositionAssumption DEF Consuming

LEMMA LoadIs ==
  ASSUME NEW q
  PROVE  /\ \A T : LoadWithout(q, T) = SumFunctionOnSet(Share(row), Consuming(q) \ T)
         /\ Load(q) = SumFunctionOnSet(Share(row), Consuming(q))
         /\ Load(q)' = SumFunctionOnSet(Share(row'), Consuming(q)')
<1>1. \A T : LoadWithout(q, T) = SumFunctionOnSet(Share(row), Consuming(q) \ T)
  BY DEF LoadWithout, Share
<1>2. Consuming(q) \ {} = Consuming(q) /\ (Consuming(q) \ {})' = Consuming(q)'
  OBVIOUS
<1>3. Load(q)' = SumFunctionOnSet(Share(row'), (Consuming(q) \ {})')
  BY DEF Load, LoadWithout, Share, Effective
<1> QED BY <1>1, <1>2, <1>3 DEF Load

LEMMA LoadNat ==
  ASSUME TypeOK, NEW q, NEW T
  PROVE  LoadWithout(q, T) \in Nat
<1>1. IsFiniteSet(Consuming(q) \ T) /\ Consuming(q) \ T \subseteq Positions
  BY ConsumingFinite, FS_Subset
<1> QED BY <1>1, ShareType, LoadIs, SumNat DEF TypeOK

LEMMA LoadNatNext ==
  ASSUME TypeOK', NEW q, NEW T
  PROVE  LoadWithout(q, T)' \in Nat
<1>1. IsFiniteSet(Consuming(q)' \ T) /\ Consuming(q)' \ T \subseteq Positions
  BY ConsumingFinite, FS_Subset
<1>2. LoadWithout(q, T)' = SumFunctionOnSet(Share(row'), Consuming(q)' \ T)
  BY DEF LoadWithout, Share, Effective
<1> QED BY <1>1, <1>2, ShareType, SumNat DEF TypeOK

\* Leaving more positions out of the sum does not raise it.
LEMMA LoadNarrows ==
  ASSUME TypeOK, NEW q, NEW T, NEW U, T \subseteq U
  PROVE  LoadWithout(q, U) <= LoadWithout(q, T)
<1>1. /\ IsFiniteSet(Consuming(q) \ T) /\ IsFiniteSet(Consuming(q) \ U)
      /\ Consuming(q) \ T \subseteq Positions /\ Consuming(q) \ U \subseteq Consuming(q) \ T
  BY ConsumingFinite, FS_Subset
<1>2. \A p \in Consuming(q) \ T : Share(row)[p] \in Nat /\ Share(row)[p] <= Share(row)[p]
  <2>1. \A p \in Consuming(q) \ T : Share(row)[p] \in Nat
    BY <1>1, ShareType DEF TypeOK
  <2> QED BY <2>1
<1>3. SumFunctionOnSet(Share(row), Consuming(q) \ U)
        <= SumFunctionOnSet(Share(row), Consuming(q) \ T)
  BY <1>1, <1>2, SumMonotone
<1> QED BY <1>3, LoadIs

\* The load of a person whom no row newly counts for does not grow.
LEMMA LoadFalls ==
  ASSUME TypeOK, TypeOK', NEW q \in Persons, NEW T,
         \A p \in Consuming(q)' : p \in Consuming(q) /\ row'[p].alloc = row[p].alloc
  PROVE  LoadWithout(q, T)' <= LoadWithout(q, T)
<1> DEFINE after  == Consuming(q)' \ T
           before == Consuming(q) \ T
<1>1. /\ IsFiniteSet(after) /\ IsFiniteSet(before)
      /\ after \subseteq Positions /\ before \subseteq Positions
  BY ConsumingFinite, FS_Subset
<1>2. \A p \in after : /\ Share(row')[p] \in Nat /\ p \in before
                       /\ Share(row')[p] <= Share(row)[p]
  <2> SUFFICES ASSUME NEW p \in after
               PROVE  /\ Share(row')[p] \in Nat /\ p \in before
                      /\ Share(row')[p] <= Share(row)[p]
    OBVIOUS
  <2>1. p \in before /\ row'[p].alloc = row[p].alloc /\ p \in Positions
    BY ConsumingFinite
  <2>2. Share(row')[p] = Share(row)[p]
    BY <2>1 DEF Share, Effective
  <2>3. Share(row)[p] \in Nat
    BY <2>1, ShareType DEF TypeOK
  <2> QED BY <2>1, <2>2, <2>3
<1>3. \A p \in before : Share(row)[p] \in Nat
  BY <1>1, ShareType DEF TypeOK
<1>4. LoadWithout(q, T)' = SumFunctionOnSet(Share(row'), after)
  BY DEF LoadWithout, Share, Effective
<1> HIDE DEF after
<1>5. SumFunctionOnSet(Share(row'), after) <= SumFunctionOnSet(Share(row), before)
  <2> HIDE DEF before
  <2> QED BY <1>1, <1>2, <1>3, SumMonotone
<1> QED BY <1>4, <1>5, LoadIs

-----------------------------------------------------------------------------
(* What happens to the bound *)

LEMMA RoomInt ==
  ASSUME NEW S \in SUBSET Requests
  PROVE  /\ IsFiniteSet(S)
         /\ Room(S) \in Int /\ 0 <= Room(S)
         /\ \A r \in Requests : r \notin S => Room(S \cup {r}) = Room(S) - Cap
<1>1. /\ IsFiniteSet(S) /\ Cardinality(S) \in Nat /\ Cardinality(Requests) \in Nat
      /\ Cardinality(S) <= Cardinality(Requests)
  BY PositionAssumption, FS_Subset, FS_CardinalityType
<1>2. \A r \in Requests : r \notin S => Cardinality(S \cup {r}) = Cardinality(S) + 1
  BY <1>1, FS_AddElement
<1> QED BY <1>1, <1>2 DEF Room, Cap

LEMMA AddsNat ==
  ASSUME TypeOK, NEW r \in Requests, Secured(req[r]), req[r].pc \in {"commit", "bookCommit"}
  PROVE  Adds(req[r]) \in Nat
<1>1. CASE req[r].pc = "commit"
  <2>1. req[r].targets \subseteq Positions /\ req[r].entity \in [Positions -> Row]
    BY DEF TypeOK, Request
  <2> QED BY <1>1, <2>1, ShareType, ConsumingFinite, SumNat DEF Adds
<1>2. CASE req[r].pc = "bookCommit"
  BY <1>2, AllocAssumption DEF Adds, Secured
<1> QED BY <1>1, <1>2

\* Nobody new is granted a place and the load does not grow.
LEMMA BoundedStays ==
  ASSUME TypeOK, TypeOK', NEW q, Bounded(q),
         \A r \in Requests : Secured(req[r]),
         \A T : LoadWithout(q, T)' <= LoadWithout(q, T),
         \A s \in Requests : Pledges(req'[s], q) => req'[s] = req[s]
  PROVE  Bounded(q)'
<1> SUFFICES ASSUME NEW S \in SUBSET Pledged(q)' PROVE Fits(q, S)'
  BY DEF Bounded
<1>1. S \in SUBSET Pledged(q) /\ S \in SUBSET Requests /\ \A s \in S : req'[s] = req[s]
  BY DEF Pledged, Pledges, AllLight, Light
<1>2. Claimed(S)' = Claimed(S)
  BY <1>1 DEF Claimed
<1>3. \A s \in S : Adds(req[s])' = Adds(req[s]) /\ Adds(req[s]) \in Nat
  <2>1. \A s \in S : Adds(req[s])' = Adds(req[s])
    BY <1>1 DEF Adds, Share, Effective
  <2>2. \A s \in S : Adds(req[s]) \in Nat
    BY <1>1, AddsNat DEF Pledged, Pledges
  <2> QED BY <2>1, <2>2
<1>4. LoadWithout(q, Claimed(S))' <= LoadWithout(q, Claimed(S))
  <2>1. LoadWithout(q, Claimed(S))' = SumFunctionOnSet(Share(row'), Consuming(q)' \ Claimed(S)')
    BY DEF LoadWithout, Share, Effective
  <2>2. PICK T : T = Claimed(S)
    OBVIOUS
  <2>3. LoadWithout(q, T)' = SumFunctionOnSet(Share(row'), Consuming(q)' \ T)
    BY DEF LoadWithout, Share, Effective
  <2> QED BY <1>2, <2>1, <2>2, <2>3
<1>5. LoadWithout(q, Claimed(S))' \in Nat /\ LoadWithout(q, Claimed(S)) \in Nat
  <2>1. LoadWithout(q, Claimed(S))' = SumFunctionOnSet(Share(row'), Consuming(q)' \ Claimed(S)')
    BY DEF LoadWithout, Share, Effective
  <2>2. PICK T : T = Claimed(S)'
    OBVIOUS
  <2>3. LoadWithout(q, T)' = SumFunctionOnSet(Share(row'), Consuming(q)' \ T)
    BY DEF LoadWithout, Share, Effective
  <2> QED BY <2>1, <2>2, <2>3, LoadNat, LoadNatNext
<1>6. Room(S)' = Room(S) /\ Room(S) \in Int
  BY <1>1, RoomInt DEF Room
<1>7. Fits(q, S)
  BY <1>1 DEF Bounded
<1>8. CASE LoadWithout(q, Claimed(S)) <= Room(S)
  BY <1>4, <1>5, <1>6, <1>8 DEF Fits
<1>9. CASE \E s \in S : LoadWithout(q, Claimed(S)) + Adds(req[s]) <= Room(S) + Cap
  <2>1. PICK s \in S : LoadWithout(q, Claimed(S)) + Adds(req[s]) <= Room(S) + Cap
    BY <1>9
  <2>2. LoadWithout(q, Claimed(S))' + Adds(req[s])' <= Room(S)' + Cap
    BY <1>3, <1>4, <1>5, <1>6, <2>1 DEF Cap
  <2> QED BY <2>2 DEF Fits
<1> QED BY <1>7, <1>8, <1>9 DEF Fits

\* A guard lets one more request pass.
LEMMA BoundedGrant ==
  ASSUME TypeOK, TypeOK', UNCHANGED row, NEW q, Bounded(q),
         NEW r \in Requests, \A s \in Requests \ {r} : req'[s] = req[s],
         ~ Pledges(req[r], q),
         Adds(req'[r]) \in Nat,
         LoadWithout(q, req'[r].targets) + Adds(req'[r]) <= Cap
  PROVE  Bounded(q)'
<1> SUFFICES ASSUME NEW S \in SUBSET Pledged(q)' PROVE Fits(q, S)'
  BY DEF Bounded
<1>1. S \in SUBSET Requests
  BY DEF Pledged
<1>2. Room(S)' = Room(S) /\ Room(S) \in Int /\ 0 <= Room(S)
  BY <1>1, RoomInt DEF Room
<1>3. PICK T : T = Claimed(S)'
  OBVIOUS
<1>4. LoadWithout(q, Claimed(S))' = LoadWithout(q, T)
  BY <1>3 DEF LoadWithout, Consuming, Effective
<1>5. CASE r \notin S
  <2>1. S \in SUBSET Pledged(q) /\ \A s \in S : req'[s] = req[s]
    BY <1>5 DEF Pledged, Pledges, AllLight, Light
  <2>2. Claimed(S)' = Claimed(S) /\ \A s \in S : Adds(req[s])' = Adds(req[s])
    BY <2>1 DEF Claimed, Adds, Share, Effective
  <2> QED BY <1>2, <1>3, <1>4, <2>1, <2>2 DEF Bounded, Fits
<1>6. CASE r \in S
  <2>1. req'[r].targets \subseteq T
    BY <1>3, <1>6 DEF Claimed
  <2>2. LoadWithout(q, T) <= LoadWithout(q, req'[r].targets)
    BY <2>1, LoadNarrows
  <2>3. LoadWithout(q, T) \in Nat /\ LoadWithout(q, req'[r].targets) \in Nat
    BY LoadNat
  <2>4. LoadWithout(q, Claimed(S))' + Adds(req'[r]) <= Room(S)' + Cap
    BY <1>2, <1>4, <2>2, <2>3 DEF Cap
  <2>5. Adds(req[r])' = Adds(req'[r])
    BY DEF Adds, Share, Effective
  <2> QED BY <1>6, <2>4, <2>5 DEF Fits
<1> QED BY <1>5, <1>6

\* A granted request commits what it pledged.
LEMMA BoundedCommit ==
  ASSUME TypeOK, TypeOK', NEW q, Bounded(q),
         \A s \in Requests : Secured(req[s]),
         NEW r \in Requests, r \in Pledged(q), Adds(req[r]) <= Cap,
         \A s \in Requests \ {r} : req'[s] = req[s],
         ~ Pledges(req'[r], q),
         \A T : LoadWithout(q, T)' <= LoadWithout(q, T \cup req[r].targets) + Adds(req[r])
  PROVE  Bounded(q)'
<1> SUFFICES ASSUME NEW S \in SUBSET Pledged(q)' PROVE Fits(q, S)'
  BY DEF Bounded
<1> DEFINE more == S \cup {r}
<1>1. /\ r \notin S /\ S \in SUBSET Requests /\ \A s \in S : req'[s] = req[s]
      /\ more \in SUBSET Pledged(q)
  <2>1. \A s \in S : s \in Requests /\ Pledges(req'[s], q)
    BY DEF Pledged, Pledges, AllLight, Light
  <2>2. \A s \in S : s # r /\ req'[s] = req[s]
    BY <2>1
  <2>3. \A s \in S : s \in Pledged(q)
    BY <2>1, <2>2 DEF Pledged
  <2> QED BY <2>1, <2>2, <2>3
<1>2. Claimed(S)' = Claimed(S) /\ Claimed(more) = Claimed(S) \cup req[r].targets
  BY <1>1 DEF Claimed
<1>3. \A s \in S : Adds(req[s])' = Adds(req[s])
  BY <1>1 DEF Adds, Share, Effective
<1>4. \A s \in more : Adds(req[s]) \in Nat
  BY <1>1, AddsNat DEF Pledged, Pledges
<1>5. Room(S)' = Room(S) /\ Room(S) \in Int /\ Room(more) = Room(S) - Cap
  BY <1>1, RoomInt DEF Room
<1>6. PICK T : T = Claimed(S)
  OBVIOUS
<1>7. LoadWithout(q, Claimed(S))' = LoadWithout(q, T)'
  BY <1>2, <1>6 DEF LoadWithout, Consuming, Effective
<1>8. LoadWithout(q, T)' <= LoadWithout(q, Claimed(more)) + Adds(req[r])
  BY <1>2, <1>6
<1>9. LoadWithout(q, T)' \in Nat /\ LoadWithout(q, Claimed(more)) \in Nat
  BY LoadNat, LoadNatNext
<1>10. Fits(q, more)
  BY <1>1 DEF Bounded
<1> HIDE DEF more
<1>11. CASE LoadWithout(q, Claimed(more)) <= Room(more)
  <2>1. r \in more
    BY DEF more
  <2>2. LoadWithout(q, Claimed(S))' <= Room(S)'
    BY <1>4, <1>5, <1>7, <1>8, <1>9, <1>11, <2>1 DEF Cap
  <2> QED BY <2>2 DEF Fits
<1>12. ASSUME NEW s \in more, LoadWithout(q, Claimed(more)) + Adds(req[s]) <= Room(more) + Cap
       PROVE  Fits(q, S)'
  <2>1. CASE s = r
    <3>1. LoadWithout(q, Claimed(S))' <= Room(S)'
      BY <1>4, <1>5, <1>7, <1>8, <1>9, <1>12, <2>1 DEF Cap
    <3> QED BY <3>1 DEF Fits
  <2>2. CASE s # r
    <3>1. s \in S /\ r \in more
      BY <2>2 DEF more
    <3>2. LoadWithout(q, Claimed(S))' + Adds(req[s])' <= Room(S)' + Cap
      BY <1>3, <1>4, <1>5, <1>7, <1>8, <1>9, <1>12, <3>1 DEF Cap
    <3> QED BY <3>1, <3>2 DEF Fits
  <2> QED BY <2>1, <2>2
<1> QED BY <1>10, <1>11, <1>12 DEF Fits

-----------------------------------------------------------------------------
(* Steps that write no row *)

LEMMA IdleSecured == Secured(Idle) /\ \A q : ~ Pledges(Idle, q)
BY DEF Secured, Pledges, Idle

LEMMA SecuredNext ==
  ASSUME CapInv, NEW r \in Requests, Secured(req'[r]),
         \A s \in Requests \ {r} : req'[s] = req[s]
  PROVE  \A s \in Requests : Secured(req[s])'
<1>1. \A s \in Requests : Secured(req'[s])
  BY DEF CapInv
<1> QED BY <1>1 DEF Secured, Aims, AllLight, Light, Adds, Share, Effective

\* A request starts, or is refused, without a grant.
LEMMA StartedSecured ==
  ASSUME TypeOK, TypeOK', CapInv, NEW r \in Requests, NEW started,
         req' = [req EXCEPT ![r] = started], Secured(started),
         \A q : ~ Pledges(started, q),
         UNCHANGED <<row, ledger, overridden, active>>
  PROVE  CapInv'
<1>1. req'[r] = started /\ \A s \in Requests \ {r} : req'[s] = req[s]
  BY DEF TypeOK
<1>2. \A s \in Requests : Secured(req[s])'
  BY <1>1, SecuredNext
<1>3. ASSUME NEW q \in Persons \ overridden PROVE Bounded(q)'
  <2>1. \A T : LoadWithout(q, T)' <= LoadWithout(q, T)
    <3> SUFFICES ASSUME NEW T PROVE LoadWithout(q, T)' <= LoadWithout(q, T)
      OBVIOUS
    <3>1. LoadWithout(q, T)' = LoadWithout(q, T) /\ LoadWithout(q, T) \in Nat
      BY LoadNat DEF LoadWithout, Consuming, Effective
    <3> QED BY <3>1
  <2>2. \A s \in Requests : Pledges(req'[s], q) => req'[s] = req[s]
    BY <1>1
  <2>3. Bounded(q) /\ \A s \in Requests : Secured(req[s])
    BY DEF CapInv
  <2> QED BY <2>1, <2>2, <2>3, BoundedStays
<1> QED BY <1>2, <1>3 DEF CapInv

LEMMA RefuseSecured ==
  ASSUME TypeOK, TypeOK', CapInv, NEW r \in Requests, Refuse(r) PROVE CapInv'
BY IdleSecured, StartedSecured DEF Refuse

\* A guard lets the request pass.
LEMMA GrantedSecured ==
  ASSUME TypeOK, TypeOK', CapInv, NEW r \in Requests, NEW started,
         req' = [req EXCEPT ![r] = started],
         req[r].pc \notin {"commit", "bookCommit"},
         Adds(started) \in Nat,
         started.exceeded \/ LoadWithout(started.person, started.targets) + Adds(started) <= Cap,
         Secured(started),
         UNCHANGED <<row, ledger, overridden, active>>
  PROVE  CapInv'
<1>1. req'[r] = started /\ \A s \in Requests \ {r} : req'[s] = req[s]
  BY DEF TypeOK
<1>2. \A s \in Requests : Secured(req[s])'
  BY <1>1, SecuredNext
<1>3. ASSUME NEW q \in Persons \ overridden PROVE Bounded(q)'
  <2>1. Bounded(q) /\ \A s \in Requests : Secured(req[s])
    BY DEF CapInv
  <2>2. CASE Pledges(started, q)
    <3>1. ~ Pledges(req[r], q)
      BY DEF Pledges
    <3>2. LoadWithout(q, started.targets) + Adds(started) <= Cap
      BY <2>2 DEF Pledges
    <3> QED BY <1>1, <2>1, <3>1, <3>2, BoundedGrant
  <2>3. CASE ~ Pledges(started, q)
    <3>1. \A T : LoadWithout(q, T)' <= LoadWithout(q, T)
      <4> SUFFICES ASSUME NEW T PROVE LoadWithout(q, T)' <= LoadWithout(q, T)
        OBVIOUS
      <4>1. LoadWithout(q, T)' = LoadWithout(q, T) /\ LoadWithout(q, T) \in Nat
        BY LoadNat DEF LoadWithout, Consuming, Effective
      <4> QED BY <4>1
    <3>2. \A s \in Requests : Pledges(req'[s], q) => req'[s] = req[s]
      BY <1>1, <2>3
    <3> QED BY <2>1, <3>1, <3>2, BoundedStays
  <2> QED BY <2>2, <2>3
<1> QED BY <1>2, <1>3 DEF CapInv

LEMMA TransitionReadSecured ==
  ASSUME TypeOK, TypeOK', CapInv, NEW r \in Requests, TransitionRead(r) PROVE CapInv'
<1>1. PICK p \in Positions, to \in FillStatuses, role \in Roles,
           allowOverallocation \in BOOLEAN,
           person \in Persons \cup {NoPerson}, alloc \in Allocs \cup {NoAlloc} :
        req' = [req EXCEPT ![r] = Driven(p, to, role, allowOverallocation, person, alloc)]
  BY Zenon DEF TransitionRead
<1> DEFINE next == Transitioned(row[p], to, person, alloc)
           started == Driven(p, to, role, allowOverallocation, person, alloc)
<1>2. next.status = to
  BY DEF Transitioned
<1>3. /\ started.pc = IF to \in AllocationConsuming THEN "check" ELSE "commit"
      /\ started.targets = {p} /\ started.person = next.person /\ started.entity[p] = next
  <2> HIDE DEF next
  <2>1. Driven(p, to, role, allowOverallocation, person, alloc) =
          [Idle EXCEPT !.pc = IF to \in AllocationConsuming THEN "check" ELSE "commit",
                       !.targets = {p},
                       !.person = next.person,
                       !.mayExceed = allowOverallocation /\ role \in OverrideRoles,
                       !.seen[p] = row[p],
                       !.entity[p] = next]
    BY DEF Driven, next
  <2> QED BY <2>1, NoRowType DEF Idle
<1> HIDE DEF started, next
<1>4. Secured(started) /\ \A q : ~ Pledges(started, q)
  <2>1. CASE to \in AllocationConsuming
    BY <1>3, <2>1 DEF Secured, Aims, Pledges
  <2>2. CASE to \notin AllocationConsuming
    BY <1>2, <1>3, <2>2 DEF Secured, AllLight, Light, Pledges
  <2> QED BY <2>1, <2>2
<1>5. req' = [req EXCEPT ![r] = started]
  BY <1>1 DEF started
<1> QED BY <1>4, <1>5, StartedSecured DEF TransitionRead

LEMMA ReassignedAims ==
  ASSUME NEW x \in Row, NEW toPerson \in Persons PROVE Reassigned(x, toPerson).person = toPerson
<1>1. toPerson \notin {NoPerson, KeepPerson}
  BY PersonAssumption
<1>2. CASE x.status = "PROPOSED"
  <2>1. Reassigned(x, toPerson) = Transitioned(x, "BOOKED", toPerson, NoAlloc)
    BY <1>1, <1>2 DEF Reassigned
  <2>2. "BOOKED" \in FillTargets
    BY DEF FillTargets
  <2> QED BY <1>1, <1>2, <2>1, <2>2 DEF Transitioned, RejectsCandidate, FillTargets
<1>3. CASE x.status # "PROPOSED"
  <2>1. Reassigned(x, toPerson) = [x EXCEPT !.person = toPerson, !.version = @ + 1]
    BY <1>1, <1>3 DEF Reassigned
  <2> QED BY <2>1 DEF Row
<1> QED BY <1>2, <1>3

LEMMA ReassignedLight ==
  ASSUME NEW x \in Row, NEW toPerson \in {NoPerson, KeepPerson}
  PROVE  Light(x, Reassigned(x, toPerson))
<1>1. CASE toPerson = KeepPerson
  <2>1. Reassigned(x, toPerson) = [x EXCEPT !.version = @ + 1]
    BY <1>1 DEF Reassigned
  <2> QED BY <2>1 DEF Light, Row
<1>2. CASE toPerson = NoPerson
  <2>1. Reassigned(x, toPerson) = [x EXCEPT !.person = NoPerson, !.version = @ + 1]
    BY <1>2, PersonAssumption DEF Reassigned
  <2> QED BY <2>1, PersonAssumption DEF Light, Row
<1> QED BY <1>1, <1>2

LEMMA BulkReadSecured ==
  ASSUME TypeOK, TypeOK', CapInv, NEW r \in Requests, BulkRead(r) PROVE CapInv'
<1> DEFINE toPerson == req[r].person
           eligible == Eligible(req[r].targets, toPerson)
           pc   == IF toPerson \in Persons THEN "check" ELSE "commit"
           read == [p \in Positions |-> IF p \in eligible THEN row[p] ELSE NoRow]
           made == [p \in Positions |->
                     IF p \in eligible THEN Reassigned(row[p], toPerson) ELSE NoRow]
           next == [req[r] EXCEPT !.pc = pc, !.targets = eligible,
                                  !.seen = read, !.entity = made]
<1>1. CASE req' = [req EXCEPT ![r].pc = pc, ![r].targets = eligible,
                              ![r].seen = read, ![r].entity = made]
           /\ UNCHANGED <<row, ledger, overridden, active>>
  <2>1. toPerson \in Persons \cup {NoPerson, KeepPerson} /\ req[r] \in Request
    BY DEF TypeOK, Request
  <2>2. eligible \subseteq Positions
    BY <2>1 DEF Request, Eligible
  <2>3. /\ next.pc = pc /\ next.targets = eligible /\ next.seen = read /\ next.entity = made
        /\ next.person = toPerson
    <3> HIDE DEF pc, eligible, read, made
    <3> QED BY <2>1 DEF Request
  <2>4. req' = [req EXCEPT ![r] = next]
    BY <1>1 DEF TypeOK
  <2>5. \A p \in eligible : /\ row[p] \in Row /\ read[p] = row[p]
                            /\ made[p] = Reassigned(row[p], toPerson)
    <3> HIDE DEF eligible
    <3> QED BY <2>2 DEF TypeOK
  <2> HIDE DEF eligible, read, made, next
  <2>6. Secured(next) /\ \A q : ~ Pledges(next, q)
    <3>1. CASE toPerson \in Persons
      BY <2>3, <2>5, <3>1, ReassignedAims DEF Secured, Aims, Pledges
    <3>2. CASE toPerson \notin Persons
      <4>1. toPerson \in {NoPerson, KeepPerson} /\ pc = "commit"
        BY <2>1, <3>2
      <4>2. \A p \in eligible : Light(read[p], made[p])
        BY <2>5, <4>1, ReassignedLight
      <4> QED BY <2>3, <4>1, <4>2 DEF Secured, AllLight, Pledges
    <3> QED BY <3>1, <3>2
  <2> QED BY <1>1, <2>4, <2>6, StartedSecured
<1>2. CASE Refuse(r)
  BY <1>2, RefuseSecured
<1> QED BY <1>1, <1>2 DEF BulkRead

\* What the guard leaves of a request, and what it made sure of.
LEMMA GuardedCases ==
  ASSUME TypeOK, NEW r \in Requests, NEW total \in Int, NEW pc, Guarded(r, total, pc)
  PROVE  \/ Refuse(r)
         \/ \E exceeded \in BOOLEAN : \E started :
              /\ exceeded \/ total <= Cap
              /\ started.pc = pc /\ started.exceeded = exceeded
              /\ started.targets = req[r].targets /\ started.person = req[r].person
              /\ started.alloc = req[r].alloc
              /\ started.seen = req[r].seen /\ started.entity = req[r].entity
              /\ req' = [req EXCEPT ![r] = started]
              /\ UNCHANGED <<row, ledger, overridden, active>>
<1>1. ASSUME NEW exceeded \in BOOLEAN, exceeded \/ total <= Cap, Proceed(r, pc, exceeded)
      PROVE  \E started :
              /\ exceeded \/ total <= Cap
              /\ started.pc = pc /\ started.exceeded = exceeded
              /\ started.targets = req[r].targets /\ started.person = req[r].person
              /\ started.alloc = req[r].alloc
              /\ started.seen = req[r].seen /\ started.entity = req[r].entity
              /\ req' = [req EXCEPT ![r] = started]
              /\ UNCHANGED <<row, ledger, overridden, active>>
  <2> DEFINE started == [req[r] EXCEPT !.pc = pc, !.exceeded = exceeded]
  <2>1. /\ started.pc = pc /\ started.exceeded = exceeded
        /\ started.targets = req[r].targets /\ started.person = req[r].person
        /\ started.alloc = req[r].alloc
        /\ started.seen = req[r].seen /\ started.entity = req[r].entity
    BY DEF TypeOK, Request
  <2>2. req' = [req EXCEPT ![r] = started]
    BY <1>1 DEF Proceed, TypeOK
  <2> HIDE DEF started
  <2> QED BY <1>1, <2>1, <2>2 DEF Proceed
<1> QED BY <1>1 DEF Guarded

LEMMA CheckSecured ==
  ASSUME TypeOK, TypeOK', CapInv, NEW r \in Requests, CheckAllocation(r) PROVE CapInv'
<1> DEFINE total == LoadWithout(req[r].person, req[r].targets) + Added(r)
<1>1. Added(r) = SumFunctionOnSet(Share(req[r].entity), req[r].targets)
  BY DEF Added, Share
<1>2. req[r].targets \subseteq Positions /\ req[r].entity \in [Positions -> Row]
  BY DEF TypeOK, Request
<1>3. Added(r) \in Nat
  BY <1>1, <1>2, ShareType, ConsumingFinite, SumNat
<1>4. total \in Int
  BY <1>3, LoadNat
<1>5. Aims(req[r]) /\ Guarded(r, total, "commit")
  BY DEF CheckAllocation, CapInv, Secured
<1> HIDE DEF total
<1>6. CASE Refuse(r)
  BY <1>6, RefuseSecured
<1>7. ASSUME NEW exceeded \in BOOLEAN, NEW started,
             exceeded \/ total <= Cap, started.pc = "commit", started.exceeded = exceeded,
             started.targets = req[r].targets, started.person = req[r].person,
             started.entity = req[r].entity,
             req' = [req EXCEPT ![r] = started],
             UNCHANGED <<row, ledger, overridden, active>>
      PROVE  CapInv'
  <2>1. Aims(started)
    BY <1>5, <1>7 DEF Aims
  <2>2. Adds(started) = Added(r) /\ req[r].pc = "check"
    BY <1>1, <1>7 DEF Adds, CheckAllocation
  <2>3. started.exceeded \/ LoadWithout(started.person, started.targets) + Adds(started) <= Cap
    BY <1>7, <2>2 DEF total
  <2>4. Secured(started)
    <3>1. LoadWithout(started.person, started.targets) \in Nat
      BY LoadNat
    <3>2. started.exceeded \/ Adds(started) <= Cap
      BY <1>3, <2>2, <2>3, <3>1 DEF Cap
    <3> QED BY <1>7, <2>1, <3>2 DEF Secured
  <2> QED BY <1>3, <1>7, <2>2, <2>3, <2>4, GrantedSecured
<1> QED BY <1>4, <1>5, <1>6, <1>7, GuardedCases

LEMMA BookCheckSecured ==
  ASSUME TypeOK, TypeOK', CapInv, NEW r \in Requests, BookCheck(r) PROVE CapInv'
<1> DEFINE total == LoadWithout(req[r].person, {}) + req[r].alloc
<1>1. req[r].alloc \in Allocs /\ req[r].alloc \in Nat /\ req[r].targets = {}
  BY AllocAssumption DEF BookCheck, CapInv, Secured
<1>2. total \in Int
  BY <1>1, LoadNat
<1>3. Guarded(r, total, "bookCommit")
  BY DEF BookCheck
<1> HIDE DEF total
<1>4. CASE Refuse(r)
  BY <1>4, RefuseSecured
<1>5. ASSUME NEW exceeded \in BOOLEAN, NEW started,
             exceeded \/ total <= Cap, started.pc = "bookCommit", started.exceeded = exceeded,
             started.person = req[r].person, started.alloc = req[r].alloc,
             started.targets = req[r].targets,
             req' = [req EXCEPT ![r] = started],
             UNCHANGED <<row, ledger, overridden, active>>
      PROVE  CapInv'
  <2>1. Adds(started) = req[r].alloc /\ started.targets = {} /\ req[r].pc = "bookCheck"
    BY <1>1, <1>5 DEF Adds, BookCheck
  <2>2. started.exceeded \/ LoadWithout(started.person, started.targets) + Adds(started) <= Cap
    BY <1>5, <2>1 DEF total
  <2>3. Secured(started)
    <3>1. LoadWithout(started.person, started.targets) \in Nat
      BY LoadNat
    <3>2. started.exceeded \/ Adds(started) <= Cap
      BY <1>1, <2>1, <2>2, <3>1 DEF Cap
    <3> QED BY <1>1, <1>5, <2>1, <3>2 DEF Secured
  <2> QED BY <1>1, <1>5, <2>1, <2>2, <2>3, GrantedSecured
<1> QED BY <1>2, <1>3, <1>4, <1>5, GuardedCases

LEMMA StartSecured ==
  ASSUME TypeOK, TypeOK', CapInv, NEW r \in Requests, BulkStart(r) \/ BookStart(r) PROVE CapInv'
<1>1. CASE BulkStart(r)
  <2>1. PICK ids, toPerson, mayExceed :
          req' = [req EXCEPT ![r] =
            [Idle EXCEPT !.pc = "bulkRead", !.targets = ids, !.person = toPerson,
                         !.mayExceed = mayExceed]]
    BY <1>1 DEF BulkStart
  <2> DEFINE started == [Idle EXCEPT !.pc = "bulkRead", !.targets = ids, !.person = toPerson,
                                     !.mayExceed = mayExceed]
  <2>2. started.pc = "bulkRead" /\ req' = [req EXCEPT ![r] = started]
    BY <2>1 DEF Idle
  <2> HIDE DEF started
  <2>3. Secured(started) /\ \A q : ~ Pledges(started, q)
    BY <2>2 DEF Secured, Pledges
  <2> QED BY <1>1, <2>2, <2>3, StartedSecured DEF BulkStart
<1>2. CASE BookStart(r)
  <2>1. PICK person \in active, alloc \in Allocs, mayExceed \in BOOLEAN :
          req' = [req EXCEPT ![r] =
            [Idle EXCEPT !.pc = "bookCheck", !.person = person, !.alloc = alloc,
                         !.mayExceed = mayExceed]]
    BY <1>2 DEF BookStart
  <2> DEFINE started == [Idle EXCEPT !.pc = "bookCheck", !.person = person, !.alloc = alloc,
                                     !.mayExceed = mayExceed]
  <2>2. /\ started.pc = "bookCheck" /\ started.alloc = alloc /\ started.targets = {}
        /\ req' = [req EXCEPT ![r] = started]
    BY <2>1 DEF Idle
  <2> HIDE DEF started
  <2>3. Secured(started) /\ \A q : ~ Pledges(started, q)
    BY <2>2 DEF Secured, Pledges
  <2> QED BY <1>2, <2>2, <2>3, StartedSecured DEF BookStart
<1> QED BY <1>1, <1>2

-----------------------------------------------------------------------------
(* Steps that write rows *)

\* A new position without a holder counts for nobody.
LEMMA CreateSecured ==
  ASSUME TypeOK, TypeOK', CapInv, NEW p \in Positions, NEW openImmediately \in BOOLEAN,
         Create(p, openImmediately)
  PROVE  CapInv'
<1> DEFINE status == IF openImmediately THEN "OPEN" ELSE "DRAFT"
<1>1. /\ row[p].status = Absent /\ row' = [row EXCEPT ![p] = Created(status)]
      /\ UNCHANGED <<overridden, req>>
  BY DEF Create
<1>2. Created(status).status \notin AllocationConsuming /\ Absent \notin AllocationConsuming
  BY DEF Created, AllocationConsuming, Absent
<1> HIDE DEF status
<1>3. \A q : Consuming(q)' = Consuming(q) /\ p \notin Consuming(q)
  BY <1>1, <1>2 DEF Consuming, TypeOK
<1>4. \A k \in Positions \ {p} : row'[k] = row[k]
  BY <1>1 DEF TypeOK
<1>5. ASSUME NEW q, NEW T PROVE LoadWithout(q, T)' = LoadWithout(q, T)
  <2>1. IsFiniteSet(Consuming(q) \ T) /\ Consuming(q) \ T \subseteq Positions
    BY ConsumingFinite, FS_Subset
  <2>2. LoadWithout(q, T)' = SumFunctionOnSet(Share(row'), Consuming(q) \ T)
    BY <1>3 DEF LoadWithout, Share, Effective
  <2>3. \A k \in Consuming(q) \ T : /\ Share(row)[k] \in Int /\ Share(row')[k] = Share(row)[k]
    <3>1. \A k \in Consuming(q) \ T : k \in Positions /\ row'[k] = row[k]
      BY <1>3, <1>4, <2>1
    <3>2. \A k \in Positions : Share(row)[k] \in Nat
      BY ShareType DEF TypeOK
    <3> QED BY <3>1, <3>2 DEF Share
  <2> QED BY <2>1, <2>2, <2>3, SumSame, LoadIs
<1>6. \A r \in Requests : Secured(req[r])'
  BY <1>1 DEF CapInv, Secured, Aims, AllLight, Light, Adds, Share, Effective
<1>7. ASSUME NEW q \in Persons \ overridden PROVE Bounded(q)'
  <2>1. \A T : LoadWithout(q, T)' <= LoadWithout(q, T)
    <3> SUFFICES ASSUME NEW T PROVE LoadWithout(q, T)' <= LoadWithout(q, T)
      OBVIOUS
    <3>1. LoadWithout(q, T)' = LoadWithout(q, T) /\ LoadWithout(q, T) \in Nat
      BY <1>5, LoadNat
    <3> QED BY <3>1
  <2>2. Bounded(q) /\ \A s \in Requests : Secured(req[s]) /\ req'[s] = req[s]
    BY <1>1 DEF CapInv
  <2> QED BY <2>1, <2>2, BoundedStays
<1> QED BY <1>1, <1>6, <1>7 DEF CapInv

\* A commit without a guard adds to nobody's load.
LEMMA LightCommit ==
  ASSUME TypeOK, TypeOK', NEW r \in Requests,
         \A p \in Positions : \/ row'[p] = row[p]
                              \/ Light(row[p], row'[p]),
         NEW q \in Persons, NEW T
  PROVE  LoadWithout(q, T)' <= LoadWithout(q, T)
<1>1. ASSUME NEW p \in Consuming(q)'
      PROVE  p \in Consuming(q) /\ row'[p].alloc = row[p].alloc
  <2>1. p \in Positions /\ row'[p].person = q /\ row'[p].status \in AllocationConsuming
    BY DEF Consuming
  <2>2. row'[p].person = row[p].person /\ row'[p].status = row[p].status
        /\ row'[p].alloc = row[p].alloc
    BY <2>1 DEF Light
  <2> QED BY <2>1, <2>2 DEF Consuming
<1> QED BY <1>1, LoadFalls

\* A guarded commit adds to the load of the charged person, as granted.
LEMMA AimedCommit ==
  ASSUME TypeOK, TypeOK', NEW targets \in SUBSET Positions, NEW entity \in [Positions -> Row],
         NEW person,
         \A p \in targets : row'[p] = entity[p] /\ entity[p].person = person,
         \A p \in Positions \ targets : row'[p] = row[p],
         NEW q \in Persons, NEW T
  PROVE  /\ q # person => LoadWithout(q, T)' <= LoadWithout(q, T)
         /\ LoadWithout(q, T)'
              <= LoadWithout(q, T \cup targets) + SumFunctionOnSet(Share(entity), targets)
<1>1. ASSUME q # person PROVE LoadWithout(q, T)' <= LoadWithout(q, T)
  <2>1. ASSUME NEW p \in Consuming(q)'
        PROVE  p \in Consuming(q) /\ row'[p].alloc = row[p].alloc
    <3>1. p \in Positions /\ row'[p].person = q /\ row'[p].status \in AllocationConsuming
      BY DEF Consuming
    <3>2. row'[p] = row[p]
      BY <1>1, <3>1
    <3> QED BY <3>1, <3>2 DEF Consuming
  <2> QED BY <2>1, LoadFalls
<1>2. LoadWithout(q, T)'
        <= LoadWithout(q, T \cup targets) + SumFunctionOnSet(Share(entity), targets)
  <2> DEFINE kept  == Consuming(q) \ (T \cup targets)
             after == Consuming(q)' \ T
  <2>1. /\ kept \subseteq Positions /\ kept \cap targets = {} /\ kept \cup targets \subseteq Positions
        /\ IsFiniteSet(kept) /\ IsFiniteSet(targets) /\ IsFiniteSet(kept \cup targets)
        /\ IsFiniteSet(after) /\ after \subseteq Positions
    BY ConsumingFinite, FS_Subset
  <2>2. row' \in [Positions -> Row] /\ row \in [Positions -> Row]
    BY DEF TypeOK
  <2>3. \A p \in Positions : /\ Share(row')[p] \in Nat /\ Share(row)[p] \in Nat
                             /\ Share(entity)[p] \in Nat
    BY <2>2, ShareType
  <2>4. SumFunctionOnSet(Share(row'), kept \cup targets)
          = SumFunctionOnSet(Share(row'), kept) + SumFunctionOnSet(Share(row'), targets)
    <3>1. \A p \in kept \cup targets : Share(row')[p] \in Nat
      BY <2>1, <2>3
    <3> HIDE DEF kept
    <3> QED BY <2>1, <3>1, SumApart
  <2>5. SumFunctionOnSet(Share(row'), kept) = SumFunctionOnSet(Share(row), kept)
    <3>1. \A p \in kept : Share(row)[p] \in Int /\ Share(row')[p] = Share(row)[p]
      <4>1. \A p \in kept : p \in Positions /\ row'[p] = row[p]
        BY <2>1
      <4> QED BY <2>3, <4>1 DEF Share
    <3> HIDE DEF kept
    <3> QED BY <2>1, <3>1, SumSame
  <2>6. SumFunctionOnSet(Share(row'), targets) = SumFunctionOnSet(Share(entity), targets)
    <3>1. \A p \in targets : Share(entity)[p] \in Int /\ Share(row')[p] = Share(entity)[p]
      BY <2>1, <2>3 DEF Share
    <3> QED BY <2>1, <3>1, SumSame
  <2>7. SumFunctionOnSet(Share(row'), after) <= SumFunctionOnSet(Share(row'), kept \cup targets)
    <3>1. \A p \in after : /\ p \in kept \cup targets /\ Share(row')[p] \in Nat
                           /\ Share(row')[p] <= Share(row')[p]
      <4> SUFFICES ASSUME NEW p \in after
                   PROVE  /\ p \in kept \cup targets /\ Share(row')[p] \in Nat
                          /\ Share(row')[p] <= Share(row')[p]
        OBVIOUS
      <4>1. p \in Positions /\ row'[p].person = q /\ row'[p].status \in AllocationConsuming
        BY DEF Consuming
      <4>2. p \notin targets => p \in Consuming(q)
        BY <4>1 DEF Consuming
      <4> QED BY <2>3, <4>1, <4>2
    <3>2. \A p \in kept \cup targets : Share(row')[p] \in Nat
      BY <2>1, <2>3
    <3> HIDE DEF kept, after
    <3> QED BY <2>1, <3>1, <3>2, SumMonotone
  <2>8. LoadWithout(q, T)' = SumFunctionOnSet(Share(row'), after)
    BY DEF LoadWithout, Share, Effective
  <2>9. LoadWithout(q, T \cup targets) = SumFunctionOnSet(Share(row), kept)
    BY LoadIs
  <2> QED BY <2>4, <2>5, <2>6, <2>7, <2>8, <2>9
<1> QED BY <1>1, <1>2

\* A request is through with what it wrote for the person it was charged to.
LEMMA WrittenSecured ==
  ASSUME TypeOK, TypeOK', CapInv, NEW r \in Requests,
         req' = [req EXCEPT ![r] = Idle],
         req[r].pc \in {"commit", "bookCommit"}, ~ AllLight(req[r]),
         overridden' = IF req[r].exceeded THEN overridden \cup {req[r].person} ELSE overridden,
         \A q \in Persons : \A T :
           /\ q # req[r].person => LoadWithout(q, T)' <= LoadWithout(q, T)
           /\ LoadWithout(q, T)' <= LoadWithout(q, T \cup req[r].targets) + Adds(req[r])
  PROVE  CapInv'
<1>1. req'[r] = Idle /\ \A s \in Requests \ {r} : req'[s] = req[s]
  BY DEF TypeOK
<1>2. \A s \in Requests : Secured(req[s])'
  BY <1>1, IdleSecured, SecuredNext
<1>3. ASSUME NEW q \in Persons \ overridden' PROVE Bounded(q)'
  <2>1. Bounded(q) /\ \A s \in Requests : Secured(req[s])
    BY DEF CapInv
  <2>2. CASE q # req[r].person
    <3>1. \A T : LoadWithout(q, T)' <= LoadWithout(q, T)
      BY <2>2
    <3>2. \A s \in Requests : Pledges(req'[s], q) => req'[s] = req[s]
      BY <1>1, IdleSecured
    <3> QED BY <2>1, <3>1, <3>2, BoundedStays
  <2>3. CASE q = req[r].person
    <3>1. ~ req[r].exceeded
      BY <2>3
    <3>2. r \in Pledged(q) /\ Adds(req[r]) <= Cap
      BY <2>1, <2>3, <3>1 DEF Pledged, Pledges, Secured
    <3>3. ~ Pledges(req'[r], q)
      BY <1>1, IdleSecured
    <3>4. \A T : LoadWithout(q, T)' <= LoadWithout(q, T \cup req[r].targets) + Adds(req[r])
      OBVIOUS
    <3> QED BY <1>1, <2>1, <3>2, <3>3, <3>4, BoundedCommit
  <2> QED BY <2>2, <2>3
<1> QED BY <1>2, <1>3 DEF CapInv

LEMMA CommitSecured ==
  ASSUME IInv, TypeOK, TypeOK', CapInv, NEW r \in Requests, Commit(r)
  PROVE  CapInv'
<1>1. CASE ~ StillCurrent(r)
  BY <1>1, RefuseSecured DEF Commit
<1>2. CASE StillCurrent(r)
  <2> DEFINE q == req[r]
  <2>1. q.targets \in SUBSET Positions /\ q.entity \in [Positions -> Row]
    BY DEF TypeOK, Request
  <2>2. \A p \in q.targets : q.seen[p] = row[p] /\ row'[p] = q.entity[p]
    BY <1>2, CommitSucceeds
  <2>3. \A p \in Positions \ q.targets : row'[p] = row[p]
    BY <1>2, CommitLeaves
  <2>4. /\ q.pc = "commit" /\ req' = [req EXCEPT ![r] = Idle]
        /\ overridden' = IF q.exceeded THEN overridden \cup {q.person} ELSE overridden
    BY <1>2 DEF Commit
  <2>5. AllLight(q) \/ Aims(q)
    BY <2>4 DEF CapInv, Secured
  <2>6. CASE AllLight(q)
    <3>1. \A p \in Positions : row'[p] = row[p] \/ Light(row[p], row'[p])
      BY <2>2, <2>3, <2>6 DEF AllLight
    <3>2. req'[r] = Idle /\ \A s \in Requests \ {r} : req'[s] = req[s]
      BY <2>4 DEF TypeOK
    <3>3. \A s \in Requests : Secured(req[s])'
      BY <3>2, IdleSecured, SecuredNext
    <3>4. ASSUME NEW k \in Persons \ overridden' PROVE Bounded(k)'
      <4>1. \A T : LoadWithout(k, T)' <= LoadWithout(k, T)
        BY <3>1, LightCommit
      <4>2. Bounded(k) /\ \A s \in Requests : Secured(req[s])
        BY <2>4 DEF CapInv
      <4>3. \A s \in Requests : Pledges(req'[s], k) => req'[s] = req[s]
        BY <3>2, IdleSecured
      <4> QED BY <4>1, <4>2, <4>3, BoundedStays
    <3> QED BY <3>3, <3>4 DEF CapInv
  <2>7. CASE Aims(q) /\ ~ AllLight(q)
    <3>1. \A p \in q.targets : row'[p] = q.entity[p] /\ q.entity[p].person = q.person
      BY <2>2, <2>7 DEF Aims
    <3>2. Adds(q) = SumFunctionOnSet(Share(q.entity), q.targets)
      BY <2>4 DEF Adds
    <3>3. \A k \in Persons : \A T :
            /\ k # q.person => LoadWithout(k, T)' <= LoadWithout(k, T)
            /\ LoadWithout(k, T)' <= LoadWithout(k, T \cup q.targets) + Adds(q)
      <4> HIDE DEF q
      <4> QED BY <2>1, <2>3, <3>1, <3>2, AimedCommit
    <3> QED BY <2>4, <2>7, <3>3, WrittenSecured
  <2> QED BY <2>5, <2>6, <2>7
<1> QED BY <1>1, <1>2

LEMMA BookCommitSecured ==
  ASSUME IInv, TypeOK, TypeOK', CapInv, NEW r \in Requests, BookCommit(r)
  PROVE  CapInv'
<1> DEFINE q == req[r]
<1>1. PICK p \in Positions : row[p].status = Absent /\ row' = [row EXCEPT ![p] = Booked(r)]
  BY DEF BookCommit
<1>2. /\ q.pc = "bookCommit" /\ req' = [req EXCEPT ![r] = Idle]
      /\ overridden' = IF q.exceeded THEN overridden \cup {q.person} ELSE overridden
  BY DEF BookCommit
<1>3. q.alloc \in Allocs /\ q.targets = {} /\ Adds(q) = q.alloc /\ ~ AllLight(q)
  BY <1>2 DEF CapInv, Secured, Adds, AllLight
<1>4. q.person \in Persons
  BY <1>2 DEF IInv, TypeInv, ChargedIsPerson
<1>5. Booked(r) \in Row /\ Booked(r).person = q.person
  BY <1>3, <1>4, BookedType
<1>6. Booked(r).alloc = q.alloc
  <2>1. q.alloc # NoAlloc
    BY <1>3, AllocAssumption
  <2>2. "PROPOSED" \in FillTargets /\ ~ RejectsCandidate(Created("OPEN").status, "PROPOSED")
    BY DEF FillTargets, RejectsCandidate
  <2>3. Proposed(r).alloc = q.alloc /\ Proposed(r).status = "PROPOSED"
    BY <2>1, <2>2 DEF Proposed, Transitioned
  <2>4. ~ RejectsCandidate(Proposed(r).status, "BOOKED")
    BY DEF RejectsCandidate
  <2> QED BY <2>3, <2>4 DEF Booked, Transitioned
<1> DEFINE entity == [k \in Positions |-> Booked(r)]
<1>7. /\ entity \in [Positions -> Row] /\ {p} \in SUBSET Positions
      /\ \A k \in {p} : row'[k] = entity[k] /\ entity[k].person = q.person
      /\ \A k \in Positions \ {p} : row'[k] = row[k]
  BY <1>1, <1>5 DEF TypeOK
<1>8. SumFunctionOnSet(Share(entity), {p}) = q.alloc
  <2>1. Share(entity)[p] = q.alloc /\ q.alloc \in Nat
    BY <1>3, <1>6, AllocAssumption DEF Share, Effective
  <2>2. {p} \ {p} = {} /\ IsFiniteSet({p}) /\ SumFunctionOnSet(Share(entity), {}) = 0
    BY SumEmpty, FS_Singleton
  <2>3. \A k \in {p} : Share(entity)[k] \in Int
    BY <2>1
  <2>4. SumFunctionOnSet(Share(entity), {p})
          = Share(entity)[p] + SumFunctionOnSet(Share(entity), {p} \ {p})
    <3> HIDE DEF entity
    <3> QED BY <2>2, <2>3, SumTakeOut
  <2> QED BY <2>1, <2>2, <2>4
<1>9. \A k \in Persons : \A T : LoadWithout(k, T \cup {p}) = LoadWithout(k, T \cup q.targets)
  <2>1. \A k \in Persons : p \notin Consuming(k)
    BY <1>1 DEF Consuming, AllocationConsuming, Absent
  <2>2. \A k \in Persons : \A T : Consuming(k) \ (T \cup {p}) = Consuming(k) \ (T \cup q.targets)
    BY <1>3, <2>1
  <2> QED BY <2>2 DEF LoadWithout
<1>10. \A k \in Persons : \A T :
         /\ k # q.person => LoadWithout(k, T)' <= LoadWithout(k, T)
         /\ LoadWithout(k, T)' <= LoadWithout(k, T \cup q.targets) + Adds(q)
  <2> HIDE DEF q, entity
  <2> SUFFICES ASSUME NEW k \in Persons, NEW T
               PROVE  /\ k # q.person => LoadWithout(k, T)' <= LoadWithout(k, T)
                      /\ LoadWithout(k, T)' <= LoadWithout(k, T \cup q.targets) + Adds(q)
    OBVIOUS
  <2>1. /\ k # q.person => LoadWithout(k, T)' <= LoadWithout(k, T)
        /\ LoadWithout(k, T)' <= LoadWithout(k, T \cup {p}) + SumFunctionOnSet(Share(entity), {p})
    BY <1>7, AimedCommit
  <2> QED BY <1>3, <1>8, <1>9, <2>1
<1> QED BY <1>2, <1>3, <1>10, WrittenSecured

LEMMA CapStep ==
  ASSUME IInv, IInv', CapInv, [Next]_vars PROVE CapInv'
<1>0. TypeOK /\ TypeOK'
  BY DEF IInv, TypeInv
<1>1. ASSUME NEW p \in Positions, NEW openImmediately \in BOOLEAN, Create(p, openImmediately)
      PROVE  CapInv'
  BY <1>0, <1>1, CreateSecured
<1>2. ASSUME NEW r \in Requests, RequestStep(r) PROVE CapInv'
  <2>1. CASE TransitionRead(r)            BY <1>0, <2>1, TransitionReadSecured
  <2>2. CASE BulkStart(r) \/ BookStart(r) BY <1>0, <2>2, StartSecured
  <2>3. CASE BulkRead(r)                  BY <1>0, <2>3, BulkReadSecured
  <2>4. CASE CheckAllocation(r)           BY <1>0, <2>4, CheckSecured
  <2>5. CASE Commit(r)                    BY <1>0, <2>5, CommitSecured
  <2>6. CASE BookCheck(r)                 BY <1>0, <2>6, BookCheckSecured
  <2>7. CASE BookCommit(r)                BY <1>0, <2>7, BookCommitSecured
  <2>8. CASE Fail(r)                      BY <1>0, <2>8, RefuseSecured DEF Fail
  <2> QED BY <1>2, <2>1, <2>2, <2>3, <2>4, <2>5, <2>6, <2>7, <2>8 DEF RequestStep
<1>3. CASE UNCHANGED vars
  <2>1. \A s \in Requests : Secured(req[s])'
    BY <1>3 DEF vars, CapInv, Secured, Aims, AllLight, Light, Adds, Share, Effective
  <2>2. ASSUME NEW q \in Persons \ overridden PROVE Bounded(q)'
    <3>1. \A T : LoadWithout(q, T)' <= LoadWithout(q, T)
      <4> SUFFICES ASSUME NEW T PROVE LoadWithout(q, T)' <= LoadWithout(q, T)
        OBVIOUS
      <4>1. LoadWithout(q, T)' = LoadWithout(q, T) /\ LoadWithout(q, T) \in Nat
        BY <1>0, <1>3, LoadNat DEF vars, LoadWithout, Consuming, Effective
      <4> QED BY <4>1
    <3>2. Bounded(q) /\ \A s \in Requests : Secured(req[s]) /\ req'[s] = req[s]
      BY <1>3 DEF vars, CapInv
    <3> QED BY <1>0, <3>1, <3>2, BoundedStays
  <2> QED BY <1>3, <2>1, <2>2 DEF vars, CapInv
<1> QED BY <1>1, <1>2, <1>3 DEF Next

(***************************************************************************)
(* However requests interleave and however long they go on, a person whom  *)
(* no recorded override covers carries at most 100% per request that can   *)
(* be in flight, through any path (holds, bulk moves, direct bookings):    *)
(* one at a time nobody passes 100%.                                       *)
(***************************************************************************)
THEOREM LoadBounded == Spec => []LoadPerRequest
<1>1. Init => CapInv
  <2> SUFFICES ASSUME Init PROVE CapInv
    OBVIOUS
  <2>1. \A r \in Requests : req[r] = Idle
    BY DEF Init
  <2>2. ASSUME NEW q \in Persons, NEW S \in SUBSET Pledged(q) PROVE Fits(q, S)
    <3>1. S = {}
      BY <2>1, IdleSecured DEF Pledged
    <3>2. Consuming(q) \ Claimed(S) = {}
      BY DEF Init, NoRows, NoRow, Consuming, AllocationConsuming, Absent
    <3>3. LoadWithout(q, Claimed(S)) = 0
      BY <3>2, SumEmpty DEF LoadWithout
    <3>4. 0 <= Room(S)
      BY <3>1, RoomInt
    <3> QED BY <3>3, <3>4 DEF Fits
  <2> QED BY <2>1, <2>2, IdleSecured DEF CapInv, Bounded
<1>2. IInv /\ IInv' /\ CapInv /\ [Next]_vars => CapInv'
  BY CapStep
<1>3. CapInv => LoadPerRequest
  <2> SUFFICES ASSUME CapInv, NEW q \in Persons \ overridden
               PROVE  Load(q) <= Cap * Cardinality(Requests)
    BY DEF LoadPerRequest
  <2>1. {} \in SUBSET Pledged(q) /\ Claimed({}) = {}
    BY DEF Claimed
  <2>2. LoadWithout(q, {}) <= Room({})
    BY <2>1 DEF CapInv, Bounded, Fits
  <2>3. Room({}) = Cap * Cardinality(Requests)
    <3>1. Cardinality({}) = 0 /\ Cardinality(Requests) \in Nat
      BY PositionAssumption, FS_EmptySet, FS_CardinalityType
    <3> QED BY <3>1 DEF Room, Cap
  <2> QED BY <2>2, <2>3 DEF Load
<1> QED BY <1>1, <1>2, <1>3, Inductive, PTL DEF Spec

-----------------------------------------------------------------------------
(***************************************************************************)
(* Positions and scenarios.  The planner ignores the versions of the rows  *)
(* it writes, so the invariant of the position write paths alone does not  *)
(* survive it; this one is about what a request would write, whatever the  *)
(* row has become meanwhile.                                               *)
(***************************************************************************)
Empty(x) == x.status \in {"DRAFT", "OPEN"} => x.person = NoPerson

\* No aggregate in the hands of a request is an unfilled one with a holder.
WritesEmpty(q) == q.pc \in {"check", "commit"} => \A p \in q.targets : Empty(q.entity[p])

EInv == /\ TypeInv
        /\ UnfilledHasNoHolder
        /\ \A r \in Requests : WritesEmpty(req[r])

-----------------------------------------------------------------------------
(* The steps of the position write paths *)

LEMMA IdleWritesEmpty == WritesEmpty(Idle)
  BY DEF WritesEmpty, Idle

LEMMA SuccessorEmpty ==
  ASSUME NEW x \in Row, NEW y \in Row, Successor(x, y), Empty(x)
  PROVE  Empty(y)
  BY LegalMoveUnfilled DEF Empty

\* A step that only replaces one request.
LEMMA StartedEmpty ==
  ASSUME EInv, TypeInv', NEW r \in Requests,
         UNCHANGED <<row, ledger, overridden, active>>,
         \E started : req' = [req EXCEPT ![r] = started] /\ WritesEmpty(started)
  PROVE  EInv'
  <1>1. \A q \in Requests : WritesEmpty(req'[q])
    BY DEF EInv, TypeInv, TypeOK
  <1> QED BY <1>1 DEF EInv, UnfilledHasNoHolder

\* A step that writes rows and finishes, or leaves alone, every request.
LEMMA WrittenEmpty ==
  ASSUME EInv, TypeInv',
         \A p \in Positions : row'[p] = row[p] \/ Empty(row'[p]),
         \A q \in Requests : req'[q] = req[q] \/ req'[q] = Idle
  PROVE  EInv'
  <1>1. UnfilledHasNoHolder'
    BY DEF EInv, UnfilledHasNoHolder, Empty
  <1>2. \A q \in Requests : WritesEmpty(req'[q])
    BY IdleWritesEmpty DEF EInv
  <1> QED BY <1>1, <1>2 DEF EInv

LEMMA RefuseEmpty ==
  ASSUME EInv, TypeInv', NEW r \in Requests, Refuse(r)
  PROVE  EInv'
  BY IdleWritesEmpty, StartedEmpty DEF Refuse

LEMMA GuardedEmpty ==
  ASSUME EInv, TypeInv', NEW r \in Requests, NEW total,
         \/ req[r].pc = "check" /\ Guarded(r, total, "commit")
         \/ Guarded(r, total, "bookCommit")
  PROVE  EInv'
  <1>1. CASE Refuse(r)
    BY <1>1, RefuseEmpty
  <1>2. ASSUME NEW pc \in {"commit", "bookCommit"}, NEW exceeded \in BOOLEAN,
               pc = "commit" => req[r].pc = "check", Proceed(r, pc, exceeded)
        PROVE  EInv'
    <2> DEFINE started == [req[r] EXCEPT !.pc = pc, !.exceeded = exceeded]
    <2>1. req[r] \in Request /\ WritesEmpty(req[r])
      BY DEF EInv, TypeInv, TypeOK
    <2>2. /\ started.pc = pc /\ started.targets = req[r].targets
          /\ started.entity = req[r].entity
      BY <2>1 DEF Request
    <2>3. req' = [req EXCEPT ![r] = started]
      BY <1>2 DEF Proceed, EInv, TypeInv, TypeOK
    <2> HIDE DEF started
    <2>4. WritesEmpty(started)
      BY <1>2, <2>1, <2>2 DEF WritesEmpty
    <2> QED BY <1>2, <2>3, <2>4, StartedEmpty DEF Proceed
  <1> QED BY <1>1, <1>2 DEF Guarded

LEMMA TransitionReadEmpty ==
  ASSUME EInv, TypeInv', NEW r \in Requests, TransitionRead(r)
  PROVE  EInv'
  <1>1. PICK p \in Positions, to \in FillStatuses, role \in Roles, hasReason \in BOOLEAN,
             allowOverallocation \in BOOLEAN,
             person \in Persons \cup {NoPerson}, alloc \in Allocs \cup {NoAlloc} :
          /\ MayTransition(row[p], to, role, hasReason, person)
          /\ req' = [req EXCEPT ![r] =
                       Driven(p, to, role, allowOverallocation, person, alloc)]
    BY Zenon DEF TransitionRead
  <1> DEFINE next == Transitioned(row[p], to, person, alloc)
             started == Driven(p, to, role, allowOverallocation, person, alloc)
  <1>2. row[p] \in Row /\ Empty(row[p])
    BY DEF EInv, TypeInv, TypeOK, UnfilledHasNoHolder, Empty
  <1>3. Successor(row[p], next) /\ next \in Row
    BY <1>1, <1>2, DrivenSuccessor, TransitionedType
  <1> HIDE DEF next
  <1>4. Empty(next)
    BY <1>2, <1>3, SuccessorEmpty
  <1>5. started.targets = {p} /\ started.entity[p] = next
    <2>1. started = [Idle EXCEPT !.pc = IF to \in AllocationConsuming THEN "check" ELSE "commit",
                                 !.targets = {p},
                                 !.person = next.person,
                                 !.mayExceed = allowOverallocation /\ role \in OverrideRoles,
                                 !.seen[p] = row[p],
                                 !.entity[p] = next]
      BY DEF Driven, next
    <2> HIDE DEF started
    <2> QED BY <2>1, NoRowType DEF Idle
  <1>6. req' = [req EXCEPT ![r] = started] /\ UNCHANGED <<row, ledger, overridden, active>>
    BY <1>1 DEF TransitionRead
  <1> HIDE DEF started
  <1>7. WritesEmpty(started)
    BY <1>4, <1>5 DEF WritesEmpty
  <1> QED BY <1>6, <1>7, StartedEmpty

LEMMA BulkReadEmpty ==
  ASSUME EInv, TypeInv', NEW r \in Requests, BulkRead(r)
  PROVE  EInv'
  <1> DEFINE toPerson == req[r].person
             eligible == Eligible(req[r].targets, toPerson)
             pc   == IF toPerson \in Persons THEN "check" ELSE "commit"
             read == [p \in Positions |-> IF p \in eligible THEN row[p] ELSE NoRow]
             made == [p \in Positions |->
                       IF p \in eligible THEN Reassigned(row[p], toPerson) ELSE NoRow]
             next == [req[r] EXCEPT !.pc = pc, !.targets = eligible,
                                    !.seen = read, !.entity = made]
  <1>1. CASE /\ \A p \in req[r].targets : row[p].status \notin {Absent, "RELEASED"}
             /\ req' = [req EXCEPT ![r].pc = pc, ![r].targets = eligible,
                                   ![r].seen = read, ![r].entity = made]
             /\ UNCHANGED <<row, ledger, overridden, active>>
    <2>1. toPerson \in Persons \cup {NoPerson, KeepPerson} /\ req[r] \in Request
      BY DEF EInv, TypeInv, TypeOK, Request
    <2>2. /\ eligible \subseteq req[r].targets
          /\ eligible \in SUBSET Positions
          /\ \A p \in eligible : toPerson # KeepPerson => row[p].status \notin {"DRAFT", "OPEN"}
      BY <2>1 DEF Request, Eligible
    <2>3. next.targets = eligible /\ next.entity = made
      BY <2>1 DEF Request
    <2>4. req' = [req EXCEPT ![r] = next]
      BY <1>1 DEF EInv, TypeInv, TypeOK
    <2> HIDE DEF eligible, next
    <2>5. ASSUME NEW p \in eligible PROVE Empty(made[p])
      <3>1. p \in Positions /\ row[p] \in Row /\ Empty(row[p])
        BY <2>2 DEF EInv, TypeInv, TypeOK, UnfilledHasNoHolder, Empty
      <3>2. Successor(row[p], Reassigned(row[p], toPerson))
        BY <1>1, <2>1, <2>2, <3>1, ReassignedSuccessor
      <3>3. Reassigned(row[p], toPerson) \in Row
        BY <2>1, <3>1, ReassignedType
      <3>4. Empty(Reassigned(row[p], toPerson))
        BY <3>1, <3>2, <3>3, SuccessorEmpty
      <3> QED BY <3>1, <3>4
    <2> HIDE DEF made
    <2>6. WritesEmpty(next)
      BY <2>3, <2>5 DEF WritesEmpty
    <2> QED BY <1>1, <2>4, <2>6, StartedEmpty
  <1>2. CASE Refuse(r)
    BY <1>2, RefuseEmpty
  <1> QED BY <1>1, <1>2 DEF BulkRead

LEMMA CommitEmpty ==
  ASSUME EInv, TypeInv', NEW r \in Requests, Commit(r)
  PROVE  EInv'
  <1>1. CASE StillCurrent(r)
    <2>1. WritesEmpty(req[r]) /\ req[r].pc = "commit"
      BY DEF EInv, Commit
    <2>2. \A p \in Positions : row'[p] = row[p] \/ Empty(row'[p])
      BY <1>1, <2>1 DEF Commit, WritesEmpty
    <2>3. \A q \in Requests : req'[q] = req[q] \/ req'[q] = Idle
      BY <1>1 DEF Commit, EInv, TypeInv, TypeOK
    <2> QED BY <2>2, <2>3, WrittenEmpty
  <1>2. CASE ~ StillCurrent(r)
    BY <1>2, RefuseEmpty DEF Commit
  <1> QED BY <1>1, <1>2

LEMMA InsertEmpty ==
  ASSUME EInv, TypeInv', NEW p \in Positions, NEW y, Empty(y),
         row' = [row EXCEPT ![p] = y],
         \A q \in Requests : req'[q] = req[q] \/ req'[q] = Idle
  PROVE  EInv'
  <1>1. \A q \in Positions : row'[q] = row[q] \/ Empty(row'[q])
    BY DEF EInv, TypeInv, TypeOK
  <1> QED BY <1>1, WrittenEmpty

LEMMA CreateEmpty ==
  ASSUME EInv, TypeInv', NEW p \in Positions, NEW openImmediately \in BOOLEAN,
         Create(p, openImmediately)
  PROVE  EInv'
  <1> DEFINE y == Created(IF openImmediately THEN "OPEN" ELSE "DRAFT")
  <1>1. row' = [row EXCEPT ![p] = y] /\ UNCHANGED req
    BY DEF Create
  <1>2. Empty(y)
    BY DEF Created, Empty
  <1> HIDE DEF y
  <1> QED BY <1>1, <1>2, InsertEmpty

LEMMA BookCommitEmpty ==
  ASSUME EInv, TypeInv', NEW r \in Requests, BookCommit(r)
  PROVE  EInv'
  <1>1. PICK p \in Positions : row' = [row EXCEPT ![p] = Booked(r)]
    BY DEF BookCommit
  <1>2. req[r].alloc \in Allocs \cup {NoAlloc} /\ req[r].person \in Persons
    BY DEF EInv, TypeInv, TypeOK, Request, ChargedIsPerson, BookCommit
  <1>3. Empty(Booked(r))
    BY <1>2, BookedType DEF Empty
  <1>4. \A q \in Requests : req'[q] = req[q] \/ req'[q] = Idle
    BY DEF BookCommit, EInv, TypeInv, TypeOK
  <1> QED BY <1>1, <1>3, <1>4, InsertEmpty

LEMMA StartEmpty ==
  ASSUME EInv, TypeInv', NEW r \in Requests, BulkStart(r) \/ BookStart(r)
  PROVE  EInv'
  <1>1. ASSUME NEW started, req' = [req EXCEPT ![r] = started],
               started.pc \notin {"check", "commit"}
        PROVE  EInv'
    <2>1. WritesEmpty(started)
      BY <1>1 DEF WritesEmpty
    <2>2. UNCHANGED <<row, ledger, overridden, active>>
      BY DEF BulkStart, BookStart
    <2> QED BY <1>1, <2>1, <2>2, StartedEmpty
  <1>2. CASE BulkStart(r)
    <2>1. PICK ids, toPerson, mayExceed :
            req' = [req EXCEPT ![r] =
              [Idle EXCEPT !.pc = "bulkRead", !.targets = ids, !.person = toPerson,
                           !.mayExceed = mayExceed]]
      BY <1>2 DEF BulkStart
    <2> QED BY <1>1, <2>1 DEF Idle
  <1>3. CASE BookStart(r)
    <2>1. PICK person, alloc, mayExceed :
            req' = [req EXCEPT ![r] =
              [Idle EXCEPT !.pc = "bookCheck", !.person = person, !.alloc = alloc,
                           !.mayExceed = mayExceed]]
      BY <1>3 DEF BookStart
    <2> QED BY <1>1, <2>1 DEF Idle
  <1> QED BY <1>2, <1>3

LEMMA PositionStepEmpty == EInv /\ [Next]_vars => EInv'
  <1> SUFFICES ASSUME EInv, [Next]_vars PROVE EInv'
    OBVIOUS
  <1>0. TypeInv'
    BY TypeInvStep DEF EInv
  <1>1. ASSUME NEW p \in Positions, NEW openImmediately \in BOOLEAN, Create(p, openImmediately)
        PROVE  EInv'
    BY <1>0, <1>1, CreateEmpty
  <1>2. ASSUME NEW r \in Requests, RequestStep(r)
        PROVE  EInv'
    <2>1. CASE TransitionRead(r)             BY <1>0, <2>1, TransitionReadEmpty
    <2>2. CASE BulkStart(r) \/ BookStart(r)  BY <1>0, <2>2, StartEmpty
    <2>3. CASE BulkRead(r)                   BY <1>0, <2>3, BulkReadEmpty
    <2>4. CASE CheckAllocation(r)            BY <1>0, <2>4, GuardedEmpty DEF CheckAllocation
    <2>5. CASE Commit(r)                     BY <1>0, <2>5, CommitEmpty
    <2>6. CASE BookCheck(r)                  BY <1>0, <2>6, GuardedEmpty DEF BookCheck
    <2>7. CASE BookCommit(r)                 BY <1>0, <2>7, BookCommitEmpty
    <2>8. CASE Fail(r)                       BY <1>0, <2>8, RefuseEmpty DEF Fail
    <2> QED BY <1>2, <2>1, <2>2, <2>3, <2>4, <2>5, <2>6, <2>7, <2>8 DEF RequestStep
  <1>3. CASE UNCHANGED vars
    BY <1>0, <1>3 DEF vars, EInv, UnfilledHasNoHolder
  <1> QED BY <1>1, <1>2, <1>3 DEF Next

-----------------------------------------------------------------------------
(* The steps of the planner *)

Scenario == [status : ScenarioStatuses, archived : BOOLEAN]

\* A planner request at work is about some scenario.
Aimed == \A a \in Planners : planner[a].pc # "idle" => planner[a].scenario \in Scenarios

PInv == /\ scenario \in [Scenarios -> Scenario]
        /\ applied \in [Scenarios -> Nat]
        /\ planner \in [Planners -> [pc : {"idle", "apply", "update"},
                                     scenario : Scenarios \cup {NoScenario}]]
        /\ Aimed
        /\ ConsumedIsArchived

\* The planner starts, ends or drops one of its requests.
LEMMA PlannerMoves ==
  ASSUME PInv, NEW a \in Planners,
         NEW next \in [pc : {"idle", "apply", "update"}, scenario : Scenarios \cup {NoScenario}],
         next.pc # "idle" => next.scenario \in Scenarios,
         planner' = [planner EXCEPT ![a] = next],
         scenario' \in [Scenarios -> Scenario], applied' \in [Scenarios -> Nat],
         ConsumedIsArchived'
  PROVE  PInv'
  BY DEF PInv, Aimed

LEMMA RestingType ==
  Resting \in [pc : {"idle", "apply", "update"}, scenario : Scenarios \cup {NoScenario}]
  /\ Resting.pc = "idle"
  BY DEF Resting

\* A scenario that is written keeps the archive mark it has, or gains it.
LEMMA ScenarioWritten ==
  ASSUME PInv, NEW s \in Scenarios, NEW y \in Scenario, scenario[s].archived => y.archived,
         scenario' = [scenario EXCEPT ![s] = y], UNCHANGED applied
  PROVE  scenario' \in [Scenarios -> Scenario] /\ ConsumedIsArchived'
  BY DEF PInv, ConsumedIsArchived

LEMMA PlannerStepPInv ==
  ASSUME PInv, NEW a \in Planners, PlannerStep(a)
  PROVE  PInv'
  <1>1. CASE UpdateRead(a)
    <2>1. PICK s \in Scenarios :
            planner' = [planner EXCEPT ![a] = [pc |-> "update", scenario |-> s]]
      BY <1>1 DEF UpdateRead
    <2> QED BY <1>1, <2>1, PlannerMoves DEF UpdateRead, PInv, ConsumedIsArchived
  <1>2. CASE UpdateWrite(a)
    <2>1. PICK status \in ScenarioStatuses :
            scenario' = [scenario EXCEPT ![planner[a].scenario].status = status]
      BY <1>2 DEF UpdateWrite
    <2>2. planner[a].scenario \in Scenarios
      BY <1>2 DEF UpdateWrite, PInv, Aimed
    <2> DEFINE s == planner[a].scenario
               y == [scenario[s] EXCEPT !.status = status]
    <2>3. y \in Scenario /\ y.archived = scenario[s].archived
      BY <2>2 DEF PInv, Scenario
    <2>4. scenario' = [scenario EXCEPT ![s] = y]
      BY <2>1
    <2> HIDE DEF s, y
    <2>5. s \in Scenarios /\ UNCHANGED applied
      BY <1>2, <2>2 DEF s, UpdateWrite
    <2>6. scenario' \in [Scenarios -> Scenario] /\ ConsumedIsArchived'
      BY <2>3, <2>4, <2>5, ScenarioWritten
    <2> QED BY <1>2, <2>5, <2>6, RestingType, PlannerMoves DEF UpdateWrite, PInv
  <1>3. CASE ApplyRead(a)
    <2>1. PICK s \in Scenarios :
            planner' = [planner EXCEPT ![a] = [pc |-> "apply", scenario |-> s]]
      BY <1>3 DEF ApplyRead
    <2> QED BY <1>3, <2>1, PlannerMoves DEF ApplyRead, PInv, ConsumedIsArchived
  <1>4. CASE ApplyCommit(a)
    <2> DEFINE s == planner[a].scenario
               y == [scenario[s] EXCEPT !.archived = TRUE]
    <2>1. s \in Scenarios
      BY <1>4 DEF ApplyCommit, PInv, Aimed
    <2>2. /\ scenario' = [scenario EXCEPT ![s] = y]
          /\ applied' = [applied EXCEPT ![s] = @ + 1]
          /\ planner' = [planner EXCEPT ![a] = Resting]
      BY <1>4 DEF ApplyCommit, Archived
    <2>3. y \in Scenario /\ y.archived
      BY <2>1 DEF PInv, Scenario
    <2> HIDE DEF s, y
    <2>4. scenario' \in [Scenarios -> Scenario]
      BY <2>1, <2>2, <2>3 DEF PInv
    <2>5. applied' \in [Scenarios -> Nat]
      BY <2>1, <2>2 DEF PInv
    <2>6. ConsumedIsArchived'
      BY <2>1, <2>2, <2>3 DEF PInv, ConsumedIsArchived
    <2> QED BY <2>2, <2>4, <2>5, <2>6, RestingType, PlannerMoves
  <1>5. CASE PlannerFail(a)
    BY <1>5, RestingType, PlannerMoves DEF PlannerFail, PInv, ConsumedIsArchived
  <1> QED BY <1>1, <1>2, <1>3, <1>4, <1>5 DEF PlannerStep

LEMMA ScenarioStepPInv ==
  ASSUME PInv, NEW s \in Scenarios, Cancel(s) \/ Archive(s)
  PROVE  PInv'
  <1>1. PICK y \in Scenario : y.archived /\ scenario' = [scenario EXCEPT ![s] = y]
    <2>1. CASE Cancel(s)
      <3> DEFINE y == [status |-> "CANCELLED", archived |-> TRUE]
      <3>1. y \in Scenario /\ y.archived
        BY DEF Scenario, ScenarioStatuses
      <3> QED BY <2>1, <3>1 DEF Cancel
    <2>2. CASE Archive(s)
      <3> DEFINE y == [scenario[s] EXCEPT !.archived = TRUE]
      <3>1. y \in Scenario /\ y.archived
        BY DEF PInv, Scenario
      <3>2. scenario' = [scenario EXCEPT ![s] = y]
        BY <2>2 DEF Archive
      <3> HIDE DEF y
      <3> QED BY <3>1, <3>2
    <2> QED BY <2>1, <2>2
  <1>2. UNCHANGED <<applied, planner>>
    BY DEF Cancel, Archive
  <1>3. scenario' \in [Scenarios -> Scenario] /\ ConsumedIsArchived'
    BY <1>1, <1>2, ScenarioWritten
  <1> QED BY <1>2, <1>3 DEF PInv, Aimed

LEMMA BookedOver ==
  ASSUME NEW x \in Row, NEW person \in Persons, NEW alloc \in Allocs
  PROVE  LET y == [x EXCEPT !.status = "BOOKED", !.person = person, !.alloc = alloc]
         IN  y \in Row /\ Empty(y)
  BY DEF Row, FillStatuses, Empty

\* What the planner inserts or writes is a well-formed row, empty if unfilled.
LEMMA ApplyCommitEmpty ==
  ASSUME EInv, PInv, NEW a \in Planners, ApplyCommit(a)
  PROVE  EInv'
  <1> DEFINE s == planner[a].scenario
             booked(p) == BookedByScenario(s, p)
  <1>1. s \in Scenarios
    BY DEF ApplyCommit, PInv, Aimed
  <1>2. /\ row' = [p \in Positions |-> IF p \in DOMAIN Proposals[s] THEN booked(p) ELSE row[p]]
        /\ ledger' = [p \in Positions |->
             IF p \in DOMAIN Proposals[s] THEN EntryFor(NoRow, booked(p)) ELSE ledger[p]]
        /\ UNCHANGED <<overridden, active, req>>
    BY DEF ApplyCommit
  <1>3. ASSUME NEW p \in Positions, p \in DOMAIN Proposals[s]
        PROVE  booked(p) \in Row /\ Empty(booked(p)) /\ EntryFor(NoRow, booked(p)) \in Entry
    <2>1. /\ Proposals[s][p].person \in Persons /\ Proposals[s][p].alloc \in Allocs
          /\ row[p] \in Row
      BY <1>1, <1>3, PlannerAssumption DEF EInv, TypeInv, TypeOK
    <2>2. booked(p) \in Row /\ Empty(booked(p))
      BY <2>1, BookedOver DEF BookedByScenario
    <2> HIDE DEF booked
    <2> QED BY <2>2, NoRowType DEF EntryFor, Entry, Row
  <1> HIDE DEF booked, s
  <1>4. TypeInv'
    BY <1>2, <1>3 DEF EInv, TypeInv, TypeOK, ChargedIsPerson
  <1>5. \A p \in Positions : row'[p] = row[p] \/ Empty(row'[p])
    BY <1>2, <1>3
  <1> QED BY <1>2, <1>4, <1>5, WrittenEmpty

LEMMA PlanItemEmpty ==
  ASSUME EInv, NEW p \in Positions, Dispatch(p) \/ Hire(p)
  PROVE  EInv'
  <1>1. PICK y \in Row : /\ Empty(y) /\ row' = [row EXCEPT ![p] = y]
                         /\ ledger' = [ledger EXCEPT ![p] = EntryFor(NoRow, row'[p])]
    <2>1. CASE Dispatch(p)
      <3>1. PICK person \in Persons :
              row' = [row EXCEPT ![p] = [Created("PROPOSED") EXCEPT !.person = person]]
        BY <2>1 DEF Dispatch
      <3> DEFINE y == [Created("PROPOSED") EXCEPT !.person = person]
      <3>2. y \in Row /\ Empty(y)
        BY DEF Created, Row, FillStatuses, Empty
      <3> HIDE DEF y
      <3> QED BY <2>1, <3>1, <3>2 DEF Dispatch, y
    <2>2. CASE Hire(p)
      <3>1. Created("OPEN") \in Row /\ Empty(Created("OPEN"))
        BY DEF Created, Row, FillStatuses, Empty
      <3> QED BY <2>2, <3>1 DEF Hire
    <2> QED BY <2>1, <2>2
  <1>2. UNCHANGED <<overridden, active, req>>
    BY DEF Dispatch, Hire
  <1>3. EntryFor(NoRow, y) \in Entry
    BY NoRowType DEF EntryFor, Entry, Row
  <1>4. row'[p] = y
    BY <1>1 DEF EInv, TypeInv, TypeOK
  <1>5. TypeInv'
    BY <1>1, <1>2, <1>3, <1>4 DEF EInv, TypeInv, TypeOK, ChargedIsPerson
  <1> QED BY <1>1, <1>2, <1>5, InsertEmpty

-----------------------------------------------------------------------------
LEMMA PlannedInit == PlannerInit => EInv /\ PInv
  <1> SUFFICES ASSUME PlannerInit PROVE EInv /\ PInv
    OBVIOUS
  <1>1. EInv
    BY IInvInit, IdleWritesEmpty DEF PlannerInit, Init, IInv, EInv
  <1>2. PInv
    BY RestingType DEF PlannerInit, PInv, Aimed, ConsumedIsArchived, Scenario, ScenarioStatuses
  <1> QED BY <1>1, <1>2

LEMMA PlannedStep == EInv /\ PInv /\ [PlannerNext]_planningVars => (EInv /\ PInv)'
  <1> SUFFICES ASSUME EInv, PInv, [PlannerNext]_planningVars PROVE EInv' /\ PInv'
    OBVIOUS
  <1>1. CASE [Next]_vars /\ UNCHANGED plannerVars
    <2>1. EInv'
      BY <1>1, PositionStepEmpty
    <2>2. PInv'
      BY <1>1 DEF plannerVars, PInv, Aimed, ConsumedIsArchived
    <2> QED BY <2>1, <2>2
  <1>2. ASSUME NEW a \in Planners, PlannerStep(a) PROVE EInv' /\ PInv'
    <2>1. CASE ApplyCommit(a)
      BY <1>2, <2>1, ApplyCommitEmpty, PlannerStepPInv
    <2>2. CASE ~ ApplyCommit(a)
      <3>1. UNCHANGED vars
        BY <1>2, <2>2 DEF PlannerStep, UpdateRead, UpdateWrite, ApplyRead, PlannerFail
      <3> QED BY <1>2, <3>1, PositionStepEmpty, PlannerStepPInv
    <2> QED BY <2>1, <2>2
  <1>3. ASSUME NEW s \in Scenarios, Cancel(s) \/ Archive(s) PROVE EInv' /\ PInv'
    <2>1. UNCHANGED vars
      BY <1>3 DEF Cancel, Archive
    <2> QED BY <1>3, <2>1, PositionStepEmpty, ScenarioStepPInv
  <1>4. ASSUME NEW p \in Positions, Dispatch(p) \/ Hire(p) PROVE EInv' /\ PInv'
    <2>1. PInv'
      BY <1>4 DEF Dispatch, Hire, plannerVars, PInv, Aimed, ConsumedIsArchived
    <2> QED BY <1>4, <2>1, PlanItemEmpty
  <1>5. CASE UNCHANGED planningVars
    BY <1>1, <1>5 DEF planningVars
  <1> QED BY <1>1, <1>2, <1>3, <1>4, <1>5 DEF PlannerNext

LEMMA PlannedInductive == PlannerSpec => [](EInv /\ PInv)
  BY PlannedInit, PlannedStep, PTL DEF PlannerSpec

(***************************************************************************)
(* Unfilled positions stay empty although the planner books, proposes and  *)
(* opens positions behind the back of the version check.                   *)
(***************************************************************************)
THEOREM UnfilledEmptyBesidePlanner == PlannerSpec => []UnfilledHasNoHolder
  <1>1. EInv => UnfilledHasNoHolder
    BY DEF EInv
  <1> QED BY <1>1, PlannedInductive, PTL

(***************************************************************************)
(* A scenario that was booked stays archived, whatever updates, cancels    *)
(* and soft deletes write the same row without looking.                    *)
(***************************************************************************)
THEOREM ConsumedStaysArchived == PlannerSpec => []ConsumedIsArchived
  <1>1. PInv => ConsumedIsArchived
    BY DEF PInv
  <1> QED BY <1>1, PlannedInductive, PTL

-----------------------------------------------------------------------------
(* How often a scenario can be booked *)

\* The planner requests that have read s and are about to apply it.
Applying(s) == {a \in Planners : planner[a].pc = "apply" /\ planner[a].scenario = s}

\* Every booking of a scenario, done or about to be, has a request of its own.
ApplyBound ==
  \A s \in Scenarios : applied[s] + Cardinality(Applying(s)) <= Cardinality(Planners)

LEMMA ApplyingFinite ==
  ASSUME NEW s, NEW A \in SUBSET Applying(s)
  PROVE  /\ IsFiniteSet(Applying(s)) /\ Cardinality(A) \in Nat
         /\ Cardinality(Planners) \in Nat
         /\ Cardinality(A) <= Cardinality(Applying(s))
         /\ Cardinality(Applying(s)) <= Cardinality(Planners)
  <1>1. Applying(s) \in SUBSET Planners
    BY DEF Applying
  <1>2. IsFiniteSet(Applying(s)) /\ Cardinality(Applying(s)) <= Cardinality(Planners)
    BY <1>1, PlannerAssumption, FS_Subset
  <1>3. IsFiniteSet(A) /\ Cardinality(A) <= Cardinality(Applying(s))
    BY <1>2, FS_Subset
  <1> QED BY <1>2, <1>3, PlannerAssumption, FS_CardinalityType

\* No further booking is on its way.
LEMMA FewerApplying ==
  ASSUME PInv, ApplyBound, UNCHANGED applied,
         \A s \in Scenarios : Applying(s)' \subseteq Applying(s)
  PROVE  ApplyBound'
  <1> SUFFICES ASSUME NEW s \in Scenarios
               PROVE  applied[s] + Cardinality(Applying(s)') <= Cardinality(Planners)
    BY DEF ApplyBound
  <1>1. applied[s] + Cardinality(Applying(s)) <= Cardinality(Planners) /\ applied[s] \in Nat
    BY DEF ApplyBound, PInv
  <1>2. /\ Cardinality(Applying(s)') \in Nat /\ Cardinality(Applying(s)) \in Nat
        /\ Cardinality(Planners) \in Nat
        /\ Cardinality(Applying(s)') <= Cardinality(Applying(s))
    BY ApplyingFinite
  <1> QED BY <1>1, <1>2

LEMMA ApplyReadBound ==
  ASSUME PInv, ApplyBound, NEW a \in Planners, ApplyRead(a)
  PROVE  ApplyBound'
  <1>1. PICK s \in Scenarios :
          /\ ~ scenario[s].archived
          /\ planner' = [planner EXCEPT ![a] = [pc |-> "apply", scenario |-> s]]
    BY DEF ApplyRead
  <1>2. UNCHANGED applied
    BY DEF ApplyRead
  \* Nobody has booked s yet, so there is a request for every booking.
  <1>3. applied[s] = 0
    BY <1>1 DEF PInv, ConsumedIsArchived
  <1>4. /\ Applying(s)' \in SUBSET Planners
        /\ \A t \in Scenarios \ {s} : Applying(t)' \subseteq Applying(t)
    BY <1>1 DEF Applying, PInv
  <1>5. /\ Cardinality(Applying(s)') <= Cardinality(Planners)
        /\ Cardinality(Applying(s)') \in Nat
    BY <1>4, PlannerAssumption, FS_Subset, FS_CardinalityType
  <1>6. ASSUME NEW t \in Scenarios \ {s}
        PROVE  applied[t] + Cardinality(Applying(t)') <= Cardinality(Planners)
    <2>1. applied[t] + Cardinality(Applying(t)) <= Cardinality(Planners) /\ applied[t] \in Nat
      BY DEF ApplyBound, PInv
    <2>2. /\ Cardinality(Applying(t)') \in Nat /\ Cardinality(Applying(t)) \in Nat
          /\ Cardinality(Planners) \in Nat
          /\ Cardinality(Applying(t)') <= Cardinality(Applying(t))
      BY <1>4, ApplyingFinite
    <2> QED BY <2>1, <2>2
  <1>7. \A t \in Scenarios : applied[t] + Cardinality(Applying(t)') <= Cardinality(Planners)
    BY <1>3, <1>5, <1>6
  <1> QED BY <1>2, <1>7 DEF ApplyBound

LEMMA ApplyCommitBound ==
  ASSUME PInv, ApplyBound, NEW a \in Planners, ApplyCommit(a)
  PROVE  ApplyBound'
  <1>1. PICK s \in Scenarios : s = planner[a].scenario /\ a \in Applying(s)
    BY DEF ApplyCommit, PInv, Aimed, Applying
  <1>2. /\ applied' = [applied EXCEPT ![s] = @ + 1]
        /\ planner' = [planner EXCEPT ![a] = Resting]
    BY <1>1 DEF ApplyCommit
  <1>3. /\ Applying(s)' = Applying(s) \ {a}
        /\ \A t \in Scenarios : Applying(t)' \subseteq Applying(t)
    BY <1>1, <1>2, RestingType DEF Applying, PInv
  <1>4. IsFiniteSet(Applying(s))
    BY ApplyingFinite
  <1>5. Cardinality(Applying(s) \ {a}) = Cardinality(Applying(s)) - 1
    BY <1>1, <1>4, FS_RemoveElement
  <1> SUFFICES ASSUME NEW t \in Scenarios
               PROVE  applied'[t] + Cardinality(Applying(t)') <= Cardinality(Planners)
    BY DEF ApplyBound
  <1>6. applied[t] + Cardinality(Applying(t)) <= Cardinality(Planners) /\ applied[t] \in Nat
    BY DEF ApplyBound, PInv
  <1>7. /\ Cardinality(Applying(t)') \in Nat /\ Cardinality(Applying(t)) \in Nat
        /\ Cardinality(Planners) \in Nat
        /\ Cardinality(Applying(t)') <= Cardinality(Applying(t))
    BY <1>3, ApplyingFinite
  <1>8. CASE t = s
    <2>1. applied'[t] = applied[t] + 1
      BY <1>2, <1>8 DEF PInv
    <2> QED BY <1>3, <1>5, <1>6, <1>7, <1>8, <2>1
  <1>9. CASE t # s
    <2>1. applied'[t] = applied[t]
      BY <1>2, <1>9 DEF PInv
    <2> QED BY <1>6, <1>7, <2>1
  <1> QED BY <1>8, <1>9

LEMMA ApplyBoundStep == PInv /\ ApplyBound /\ [PlannerNext]_planningVars => ApplyBound'
  <1> SUFFICES ASSUME PInv, ApplyBound, [PlannerNext]_planningVars PROVE ApplyBound'
    OBVIOUS
  <1>1. CASE UNCHANGED <<applied, planner>>
    <2>1. \A s \in Scenarios : Applying(s)' \subseteq Applying(s)
      BY <1>1 DEF Applying
    <2> QED BY <1>1, <2>1, FewerApplying
  <1>2. ASSUME NEW a \in Planners, UpdateRead(a) \/ UpdateWrite(a) \/ PlannerFail(a)
        PROVE  ApplyBound'
    <2>1. PICK next : planner' = [planner EXCEPT ![a] = next] /\ next.pc # "apply"
      BY <1>2, RestingType DEF UpdateRead, UpdateWrite, PlannerFail
    <2>2. UNCHANGED applied
      BY <1>2 DEF UpdateRead, UpdateWrite, PlannerFail
    <2>3. \A s \in Scenarios : Applying(s)' \subseteq Applying(s)
      BY <2>1 DEF Applying, PInv
    <2> QED BY <2>2, <2>3, FewerApplying
  <1>3. ASSUME NEW a \in Planners, PlannerStep(a) PROVE ApplyBound'
    BY <1>2, <1>3, ApplyReadBound, ApplyCommitBound DEF PlannerStep
  <1>4. ASSUME NEW s \in Scenarios, Cancel(s) \/ Archive(s) PROVE ApplyBound'
    BY <1>1, <1>4 DEF Cancel, Archive
  <1>5. ASSUME NEW p \in Positions, Dispatch(p) \/ Hire(p) PROVE ApplyBound'
    BY <1>1, <1>5 DEF Dispatch, Hire, plannerVars
  <1>6. CASE UNCHANGED plannerVars
    BY <1>1, <1>6 DEF plannerVars
  <1> QED BY <1>3, <1>4, <1>5, <1>6 DEF PlannerNext, planningVars

LEMMA ApplyBoundInit == PlannerInit => ApplyBound
  <1> SUFFICES ASSUME PlannerInit, NEW s \in Scenarios
               PROVE  applied[s] + Cardinality(Applying(s)) <= Cardinality(Planners)
    BY DEF ApplyBound
  <1>1. applied[s] = 0
    BY DEF PlannerInit
  <1>2. /\ Cardinality(Applying(s)) \in Nat
        /\ Cardinality(Applying(s)) <= Cardinality(Planners)
    BY ApplyingFinite
  <1> QED BY <1>1, <1>2

LEMMA BoundImplies == PInv /\ ApplyBound => OneApplyPerRequest
  <1> SUFFICES ASSUME PInv, ApplyBound, NEW s \in Scenarios
               PROVE  applied[s] <= Cardinality(Planners)
    BY DEF OneApplyPerRequest
  <1>1. applied[s] + Cardinality(Applying(s)) <= Cardinality(Planners) /\ applied[s] \in Nat
    BY DEF ApplyBound, PInv
  <1>2. Cardinality(Applying(s)) \in Nat /\ Cardinality(Planners) \in Nat
    BY ApplyingFinite
  <1> QED BY <1>1, <1>2

LEMMA PlannedBounded == PlannerSpec => [](EInv /\ PInv /\ OneApplyPerRequest)
  <1>1. PlannerSpec => []ApplyBound
    BY ApplyBoundInit, ApplyBoundStep, PlannedInductive, PTL DEF PlannerSpec
  <1> QED BY <1>1, BoundImplies, PlannedInductive, PTL

(***************************************************************************)
(* A scenario is booked at most as often as there are planner requests at  *)
(* a time: the archive mark stops every apply that starts after the first. *)
(***************************************************************************)
THEOREM AppliedOncePerRequest == PlannerSpec => []OneApplyPerRequest
  BY PlannedBounded, PTL

(***************************************************************************)
(* Every reachable state of the planner beside the position write paths is *)
(* well-formed.                                                            *)
(***************************************************************************)
THEOREM PlannerTypeCorrect == PlannerSpec => []PlannerTypeOK
  <1>1. EInv /\ PInv /\ OneApplyPerRequest => PlannerTypeOK
    <2> SUFFICES ASSUME EInv, PInv, OneApplyPerRequest PROVE PlannerTypeOK
      OBVIOUS
    <2>1. Cardinality(Planners) \in Nat /\ MaxApplied \in Nat
      BY PlannerAssumption, FS_CardinalityType
    <2>2. applied \in [Scenarios -> 0 .. MaxApplied + Cardinality(Planners)]
      BY <2>1 DEF PInv, OneApplyPerRequest
    <2> QED BY <2>2 DEF EInv, TypeInv, PInv, Scenario, PlannerTypeOK
  <1> QED BY <1>1, PlannedBounded, PTL

-----------------------------------------------------------------------------
(***************************************************************************)
(* Terminations beside staffing requests.  The invariant of the position   *)
(* table carries over: a release bumps the version it read.                *)
(***************************************************************************)
HrType == /\ employment \in [Persons -> EmploymentStatuses]
          /\ hr \in [HrCommands -> HrCommand]
          /\ \A h \in HrCommands : hr[h].pc # "idle" => hr[h].person \in Persons
          /\ \A h \in HrCommands : hr[h].pc = "find" => hr[h].kind = "terminate"

\* A termination of q that still has every fill before it that it owes.
Covers(h, q) ==
  /\ hr[h].kind = "terminate" /\ hr[h].person = q
  /\ \/ hr[h].pc = "find"
     \/ /\ hr[h].pc \in {"release", "commit"}
        /\ Owed(q) \subseteq hr[h].todo

Covered ==
  \A q \in Persons :
    \/ employment[q] # "TERMINATED"
    \/ q \in stopped
    \/ \E h \in HrCommands : Covers(h, q)
    \/ Owed(q) = {}

HrInv == IInv /\ HrType /\ ProgressIsKept /\ Covered

-----------------------------------------------------------------------------
LEMMA OffFacts ==
  /\ Off \in HrCommand /\ Off.pc = "idle" /\ Off.found = {} /\ Off.todo = {}
BY NoRowType DEF Off, HrCommand, HrKinds

LEMMA HrInvInit == EmploymentInit => HrInv
<1> SUFFICES ASSUME EmploymentInit PROVE HrInv
  OBVIOUS
<1>1. IInv
  BY IInvInit DEF EmploymentInit
<1>2. HrType
  BY OffFacts DEF EmploymentInit, HrType, EmploymentStatuses
<1>3. ProgressIsKept
  BY OffFacts DEF EmploymentInit, ProgressIsKept
<1>4. Covered
  BY DEF EmploymentInit, Init, Covered, EmploymentStatuses
<1> QED BY <1>1, <1>2, <1>3, <1>4 DEF HrInv

-----------------------------------------------------------------------------
(* Staffing requests *)

LEMMA StaffingStep == HrInv /\ Staffing => HrInv'
<1> SUFFICES ASSUME HrInv, Staffing PROVE HrInv'
  OBVIOUS
<1> IInv /\ Next /\ UNCHANGED <<employment, undoable, hr, stopped>>
  BY DEF HrInv, Staffing
<1>1. IInv'
  BY IInvStep
<1>2. HrType'
  BY DEF HrInv, HrType
<1>3. ProgressIsKept'
  <2>1. ASSUME NEW p \in Positions, row[p].status = "RELEASED" PROVE row'[p].status = "RELEASED"
    BY <2>1, RowSteps DEF RowStep, Successor, Absent
  <2>2. \A h \in HrCommands : hr[h].found \subseteq Positions
    BY DEF HrInv, HrType, HrCommand
  <2> QED BY <2>1, <2>2 DEF HrInv, ProgressIsKept
<1>4. Covered'
  <2> SUFFICES ASSUME NEW q \in Persons, employment[q] = "TERMINATED", q \notin stopped
               PROVE  (\E h \in HrCommands : Covers(h, q)') \/ Owed(q)' = {}
    BY DEF Covered
  <2>1. Owed(q)' \subseteq Owed(q)
    BY DEF Staffing, Owed, Held
  <2>2. ASSUME NEW h \in HrCommands, Covers(h, q) PROVE Covers(h, q)'
    BY <2>1, <2>2 DEF Covers
  <2> QED BY <2>1, <2>2 DEF HrInv, Covered
<1> QED BY <1>1, <1>2, <1>3, <1>4 DEF HrInv

-----------------------------------------------------------------------------
(* HR commands *)

LEMMA OwedSame ==
  ASSUME UNCHANGED <<row, excused>>, NEW q PROVE Owed(q)' = Owed(q)
BY DEF Owed, Held, excused

\* Ending a command keeps everything that is said about commands.
LEMMA EndKeeps ==
  ASSUME HrInv, NEW h \in HrCommands, HrEnd(h), UNCHANGED <<row, employment, excused>>,
         \/ stopped' = stopped
            /\ \A q \in Persons : ~ Covers(h, q) \/ Owed(q) = {}
         \/ stopped' = IF hr[h].kind = "terminate" THEN stopped \cup {hr[h].person} ELSE stopped
  PROVE  HrType' /\ ProgressIsKept' /\ Covered'
<1>1. \A g \in HrCommands : hr'[g] = IF g = h THEN Off ELSE hr[g]
  BY DEF HrEnd, HrInv, HrType
<1>2. HrType'
  BY OffFacts DEF HrEnd, HrInv, HrType
<1>3. ProgressIsKept'
  BY <1>1, OffFacts DEF HrInv, ProgressIsKept
<1>4. Covered'
  <2> SUFFICES ASSUME NEW q \in Persons, employment[q] = "TERMINATED", q \notin stopped'
               PROVE  (\E g \in HrCommands : Covers(g, q)') \/ Owed(q)' = {}
    BY DEF Covered
  <2>1. q \notin stopped /\ Owed(q)' = Owed(q)
    BY OwedSame
  <2>2. ASSUME NEW g \in HrCommands \ {h}, Covers(g, q) PROVE Covers(g, q)'
    BY <1>1, <2>1, <2>2 DEF Covers
  <2>3. CASE Covers(h, q)
    BY <2>1, <2>3 DEF Covers
  <2> QED BY <2>1, <2>2, <2>3 DEF HrInv, Covered
<1> QED BY <1>2, <1>3, <1>4

\* A command that moves on without touching a row, or a person.
LEMMA MoveKeeps ==
  ASSUME HrInv, NEW h \in HrCommands, NEW x \in HrCommand, hr' = [hr EXCEPT ![h] = x],
         UNCHANGED <<row, employment, stopped, excused>>,
         x.person \in Persons, x.pc = "find" => x.kind = "terminate",
         \A p \in x.found \ x.todo : row[p].status = "RELEASED",
         \A q \in Persons : Covers(h, q) => Covers(h, q)'
  PROVE  HrType' /\ ProgressIsKept' /\ Covered'
<1>1. \A g \in HrCommands : hr'[g] = IF g = h THEN x ELSE hr[g]
  BY DEF HrInv, HrType
<1>2. HrType'
  BY <1>1 DEF HrInv, HrType
<1>3. ProgressIsKept'
  BY <1>1 DEF HrInv, ProgressIsKept
<1>4. Covered'
  <2> SUFFICES ASSUME NEW q \in Persons, employment[q] = "TERMINATED", q \notin stopped
               PROVE  (\E g \in HrCommands : Covers(g, q)') \/ Owed(q)' = {}
    BY DEF Covered
  <2>1. Owed(q)' = Owed(q)
    BY OwedSame
  <2>2. ASSUME NEW g \in HrCommands, Covers(g, q) PROVE Covers(g, q)'
    BY <1>1, <2>1, <2>2 DEF Covers
  <2> QED BY <2>1, <2>2 DEF HrInv, Covered
<1> QED BY <1>2, <1>3, <1>4

LEMMA IInvKept == ASSUME IInv, UNCHANGED vars PROVE IInv'
BY IInvStep

LEMMA SaveStep ==
  ASSUME HrInv, NEW h \in HrCommands, HrSave(h)
  PROVE  HrInv'
<1> DEFINE c == hr[h]
           x == [c EXCEPT !.pc = AfterSave(c.kind)]
<1>1. c \in HrCommand /\ c.person \in Persons /\ c.kind \in HrKinds
  BY DEF HrInv, HrType, HrSave, HrCommand
<1>2. /\ StatusAfter(c.kind) \in EmploymentStatuses
      /\ AfterSave(c.kind) \in {"find", "register", "mark"}
      /\ c.kind = "terminate" => AfterSave(c.kind) = "find"
      /\ c.kind # "terminate" => StatusAfter(c.kind) # "TERMINATED" /\ AfterSave(c.kind) # "find"
  BY <1>1 DEF HrKinds, StatusAfter, AfterSave, EmploymentStatuses
<1>3. x \in HrCommand /\ x.pc = AfterSave(c.kind) /\ x.kind = c.kind /\ x.person = c.person
        /\ x.found = c.found /\ x.todo = c.todo
  BY <1>1, <1>2 DEF HrCommand
<1>4. \A g \in HrCommands : hr'[g] = IF g = h THEN x ELSE hr[g]
  BY DEF HrSave, HrInv, HrType
<1>5. HrType'
  BY <1>1, <1>2, <1>3, <1>4 DEF HrSave, HrInv, HrType
<1>6. ProgressIsKept'
  BY <1>3, <1>4 DEF HrSave, HrInv, ProgressIsKept
<1>7. Covered'
  <2> SUFFICES ASSUME NEW q \in Persons, employment'[q] = "TERMINATED", q \notin stopped
               PROVE  (\E g \in HrCommands : Covers(g, q)') \/ Owed(q)' = {}
    BY DEF Covered, HrSave
  <2>1. Owed(q)' = Owed(q)
    BY OwedSame DEF HrSave
  <2>2. CASE q = c.person
    <3>1. c.kind = "terminate"
      BY <1>1, <1>2, <2>2 DEF HrSave, HrInv, HrType
    <3> QED BY <1>2, <1>3, <1>4, <2>2, <3>1 DEF Covers
  <2>3. CASE q # c.person
    <3>1. employment[q] = "TERMINATED"
      BY <2>3 DEF HrSave, HrInv, HrType
    <3>2. ASSUME NEW g \in HrCommands, Covers(g, q) PROVE Covers(g, q)'
      BY <1>4, <2>1, <2>3, <3>2 DEF Covers
    <3> QED BY <2>1, <3>1, <3>2 DEF HrInv, Covered
  <2> QED BY <2>2, <2>3
<1>8. IInv'
  <2>1. active' \subseteq Persons
    BY DEF HrSave
  <2> QED BY <2>1 DEF HrSave, HrInv, IInv, TypeInv, TypeOK, ChargedIsPerson, AbsentIsNew,
                      UnfilledHasNoHolder, Sound
<1> QED BY <1>5, <1>6, <1>7, <1>8 DEF HrInv

LEMMA ReleaseStep ==
  ASSUME HrInv, NEW h \in HrCommands, ReleaseCommit(h)
  PROVE  HrInv'
<1> DEFINE c == hr[h]
<1>0. c \in HrCommand /\ c.person \in Persons /\ c.pc = "commit"
  BY DEF HrInv, HrType, ReleaseCommit
<1>1. PICK p \in c.at :
        IF row[p].version = c.seen.version
        THEN /\ row' = [row EXCEPT ![p] = Released(c.seen)]
             /\ ledger' = [ledger EXCEPT ![p] = EntryFor(c.seen, Released(c.seen))]
             /\ hr' = [hr EXCEPT ![h].pc = "release", ![h].at = {}, ![h].seen = NoRow,
                                 ![h].todo = @ \ {p}]
             /\ UNCHANGED stopped
        ELSE HrStop(h) /\ UNCHANGED <<row, ledger>>
  BY DEF ReleaseCommit
<1>2. UNCHANGED <<overridden, active, req, employment, undoable, excused>>
  BY DEF ReleaseCommit
<1>3. CASE row[p].version # c.seen.version
  <2>1. HrStop(h) /\ UNCHANGED vars
    BY <1>1, <1>2, <1>3 DEF vars
  <2> QED BY <1>2, <2>1, EndKeeps, IInvKept DEF HrStop, HrInv, vars
<1>4. CASE row[p].version = c.seen.version
  <2> DEFINE y == Released(c.seen)
  <2>1. p \in Positions /\ c.seen \in Row
    BY <1>0 DEF HrCommand
  <2>2. y \in Row /\ y.version = c.seen.version + 1 /\ y.status = "RELEASED"
    BY <2>1, TransitionedType DEF Released, FillStatuses
  <2>3. row' = [row EXCEPT ![p] = y] /\ row \in [Positions -> Row]
    BY <1>1, <1>4 DEF HrInv, IInv, TypeInv, TypeOK
  <2>4. \A o \in Positions : row'[o] = IF o = p THEN y ELSE row[o]
    BY <2>3
  <2>5. IInv'
    <3>1. EntryFor(c.seen, y) \in Entry
      BY <2>1, <2>2 DEF EntryFor, Entry, Row
    <3>2. TypeInv'
      BY <1>1, <1>2, <1>4, <2>1, <2>2, <2>3, <3>1
         DEF HrInv, IInv, TypeInv, TypeOK, ChargedIsPerson
    <3>3. \A o \in Positions : row'[o] = row[o] \/ row'[o].version > row[o].version
      BY <1>4, <2>1, <2>2, <2>4 DEF Row
    <3>4. AbsentIsNew' /\ UnfilledHasNoHolder'
      BY <2>2, <2>4 DEF HrInv, IInv, AbsentIsNew, UnfilledHasNoHolder, Absent
    <3> QED BY <1>2, <3>2, <3>3, <3>4, ProgressInv DEF HrInv
  <2> DEFINE x1 == [c EXCEPT !.pc = "release"]
             x2 == [x1 EXCEPT !.at = {}]
             x3 == [x2 EXCEPT !.seen = NoRow]
             x  == [x3 EXCEPT !.todo = c.todo \ {p}]
  <2>6. /\ x \in HrCommand /\ x.pc = "release" /\ x.kind = c.kind /\ x.person = c.person
        /\ x.found = c.found /\ x.todo = c.todo \ {p}
    BY <1>0, NoRowType DEF HrCommand
  <2>7. hr' = [hr EXCEPT ![h] = x]
    BY <1>1, <1>4 DEF HrInv, HrType
  <2> HIDE DEF x
  <2>8. \A g \in HrCommands : hr'[g] = IF g = h THEN x ELSE hr[g]
    BY <2>7 DEF HrInv, HrType
  <2>9. HrType'
    BY <1>0, <1>2, <2>6, <2>7, <2>8 DEF HrInv, HrType
  <2>10. ProgressIsKept'
    <3>1. \A g \in HrCommands : hr[g].found \subseteq Positions
      BY DEF HrInv, HrType, HrCommand
    <3> QED BY <2>2, <2>4, <2>6, <2>8, <3>1 DEF HrInv, ProgressIsKept
  <2>11. Covered'
    <3> SUFFICES ASSUME NEW q \in Persons, employment[q] = "TERMINATED", q \notin stopped
                 PROVE  (\E g \in HrCommands : Covers(g, q)') \/ Owed(q)' = {}
      BY <1>1, <1>2, <1>4 DEF Covered
    <3>1. Owed(q)' \subseteq Owed(q) \ {p}
      BY <1>2, <2>2, <2>4 DEF Owed, Held, ActiveFill, excused
    <3>2. ASSUME NEW g \in HrCommands, Covers(g, q) PROVE Covers(g, q)'
      BY <1>0, <1>2, <2>6, <2>8, <3>1, <3>2 DEF Covers
    <3> QED BY <1>1, <1>2, <1>4, <3>1, <3>2 DEF HrInv, Covered
  <2> QED BY <2>5, <2>9, <2>10, <2>11 DEF HrInv
<1> QED BY <1>3, <1>4

LEMMA FindStep ==
  ASSUME HrInv, NEW h \in HrCommands, FindFills(h)
  PROVE  HrInv'
<1> DEFINE c == hr[h]
<1>1. c \in HrCommand /\ c.person \in Persons /\ c.kind = "terminate"
  BY DEF FindFills, HrInv, HrType
<1>2. PICK away \in SUBSET Held(c.person) :
        /\ hr' = [hr EXCEPT ![h].pc = "release", ![h].found = Found(c.person, away),
                            ![h].todo = Found(c.person, away)]
        /\ outside' = {x \in outside : x[1] # c.person} \cup ({c.person} \X away)
  BY DEF FindFills
<1>3. UNCHANGED <<vars, employment, undoable, stopped, late>>
  BY DEF FindFills
<1> DEFINE found == Found(c.person, away)
           x1 == [c EXCEPT !.pc = "release"]
           x2 == [x1 EXCEPT !.found = found]
           x  == [x2 EXCEPT !.todo = found]
<1>4. found \subseteq Positions /\ found = Held(c.person) \ away
  BY DEF Held, Found
<1>5. /\ x \in HrCommand /\ x.pc = "release" /\ x.kind = "terminate" /\ x.person = c.person
      /\ x.found = found /\ x.todo = found
  BY <1>1, <1>4 DEF HrCommand
<1>6. hr' = [hr EXCEPT ![h] = x]
  BY <1>2 DEF HrInv, HrType
<1> HIDE DEF x, found
<1>7. \A g \in HrCommands : hr'[g] = IF g = h THEN x ELSE hr[g]
  BY <1>6 DEF HrInv, HrType
<1>8. HrType'
  BY <1>1, <1>3, <1>5, <1>6, <1>7 DEF HrInv, HrType
<1>9. ProgressIsKept'
  BY <1>3, <1>5, <1>7 DEF HrInv, ProgressIsKept, vars
<1>10. Covered'
  <2> SUFFICES ASSUME NEW q \in Persons, employment[q] = "TERMINATED", q \notin stopped
               PROVE  (\E g \in HrCommands : Covers(g, q)') \/ Owed(q)' = {}
    BY <1>3 DEF Covered
  <2>1. Held(q)' = Held(q)
    BY <1>3 DEF Held, vars
  <2>2. CASE q = c.person
    <3>1. \A p \in away : <<q, p>> \in outside'
      BY <1>2, <2>2
    <3>2. Owed(q)' \subseteq found
      BY <1>4, <2>1, <2>2, <3>1 DEF Owed
    <3> QED BY <1>5, <1>7, <2>2, <3>2 DEF Covers
  <2>3. CASE q # c.person
    <3>1. \A p : <<q, p>> \in outside' <=> <<q, p>> \in outside
      BY <1>2, <2>3
    <3>2. Owed(q)' = Owed(q)
      BY <1>3, <2>1, <3>1 DEF Owed
    <3>3. ASSUME NEW g \in HrCommands, Covers(g, q) PROVE g # h /\ Covers(g, q)'
      BY <1>7, <2>3, <3>2, <3>3 DEF Covers
    <3> QED BY <3>2, <3>3 DEF HrInv, Covered
  <2> QED BY <2>2, <2>3
<1> QED BY <1>3, <1>8, <1>9, <1>10, IInvKept DEF HrInv

LEMMA HrStepKeeps ==
  ASSUME HrInv, NEW h \in HrCommands, HrStep(h)
  PROVE  HrInv'
<1> DEFINE c == hr[h]
<1> c \in HrCommand
  BY DEF HrInv, HrType
<1>1. CASE HrRead(h)
  <2>1. PICK kind \in HrKinds, q \in Persons :
          hr' = [hr EXCEPT ![h] = [Off EXCEPT !.pc = "save", !.kind = kind, !.person = q]]
    BY <1>1 DEF HrRead
  <2> DEFINE x1 == [Off EXCEPT !.pc = "save"]
             x2 == [x1 EXCEPT !.kind = kind]
             x  == [x2 EXCEPT !.person = q]
  <2>2. x \in HrCommand /\ x.pc = "save" /\ x.person = q /\ x.found = {}
    BY OffFacts DEF HrCommand
  <2>3. hr' = [hr EXCEPT ![h] = x]
    BY <2>1
  <2>4. \A z \in Persons : ~ Covers(h, z)
    BY <1>1 DEF HrRead, Covers
  <2> HIDE DEF x
  <2> QED BY <1>1, <2>2, <2>3, <2>4, MoveKeeps, IInvKept DEF HrRead, HrInv, vars
<1>2. CASE HrSave(h)
  BY <1>2, SaveStep
<1>3. CASE RegisterToken(h) \/ ConsumeToken(h)
  <2>1. \A q \in Persons : ~ Covers(h, q)
    BY <1>3 DEF RegisterToken, ConsumeToken, Covers
  <2> QED BY <1>3, <2>1, EndKeeps, IInvKept DEF RegisterToken, ConsumeToken, HrInv, vars
<1>4. CASE FindFills(h)
  BY <1>4, FindStep
<1>5. CASE ReleaseRead(h)
  <2>1. CASE HrStop(h)
    BY <1>5, <2>1, EndKeeps, IInvKept DEF ReleaseRead, HrStop, HrInv, vars
  <2>2. CASE ~ HrStop(h)
    <3>1. PICK p \in c.todo :
            /\ hr' = [hr EXCEPT ![h].pc = "commit", ![h].at = {p}, ![h].seen = row[p]]
            /\ UNCHANGED stopped
      BY <1>5, <2>2 DEF ReleaseRead
    <3> DEFINE x1 == [c EXCEPT !.pc = "commit"]
               x2 == [x1 EXCEPT !.at = {p}]
               x  == [x2 EXCEPT !.seen = row[p]]
    <3>2. p \in Positions /\ row[p] \in Row
      BY DEF HrInv, IInv, TypeInv, TypeOK, HrCommand
    <3>3. /\ x \in HrCommand /\ x.pc = "commit" /\ x.kind = c.kind /\ x.person = c.person
          /\ x.found = c.found /\ x.todo = c.todo
      BY <3>2 DEF HrCommand
    <3>4. hr' = [hr EXCEPT ![h] = x]
      BY <3>1 DEF HrInv, HrType
    <3>5. c.person \in Persons /\ c.pc = "release"
      BY <1>5 DEF ReleaseRead, HrInv, HrType
    <3>6. \A o \in c.found \ c.todo : row[o].status = "RELEASED"
      BY DEF HrInv, ProgressIsKept
    <3> HIDE DEF x
    <3>7. hr'[h] = x /\ UNCHANGED <<row, excused>>
      BY <1>5, <3>4 DEF ReleaseRead, HrInv, HrType, vars
    <3>8. \A q \in Persons : Covers(h, q) => Covers(h, q)'
      BY <3>3, <3>5, <3>7, OwedSame DEF Covers
    <3> QED BY <1>5, <3>1, <3>3, <3>4, <3>5, <3>6, <3>8, MoveKeeps, IInvKept
            DEF ReleaseRead, HrInv, vars
  <2> QED BY <2>1, <2>2
<1>6. CASE ReleaseCommit(h)
  BY <1>6, ReleaseStep
<1>7. CASE ReleaseDone(h)
  <2>1. \A q \in Persons : ~ Covers(h, q) \/ Owed(q) = {}
    BY <1>7 DEF ReleaseDone, Covers
  <2> QED BY <1>7, <2>1, EndKeeps, IInvKept DEF ReleaseDone, HrInv, vars
<1>8. CASE HrFail(h)
  BY <1>8, EndKeeps, IInvKept DEF HrFail, HrStop, HrInv, vars
<1> QED BY <1>1, <1>2, <1>3, <1>4, <1>5, <1>6, <1>7, <1>8 DEF HrStep

LEMMA HrInductive == EmploymentSpec => []HrInv
<1>1. HrInv /\ [EmploymentNext]_employmentVars => HrInv'
  <2> SUFFICES ASSUME HrInv, [EmploymentNext]_employmentVars PROVE HrInv'
    OBVIOUS
  <2>1. CASE Staffing
    BY <2>1, StaffingStep
  <2>2. CASE UNCHANGED employmentVars
    <3>1. IInv'
      BY <2>2, IInvKept DEF HrInv, employmentVars
    <3>2. HrType' /\ ProgressIsKept' /\ Covered'
      BY <2>2, OwedSame DEF employmentVars, vars, hrVars, HrInv, HrType, ProgressIsKept, Covered, Covers
    <3> QED BY <3>1, <3>2 DEF HrInv
  <2> QED BY <2>1, <2>2, HrStepKeeps DEF EmploymentNext
<1> QED BY <1>1, HrInvInit, PTL DEF EmploymentSpec

-----------------------------------------------------------------------------
(***************************************************************************)
(* What a termination released stays released while it goes on, for any    *)
(* staffing requests and other HR commands beside it.                      *)
(***************************************************************************)
THEOREM ReleasesAreKept == EmploymentSpec => []ProgressIsKept
<1>1. HrInv => ProgressIsKept
  BY DEF HrInv
<1> QED BY <1>1, HrInductive, PTL

(***************************************************************************)
(* A terminated person holds only fills that came after the termination or *)
(* whose window leaves out its day, unless a termination of his ended      *)
(* early or is still at work.                                              *)
(***************************************************************************)
THEOREM TerminatedLetsGo == EmploymentSpec => []TerminatedHoldsOnlyLate
<1>1. HrInv => TerminatedHoldsOnlyLate
  BY DEF HrInv, Covered, Covers, TerminatedHoldsOnlyLate
<1> QED BY <1>1, HrInductive, PTL
-----------------------------------------------------------------------------
(* The rest of the types *)

RestType == /\ active = {q \in Persons : employment[q] = "ACTIVE"}
            /\ undoable \subseteq Persons
            /\ stopped \subseteq Persons
            /\ late \subseteq Persons \X Positions
            /\ outside \subseteq Persons \X Positions

\* No staffing request hires or dismisses anybody.
LEMMA StaffingKeepsActive == Next => active' = active
BY DEF Next, Create, RequestStep, TransitionRead, BulkStart, BulkRead, CheckAllocation, Commit,
       BookStart, BookCheck, BookCommit, Fail, Guarded, Proceed, Refuse

LEMMA RestTypeStep ==
  ASSUME HrInv, RestType, [EmploymentNext]_employmentVars
  PROVE  RestType'
<1>1. CASE Staffing
  BY <1>1, StaffingKeepsActive DEF Staffing, RestType
<1>2. ASSUME NEW h \in HrCommands, HrStep(h) PROVE RestType'
  <2>1. hr[h].pc # "idle" => hr[h].person \in Persons
    BY DEF HrInv, HrType
  <2>2. CASE HrSave(h)
    BY <2>2 DEF HrSave, RestType, excused
  <2>3. CASE ~ HrSave(h)
    <3>1. UNCHANGED <<active, employment, late>>
      BY <1>2, <2>3 DEF HrStep, HrRead, RegisterToken, ConsumeToken, FindFills, ReleaseRead,
                        ReleaseCommit, ReleaseDone, HrFail, vars, excused
    <3>0. outside' \subseteq Persons \X Positions
      <4>1. CASE FindFills(h)
        BY <2>1, <4>1 DEF FindFills, Held, RestType
      <4>2. CASE ~ FindFills(h)
        BY <1>2, <2>3, <4>2 DEF HrStep, HrRead, RegisterToken, ConsumeToken, ReleaseRead,
                                ReleaseCommit, ReleaseDone, HrFail, excused, RestType
      <4> QED BY <4>1, <4>2
    <3>2. undoable' \subseteq Persons
      BY <1>2, <2>1, <2>3 DEF HrStep, HrRead, RegisterToken, ConsumeToken, FindFills,
                              ReleaseRead, ReleaseCommit, ReleaseDone, HrFail, RestType
    <3>3. stopped' = stopped \/ (hr[h].pc # "idle" /\ stopped' \subseteq stopped \cup {hr[h].person})
      BY <1>2, <2>3 DEF HrStep, HrRead, RegisterToken, ConsumeToken, FindFills,
                        ReleaseRead, ReleaseCommit, ReleaseDone, HrFail, HrStop
    <3> QED BY <2>1, <3>0, <3>1, <3>2, <3>3 DEF RestType
  <2> QED BY <2>2, <2>3
<1>3. CASE UNCHANGED employmentVars
  BY <1>3 DEF employmentVars, vars, hrVars, excused, RestType
<1> QED BY <1>1, <1>2, <1>3 DEF EmploymentNext

-----------------------------------------------------------------------------
(* A release is a legal save of the row it read *)

\* What a termination read of the row in its hands, and the row as it is.
SeenSound(c, rows) ==
  c.pc = "commit" =>
    \A p \in c.at :
      /\ c.seen.status \notin {Absent, "RELEASED"}
      /\ c.seen.version <= rows[p].version
      /\ c.seen.version = rows[p].version => c.seen = rows[p]

ReleaseSound == \A h \in HrCommands : SeenSound(hr[h], row)

LEMMA ReleasedSuccessor ==
  ASSUME NEW x \in Row, x.status \notin {Absent, "RELEASED"}
  PROVE  Successor(x, Released(x))
<1>1. HasEdge(x.status, "RELEASED")
  <2> DEFINE e == Edge(x.status, "RELEASED", PmDmDirectorRmAdmin, TRUE)
  <2>1. e \in FillTransitions
    BY DEF Row, FillTransitions
  <2>2. e.from = x.status /\ e.to = "RELEASED"
    BY DEF Edge
  <2> QED BY <2>1, <2>2 DEF HasEdge
<1> DEFINE y == Released(x)
<1>2. y.status = "RELEASED" /\ y.version = x.version + 1
  BY TransitionedType DEF Released, FillStatuses
<1>3. "RELEASED" \notin FillTargets /\ ~ RejectsCandidate(x.status, "RELEASED")
  BY DEF FillTargets, RejectsCandidate
<1>4. y.person = x.person
  BY <1>3 DEF Released, Transitioned
<1> HIDE DEF y
<1>5. Successor(x, y)
  BY <1>1, <1>2, <1>3, <1>4 DEF Successor, LegalMove, Absent
<1> QED BY <1>5 DEF y

\* Rows only move on in their versions, so what was read stays sound.
LEMMA SeenSoundKept ==
  ASSUME HrInv, TypeInv', NEW h \in HrCommands, SeenSound(hr[h], row),
         \A p \in Positions : \/ row'[p] = row[p]
                              \/ row[p].status = Absent
                              \/ Successor(row[p], row'[p])
  PROVE  SeenSound(hr[h], row')
<1> SUFFICES ASSUME hr[h].pc = "commit", NEW p \in hr[h].at
             PROVE  /\ hr[h].seen.status \notin {Absent, "RELEASED"}
                    /\ hr[h].seen.version <= row'[p].version
                    /\ hr[h].seen.version = row'[p].version => hr[h].seen = row'[p]
  BY DEF SeenSound
<1>1. p \in Positions /\ hr[h].seen.version \in Nat /\ row[p].version \in Nat
  BY DEF HrInv, HrType, HrCommand, IInv, TypeInv, TypeOK, Row
<1>2. row[p].status = Absent => row[p].version = 0
  BY <1>1 DEF HrInv, IInv, AbsentIsNew
<1>3. row[p].status # Absent
  BY <1>1, <1>2 DEF SeenSound
<1> QED BY <1>1, <1>3 DEF SeenSound, Successor

\* The ways a step of the composition can touch a row.
LEMMA EmploymentRowSteps ==
  ASSUME HrInv, ReleaseSound, [EmploymentNext]_employmentVars, NEW p \in Positions
  PROVE  RowStep(p)
<1>1. CASE Next
  BY <1>1, RowSteps DEF HrInv
<1>2. ASSUME NEW h \in HrCommands, ReleaseCommit(h), row' # row
      PROVE  \/ row'[p] = row[p]
             \/ Successor(row[p], row'[p]) /\ ledger'[p] = EntryFor(row[p], row'[p])
  <2> DEFINE x == hr[h].seen
  <2>1. PICK o \in hr[h].at : /\ row[o].version = x.version
                              /\ row' = [row EXCEPT ![o] = Released(x)]
                              /\ ledger' = [ledger EXCEPT ![o] = EntryFor(x, Released(x))]
    BY <1>2 DEF ReleaseCommit
  <2>2. /\ o \in Positions /\ x \in Row
        /\ row \in [Positions -> Row] /\ ledger \in [Positions -> Entry]
    BY DEF HrInv, HrType, HrCommand, IInv, TypeInv, TypeOK
  <2>3. x = row[o] /\ x.status \notin {Absent, "RELEASED"}
    BY <1>2, <2>1, <2>2 DEF ReleaseSound, SeenSound, ReleaseCommit
  <2>4. Successor(x, Released(x))
    BY <2>2, <2>3, ReleasedSuccessor
  <2> HIDE DEF x
  <2> QED BY <2>1, <2>2, <2>3, <2>4
<1>3. ASSUME NEW h \in HrCommands, HrStep(h), ~ ReleaseCommit(h) PROVE row' = row
  BY <1>3 DEF HrStep, HrRead, HrSave, RegisterToken, ConsumeToken, FindFills, ReleaseRead,
              ReleaseDone, HrFail, vars
<1>4. CASE UNCHANGED employmentVars
  BY <1>4 DEF employmentVars, vars, RowStep
<1> QED BY <1>1, <1>2, <1>3, <1>4 DEF EmploymentNext, Staffing, RowStep

LEMMA ReleaseSoundStep ==
  ASSUME HrInv, HrInv', ReleaseSound, [EmploymentNext]_employmentVars
  PROVE  ReleaseSound'
<1>1. \A h \in HrCommands : SeenSound(hr[h], row')
  BY EmploymentRowSteps, SeenSoundKept DEF ReleaseSound, HrInv, IInv, RowStep
<1>2. ASSUME NEW h \in HrCommands, HrStep(h), NEW g \in HrCommands
      PROVE  hr'[g] = hr[g] \/ SeenSound(hr'[g], row')
  <2>1. \A d : d.pc # "commit" => SeenSound(d, row')
    BY DEF SeenSound
  <2>2. ASSUME NEW d, hr' = [hr EXCEPT ![h] = d], d.pc # "commit"
        PROVE  hr'[g] = hr[g] \/ SeenSound(hr'[g], row')
    BY <2>1, <2>2 DEF HrInv, HrType
  <2>3. CASE HrEnd(h)
    BY <2>2, <2>3, OffFacts DEF HrEnd
  <2>4. CASE ReleaseRead(h) /\ ~ HrEnd(h)
    <3>1. PICK p \in hr[h].todo :
            /\ MayTransition(row[p], "RELEASED", "admin", TRUE, NoPerson)
            /\ hr' = [hr EXCEPT ![h].pc = "commit", ![h].at = {p}, ![h].seen = row[p]]
      BY <2>4 DEF ReleaseRead, HrStop
    <3> DEFINE d1 == [hr[h] EXCEPT !.pc = "commit"]
               d2 == [d1 EXCEPT !.at = {p}]
               d  == [d2 EXCEPT !.seen = row[p]]
    <3>2. hr[h] \in HrCommand /\ p \in Positions /\ row[p] \in Row /\ row' = row
      BY <2>4 DEF ReleaseRead, vars, HrInv, HrType, HrCommand, IInv, TypeInv, TypeOK
    <3>3. d.at = {p} /\ d.seen = row[p]
      BY <3>2 DEF HrCommand
    <3>4. hr' = [hr EXCEPT ![h] = d]
      BY <3>1 DEF HrInv, HrType
    <3>5. row[p].status \notin {Absent, "RELEASED"}
      BY <3>1, EdgeFacts, StatusFacts DEF MayTransition
    <3> HIDE DEF d
    <3>6. SeenSound(d, row')
      BY <3>2, <3>3, <3>5 DEF SeenSound, Row
    <3> QED BY <3>4, <3>6 DEF HrInv, HrType
  <2>5. CASE HrRead(h) \/ HrSave(h) \/ FindFills(h) \/ (ReleaseCommit(h) /\ ~ HrEnd(h))
    <3>1. hr'[g] = hr[g] \/ hr'[g].pc # "commit"
      <4>1. CASE HrRead(h)
        <5>1. PICK kind \in HrKinds, q \in Persons :
                hr' = [hr EXCEPT ![h] = [Off EXCEPT !.pc = "save", !.kind = kind, !.person = q]]
          BY <4>1 DEF HrRead
        <5>2. [Off EXCEPT !.pc = "save", !.kind = kind, !.person = q].pc = "save"
          BY DEF Off
        <5> QED BY <5>1, <5>2 DEF HrInv, HrType
      <4>2. CASE HrSave(h)
        <5>1. AfterSave(hr[h].kind) \in {"find", "register", "mark"}
          BY DEF HrInv, HrType, HrCommand, HrKinds, AfterSave
        <5> QED BY <4>2, <5>1 DEF HrSave, HrInv, HrType, HrCommand
      <4>3. CASE FindFills(h)
        BY <4>3 DEF FindFills, HrInv, HrType, HrCommand
      <4>4. CASE ReleaseCommit(h) /\ ~ HrEnd(h)
        <5>1. PICK p : hr' = [hr EXCEPT ![h].pc = "release", ![h].at = {}, ![h].seen = NoRow,
                                        ![h].todo = @ \ {p}]
          BY <4>4 DEF ReleaseCommit, HrStop
        <5> QED BY <5>1 DEF HrInv, HrType, HrCommand
      <4> QED BY <2>5, <4>1, <4>2, <4>3, <4>4
    <3> QED BY <2>1, <3>1
  <2> QED BY <1>2, <2>3, <2>4, <2>5
          DEF HrStep, RegisterToken, ConsumeToken, ReleaseDone, HrFail, HrStop
<1>3. CASE hr' = hr
  BY <1>1, <1>3 DEF ReleaseSound
<1> QED BY <1>1, <1>2, <1>3 DEF EmploymentNext, Staffing, employmentVars, hrVars, ReleaseSound

LEMMA HrAll == EmploymentSpec => [](HrInv /\ RestType /\ ReleaseSound)
<1>1. EmploymentInit => RestType /\ ReleaseSound
  <2> SUFFICES ASSUME EmploymentInit PROVE RestType /\ ReleaseSound
    OBVIOUS
  <2>1. RestType
    BY PersonAssumption DEF EmploymentInit, Init, RestType
  <2>2. ReleaseSound
    BY OffFacts DEF EmploymentInit, ReleaseSound, SeenSound
  <2> QED BY <2>1, <2>2
<1>2. HrInv /\ HrInv' /\ RestType /\ ReleaseSound /\ [EmploymentNext]_employmentVars
        => RestType' /\ ReleaseSound'
  BY RestTypeStep, ReleaseSoundStep
<1> QED BY <1>1, <1>2, HrInductive, PTL DEF EmploymentSpec

(***************************************************************************)
(* Every reachable state of the composition is well-formed: in particular  *)
(* the persons a staffing request may book are those who are ACTIVE.       *)
(***************************************************************************)
THEOREM EmploymentTypeCorrect == EmploymentSpec => []EmploymentTypeOK
<1>1. HrInv /\ RestType => EmploymentTypeOK
  BY DEF HrInv, HrType, RestType, EmploymentTypeOK, IInv, TypeInv
<1> QED BY <1>1, HrAll, PTL

(***************************************************************************)
(* The releases of a termination leave the same exact trail as the         *)
(* ordinary transitions, although they run beside them.                    *)
(***************************************************************************)
THEOREM AuditTrailBesideHr == EmploymentSpec => AuditTrailExact
<1>1. HrInv /\ ReleaseSound /\ [EmploymentNext]_employmentVars =>
        [\A p \in Positions :
           row[p].status # Absent
           /\ <<row'[p].status, row'[p].person>> # <<row[p].status, row[p].person>>
             => ledger'[p] = EntryFor(row[p], row'[p])]_vars
  BY EmploymentRowSteps DEF RowStep
<1> QED BY <1>1, HrAll, PTL DEF EmploymentSpec, AuditTrailExact

(***************************************************************************)
(* A position released by a termination, or before it, is never written    *)
(* again, by whichever of the two.                                         *)
(***************************************************************************)
THEOREM ReleaseIsFinalBesideHr == EmploymentSpec => ReleasedIsFinal
<1>1. HrInv /\ ReleaseSound /\ [EmploymentNext]_employmentVars =>
        [\A p \in Positions : row[p].status = "RELEASED" => row'[p] = row[p]]_vars
  BY EmploymentRowSteps DEF RowStep, Successor, Absent
<1> QED BY <1>1, HrAll, PTL DEF EmploymentSpec, ReleasedIsFinal

(***************************************************************************)
(* Staffing requests and terminations together still implement the         *)
(* abstract life of the positions: a termination drives its fills along    *)
(* the documented edges like anybody else.                                 *)
(***************************************************************************)
THEOREM RefinementBesideHr == EmploymentSpec => ImplementsLifecycle
<1>1. EmploymentInit => Lifecycle!Init
  BY LifecycleInit DEF EmploymentInit
<1>2. HrInv /\ HrInv' /\ ReleaseSound /\ [EmploymentNext]_employmentVars
        => [Lifecycle!Next]_Lifecycle!vars
  BY EmploymentRowSteps, LifecycleStep DEF HrInv, IInv
<1> QED BY <1>1, <1>2, HrAll, PTL DEF EmploymentSpec, ImplementsLifecycle, Lifecycle!Spec
=============================================================================
