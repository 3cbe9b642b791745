-------------------------- MODULE ProjectPositions --------------------------
(***************************************************************************)
(* The write paths of the project-positions module over one PostgreSQL     *)
(* table: create, fill-status transition, bulk reassign, create-and-book.  *)
(* A request is a process: it reads rows, decides on what it read, checks  *)
(* the person's allocation in a query of its own, and commits in a         *)
(* transaction guarded by the row versions it read.  Requests interleave   *)
(* between any two of these steps, and any of them may die in between.     *)
(* All fill windows are taken to overlap.                                  *)
(***************************************************************************)
EXTENDS PositionFill, FiniteSetsExt

CONSTANTS Positions, Persons, Requests,
          Allocs,       \* percentages a request may ask for
          Required,     \* requiredAllocationPercent of a created position
          KeepPerson,   \* bulk reassign without toPersonId
          InitiallyActive, \* persons employed (ACTIVE) at the start
          MaxVersion    \* bound: no request starts on a row this far along

Cap == 100

ASSUME PersonAssumption == /\ NoPerson \notin Persons
                           /\ KeepPerson \notin Persons \cup {NoPerson}
                           /\ InitiallyActive \subseteq Persons
ASSUME PositionAssumption == IsFiniteSet(Positions) /\ IsFiniteSet(Requests)
ASSUME AllocAssumption  == /\ Allocs \subseteq Nat
                           /\ NoAlloc \notin Allocs
                           /\ Required \in [Positions -> Nat]

VARIABLES row,         \* the ProjectPosition table
          ledger,      \* the newest fill-history entry of each position
          overridden,  \* persons some ledger row grants an over-allocation
          active,      \* persons whose employmentStatus is ACTIVE
          req          \* the requests in flight

vars == <<row, ledger, overridden, active, req>>

-----------------------------------------------------------------------------
Row == [ status  : FillStatuses \cup {Absent},
         person  : Persons \cup {NoPerson},
         alloc   : Allocs \cup {NoAlloc},
         version : Nat ]

NoRow == [status |-> Absent, person |-> NoPerson, alloc |-> NoAlloc, version |-> 0]

Entry == [ prevStatus : FillStatuses \cup {Absent}, prevPerson : Persons \cup {NoPerson},
           newStatus  : FillStatuses \cup {Absent}, newPerson  : Persons \cup {NoPerson} ]

EntryFor(from, to) == [ prevStatus |-> from.status, prevPerson |-> from.person,
                        newStatus  |-> to.status,   newPerson  |-> to.person ]

NoEntry == EntryFor(NoRow, NoRow)

Request == [ pc        : {"idle", "bulkRead", "check", "commit", "bookCheck", "bookCommit"},
             targets   : SUBSET Positions,
             person    : Persons \cup {NoPerson, KeepPerson},
             alloc     : Allocs \cup {NoAlloc},
             mayExceed : BOOLEAN,   \* allowOverallocation by an RM, DM or admin
             exceeded  : BOOLEAN,   \* the override was needed
             seen      : [Positions -> Row],    \* the rows as read
             entity    : [Positions -> Row] ]   \* the aggregates as mutated

NoRows == [p \in Positions |-> NoRow]

Idle == [ pc |-> "idle", targets |-> {}, person |-> NoPerson, alloc |-> NoAlloc,
          mayExceed |-> FALSE, exceeded |-> FALSE, seen |-> NoRows, entity |-> NoRows ]

TypeOK == /\ row \in [Positions -> Row]
          /\ ledger \in [Positions -> Entry]
          /\ overridden \subseteq Persons
          /\ active \subseteq Persons
          /\ req \in [Requests -> Request]

Init == /\ row = NoRows
        /\ ledger = [p \in Positions |-> NoEntry]
        /\ overridden = {}
        /\ active = InitiallyActive
        /\ req = [r \in Requests |-> Idle]

-----------------------------------------------------------------------------
(* Helpers *)

\* Roles whose allowOverallocation flag is honoured.
OverrideRoles == {"resource_manager", "delivery_manager", "admin"}

\* activeAllocationPercent ?? requiredAllocationPercent
Effective(p, x) == IF x.alloc = NoAlloc THEN Required[p] ELSE x.alloc

\* The positions that use up the person's capacity.
Consuming(q) == {p \in Positions : row[p].person = q /\ row[p].status \in AllocationConsuming}

\* sumOverlappingActiveAllocation, without the positions in `except'.
LoadWithout(q, except) ==
  SumFunctionOnSet([p \in Positions |-> Effective(p, row[p])], Consuming(q) \ except)

\* Mutant of Added: a bulk request is charged its largest row only.
AddedLargest(r) ==
  LET shares == { Effective(p, req[r].entity[p]) : p \in req[r].targets }
  IN CHOOSE s \in shares : \A t \in shares : t <= s

Added(r) == SumFunctionOnSet([p \in Positions |-> Effective(p, req[r].entity[p])], req[r].targets)

\* The request answers 4xx/5xx; its transaction, if any, is rolled back.
Refuse(r) == /\ req' = [req EXCEPT ![r] = Idle]
             /\ UNCHANGED <<row, ledger, overridden, active>>

Proceed(r, pc, exceeded) ==
  /\ req' = [req EXCEPT ![r].pc = pc, ![r].exceeded = exceeded]
  /\ UNCHANGED <<row, ledger, overridden, active>>

\* The three outcomes of an allocation guard.
Guarded(r, total, pc) ==
  \/ total <= Cap /\ Proceed(r, pc, FALSE)
  \/ total > Cap /\ req[r].mayExceed /\ Proceed(r, pc, TRUE)
  \/ total > Cap /\ ~ req[r].mayExceed /\ Refuse(r)

-----------------------------------------------------------------------------
(* CreateProjectPositionService: one insert, no ledger row. *)

Created(status) ==
  [status |-> status, person |-> NoPerson, alloc |-> NoAlloc, version |-> 1]

Create(p, openImmediately) ==
  /\ row[p].status = Absent
  /\ row' = [row EXCEPT ![p] =
                            Created(IF openImmediately THEN "OPEN" ELSE "DRAFT")]
  /\ UNCHANGED <<ledger, overridden, active, req>>

-----------------------------------------------------------------------------
(* TransitionProjectPositionFillService *)

\* The request once it has driven the aggregate through transitionFill; the
\* allocation guard comes first for a target that consumes allocation.
Driven(p, to, role, allowOverallocation, person, alloc) ==
  LET next == Transitioned(row[p], to, person, alloc) IN
  [Idle EXCEPT !.pc = IF to \in AllocationConsuming THEN "check" ELSE "commit",
               !.targets = {p},
               !.person = next.person,
               !.mayExceed = allowOverallocation /\ role \in OverrideRoles,
               !.seen[p] = row[p],
               !.entity[p] = next]

\* Read the row and drive it.  Commands transitionFill refuses leave no
\* trace and are not represented.
TransitionRead(r) ==
  /\ req[r].pc = "idle"
  /\ \E p \in Positions, to \in FillStatuses :
       /\ row[p].version < MaxVersion
       /\ HasEdge(row[p].status, to)
       /\ \E role \in Roles, hasReason \in BOOLEAN, allowOverallocation \in BOOLEAN,
             person \in Persons \cup {NoPerson}, alloc \in Allocs \cup {NoAlloc} :
            /\ MayTransition(row[p], to, role, hasReason, person)
            /\ req' = [req EXCEPT ![r] =
                         Driven(p, to, role, allowOverallocation, person, alloc)]
  /\ UNCHANGED <<row, ledger, overridden, active>>

-----------------------------------------------------------------------------
(* BulkReassignPositionsService *)

\* The target person, if one is given, must be an active employee.
BulkStart(r) ==
  /\ req[r].pc = "idle"
  /\ \E ids \in SUBSET Positions \ {{}}, toPerson \in active \cup {NoPerson, KeepPerson},
        mayExceed \in BOOLEAN :
       /\ \A p \in ids : row[p].version < MaxVersion
       /\ req' = [req EXCEPT ![r] =
            [Idle EXCEPT !.pc = "bulkRead", !.targets = ids, !.person = toPerson,
                         !.mayExceed = mayExceed]]
  /\ UNCHANGED <<row, ledger, overridden, active>>

\* Mutant of Eligible: unfilled rows are handed over like any other.
EveryRow(ids, toPerson) == ids

\* Rows nobody was ever put on cannot be handed over.
Eligible(ids, toPerson) ==
  {p \in ids : toPerson # KeepPerson => row[p].status \notin {"DRAFT", "OPEN"}}

\* Mutants of Reassigned: the swap in place forgets the version; the marker
\* of a missing toPersonId is stored as if it were a person.
Unversioned(x, toPerson) ==
  IF toPerson = KeepPerson THEN [x EXCEPT !.version = @ + 1]
                           ELSE [x EXCEPT !.person = toPerson]
MissingStored(x, toPerson) == [x EXCEPT !.person = toPerson, !.version = @ + 1]

\* A proposed candidate is booked, any other holder is swapped or cleared
\* in place; a pure project move only bumps the version.
Reassigned(x, toPerson) ==
  IF toPerson = KeepPerson THEN [x EXCEPT !.version = @ + 1]
  ELSE IF x.status = "PROPOSED" /\ toPerson # NoPerson
       THEN Transitioned(x, "BOOKED", toPerson, NoAlloc)
       ELSE [x EXCEPT !.person = toPerson, !.version = @ + 1]

\* Pre-fetch every row outside the transaction.  Unknown or released rows
\* fail the request, as does having no eligible row left.
BulkRead(r) ==
  LET ids      == req[r].targets
      toPerson == req[r].person
      eligible == Eligible(ids, toPerson)
  IN
  /\ req[r].pc = "bulkRead"
  /\ IF (\A p \in ids : row[p].status \notin {Absent, "RELEASED"}) /\ eligible # {}
     THEN /\ req' = [req EXCEPT
               ![r].pc = IF toPerson \in Persons THEN "check" ELSE "commit",
               ![r].targets = eligible,
               ![r].seen = [p \in Positions |-> IF p \in eligible THEN row[p] ELSE NoRow],
               ![r].entity = [p \in Positions |->
                   IF p \in eligible THEN Reassigned(row[p], toPerson) ELSE NoRow]]
          /\ UNCHANGED <<row, ledger, overridden, active>>
     ELSE Refuse(r)

-----------------------------------------------------------------------------
(* Shared by transition and bulk reassign: guard, then commit. *)

\* enforceAllocationCap: a query outside the transaction.
CheckAllocation(r) ==
  /\ req[r].pc = "check"
  /\ Guarded(r, LoadWithout(req[r].person, req[r].targets) + Added(r), "commit")

\* Mutants of StillCurrent: update by id alone; compare the status instead.
AnyRow(r) == TRUE
SameStatus(r) == \A p \in req[r].targets : row[p].status = req[r].seen[p].status

\* updateMany ... WHERE version = <the version read> matches every row.
StillCurrent(r) == \A p \in req[r].targets : row[p].version = req[r].seen[p].version

\* Rows and ledger entries in one transaction, or nothing at all.
Commit(r) ==
  /\ req[r].pc = "commit"
  /\ IF StillCurrent(r)
     THEN /\ row' = [p \in Positions |->
               IF p \in req[r].targets THEN req[r].entity[p] ELSE row[p]]
          /\ ledger' = [p \in Positions |->
               IF p \in req[r].targets THEN EntryFor(req[r].seen[p], req[r].entity[p])
               ELSE ledger[p]]
          /\ overridden' = IF req[r].exceeded THEN overridden \cup {req[r].person}
                           ELSE overridden
          /\ req' = [req EXCEPT ![r] = Idle]
          /\ UNCHANGED active
     ELSE Refuse(r)

-----------------------------------------------------------------------------
(* CreateAndBookProjectPositionService *)

BookStart(r) ==
  /\ req[r].pc = "idle"
  /\ \E person \in active, alloc \in Allocs, mayExceed \in BOOLEAN :
       req' = [req EXCEPT ![r] =
         [Idle EXCEPT !.pc = "bookCheck", !.person = person, !.alloc = alloc,
                      !.mayExceed = mayExceed]]
  /\ UNCHANGED <<row, ledger, overridden, active>>

BookCheck(r) ==
  /\ req[r].pc = "bookCheck"
  /\ Guarded(r, LoadWithout(req[r].person, {}) + req[r].alloc, "bookCommit")

\* create(OPEN), PROPOSED(person), BOOKED and both ledger rows in one
\* transaction: three versions of the row, of which only the last is seen.
Proposed(r) == Transitioned(Created("OPEN"), "PROPOSED", req[r].person, req[r].alloc)
Booked(r)   == Transitioned(Proposed(r), "BOOKED", NoPerson, NoAlloc)

BookCommit(r) ==
  /\ req[r].pc = "bookCommit"
  /\ \E p \in Positions :
       /\ row[p].status = Absent
       /\ row' = [row EXCEPT ![p] = Booked(r)]
       /\ ledger' = [ledger EXCEPT ![p] = EntryFor(Proposed(r), Booked(r))]
  /\ overridden' = IF req[r].exceeded THEN overridden \cup {req[r].person} ELSE overridden
  /\ req' = [req EXCEPT ![r] = Idle]
  /\ UNCHANGED active

-----------------------------------------------------------------------------
\* The process restarts or the database refuses: nothing was persisted.
Fail(r) == /\ req[r].pc # "idle"
           /\ Refuse(r)

RequestStep(r) ==
  \/ TransitionRead(r)
  \/ BulkStart(r) \/ BulkRead(r)
  \/ CheckAllocation(r) \/ Commit(r)
  \/ BookStart(r) \/ BookCheck(r) \/ BookCommit(r)
  \/ Fail(r)

Next == \/ \E p \in Positions, openImmediately \in BOOLEAN : Create(p, openImmediately)
        \/ \E r \in Requests : RequestStep(r)

Spec == Init /\ [][Next]_vars

-----------------------------------------------------------------------------
(* Properties *)

Load(q) == LoadWithout(q, {})

(***************************************************************************)
(* A version names one content: whoever still holds the version it read    *)
(* also holds the row as it is now, so no commit can bury another one      *)
(* (every writer bumps the version exactly once per save).                 *)
(***************************************************************************)
VersionNamesContent ==
  \A r \in Requests, p \in Positions :
    req[r].pc \in {"check", "commit"} /\ p \in req[r].targets =>
      /\ req[r].seen[p].version <= row[p].version
      /\ req[r].seen[p].version = row[p].version => req[r].seen[p] = row[p]

(***************************************************************************)
(* The audit trail cannot drift from the position: whenever a position     *)
(* changes hands or status after its creation, the entry written with the  *)
(* change has exactly the previous and the new state of the row.           *)
(***************************************************************************)
AuditTrailExact ==
  [][\A p \in Positions :
       row[p].status # Absent /\ <<row'[p].status, row'[p].person>> # <<row[p].status, row[p].person>>
         => ledger'[p] = EntryFor(row[p], row'[p])]_vars

(***************************************************************************)
(* A position nobody was proposed for holds nobody, even when a bulk       *)
(* reassign read it while it was proposed and the candidate was rejected   *)
(* before the reassign commits.                                            *)
(***************************************************************************)
UnfilledHasNoHolder ==
  \A p \in Positions : row[p].status \in {"DRAFT", "OPEN"} => row[p].person = NoPerson

(***************************************************************************)
(* A released position is read-only history: no late commit of a request   *)
(* that read it before the release changes anything in it.                 *)
(***************************************************************************)
ReleasedIsFinal ==
  [][\A p \in Positions : row[p].status = "RELEASED" => row'[p] = row[p]]_vars

(***************************************************************************)
(* How far concurrent requests can overbook a person nobody overrode.  The *)
(* sum is read outside the transaction and no lock or version is on the    *)
(* person, so requests that overlap may each find room.  Requests that     *)
(* come one at a time never take him past 100%, by whatever path, and each *)
(* further one in flight can add 100% more but no more than that, however  *)
(* long they go on.                                                        *)
(***************************************************************************)
LoadPerRequest ==
  \A q \in Persons \ overridden : Load(q) <= Cap * Cardinality(Requests)

(***************************************************************************)
(* The write paths implement the abstract life of a position.              *)
(***************************************************************************)
Lifecycle == INSTANCE PositionLifecycle
               WITH status <- [p \in Positions |-> row[p].status],
                    holder <- [p \in Positions |-> row[p].person]

ImplementsLifecycle == Lifecycle!Spec
=============================================================================
