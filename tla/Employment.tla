----------------------------- MODULE Employment -----------------------------
(***************************************************************************)
(* The employment status of persons, composed with the position table:     *)
(* TerminateEmployeeService saves the person and then releases his fills   *)
(* one by one through the transition service, beside the ordinary          *)
(* staffing requests; DeactivateEmployeeService and the undo of a          *)
(* deactivation write the same row.  Persons are saved whole and without a *)
(* version.  The undo service itself is in ProjectLifecycle: here a        *)
(* deactivation may be undone once or more until its token is gone.        *)
(***************************************************************************)
EXTENDS ProjectPositions

CONSTANT HrCommands

VARIABLES employment,  \* persons: employmentStatus
          undoable,    \* persons with a usable undo token of a deactivation
          hr,          \* the HR commands in flight
          stopped,     \* history: persons whose termination ended early
          late,        \* history: fills a person got while TERMINATED
          outside      \* history: fills whose window did not cover the day of
                       \*          the person's last termination

excused == <<late, outside>>
hrVars == <<employment, undoable, hr, stopped, excused>>
employmentVars == <<vars, hrVars>>

-----------------------------------------------------------------------------
EmploymentStatuses == {"ACTIVE", "INACTIVE", "TERMINATED"}

HrKinds == {"terminate", "deactivate", "undo"}

HrCommand == [ pc     : {"idle", "save", "find", "release", "commit", "register", "mark"},
               kind   : HrKinds,
               person : Persons \cup {NoPerson},
               found  : SUBSET Positions,     \* the fills the query returned
               todo   : SUBSET Positions,     \* those not released yet
               at     : SUBSET Positions,     \* the one in the transition service
               seen   : Row ]                 \* its row as read

Off == [ pc |-> "idle", kind |-> "undo", person |-> NoPerson,
         found |-> {}, todo |-> {}, at |-> {}, seen |-> NoRow ]

EmploymentTypeOK ==
  /\ TypeOK
  /\ employment \in [Persons -> EmploymentStatuses]
  /\ active = {q \in Persons : employment[q] = "ACTIVE"}
  /\ undoable \subseteq Persons
  /\ hr \in [HrCommands -> HrCommand]
  /\ stopped \subseteq Persons
  /\ late \subseteq Persons \X Positions
  /\ outside \subseteq Persons \X Positions

EmploymentInit ==
  /\ Init
  /\ employment = [q \in Persons |-> IF q \in InitiallyActive THEN "ACTIVE" ELSE "INACTIVE"]
  /\ undoable = {}
  /\ hr = [h \in HrCommands |-> Off]
  /\ stopped = {}
  /\ late = {}
  /\ outside = {}

-----------------------------------------------------------------------------
(* Helpers *)

\* ACTIVE_FILL_STATUSES: the statuses of a position somebody works on.
ActiveFill == {"BOOKED", "ONBOARDING", "ASSIGNED", "ON_HOLD"}

\* The fills a person works on, whatever their windows.
Held(q) == {p \in Positions : row[p].person = q /\ row[p].status \in ActiveFill}

\* The refusals of Person.terminate, deactivate, restoreFromDeactivation.
Accepts(kind, status) ==
  CASE kind = "terminate"  -> status # "TERMINATED"
    [] kind = "deactivate" -> status # "INACTIVE"
    [] kind = "undo"       -> status = "INACTIVE"

\* Mutant of StatusAfter: the status is named after the event.
StatusNamed(kind) ==
  CASE kind = "terminate"  -> "TERMINATED"
    [] kind = "deactivate" -> "DEACTIVATED"
    [] kind = "undo"       -> "ACTIVE"

StatusAfter(kind) ==
  CASE kind = "terminate"  -> "TERMINATED"
    [] kind = "deactivate" -> "INACTIVE"
    [] kind = "undo"       -> "ACTIVE"

AfterSave(kind) ==
  CASE kind = "terminate"  -> "find"
    [] kind = "deactivate" -> "register"
    [] kind = "undo"       -> "mark"

HrEnd(h) == hr' = [hr EXCEPT ![h] = Off]

\* A termination that ends before its loop is through.
HrStop(h) ==
  /\ HrEnd(h)
  /\ stopped' = IF hr[h].kind = "terminate" THEN stopped \cup {hr[h].person} ELSE stopped

-----------------------------------------------------------------------------
(* Reading and saving the person, the same way for all three commands *)

HrRead(h) ==
  /\ hr[h].pc = "idle"
  /\ \E kind \in HrKinds, q \in Persons :
       /\ Accepts(kind, employment[q])
       /\ kind = "undo" => q \in undoable
       /\ hr' = [hr EXCEPT ![h] = [Off EXCEPT !.pc = "save", !.kind = kind, !.person = q]]
  /\ UNCHANGED <<vars, employment, undoable, stopped, excused>>

\* PrismaPersonRepository.save: an upsert of the whole row.
HrSave(h) ==
  /\ hr[h].pc = "save"
  /\ employment' = [employment EXCEPT ![hr[h].person] = StatusAfter(hr[h].kind)]
  /\ active' = {q \in Persons : employment'[q] = "ACTIVE"}
  /\ hr' = [hr EXCEPT ![h].pc = AfterSave(hr[h].kind)]
  /\ UNCHANGED <<row, ledger, overridden, req, undoable, stopped, excused>>

\* UndoService.register and, after the executor, consume: other tokens of
\* the person may remain.
RegisterToken(h) ==
  /\ hr[h].pc = "register"
  /\ undoable' = undoable \cup {hr[h].person}
  /\ HrEnd(h)
  /\ UNCHANGED <<vars, employment, stopped, excused>>

ConsumeToken(h) ==
  /\ hr[h].pc = "mark"
  /\ undoable' \in {undoable, undoable \ {hr[h].person}}
  /\ HrEnd(h)
  /\ UNCHANGED <<vars, employment, stopped, excused>>

-----------------------------------------------------------------------------
(* The release loop of a termination *)

\* Mutant of Found: only positions already worked on are looked for.
FoundAssigned(q, away) == {p \in Held(q) \ away : row[p].status # "BOOKED"}

\* findActiveByPersonId(q, asOf): the fills whose window [activeValidFrom,
\* activeValidTo] covers the day; away are those that ended before it or
\* begin after it.
Found(q, away) == Held(q) \ away

\* The day is that of the termination, and may be any.
FindFills(h) ==
  /\ hr[h].pc = "find"
  /\ \E away \in SUBSET Held(hr[h].person) :
       LET q == hr[h].person IN
       /\ hr' = [hr EXCEPT ![h].pc = "release", ![h].found = Found(q, away),
                           ![h].todo = Found(q, away)]
       /\ outside' = {x \in outside : x[1] # q} \cup ({q} \X away)
  /\ UNCHANGED <<vars, employment, undoable, stopped, late>>

\* The next fill, in whatever order the query returned: read its row anew
\* and drive it to RELEASED, as an admin and with a reason.
ReleaseRead(h) ==
  /\ hr[h].pc = "release"
  /\ \E p \in hr[h].todo :
       IF MayTransition(row[p], "RELEASED", "admin", TRUE, NoPerson)
       THEN /\ hr' = [hr EXCEPT ![h].pc = "commit", ![h].at = {p}, ![h].seen = row[p]]
            /\ UNCHANGED stopped
       ELSE HrStop(h)
  /\ UNCHANGED <<vars, employment, undoable, excused>>

\* Mutant of Released: the release forgets to bump the version.
ReleasedUnversioned(x) == [x EXCEPT !.status = "RELEASED"]

Released(x) == Transitioned(x, "RELEASED", NoPerson, NoAlloc)

\* Versioned save and ledger row in one transaction; a conflict is thrown
\* and ends the loop.
ReleaseCommit(h) ==
  /\ hr[h].pc = "commit"
  /\ \E p \in hr[h].at :
       IF row[p].version = hr[h].seen.version
       THEN /\ row' = [row EXCEPT ![p] = Released(hr[h].seen)]
            /\ ledger' = [ledger EXCEPT ![p] = EntryFor(hr[h].seen, Released(hr[h].seen))]
            /\ hr' = [hr EXCEPT ![h].pc = "release", ![h].at = {}, ![h].seen = NoRow,
                                ![h].todo = @ \ {p}]
            /\ UNCHANGED stopped
       ELSE /\ HrStop(h)
            /\ UNCHANGED <<row, ledger>>
  /\ UNCHANGED <<overridden, active, req, employment, undoable, excused>>

ReleaseDone(h) ==
  /\ hr[h].pc = "release" /\ hr[h].todo = {}
  /\ HrEnd(h)
  /\ UNCHANGED <<vars, employment, undoable, stopped, excused>>

\* The statement fails or the process dies; what was saved stays.
HrFail(h) ==
  /\ hr[h].pc \notin {"idle", "save"}
  /\ HrStop(h)
  /\ UNCHANGED <<vars, employment, undoable, excused>>

HrStep(h) ==
  \/ HrRead(h) \/ HrSave(h) \/ RegisterToken(h) \/ ConsumeToken(h)
  \/ FindFills(h) \/ ReleaseRead(h) \/ ReleaseCommit(h) \/ ReleaseDone(h) \/ HrFail(h)

\* A staffing request never asks again whether its person is still employed.
Staffing ==
  /\ Next
  /\ late' = {x \in Persons \X Positions :
                /\ employment[x[1]] = "TERMINATED"
                /\ x[2] \in Held(x[1])'
                /\ x \in late \/ x[2] \notin Held(x[1])}
  /\ outside' = {x \in outside : x[2] \in Held(x[1])'}
  /\ UNCHANGED <<employment, undoable, hr, stopped>>

EmploymentNext == Staffing \/ \E h \in HrCommands : HrStep(h)

EmploymentSpec == EmploymentInit /\ [][EmploymentNext]_employmentVars

-----------------------------------------------------------------------------
(* Properties *)

(***************************************************************************)
(* What a termination has released stays released while it works through   *)
(* the rest, whatever staffing requests had read those rows before.        *)
(***************************************************************************)
ProgressIsKept ==
  \A h \in HrCommands :
    \A p \in hr[h].found \ hr[h].todo : row[p].status = "RELEASED"

\* The fills a termination has to take from q: not those that came later,
\* nor those its day does not fall into.
Owed(q) == {p \in Held(q) : <<q, p>> \notin late \cup outside}

(***************************************************************************)
(* A terminated person holds a fill only if he got it while already        *)
(* terminated, or its window did not cover the day of the termination, or  *)
(* his termination stopped half way, or is still at work.                  *)
(***************************************************************************)
TerminatedHoldsOnlyLate ==
  \A q \in Persons :
    \/ employment[q] # "TERMINATED"
    \/ q \in stopped
    \/ \E h \in HrCommands : hr[h].person = q
    \/ Owed(q) = {}
=============================================================================
