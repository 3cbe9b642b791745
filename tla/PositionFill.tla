---------------------------- MODULE PositionFill ----------------------------
(***************************************************************************)
(* The fill-status state machine of a ProjectPosition: its statuses, the   *)
(* transition matrix with its role and reason gates, and the mutation      *)
(* transitionFill applies to the aggregate.  Pure definitions, shared by   *)
(* the modules that move positions.                                        *)
(***************************************************************************)
EXTENDS Naturals

CONSTANTS NoPerson,    \* activePersonId IS NULL
          NoAlloc      \* activeAllocationPercent IS NULL

FillStatuses == {"DRAFT", "OPEN", "PROPOSED", "BOOKED",
                 "ONBOARDING", "ASSIGNED", "ON_HOLD", "RELEASED"}

\* The row does not exist (yet).
Absent == "ABSENT"

Roles == {"project_manager", "delivery_manager", "director",
          "resource_manager", "hr_manager", "admin"}

PmDmDirectorAdmin == {"project_manager", "delivery_manager", "director", "admin"}
PmDmDirectorRmAdmin == PmDmDirectorAdmin \cup {"resource_manager"}
RmDm == {"resource_manager", "delivery_manager"}
HoldRoles == Roles \ {"delivery_manager"}

Edge(from, to, roles, needsReason) ==
  [from |-> from, to |-> to, roles |-> roles, needsReason |-> needsReason]

\* POSITION_FILL_STATUS_TRANSITIONS, the releasing edges first.
FillTransitions ==
  { Edge(s, "RELEASED", PmDmDirectorRmAdmin, TRUE) : s \in FillStatuses \ {"RELEASED"} }
  \cup
  { Edge("DRAFT",      "OPEN",       PmDmDirectorAdmin, FALSE),
    Edge("OPEN",       "PROPOSED",   RmDm,              FALSE),
    Edge("PROPOSED",   "BOOKED",     PmDmDirectorAdmin, FALSE),
    Edge("PROPOSED",   "OPEN",       PmDmDirectorAdmin, TRUE),
    Edge("BOOKED",     "ONBOARDING", PmDmDirectorAdmin, FALSE),
    Edge("BOOKED",     "ASSIGNED",   PmDmDirectorAdmin, FALSE),
    Edge("ONBOARDING", "ASSIGNED",   PmDmDirectorAdmin, FALSE),
    Edge("ONBOARDING", "ON_HOLD",    HoldRoles,         TRUE),
    Edge("ASSIGNED",   "ON_HOLD",    HoldRoles,         TRUE),
    Edge("ON_HOLD",    "ASSIGNED",   HoldRoles,         FALSE) }

\* findFillTransition: is there an edge at all?
HasEdge(from, to) == \E e \in FillTransitions : e.from = from /\ e.to = to

\* Targets that put (or keep) a person on the position.
FillTargets == {"PROPOSED", "BOOKED", "ONBOARDING", "ASSIGNED"}

\* PROPOSED -> OPEN: this candidate is turned down, the demand stays open.
RejectsCandidate(from, to) == from = "PROPOSED" /\ to = "OPEN"

(***************************************************************************)
(* transitionFill's refusals, in the order of the code: MISSING_EDGE,      *)
(* ROLE_FORBIDDEN (admin breaks the role gate, never the matrix),          *)
(* MISSING_REASON, MISSING_PERSON.                                         *)
(***************************************************************************)
MayTransition(x, to, role, hasReason, person) ==
  /\ \E e \in FillTransitions :
        /\ e.from = x.status /\ e.to = to
        /\ role = "admin" \/ role \in e.roles
        /\ e.needsReason => hasReason
  /\ to \in FillTargets => (person # NoPerson \/ x.person # NoPerson)

\* Mutant of Transitioned: a rejection forgets to clear the candidate.
CandidateKept(x, to, person, alloc) ==
  [ status  |-> to,
    person  |-> IF to \in FillTargets /\ person # NoPerson THEN person ELSE x.person,
    alloc   |-> IF to \in FillTargets /\ alloc # NoAlloc THEN alloc ELSE x.alloc,
    version |-> x.version + 1 ]

(***************************************************************************)
(* What transitionFill leaves in the aggregate.  `person' and `alloc' are  *)
(* the optional fields of the command (NoPerson, NoAlloc: not given); they *)
(* are ignored unless the target fills the position.  A release keeps the  *)
(* last holder, a rejection clears holder and allocation.                  *)
(***************************************************************************)
Transitioned(x, to, person, alloc) ==
  [ status  |-> to,
    person  |-> CASE to \in FillTargets /\ person # NoPerson -> person
                  [] RejectsCandidate(x.status, to)          -> NoPerson
                  [] OTHER                                   -> x.person,
    alloc   |-> CASE to \in FillTargets /\ alloc # NoAlloc   -> alloc
                  [] RejectsCandidate(x.status, to)          -> NoAlloc
                  [] OTHER                                   -> x.alloc,
    version |-> x.version + 1 ]

\* Fill states that use up the holder's capacity; ON_HOLD gives it back.
AllocationConsuming == {"PROPOSED", "BOOKED", "ONBOARDING", "ASSIGNED"}
=============================================================================
