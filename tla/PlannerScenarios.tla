-------------------------- MODULE PlannerScenarios --------------------------
(***************************************************************************)
(* The workforce planner next to the position write paths: a scenario is   *)
(* edited, cancelled and applied, and dispatches create proposed           *)
(* positions.  The planner writes the ProjectPosition table directly: it   *)
(* neither reads nor bumps the version, asks the transition matrix nothing *)
(* and has no allocation guard.                                            *)
(***************************************************************************)
EXTENDS ProjectPositions

CONSTANTS Scenarios,
          Planners,      \* requests to the scenario endpoints
          NoScenario,
          Proposals,     \* Proposals[s]: the proposed [person, alloc] by position
          MaxApplied     \* bound: a scenario this often applied is left alone

ASSUME PlannerAssumption ==
  /\ NoScenario \notin Scenarios
  /\ IsFiniteSet(Planners)
  /\ MaxApplied \in Nat
  /\ DOMAIN Proposals = Scenarios
  /\ \A s \in Scenarios :
       /\ DOMAIN Proposals[s] \subseteq Positions /\ DOMAIN Proposals[s] # {}
       /\ \A p \in DOMAIN Proposals[s] :
            Proposals[s][p] \in [person : Persons, alloc : Allocs]

VARIABLES scenario,   \* the PlannerScenario table
          applied,    \* how often a scenario's apply has committed
          planner     \* the planner requests in flight

plannerVars == <<scenario, applied, planner>>
planningVars == <<vars, plannerVars>>

ScenarioStatuses == {"DRAFT", "SUBMITTED", "APPLIED", "CANCELLED"}

Resting == [pc |-> "idle", scenario |-> NoScenario]

PlannerTypeOK ==
  /\ TypeOK
  /\ scenario \in [Scenarios -> [status : ScenarioStatuses, archived : BOOLEAN]]
  /\ applied \in [Scenarios -> 0 .. MaxApplied + Cardinality(Planners)]
  /\ planner \in [Planners -> [pc : {"idle", "apply", "update"},
                               scenario : Scenarios \cup {NoScenario}]]

PlannerInit ==
  /\ Init
  /\ scenario = [s \in Scenarios |-> [status |-> "DRAFT", archived |-> FALSE]]
  /\ applied = [s \in Scenarios |-> 0]
  /\ planner = [a \in Planners |-> Resting]

-----------------------------------------------------------------------------
(* PlannerScenarioService *)

\* update: read the row, refuse a cancelled scenario ...
UpdateRead(a) ==
  /\ planner[a].pc = "idle"
  /\ \E s \in Scenarios :
       /\ scenario[s].status # "CANCELLED"
       /\ planner' = [planner EXCEPT ![a] = [pc |-> "update", scenario |-> s]]
  /\ UNCHANGED <<vars, scenario, applied>>

\* ... and write the fields of the body, by id alone.
UpdateWrite(a) ==
  /\ planner[a].pc = "update"
  /\ \E status \in ScenarioStatuses :
       scenario' = [scenario EXCEPT ![planner[a].scenario].status = status]
  /\ planner' = [planner EXCEPT ![a] = Resting]
  /\ UNCHANGED <<vars, applied>>

\* cancel: its read only decides whether there is anything left to write.
Cancel(s) ==
  /\ scenario[s].status # "CANCELLED"
  /\ scenario' = [scenario EXCEPT ![s] = [status |-> "CANCELLED", archived |-> TRUE]]
  /\ UNCHANGED <<vars, applied, planner>>

\* The staffing desk's soft delete of the same table: the status stays.
Archive(s) ==
  /\ ~ scenario[s].archived
  /\ scenario' = [scenario EXCEPT ![s].archived = TRUE]
  /\ UNCHANGED <<vars, applied, planner>>

-----------------------------------------------------------------------------
(* ApplyPlannerScenarioService *)

\* 409 on an archived scenario; unknown positions end the request.
ApplyRead(a) ==
  /\ planner[a].pc = "idle"
  /\ \E s \in Scenarios :
       /\ ~ scenario[s].archived
       /\ applied[s] < MaxApplied
       /\ \A p \in DOMAIN Proposals[s] : row[p].status # Absent
       /\ planner' = [planner EXCEPT ![a] = [pc |-> "apply", scenario |-> s]]
  /\ UNCHANGED <<vars, scenario, applied>>

\* What the scenario writes into a row: the booking, not the version.
BookedByScenario(s, p) ==
  [row[p] EXCEPT !.status = "BOOKED", !.person = Proposals[s][p].person,
                 !.alloc = Proposals[s][p].alloc]

\* Mutant of Archived: only the status column is set.
MarkedApplied(s) == [scenario[s] EXCEPT !.status = "APPLIED"]

\* The mark that the scenario is consumed; its status stays.
Archived(s) == [scenario[s] EXCEPT !.archived = TRUE]

\* One transaction: the rows, their history (without a previous state) and
\* the archive mark.
ApplyCommit(a) ==
  /\ planner[a].pc = "apply"
  /\ LET s == planner[a].scenario
         proposed == DOMAIN Proposals[s]
     IN /\ row' = [p \in Positions |->
              IF p \in proposed THEN BookedByScenario(s, p) ELSE row[p]]
        /\ ledger' = [p \in Positions |->
              IF p \in proposed THEN EntryFor(NoRow, BookedByScenario(s, p)) ELSE ledger[p]]
        /\ scenario' = [scenario EXCEPT ![s] = Archived(s)]
        /\ applied' = [applied EXCEPT ![s] = @ + 1]
  /\ planner' = [planner EXCEPT ![a] = Resting]
  /\ UNCHANGED <<overridden, active, req>>

\* The transaction fails or the process restarts: nothing was written.
PlannerFail(a) ==
  /\ planner[a].pc # "idle"
  /\ planner' = [planner EXCEPT ![a] = Resting]
  /\ UNCHANGED <<vars, scenario, applied>>

-----------------------------------------------------------------------------
(* WorkforcePlannerService.applyPlan: each item is its own transaction. *)

\* A dispatch creates the position already proposed for the person.
Dispatch(p) ==
  /\ row[p].status = Absent
  /\ \E person \in Persons :
       row' = [row EXCEPT ![p] = [Created("PROPOSED") EXCEPT !.person = person]]
  /\ ledger' = [ledger EXCEPT ![p] = EntryFor(NoRow, row'[p])]
  /\ UNCHANGED <<overridden, active, req, plannerVars>>

\* A hire request opens positions with a history row each.
Hire(p) ==
  /\ row[p].status = Absent
  /\ row' = [row EXCEPT ![p] = Created("OPEN")]
  /\ ledger' = [ledger EXCEPT ![p] = EntryFor(NoRow, row'[p])]
  /\ UNCHANGED <<overridden, active, req, plannerVars>>

-----------------------------------------------------------------------------
PlannerStep(a) == \/ UpdateRead(a) \/ UpdateWrite(a)
                  \/ ApplyRead(a) \/ ApplyCommit(a)
                  \/ PlannerFail(a)

PlannerNext == \/ Next /\ UNCHANGED plannerVars
               \/ \E a \in Planners : PlannerStep(a)
               \/ \E s \in Scenarios : Cancel(s) \/ Archive(s)
               \/ \E p \in Positions : Dispatch(p) \/ Hire(p)

PlannerSpec == PlannerInit /\ [][PlannerNext]_planningVars

-----------------------------------------------------------------------------
(* Properties *)

(***************************************************************************)
(* Whatever updates and cancellations run beside an apply, a scenario that *)
(* was booked stays archived, so that it can never be applied again later. *)
(***************************************************************************)
ConsumedIsArchived == \A s \in Scenarios : applied[s] > 0 => scenario[s].archived

(***************************************************************************)
(* "409 Conflict if the scenario is already archived (already applied)":   *)
(* applies can double only by overlapping.  With n planner requests a      *)
(* scenario is booked at most n times, with one at most once, however      *)
(* often failed transactions are retried and the scenario is edited.       *)
(***************************************************************************)
OneApplyPerRequest == \A s \in Scenarios : applied[s] <= Cardinality(Planners)
=============================================================================
