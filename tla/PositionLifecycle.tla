------------------------- MODULE PositionLifecycle --------------------------
(***************************************************************************)
(* What the staffing desk promises about every position, whatever requests *)
(* run against it at the same time: it is created once, it moves only      *)
(* along the documented matrix, its holder changes only while somebody can *)
(* hold it, and after its release nothing about it ever changes again.     *)
(* Several positions may move in one step (a bulk request commits all its  *)
(* rows in one transaction).                                               *)
(***************************************************************************)
EXTENDS PositionFill

CONSTANTS Positions, Persons

VARIABLES status,   \* [Positions -> FillStatuses \cup {Absent}]
          holder    \* [Positions -> Persons \cup {NoPerson}]

vars == <<status, holder>>

Holders == Persons \cup {NoPerson}

Init == /\ status = [p \in Positions |-> Absent]
        /\ holder = [p \in Positions |-> NoPerson]

\* A demand record appears, empty, or directly booked for someone.
Create(p) ==
  /\ status[p] = Absent
  /\ \/ status'[p] \in {"DRAFT", "OPEN"} /\ holder'[p] = NoPerson
     \/ status'[p] = "BOOKED" /\ holder'[p] \in Persons

\* The position advances along an edge.  A move that fills it ends with
\* somebody on it, a rejection sends the candidate away, any other move
\* keeps the holder.
Advance(p) ==
  /\ HasEdge(status[p], status'[p])
  /\ CASE status'[p] \in FillTargets               -> holder'[p] \in Persons
       [] RejectsCandidate(status[p], status'[p])  -> holder'[p] = NoPerson
       [] OTHER                                    -> holder'[p] = holder[p]

\* Somebody else (or nobody) takes over a filled position in place.
HandOver(p) ==
  /\ status[p] \in FillTargets \cup {"ON_HOLD"}
  /\ status'[p] = status[p]
  /\ holder'[p] \in Holders

Same(p) == status'[p] = status[p] /\ holder'[p] = holder[p]

Next == \A p \in Positions : Create(p) \/ Advance(p) \/ HandOver(p) \/ Same(p)

Spec == Init /\ [][Next]_vars
=============================================================================
