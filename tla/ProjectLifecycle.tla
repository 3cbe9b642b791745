-------------------------- MODULE ProjectLifecycle --------------------------
(***************************************************************************)
(* The life cycle of projects with their activation approvals, and the     *)
(* undo tokens a close hands out.  Every command reads the project, looks  *)
(* at other tables in queries of their own and saves the project WHERE     *)
(* version = <the version read>; approvals are written in the transaction  *)
(* of that save, tokens in statements after it.  Commands interleave       *)
(* between these steps, and any of them may die in between.                *)
(* Who acts is left out: the decider only has to be somebody other than    *)
(* the submitter, the clicker of an undo the one who closed.               *)
(***************************************************************************)
EXTENDS Naturals, FiniteSets

CONSTANTS Projects, Commands,
          PatchStatuses,   \* the statuses that PATCH /projects/:id is sent
          MaxApprovals, MaxTokens,
          MaxVersion       \* bound: no command starts on a project this far along

Statuses == {"DRAFT", "PENDING_APPROVAL", "ACTIVE", "ON_HOLD", "COMPLETED", "CLOSED", "ARCHIVED"}

ASSUME LifecycleAssumption ==
  /\ Projects # {}
  /\ MaxApprovals \in Nat /\ MaxTokens \in Nat
  /\ PatchStatuses \subseteq Statuses

VARIABLES project,   \* the Project table: status and version
          staffed,   \* projects with an active fill (the project-positions table)
          approval,  \* the ProjectActivationApproval table, in order of requestedAt
          token,     \* the UndoAction table
          cmd,       \* the commands in flight
          reopened,  \* history: how often a token reopened its project
          doubled,   \* history: tokens clicked again before the first click was recorded
          waiting,   \* history: the approval of the submission a project waits for
          decreed    \* history: projects a PATCH moved to DRAFT or PENDING_APPROVAL

activation == <<waiting, decreed>>
vars == <<project, staffed, approval, token, cmd, reopened, doubled, activation>>

-----------------------------------------------------------------------------
Approvals == 1 .. MaxApprovals
Tokens    == 1 .. MaxTokens
None      == 0

Row == [status : Statuses, version : Nat]

Kinds == {"submit", "autoSubmit", "activate", "approve", "reject",
          "patch", "close", "override", "undo"}

Command == [ pc      : {"idle", "find", "staffing", "restore", "save", "register", "mark"},
             kind    : Kinds,
             project : Projects,
             seen    : Row,                                  \* the row as read
             to      : Statuses,                             \* the status to save
             ref     : {None} \cup Approvals \cup Tokens ]   \* approval or token at hand

Idle == [ pc |-> "idle", kind |-> "patch", project |-> CHOOSE p \in Projects : TRUE,
          seen |-> [status |-> "DRAFT", version |-> 0], to |-> "DRAFT", ref |-> None ]

ApprovalStates == {"none", "open", "APPROVED", "REJECTED"}
TokenStates    == {"none", "fresh", "expired", "consumed"}

TypeOK == /\ project \in [Projects -> Row]
          /\ staffed \subseteq Projects
          /\ approval \in [Approvals -> [project : Projects, state : ApprovalStates]]
          /\ token \in [Tokens -> [project : Projects, state : TokenStates]]
          /\ cmd \in [Commands -> Command]
          /\ reopened \in [Tokens -> Nat]
          /\ doubled \subseteq Tokens
          /\ waiting \in [Projects -> {None} \cup Approvals]
          /\ decreed \subseteq Projects

\* CreateProjectService saves a DRAFT with version 1.
Init == /\ project = [p \in Projects |-> [status |-> "DRAFT", version |-> 1]]
        /\ staffed = {}
        /\ approval = [a \in Approvals |-> [project |-> Idle.project, state |-> "none"]]
        /\ token = [t \in Tokens |-> [project |-> Idle.project, state |-> "none"]]
        /\ cmd = [c \in Commands |-> Idle]
        /\ reopened = [t \in Tokens |-> 0]
        /\ doubled = {}
        /\ waiting = [p \in Projects |-> None]
        /\ decreed = {}

-----------------------------------------------------------------------------
(* Helpers *)

\* Mutant of Allowed: a project waiting for approval may be submitted again.
Resubmittable(kind, status) ==
  CASE kind \in {"submit", "autoSubmit"} -> status \in {"DRAFT", "PENDING_APPROVAL"}
    [] kind = "activate"                 -> status \in {"DRAFT", "PENDING_APPROVAL"}
    [] kind \in {"approve", "reject"}    -> status = "PENDING_APPROVAL"
    [] kind \in {"close", "override"}    -> status \in {"ACTIVE", "CLOSED"}
    [] kind = "patch"                    -> TRUE
    [] kind = "undo"                     -> status = "CLOSED"

\* The statuses a command accepts.  Closing a closed project is a silent
\* success that saves the row once more.
Allowed(kind, status) ==
  CASE kind \in {"submit", "autoSubmit"} -> status = "DRAFT"
    [] kind = "activate"                 -> status \in {"DRAFT", "PENDING_APPROVAL"}
    [] kind \in {"approve", "reject"}    -> status = "PENDING_APPROVAL"
    [] kind \in {"close", "override"}    -> status \in {"ACTIVE", "CLOSED"}
    [] kind = "patch"                    -> TRUE
    [] kind = "undo"                     -> status = "CLOSED"

\* Mutant of Target: a rejected project keeps the state of its approval.
TargetRejected(kind) ==
  CASE kind = "submit"                                          -> "PENDING_APPROVAL"
    [] kind \in {"autoSubmit", "activate", "approve", "undo"}   -> "ACTIVE"
    [] kind = "reject"                                          -> "REJECTED"
    [] kind \in {"close", "override"}                           -> "CLOSED"

\* The status the entity has after the command's method ran.
Target(kind) ==
  CASE kind = "submit"                                          -> "PENDING_APPROVAL"
    [] kind \in {"autoSubmit", "activate", "approve", "undo"}   -> "ACTIVE"
    [] kind = "reject"                                          -> "DRAFT"
    [] kind \in {"close", "override"}                           -> "CLOSED"

Open(p) == {a \in Approvals : approval[a].project = p /\ approval[a].state = "open"}

Newest(a, S) == a \in S /\ \A b \in S : b <= a

\* The next id of a table that is filled in order.
IsNext(table, i) ==
  /\ table[i].state = "none"
  /\ \A j \in DOMAIN table : j < i => table[j].state # "none"

Continue(c, pc) == cmd' = [cmd EXCEPT ![c].pc = pc]
End(c) == cmd' = [cmd EXCEPT ![c] = Idle]

-----------------------------------------------------------------------------
(* The first step of every command: read the project, let the entity move. *)

FirstPc(kind, status) ==
  CASE kind \in {"approve", "reject"}         -> "find"
    [] kind = "close" /\ status = "ACTIVE"    -> "staffing"
    [] OTHER                                  -> "save"

Begin(c, kind, p, to) ==
  /\ cmd[c].pc = "idle"
  /\ project[p].version < MaxVersion
  /\ Allowed(kind, project[p].status)
  /\ cmd' = [cmd EXCEPT ![c] = [ pc |-> FirstPc(kind, project[p].status), kind |-> kind,
                                 project |-> p, seen |-> project[p], to |-> to, ref |-> None ]]
  /\ UNCHANGED <<project, staffed, approval, token, reopened, doubled, activation>>

Submit(c, p)     == \E kind \in {"submit", "autoSubmit"} : Begin(c, kind, p, Target(kind))
Activate(c, p)   == Begin(c, "activate", p, Target("activate"))
Decide(c, p)     == \E kind \in {"approve", "reject"} : Begin(c, kind, p, Target(kind))
Close(c, p)      == \E kind \in {"close", "override"} : Begin(c, kind, p, Target(kind))
Update(c, p)     == \E to \in PatchStatuses \cup {project[p].status} : Begin(c, "patch", p, to)

\* DecideProjectActivationService: the approval to decide on, findFirst
\* WHERE decidedAt IS NULL ORDER BY requestedAt DESC.
FindOpenApproval(c) ==
  LET open == Open(cmd[c].project) IN
  /\ cmd[c].pc = "find"
  /\ \/ open = {} /\ End(c)
     \/ \E a \in open : /\ Newest(a, open)
                        /\ cmd' = [cmd EXCEPT ![c].pc = "save", ![c].ref = a]
  /\ UNCHANGED <<project, staffed, approval, token, reopened, doubled, activation>>

\* CloseProjectService without override: no active assignments.
CheckStaffing(c) ==
  /\ cmd[c].pc = "staffing"
  /\ IF cmd[c].project \in staffed THEN End(c) ELSE Continue(c, "save")
  /\ UNCHANGED <<project, staffed, approval, token, reopened, doubled, activation>>

\* projectActivationApproval.update WHERE id
Decided(c, a) ==
  IF a = cmd[c].ref
  THEN [approval[a] EXCEPT !.state = IF cmd[c].kind = "approve" THEN "APPROVED" ELSE "REJECTED"]
  ELSE approval[a]

\* The submission the project waits for once the command has saved it.
Await(c, a) ==
  waiting' = [waiting EXCEPT ![cmd[c].project] =
                IF cmd[c].to = "PENDING_APPROVAL" THEN a ELSE None]

\* What the transaction of the save does to the approvals.
WriteApproval(c) ==
  CASE cmd[c].kind \in {"submit", "autoSubmit"} ->
         \E a \in Approvals :
           /\ IsNext(approval, a)
           /\ approval' = [approval EXCEPT ![a] =
                [ project |-> cmd[c].project,
                  state   |-> IF cmd[c].kind = "submit" THEN "open" ELSE "APPROVED" ]]
           /\ Await(c, a)
    [] cmd[c].kind \in {"approve", "reject"} ->
         approval' = [a \in Approvals |-> Decided(c, a)] /\ Await(c, None)
    [] OTHER -> UNCHANGED approval /\ Await(c, waiting[cmd[c].project])

\* PATCH writes the status past the activation flow.
Decrees(c) == /\ cmd[c].kind = "patch"
              /\ cmd[c].to \in {"DRAFT", "PENDING_APPROVAL"} \ {cmd[c].seen.status}

\* Mutant of Current: the save is by id alone.
AnyVersion(c) == TRUE

Current(c) == project[cmd[c].project].version = cmd[c].seen.version

NextPc(kind) == CASE kind = "close" -> "register" [] kind = "undo" -> "mark" [] OTHER -> "idle"

\* PrismaProjectRepository.save: updateMany WHERE version, and what belongs
\* to the same transaction; otherwise a lifecycle conflict.
Save(c) ==
  /\ cmd[c].pc = "save"
  /\ IF Current(c)
     THEN /\ project' = [project EXCEPT ![cmd[c].project] =
                           [status |-> cmd[c].to, version |-> @.version + 1]]
          /\ WriteApproval(c)
          /\ decreed' = IF Decrees(c) THEN decreed \cup {cmd[c].project} ELSE decreed
          /\ reopened' = IF cmd[c].kind = "undo"
                         THEN [reopened EXCEPT ![cmd[c].ref] = @ + 1] ELSE reopened
          /\ IF NextPc(cmd[c].kind) = "idle" THEN End(c) ELSE Continue(c, NextPc(cmd[c].kind))
     ELSE /\ End(c)
          /\ UNCHANGED <<project, approval, reopened, activation>>
  /\ UNCHANGED <<staffed, token, doubled>>

-----------------------------------------------------------------------------
(* Undo tokens *)

\* UndoService.register, after every close that was not an override.
RegisterUndo(c) ==
  /\ cmd[c].pc = "register"
  /\ \E t \in Tokens :
       /\ IsNext(token, t)
       /\ token' = [token EXCEPT ![t] = [project |-> cmd[c].project, state |-> "fresh"]]
  /\ End(c)
  /\ UNCHANGED <<project, staffed, approval, reopened, doubled, activation>>

\* Mutant of Usable: a consumed token is executed again.
UsableAgain(t) == token[t].state \in {"fresh", "consumed"}

\* Neither consumed nor expired.
Usable(t) == token[t].state = "fresh"

InClick(t) == {d \in Commands : cmd[d].kind = "undo" /\ cmd[d].ref = t}

\* UndoService.consume: read the token.
ClickUndo(c, t) ==
  /\ cmd[c].pc = "idle"
  /\ Usable(t)
  /\ cmd' = [cmd EXCEPT ![c] = [Idle EXCEPT !.pc = "restore", !.kind = "undo",
                                            !.project = token[t].project, !.ref = t]]
  /\ doubled' = IF InClick(t) # {} THEN doubled \cup {t} ELSE doubled
  /\ UNCHANGED <<project, staffed, approval, token, reopened, activation>>

\* ProjectCloseUndoExecutor: read the project; not CLOSED is a no-op.
Restore(c) ==
  LET p == cmd[c].project IN
  /\ cmd[c].pc = "restore"
  /\ IF Allowed("undo", project[p].status)
     THEN cmd' = [cmd EXCEPT ![c].pc = "save", ![c].seen = project[p], ![c].to = Target("undo")]
     ELSE Continue(c, "mark")
  /\ UNCHANGED <<project, staffed, approval, token, reopened, doubled, activation>>

\* UndoService.consume: stamp consumedAt after the executor returned.
MarkConsumed(c) ==
  /\ cmd[c].pc = "mark"
  /\ token' = [token EXCEPT ![cmd[c].ref].state = "consumed"]
  /\ End(c)
  /\ UNCHANGED <<project, staffed, approval, reopened, doubled, activation>>

-----------------------------------------------------------------------------
\* A statement fails or the process restarts: what was saved stays saved.
Fail(c) ==
  /\ cmd[c].pc # "idle"
  /\ doubled' = IF cmd[c].pc = "mark" THEN doubled \cup {cmd[c].ref} ELSE doubled
  /\ End(c)
  /\ UNCHANGED <<project, staffed, approval, token, reopened, activation>>

\* The clock passes expiresAt.
Expire(t) ==
  /\ token[t].state = "fresh"
  /\ token' = [token EXCEPT ![t].state = "expired"]
  /\ UNCHANGED <<project, staffed, approval, cmd, reopened, doubled, activation>>

\* The position module fills or frees the project, whatever its status.
StaffingChanges(p) ==
  /\ staffed' = IF p \in staffed THEN staffed \ {p} ELSE staffed \cup {p}
  /\ UNCHANGED <<project, approval, token, cmd, reopened, doubled, activation>>

CommandStep(c) ==
  \/ \E p \in Projects : Submit(c, p) \/ Activate(c, p) \/ Decide(c, p) \/ Close(c, p) \/ Update(c, p)
  \/ FindOpenApproval(c) \/ CheckStaffing(c) \/ Save(c)
  \/ \E t \in Tokens : ClickUndo(c, t)
  \/ RegisterUndo(c) \/ Restore(c) \/ MarkConsumed(c)
  \/ Fail(c)

Next == \/ \E c \in Commands : CommandStep(c)
        \/ \E t \in Tokens : Expire(t)
        \/ \E p \in Projects : StaffingChanges(p)

Spec == Init /\ [][Next]_vars

-----------------------------------------------------------------------------
(* Properties *)

(***************************************************************************)
(* No submission is ever stranded or confused with another: as long as the *)
(* project waits for it, its approval is open and is the one a decision    *)
(* finds, whatever submissions, direct activations, decisions and edits    *)
(* race.  A PATCH may itself set DRAFT or PENDING_APPROVAL past the        *)
(* approvals; where none did, a waiting project has no other open approval *)
(* and a DRAFT has none, so a resubmission never meets an old one.         *)
(***************************************************************************)
PendingHasOneOpen ==
  \A p \in Projects :
    /\ waiting[p] # None => Newest(waiting[p], Open(p))
    /\ p \notin decreed =>
         /\ project[p].status = "PENDING_APPROVAL" => Open(p) = {waiting[p]}
         /\ project[p].status = "DRAFT" => Open(p) = {}

(***************************************************************************)
(* A decision on an activation is never replaced: approval rows are        *)
(* written by id alone, and only the project's version check in the same   *)
(* transaction keeps a second decider from overwriting the first.          *)
(***************************************************************************)
DecisionIsFinal ==
  [][\A a \in Approvals :
       approval[a].state \in {"APPROVED", "REJECTED"} => approval'[a] = approval[a]]_vars

(***************************************************************************)
(* One undo token reopens its project more than once only if it was        *)
(* clicked again before the first click was recorded as consumed (or that  *)
(* record was lost).                                                       *)
(***************************************************************************)
SecondReopenNeedsDoubleClick ==
  \A t \in Tokens : reopened[t] > 1 => t \in doubled
=============================================================================
