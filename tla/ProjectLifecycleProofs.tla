----------------------- MODULE ProjectLifecycleProofs -----------------------
(***************************************************************************)
(* Theorems about ProjectLifecycle, for any projects, commands, approvals, *)
(* tokens and number of saves.  The argument: a command that still holds   *)
(* the current version of its project holds its current row (every save    *)
(* bumps the version), and the approval it found is still the open one     *)
(* (approvals change only in the transaction of a save).                   *)
(***************************************************************************)
EXTENDS ProjectLifecycle, TLAPS

Holding == {"find", "staffing", "save"}

\* What a command holds that has read its project.
Command1(c) ==
  /\ cmd[c].pc \in Holding =>
       /\ cmd[c].seen.version <= project[cmd[c].project].version
       /\ Current(c) => cmd[c].seen = project[cmd[c].project]
       /\ Allowed(cmd[c].kind, cmd[c].seen.status)
       /\ IF cmd[c].kind = "patch" THEN cmd[c].to \in PatchStatuses \cup {cmd[c].seen.status}
                                   ELSE cmd[c].to = Target(cmd[c].kind)
  /\ cmd[c].pc = "find" => cmd[c].kind \in {"approve", "reject"}
  /\ cmd[c].pc = "staffing" => cmd[c].kind = "close"
  /\ cmd[c].pc \in {"restore", "mark"} => cmd[c].kind = "undo"
  /\ cmd[c].kind = "undo" => cmd[c].ref \in Tokens

\* The approval a decider is about to decide.
FoundIsOpen(c) ==
  (cmd[c].pc = "save" /\ cmd[c].kind \in {"approve", "reject"} /\ Current(c)) =>
     /\ cmd[c].ref \in Approvals
     /\ approval[cmd[c].ref] = [project |-> cmd[c].project, state |-> "open"]

\* A project waits for a submission only in PENDING_APPROVAL.
WaitsPending == \A p \in Projects : waiting[p] # None => project[p].status = "PENDING_APPROVAL"

\* Approvals come into being in the order of their ids.
InOrder == \A a, b \in Approvals : a < b /\ approval[a].state = "none" => approval[b].state = "none"

OpenInv == PendingHasOneOpen /\ WaitsPending /\ InOrder

LInv == TypeOK /\ OpenInv
        /\ (\A c \in Commands : Command1(c)) /\ (\A c \in Commands : FoundIsOpen(c))

-----------------------------------------------------------------------------
LEMMA IdleType == Idle \in Command
BY LifecycleAssumption DEF Idle, Command, Row, Statuses, Kinds, None

LEMMA InitLInv == Init => LInv
<1> SUFFICES ASSUME Init PROVE LInv
  OBVIOUS
<1>1. Idle \in Command BY IdleType
<1>2. Idle.project \in Projects BY <1>1 DEF Command
<1>3. TypeOK
  BY <1>1, <1>2 DEF Init, TypeOK, Row, Statuses, ApprovalStates, TokenStates
<1>4. OpenInv BY DEF Init, OpenInv, PendingHasOneOpen, WaitsPending, InOrder, Open
<1>5. \A c \in Commands : Command1(c) BY DEF Init, Command1, Idle, Holding
<1>6. \A c \in Commands : FoundIsOpen(c) BY DEF Init, FoundIsOpen, Idle
<1> QED BY <1>3, <1>4, <1>5, <1>6 DEF LInv

-----------------------------------------------------------------------------
(* Steps that write neither projects nor approvals: only the command that  *)
(* moved has to be looked at.                                              *)

LEMMA OpenSame ==
  ASSUME OpenInv, UNCHANGED <<project, approval, activation>>
  PROVE  OpenInv'
BY DEF OpenInv, PendingHasOneOpen, WaitsPending, InOrder, Open, Newest, activation

LEMMA Untouched ==
  ASSUME LInv, NEW c \in Commands, UNCHANGED <<project, approval, activation>>,
         NEW x \in Command, cmd' = [cmd EXCEPT ![c] = x],
         Command1(c)', FoundIsOpen(c)',
         staffed' \subseteq Projects, reopened' \in [Tokens -> Nat], doubled' \subseteq Tokens,
         token' \in [Tokens -> [project : Projects, state : TokenStates]]
  PROVE  LInv'
<1>1. TypeOK' BY DEF LInv, TypeOK, activation
<1>2. OpenInv' BY OpenSame DEF LInv
<1>3. \A d \in Commands \ {c} : cmd'[d] = cmd[d] BY DEF LInv, TypeOK
<1>4. \A d \in Commands : Command1(d)'
  <2> TAKE d \in Commands
  <2>1. CASE d = c BY <2>1
  <2>2. CASE d # c
    BY <2>2, <1>3 DEF LInv, Command1, Current
  <2> QED BY <2>1, <2>2
<1>5. \A d \in Commands : FoundIsOpen(d)'
  <2> TAKE d \in Commands
  <2>1. CASE d = c BY <2>1
  <2>2. CASE d # c
    BY <2>2, <1>3 DEF LInv, FoundIsOpen, Current
  <2> QED BY <2>1, <2>2
<1> QED BY <1>1, <1>2, <1>4, <1>5 DEF LInv

LEMMA EndKeeps ==
  ASSUME LInv, NEW c \in Commands, UNCHANGED <<project, approval, staffed, activation>>, End(c),
         reopened' \in [Tokens -> Nat], doubled' \subseteq Tokens,
         token' \in [Tokens -> [project : Projects, state : TokenStates]]
  PROVE  LInv'
<1>1. cmd'[c] = Idle BY DEF End, LInv, TypeOK
<1>2. Command1(c)' /\ FoundIsOpen(c)' BY <1>1 DEF Command1, FoundIsOpen, Idle, Holding
<1> QED BY <1>2, IdleType, Untouched DEF End, LInv, TypeOK

LEMMA TokensTyped ==
  ASSUME TypeOK
  PROVE  /\ staffed \subseteq Projects /\ reopened \in [Tokens -> Nat] /\ doubled \subseteq Tokens
         /\ token \in [Tokens -> [project : Projects, state : TokenStates]]
BY DEF TypeOK

-----------------------------------------------------------------------------
LEMMA BeginKeeps ==
  ASSUME LInv, NEW c \in Commands, NEW p \in Projects, NEW kind \in Kinds \ {"undo"},
         NEW to \in Statuses,
         IF kind = "patch" THEN to \in PatchStatuses \cup {project[p].status} ELSE to = Target(kind),
         Begin(c, kind, p, to)
  PROVE  LInv'
<1> DEFINE x == [ pc |-> FirstPc(kind, project[p].status), kind |-> kind,
                  project |-> p, seen |-> project[p], to |-> to, ref |-> None ]
<1>1. project[p] \in Row BY DEF LInv, TypeOK
<1>2. FirstPc(kind, project[p].status) \in Holding BY DEF FirstPc, Holding
<1>3. x \in Command BY <1>1, <1>2 DEF Command, Holding, None
<1>4. cmd' = [cmd EXCEPT ![c] = x] /\ UNCHANGED <<project, approval, staffed, token, reopened, doubled, activation>>
  BY DEF Begin
<1>5. cmd'[c] = x BY <1>4 DEF LInv, TypeOK
<1>6. Command1(c)'
  <2>1. /\ FirstPc(kind, project[p].status) = "find" => kind \in {"approve", "reject"}
        /\ FirstPc(kind, project[p].status) = "staffing" => kind = "close"
    BY DEF FirstPc
  <2> QED
    BY <1>1, <1>2, <1>4, <1>5, <2>1 DEF Command1, Begin, Current, Row, Holding
<1>7. FoundIsOpen(c)' BY <1>5 DEF FoundIsOpen, FirstPc
<1> QED BY <1>3, <1>4, <1>6, <1>7, Untouched, TokensTyped DEF LInv

LEMMA FirstSteps ==
  ASSUME LInv, NEW c \in Commands, NEW p \in Projects,
         Submit(c, p) \/ Activate(c, p) \/ Decide(c, p) \/ Close(c, p) \/ Update(c, p)
  PROVE  LInv'
<1>1. \A kind \in Kinds \ {"undo", "patch"} : Target(kind) \in Statuses
  BY DEF Kinds, Target, Statuses
<1>2. CASE \E kind \in {"submit", "autoSubmit", "activate", "approve", "reject", "close", "override"} :
              Begin(c, kind, p, Target(kind))
  <2> PICK kind \in {"submit", "autoSubmit", "activate", "approve", "reject", "close", "override"} :
              Begin(c, kind, p, Target(kind))
    BY <1>2
  <2>1. kind \in Kinds \ {"undo"} /\ kind # "patch" BY DEF Kinds
  <2>2. Target(kind) \in Statuses BY <1>1, <2>1
  <2> QED BY <2>1, <2>2, BeginKeeps
<1>3. CASE \E to \in PatchStatuses \cup {project[p].status} : Begin(c, "patch", p, to)
  <2> PICK to \in PatchStatuses \cup {project[p].status} : Begin(c, "patch", p, to)
    BY <1>3
  <2>1. to \in Statuses
    BY LifecycleAssumption DEF LInv, TypeOK, Row, Statuses
  <2>2. "patch" \in Kinds \ {"undo"} BY DEF Kinds
  <2> QED BY <2>1, <2>2, BeginKeeps
<1> QED BY <1>2, <1>3 DEF Submit, Activate, Decide, Close, Update

LEMMA FindKeeps ==
  ASSUME LInv, NEW c \in Commands, FindOpenApproval(c)
  PROVE  LInv'
<1>1. UNCHANGED <<project, staffed, approval, token, reopened, doubled, activation>> BY DEF FindOpenApproval
<1>2. CASE End(c)
  BY <1>1, <1>2, EndKeeps, TokensTyped DEF LInv
<1>3. ASSUME NEW a \in Open(cmd[c].project),
             cmd' = [cmd EXCEPT ![c].pc = "save", ![c].ref = a]
      PROVE  LInv'
  <2> DEFINE x == [cmd[c] EXCEPT !.pc = "save", !.ref = a]
  <2>1. cmd[c] \in Command /\ cmd[c].project \in Projects BY DEF LInv, TypeOK, Command
  <2>2. cmd' = [cmd EXCEPT ![c] = x] BY <1>3, <2>1 DEF LInv, TypeOK, Command
  <2>4. a \in Approvals /\ approval[a].project = cmd[c].project /\ approval[a].state = "open"
    BY DEF Open
  <2>5. approval[a] = [project |-> cmd[c].project, state |-> "open"]
    BY <2>4 DEF LInv, TypeOK
  <2>6. x \in Command BY <2>1, <2>4 DEF Command
  <2>7. cmd'[c] = x BY <2>2 DEF LInv, TypeOK
  <2>8. Command1(c)'
    <3>1. Command1(c) /\ cmd[c].pc = "find" BY DEF LInv, FindOpenApproval
    <3>2. /\ x.pc = "save" /\ x.kind = cmd[c].kind /\ x.project = cmd[c].project
          /\ x.seen = cmd[c].seen /\ x.to = cmd[c].to
      BY <2>1 DEF Command
    <3>3. cmd[c].kind # "undo" BY <3>1 DEF Command1
    <3> QED BY <1>1, <2>7, <3>1, <3>2, <3>3 DEF Command1, Current, Holding
  <2>9. FoundIsOpen(c)'
    <3>1. x.kind = cmd[c].kind /\ x.project = cmd[c].project /\ x.ref = a
      BY <2>1 DEF Command
    <3> QED BY <1>1, <2>4, <2>5, <2>7, <3>1 DEF FoundIsOpen
  <2> QED BY <1>1, <2>2, <2>6, <2>8, <2>9, Untouched, TokensTyped DEF LInv
<1> QED BY <1>2, <1>3 DEF FindOpenApproval

LEMMA StaffingKeeps ==
  ASSUME LInv, NEW c \in Commands, CheckStaffing(c)
  PROVE  LInv'
<1> DEFINE x == [cmd[c] EXCEPT !.pc = "save"]
<1>1. UNCHANGED <<project, staffed, approval, token, reopened, doubled, activation>> BY DEF CheckStaffing
<1>2. CASE cmd[c].project \in staffed
  BY <1>1, <1>2, EndKeeps, TokensTyped DEF CheckStaffing, LInv
<1>3. CASE cmd[c].project \notin staffed
  <2>1. cmd[c] \in Command BY DEF LInv, TypeOK
  <2>2. cmd' = [cmd EXCEPT ![c] = x] BY <1>3, <2>1 DEF CheckStaffing, Continue
  <2>3. x \in Command /\ cmd'[c] = x BY <2>1, <2>2 DEF LInv, TypeOK, Command
  <2>4. /\ x.pc = "save" /\ x.kind = cmd[c].kind /\ x.project = cmd[c].project
        /\ x.seen = cmd[c].seen /\ x.to = cmd[c].to /\ x.ref = cmd[c].ref
    BY <2>1 DEF Command
  <2>5. Command1(c) /\ cmd[c].pc = "staffing" BY DEF LInv, CheckStaffing
  <2>6. cmd[c].kind = "close" BY <2>5 DEF Command1
  <2>7. Command1(c)' BY <1>1, <2>3, <2>4, <2>5 DEF Command1, Current, Holding
  <2>8. FoundIsOpen(c)' BY <2>3, <2>4, <2>6 DEF FoundIsOpen
  <2> QED BY <1>1, <2>2, <2>3, <2>7, <2>8, Untouched, TokensTyped DEF LInv
<1> QED BY <1>2, <1>3

-----------------------------------------------------------------------------
(* The save *)

\* What the aggregate leads to, when the row is still the one that was read.
LEMMA SaveLegal ==
  ASSUME LInv, NEW c \in Commands, cmd[c].pc = "save", Current(c)
  PROVE  /\ cmd[c].project \in Projects /\ cmd[c].to \in Statuses
         /\ Allowed(cmd[c].kind, project[cmd[c].project].status)
         /\ cmd[c].to = "PENDING_APPROVAL" =>
              cmd[c].kind = "submit" \/ Decrees(c) \/ project[cmd[c].project].status = "PENDING_APPROVAL"
         /\ cmd[c].to = "DRAFT" =>
              cmd[c].kind = "reject" \/ Decrees(c) \/ project[cmd[c].project].status = "DRAFT"
         /\ cmd[c].to \in {"PENDING_APPROVAL", "DRAFT"} => cmd[c].kind \in {"submit", "reject", "patch"}
         /\ cmd[c].kind = "submit" => cmd[c].to = "PENDING_APPROVAL"
         /\ cmd[c].kind = "reject" => cmd[c].to = "DRAFT"
         /\ cmd[c].kind \in {"autoSubmit", "approve"} => cmd[c].to = "ACTIVE"
<1>1. Command1(c) /\ cmd[c] \in Command BY DEF LInv, TypeOK
<1>2. cmd[c].seen = project[cmd[c].project] BY <1>1 DEF Command1, Holding
<1>3. cmd[c].kind \in Kinds /\ cmd[c].to \in Statuses /\ cmd[c].project \in Projects
  BY <1>1 DEF Command
<1>4. Allowed(cmd[c].kind, project[cmd[c].project].status)
  BY <1>1, <1>2 DEF Command1, Holding
<1>5. CASE cmd[c].kind = "patch"
  <2> QED BY <1>2, <1>3, <1>4, <1>5 DEF Decrees
<1>6. CASE cmd[c].kind # "patch"
  <2>1. cmd[c].to = Target(cmd[c].kind) BY <1>1, <1>6 DEF Command1, Holding
  <2> QED BY <1>3, <1>4, <1>6, <2>1 DEF Target, Kinds
<1> QED BY <1>5, <1>6

\* The save of a project leaves the open approvals of the others alone.
LEMMA SaveApprovals ==
  ASSUME LInv, NEW c \in Commands, cmd[c].pc = "save", Current(c), WriteApproval(c)
  PROVE  /\ approval' \in [Approvals -> [project : Projects, state : ApprovalStates]]
         /\ \A a \in Approvals : approval'[a] # approval[a] => approval'[a].project = cmd[c].project
         /\ \A a \in Approvals : approval'[a] # approval[a] =>
              \/ approval[a].state = "none"
              \/ approval[a].project = cmd[c].project /\ approval[a].state = "open"
         /\ cmd[c].kind = "submit" =>
              \E a \in Approvals : /\ approval[a].state = "none"
                                   /\ approval'[a].state = "open"
                                   /\ \A b \in Approvals \ {a} : approval'[b] = approval[b]
                                   /\ \A b \in Approvals : approval[b].state = "open" => b < a
                                   /\ Await(c, a)
         /\ cmd[c].kind # "submit" =>
              \A a \in Approvals : approval'[a].state = "open" => approval'[a] = approval[a]
         /\ cmd[c].kind \in {"approve", "reject"} => approval'[cmd[c].ref].state # "open"
         /\ InOrder'
<1>1. approval \in [Approvals -> [project : Projects, state : ApprovalStates]] /\ cmd[c] \in Command
  BY DEF LInv, TypeOK
<1>2. cmd[c].project \in Projects /\ cmd[c].kind \in Kinds BY <1>1 DEF Command
<1>3. CASE cmd[c].kind \in {"submit", "autoSubmit"}
  <2>1. PICK a \in Approvals :
           /\ IsNext(approval, a)
           /\ approval' = [approval EXCEPT ![a] =
                [ project |-> cmd[c].project,
                  state   |-> IF cmd[c].kind = "submit" THEN "open" ELSE "APPROVED" ]]
           /\ Await(c, a)
    BY <1>3 DEF WriteApproval
  <2>2. approval[a].state = "none" BY <2>1 DEF IsNext
  <2>3. approval'[a] = [ project |-> cmd[c].project,
                         state   |-> IF cmd[c].kind = "submit" THEN "open" ELSE "APPROVED" ]
    BY <1>1, <2>1
  <2>4. \A b \in Approvals \ {a} : approval'[b] = approval[b] BY <1>1, <2>1
  <2>5. approval' \in [Approvals -> [project : Projects, state : ApprovalStates]]
    BY <1>1, <1>2, <2>1 DEF ApprovalStates
  <2>6. \A b \in Approvals : b \in Nat BY LifecycleAssumption DEF Approvals
  <2>7. \A b \in Approvals : approval[b].state # "none" => b < a
    BY <2>2, <2>6 DEF LInv, OpenInv, InOrder
  <2>8. \A b \in Approvals : b < a => approval[b].state # "none"
    BY <1>1, <2>1 DEF IsNext
  <2>9. InOrder' BY <1>3, <2>3, <2>4, <2>6, <2>7, <2>8 DEF InOrder
  <2> QED BY <1>3, <2>1, <2>2, <2>3, <2>4, <2>5, <2>7, <2>9
<1>4. CASE cmd[c].kind \in {"approve", "reject"}
  <2>1. approval' = [a \in Approvals |-> Decided(c, a)] BY <1>4 DEF WriteApproval
  <2>2. /\ cmd[c].ref \in Approvals
        /\ approval[cmd[c].ref] = [project |-> cmd[c].project, state |-> "open"]
    BY <1>4 DEF LInv, FoundIsOpen
  <2>3. \A a \in Approvals \ {cmd[c].ref} : approval'[a] = approval[a] BY <2>1 DEF Decided
  <2>4. approval'[cmd[c].ref] = [ project |-> cmd[c].project,
          state |-> IF cmd[c].kind = "approve" THEN "APPROVED" ELSE "REJECTED" ]
    BY <1>1, <2>1, <2>2 DEF Decided
  <2>5. \A a \in Approvals : approval'[a] \in [project : Projects, state : ApprovalStates]
    BY <1>1, <1>2, <2>3, <2>4 DEF ApprovalStates
  <2>6. approval' \in [Approvals -> [project : Projects, state : ApprovalStates]]
    BY <2>1, <2>5
  <2>7. \A a \in Approvals : approval'[a].state = "none" <=> approval[a].state = "none"
    BY <2>2, <2>3, <2>4
  <2>8. InOrder' BY <2>7 DEF InOrder, LInv, OpenInv
  <2> QED BY <1>4, <2>2, <2>3, <2>4, <2>6, <2>8
<1>5. CASE cmd[c].kind \notin {"submit", "autoSubmit", "approve", "reject"}
  BY <1>1, <1>5 DEF WriteApproval, InOrder, LInv, OpenInv
<1> QED BY <1>3, <1>4, <1>5

LEMMA SaveWaits ==
  ASSUME LInv, NEW c \in Commands, cmd[c].pc = "save", Current(c), WriteApproval(c)
  PROVE  /\ waiting' \in [Projects -> {None} \cup Approvals]
         /\ \A q \in Projects \ {cmd[c].project} : waiting'[q] = waiting[q]
         /\ cmd[c].to # "PENDING_APPROVAL" => waiting'[cmd[c].project] = None
         /\ cmd[c].kind = "patch" /\ cmd[c].to = "PENDING_APPROVAL" =>
              waiting'[cmd[c].project] = waiting[cmd[c].project]
<1>1. waiting \in [Projects -> {None} \cup Approvals] /\ cmd[c].project \in Projects
  BY DEF LInv, TypeOK, Command
<1>2. PICK a \in {None} \cup Approvals : /\ Await(c, a)
                                         /\ cmd[c].kind = "patch" => a = waiting[cmd[c].project]
  BY <1>1 DEF WriteApproval
<1> QED BY <1>1, <1>2 DEF Await

LEMMA SaveKeepsType ==
  ASSUME LInv, NEW c \in Commands, Save(c)
  PROVE  TypeOK'
<1>1. cmd[c] \in Command /\ cmd[c].pc = "save" BY DEF LInv, TypeOK, Save
<1>2. Idle \in Command BY IdleType
<1>3. CASE Current(c)
  <2>1. cmd[c].project \in Projects /\ cmd[c].to \in Statuses BY <1>1, <1>3, SaveLegal
  <2>2. project' = [project EXCEPT ![cmd[c].project] =
                      [status |-> cmd[c].to, version |-> project[cmd[c].project].version + 1]]
    BY <1>3 DEF Save
  <2>3. project' \in [Projects -> Row] BY <2>1, <2>2 DEF LInv, TypeOK, Row
  <2>4. approval' \in [Approvals -> [project : Projects, state : ApprovalStates]]
    BY <1>1, <1>3, SaveApprovals DEF Save
  <2>5. reopened' \in [Tokens -> Nat] /\ decreed' \subseteq Projects
    BY <1>3, <2>1 DEF Save, LInv, TypeOK
  <2>6. cmd' \in [Commands -> Command]
    <3>1. CASE End(c) BY <1>2, <3>1 DEF End, LInv, TypeOK
    <3>2. CASE Continue(c, NextPc(cmd[c].kind))
      <4>1. NextPc(cmd[c].kind) \in {"register", "mark", "idle"} BY DEF NextPc
      <4> QED BY <1>1, <3>2, <4>1 DEF Continue, LInv, TypeOK, Command
    <3> QED BY <1>3, <3>1, <3>2 DEF Save
  <2>7. waiting' \in [Projects -> {None} \cup Approvals]
    BY <1>1, <1>3, SaveWaits DEF Save
  <2> QED BY <2>3, <2>4, <2>5, <2>6, <2>7 DEF Save, LInv, TypeOK
<1>4. CASE ~Current(c) BY <1>2, <1>4 DEF Save, End, LInv, TypeOK, activation
<1> QED BY <1>3, <1>4

LEMMA SaveKeepsOpen ==
  ASSUME LInv, NEW c \in Commands, Save(c)
  PROVE  OpenInv'
<1>1. cmd[c] \in Command /\ cmd[c].pc = "save" BY DEF LInv, TypeOK, Save
<1>2. CASE ~Current(c)
  BY <1>2, OpenSame DEF Save, LInv
<1>3. CASE Current(c)
  <2> PICK p \in Projects : p = cmd[c].project
    BY <1>1 DEF Command
  <2>1. WriteApproval(c) BY <1>3 DEF Save
  <2>2. /\ project'[p] = [status |-> cmd[c].to, version |-> project[p].version + 1]
        /\ \A q \in Projects \ {p} : project'[q] = project[q]
    BY <1>1, <1>3, SaveLegal DEF Save, LInv, TypeOK
  <2>3. \A a \in Approvals : approval'[a] # approval[a] =>
           /\ approval'[a].project = p
           /\ approval[a].state = "none" \/ (approval[a].project = p /\ approval[a].state = "open")
    BY <1>1, <1>3, <2>1, SaveApprovals
  <2>4. \A q \in Projects \ {p} : Open(q)' = Open(q)
    <3> TAKE q \in Projects \ {p}
    <3>1. \A a \in Approvals : a \in Open(q)' <=> a \in Open(q)
      BY <2>3 DEF Open
    <3> QED BY <3>1 DEF Open
  <2>5. /\ \A q \in Projects \ {p} : waiting'[q] = waiting[q]
        /\ cmd[c].to # "PENDING_APPROVAL" => waiting'[p] = None
        /\ cmd[c].kind = "patch" /\ cmd[c].to = "PENDING_APPROVAL" => waiting'[p] = waiting[p]
    BY <1>1, <1>3, <2>1, SaveWaits
  <2>6. p \notin decreed' => p \notin decreed /\ ~Decrees(c)
    BY <1>3 DEF Save
  <2>7. \A q \in Projects \ {p} : q \notin decreed' => q \notin decreed
    BY <1>3 DEF Save
  <2>8. InOrder' BY <1>1, <1>3, <2>1, SaveApprovals
  <2>9. cmd[c].kind # "submit" => Open(p)' \subseteq Open(p)
    BY <1>1, <1>3, <2>1, SaveApprovals DEF Open
  \* What is left to show: the project of the command.
  <2> DEFINE Good == /\ waiting'[p] # None => /\ project'[p].status = "PENDING_APPROVAL"
                                              /\ waiting'[p] \in Open(p)'
                                              /\ \A b \in Open(p)' : b <= waiting'[p]
                     /\ p \notin decreed' =>
                          /\ project'[p].status = "PENDING_APPROVAL" => Open(p)' = {waiting'[p]}
                          /\ project'[p].status = "DRAFT" => Open(p)' = {}
  <2>10. Good => OpenInv'
    <3> SUFFICES ASSUME Good PROVE PendingHasOneOpen' /\ WaitsPending'
      BY <2>8 DEF OpenInv
    <3>1. WaitsPending' BY <2>2, <2>5 DEF WaitsPending, LInv, OpenInv
    <3>2. ASSUME NEW q \in Projects
          PROVE  /\ waiting'[q] # None => /\ waiting'[q] \in Open(q)'
                                          /\ \A b \in Open(q)' : b <= waiting'[q]
                 /\ q \notin decreed' =>
                      /\ project'[q].status = "PENDING_APPROVAL" => Open(q)' = {waiting'[q]}
                      /\ project'[q].status = "DRAFT" => Open(q)' = {}
      <4>1. CASE q = p BY <4>1
      <4>2. CASE q # p
        BY <2>2, <2>4, <2>5, <2>7, <4>2 DEF LInv, OpenInv, PendingHasOneOpen, Newest
      <4> QED BY <4>1, <4>2
    <3>3. PendingHasOneOpen' BY <3>2 DEF PendingHasOneOpen, Newest
    <3> QED BY <3>1, <3>3
  <2> HIDE DEF Good
  <2>11. Allowed(cmd[c].kind, project[p].status) BY <1>1, <1>3, SaveLegal
  <2>12. CASE cmd[c].kind = "submit"
    <3>1. project[p].status = "DRAFT" BY <2>11, <2>12 DEF Allowed
    <3>2. PICK a \in Approvals : /\ approval[a].state = "none" /\ approval'[a].state = "open"
                                 /\ \A b \in Approvals \ {a} : approval'[b] = approval[b]
                                 /\ \A b \in Approvals : approval[b].state = "open" => b < a
                                 /\ Await(c, a)
      BY <1>1, <1>3, <2>1, <2>12, SaveApprovals
    <3>3. approval'[a].project = p BY <2>3, <3>2
    <3>4. Open(p)' = Open(p) \cup {a} BY <3>2, <3>3 DEF Open
    <3>5. project'[p].status = "PENDING_APPROVAL" /\ cmd[c].to = "PENDING_APPROVAL"
      BY <1>1, <1>3, <2>2, <2>12, SaveLegal
    <3>6. waiting'[p] = a BY <3>2, <3>5 DEF Await, LInv, TypeOK
    <3>7. \A b \in Approvals : b \in Nat BY LifecycleAssumption DEF Approvals
    <3>8. \A b \in Open(p)' : b <= a BY <3>2, <3>4, <3>7 DEF Open
    <3>9. p \notin decreed' => Open(p) = {}
      BY <2>6, <3>1 DEF LInv, OpenInv, PendingHasOneOpen
    <3>10. Good BY <3>4, <3>5, <3>6, <3>8, <3>9 DEF Good
    <3> QED BY <2>10, <3>10
  <2>13. CASE cmd[c].kind = "reject"
    <3>1. cmd[c].ref \in Approvals /\ approval[cmd[c].ref] = [project |-> p, state |-> "open"]
      BY <1>1, <1>3, <2>13 DEF LInv, FoundIsOpen
    <3>2. approval'[cmd[c].ref].state # "open"
      BY <1>1, <1>3, <2>1, <2>13, SaveApprovals
    <3>3. cmd[c].ref \in Open(p) /\ cmd[c].ref \notin Open(p)' BY <3>1, <3>2 DEF Open
    <3>4. project[p].status = "PENDING_APPROVAL" BY <2>11, <2>13 DEF Allowed
    <3>5. p \notin decreed' => Open(p)' = {}
      BY <2>6, <2>9, <2>13, <3>3, <3>4 DEF LInv, OpenInv, PendingHasOneOpen
    <3>6. cmd[c].to = "DRAFT" BY <1>1, <1>3, <2>13, SaveLegal
    <3>7. Good BY <2>2, <2>5, <3>5, <3>6 DEF Good
    <3> QED BY <2>10, <3>7
  <2>14. CASE cmd[c].kind = "patch"
    <3>1. Open(p)' = Open(p)
      BY <1>1, <2>1, <2>14 DEF WriteApproval, Open
    <3>2. p \notin decreed' =>
            /\ project'[p].status = "PENDING_APPROVAL" => project[p].status = "PENDING_APPROVAL"
            /\ project'[p].status = "DRAFT" => project[p].status = "DRAFT"
      BY <1>1, <1>3, <2>2, <2>6, <2>14, SaveLegal
    <3>3. /\ waiting'[p] # None => cmd[c].to = "PENDING_APPROVAL" /\ waiting'[p] = waiting[p]
          /\ project'[p].status = cmd[c].to
      BY <2>2, <2>5, <2>14
    <3>4. waiting'[p] # None => waiting[p] \in Open(p) /\ \A b \in Open(p) : b <= waiting[p]
      BY <3>3 DEF LInv, OpenInv, PendingHasOneOpen, Newest
    <3>5. p \notin decreed' =>
            /\ project[p].status = "PENDING_APPROVAL" => Open(p) = {waiting[p]}
            /\ project[p].status = "DRAFT" => Open(p) = {}
      BY <2>6 DEF LInv, OpenInv, PendingHasOneOpen
    <3>6. Good BY <2>5, <2>14, <3>1, <3>2, <3>3, <3>4, <3>5 DEF Good
    <3> QED BY <2>10, <3>6
  <2>15. CASE cmd[c].kind \notin {"submit", "reject", "patch"}
    <3>1. project'[p].status \notin {"PENDING_APPROVAL", "DRAFT"} /\ cmd[c].to # "PENDING_APPROVAL"
      BY <1>1, <1>3, <2>2, <2>15, SaveLegal
    <3>2. Good BY <2>5, <3>1 DEF Good
    <3> QED BY <2>10, <3>2
  <2> QED BY <2>12, <2>13, <2>14, <2>15
<1> QED BY <1>2, <1>3

LEMMA SaveKeepsCommands ==
  ASSUME LInv, NEW c \in Commands, Save(c)
  PROVE  (\A d \in Commands : Command1(d)') /\ (\A d \in Commands : FoundIsOpen(d)')
<1>1. cmd[c] \in Command /\ cmd[c].pc = "save" /\ Command1(c) BY DEF LInv, TypeOK, Save
<1>2. CASE ~Current(c)
  <2>1. End(c) /\ UNCHANGED <<project, approval, staffed, token, reopened, doubled, activation>>
    BY <1>2 DEF Save
  <2> QED BY <2>1, EndKeeps, TokensTyped DEF LInv
<1>3. CASE Current(c)
  <2> PICK p \in Projects : p = cmd[c].project
    BY <1>1 DEF Command
  <2>1. /\ p \in Projects
        /\ project'[p] = [status |-> cmd[c].to, version |-> project[p].version + 1]
        /\ \A q \in Projects \ {p} : project'[q] = project[q]
    BY <1>1, <1>3, SaveLegal DEF Save, LInv, TypeOK
  <2>2. \A a \in Approvals : approval'[a] # approval[a] =>
           approval[a].state = "none" \/ (approval[a].project = p /\ approval[a].state = "open")
    BY <1>1, <1>3, SaveApprovals DEF Save
  <2>3. ASSUME NEW d \in Commands \ {c} PROVE Command1(d)' /\ FoundIsOpen(d)'
    <3>1. cmd'[d] = cmd[d] /\ cmd[d] \in Command BY <1>3 DEF Save, End, Continue, LInv, TypeOK
    <3>2. Command1(d) /\ FoundIsOpen(d) BY DEF LInv
    <3>3. CASE cmd[d].project = p
      <4>1. project[p].version \in Nat BY <2>1 DEF LInv, TypeOK, Row
      <4>2. cmd[d].seen.version \in Nat BY <3>1 DEF Command, Row
      <4>3. cmd[d].pc \in Holding => /\ cmd[d].seen.version <= project'[p].version
                                     /\ ~ Current(d)'
        BY <2>1, <3>1, <3>2, <3>3, <4>1, <4>2 DEF Command1, Current
      <4> QED BY <3>1, <3>2, <3>3, <4>3 DEF Command1, FoundIsOpen, Holding
    <3>4. CASE cmd[d].project # p
      <4>1. project'[cmd[d].project] = project[cmd[d].project]
        BY <2>1, <3>1, <3>4 DEF Command
      <4>2. Current(d)' <=> Current(d) BY <3>1, <4>1 DEF Current
      <4>3. Command1(d)' BY <3>1, <3>2, <4>1, <4>2 DEF Command1
      <4>4. FoundIsOpen(d)' BY <2>2, <3>1, <3>2, <3>4, <4>2 DEF FoundIsOpen
      <4> QED BY <4>3, <4>4
    <3> QED BY <3>3, <3>4
  <2>4. Command1(c)' /\ FoundIsOpen(c)'
    <3>1. CASE End(c)
      <4>1. cmd'[c] = Idle BY <3>1 DEF End, LInv, TypeOK
      <4> QED BY <4>1 DEF Command1, FoundIsOpen, Idle, Holding
    <3>2. CASE Continue(c, NextPc(cmd[c].kind)) /\ NextPc(cmd[c].kind) # "idle"
      <4>1. NextPc(cmd[c].kind) \in {"register", "mark"}
            /\ (NextPc(cmd[c].kind) = "mark" => cmd[c].kind = "undo")
        BY <3>2 DEF NextPc
      <4>2. cmd'[c] = [cmd[c] EXCEPT !.pc = NextPc(cmd[c].kind)]
        BY <3>2 DEF Continue, LInv, TypeOK
      <4>3. /\ cmd'[c].pc = NextPc(cmd[c].kind) /\ cmd'[c].kind = cmd[c].kind
            /\ cmd'[c].ref = cmd[c].ref
        BY <1>1, <4>2 DEF Command
      <4> QED BY <1>1, <4>1, <4>3 DEF Command1, FoundIsOpen, Holding
    <3> QED BY <1>3, <3>1, <3>2 DEF Save
  <2> QED BY <2>3, <2>4
<1> QED BY <1>2, <1>3

-----------------------------------------------------------------------------
(* The steps of undo tokens *)

LEMMA RegisterKeeps ==
  ASSUME LInv, NEW c \in Commands, RegisterUndo(c)
  PROVE  LInv'
<1>1. cmd[c].project \in Projects BY DEF LInv, TypeOK, Command
<1>2. PICK t \in Tokens : token' = [token EXCEPT ![t] = [project |-> cmd[c].project, state |-> "fresh"]]
  BY DEF RegisterUndo
<1>3. token' \in [Tokens -> [project : Projects, state : TokenStates]]
  BY <1>1, <1>2 DEF LInv, TypeOK, TokenStates
<1> QED BY <1>3, EndKeeps, TokensTyped DEF RegisterUndo, LInv

LEMMA ClickKeeps ==
  ASSUME LInv, NEW c \in Commands, NEW t \in Tokens, ClickUndo(c, t)
  PROVE  LInv'
<1> DEFINE x == [Idle EXCEPT !.pc = "restore", !.kind = "undo", !.project = token[t].project, !.ref = t]
<1>1. token[t].project \in Projects BY DEF LInv, TypeOK
<1>2. x \in Command BY <1>1, IdleType DEF Command, Kinds
<1>3. /\ x.pc = "restore" /\ x.kind = "undo" /\ x.ref = t BY IdleType DEF Command
<1>4. cmd' = [cmd EXCEPT ![c] = x] BY DEF ClickUndo
<1>5. cmd'[c] = x BY <1>4 DEF LInv, TypeOK
<1>6. Command1(c)' /\ FoundIsOpen(c)' BY <1>3, <1>5 DEF Command1, FoundIsOpen, Holding
<1>7. UNCHANGED <<project, staffed, approval, token, reopened, activation>> BY DEF ClickUndo
<1>8. doubled' \subseteq Tokens BY DEF ClickUndo, LInv, TypeOK
<1> QED BY <1>2, <1>4, <1>6, <1>7, <1>8, Untouched, TokensTyped DEF LInv

LEMMA RestoreKeeps ==
  ASSUME LInv, NEW c \in Commands, Restore(c)
  PROVE  LInv'
<1>1. /\ cmd[c] \in Command /\ Command1(c) /\ cmd[c].pc = "restore"
      /\ UNCHANGED <<project, staffed, approval, token, reopened, doubled, activation>>
  BY DEF LInv, TypeOK, Restore
<1>2. cmd[c].kind = "undo" /\ cmd[c].ref \in Tokens BY <1>1 DEF Command1
<1> DEFINE p == cmd[c].project
<1>3. CASE Allowed("undo", project[p].status)
  <2> DEFINE x == [cmd[c] EXCEPT !.pc = "save", !.seen = project[p], !.to = Target("undo")]
  <2>1. cmd' = [cmd EXCEPT ![c] = x] BY <1>1, <1>3 DEF Restore, LInv, TypeOK, Command
  <2>2. p \in Projects /\ project[p] \in Row /\ Target("undo") \in Statuses
    BY <1>1 DEF LInv, TypeOK, Command, Target, Statuses
  <2>3. x \in Command BY <1>1, <2>2 DEF Command
  <2>4. /\ x.pc = "save" /\ x.kind = "undo" /\ x.project = p /\ x.seen = project[p]
        /\ x.to = Target("undo") /\ x.ref = cmd[c].ref
    BY <1>1, <1>2 DEF Command
  <2>5. cmd'[c] = x BY <2>1 DEF LInv, TypeOK
  <2>6. Command1(c)' BY <1>1, <1>2, <1>3, <2>2, <2>4, <2>5 DEF Command1, Current, Row
  <2>7. FoundIsOpen(c)' BY <2>4, <2>5 DEF FoundIsOpen
  <2> QED BY <1>1, <2>1, <2>3, <2>6, <2>7, Untouched, TokensTyped DEF LInv
<1>4. CASE ~Allowed("undo", project[p].status)
  <2> DEFINE x == [cmd[c] EXCEPT !.pc = "mark"]
  <2>1. cmd' = [cmd EXCEPT ![c] = x] BY <1>4 DEF Restore, Continue
  <2>2. x \in Command BY <1>1 DEF Command
  <2>3. cmd'[c] = x BY <2>1 DEF LInv, TypeOK
  <2>4. x.pc = "mark" /\ x.kind = "undo" /\ x.ref = cmd[c].ref BY <1>1, <1>2 DEF Command
  <2>5. Command1(c)' /\ FoundIsOpen(c)' BY <1>2, <2>3, <2>4 DEF Command1, FoundIsOpen, Holding
  <2> QED BY <1>1, <2>1, <2>2, <2>5, Untouched, TokensTyped DEF LInv
<1> QED BY <1>3, <1>4

LEMMA EndingSteps ==
  ASSUME LInv, NEW c \in Commands, MarkConsumed(c) \/ Fail(c)
  PROVE  LInv'
<1>1. CASE MarkConsumed(c)
  <2>1. token' \in [Tokens -> [project : Projects, state : TokenStates]]
    BY <1>1 DEF MarkConsumed, LInv, TypeOK, TokenStates
  <2> QED BY <1>1, <2>1, EndKeeps, TokensTyped DEF MarkConsumed, LInv
<1>2. CASE Fail(c)
  <2>1. cmd[c].pc = "mark" => cmd[c].ref \in Tokens BY DEF LInv, Command1
  <2>2. doubled' \subseteq Tokens BY <1>2, <2>1 DEF Fail, LInv, TypeOK
  <2> QED BY <1>2, <2>2, EndKeeps, TokensTyped DEF Fail, LInv
<1> QED BY <1>1, <1>2

\* The steps of the clock and of the positions.
LEMMA SurroundingsKeep ==
  ASSUME LInv, (\E t \in Tokens : Expire(t)) \/ (\E p \in Projects : StaffingChanges(p))
  PROVE  LInv'
<1>1. UNCHANGED <<project, approval, cmd, reopened, doubled, activation>> BY DEF Expire, StaffingChanges
<1>2. /\ staffed' \subseteq Projects
      /\ token' \in [Tokens -> [project : Projects, state : TokenStates]]
  BY DEF Expire, StaffingChanges, LInv, TypeOK, TokenStates
<1>3. TypeOK' BY <1>1, <1>2 DEF LInv, TypeOK, activation
<1>4. OpenInv' BY <1>1, OpenSame DEF LInv
<1>5. (\A c \in Commands : Command1(c)') /\ (\A c \in Commands : FoundIsOpen(c)')
  BY <1>1 DEF LInv, Command1, FoundIsOpen, Current
<1> QED BY <1>3, <1>4, <1>5 DEF LInv

-----------------------------------------------------------------------------
LEMMA NextKeepsLInv == LInv /\ [Next]_vars => LInv'
<1> SUFFICES ASSUME LInv, [Next]_vars PROVE LInv'
  OBVIOUS
<1>1. ASSUME NEW c \in Commands, CommandStep(c) PROVE LInv'
  <2>1. CASE \E p \in Projects : Submit(c, p) \/ Activate(c, p) \/ Decide(c, p) \/ Close(c, p) \/ Update(c, p)
    BY <2>1, FirstSteps
  <2>2. CASE FindOpenApproval(c) BY <2>2, FindKeeps
  <2>3. CASE CheckStaffing(c) BY <2>3, StaffingKeeps
  <2>4. CASE Save(c) BY <2>4, SaveKeepsType, SaveKeepsOpen, SaveKeepsCommands DEF LInv
  <2>5. CASE \E t \in Tokens : ClickUndo(c, t) BY <2>5, ClickKeeps
  <2>6. CASE RegisterUndo(c) BY <2>6, RegisterKeeps
  <2>7. CASE Restore(c) BY <2>7, RestoreKeeps
  <2>8. CASE MarkConsumed(c) \/ Fail(c) BY <2>8, EndingSteps
  <2> QED BY <1>1, <2>1, <2>2, <2>3, <2>4, <2>5, <2>6, <2>7, <2>8 DEF CommandStep
<1>2. CASE UNCHANGED vars
  <2>1. TypeOK' BY <1>2 DEF vars, activation, LInv, TypeOK
  <2>2. OpenInv' BY <1>2, OpenSame DEF vars, LInv
  <2>3. (\A c \in Commands : Command1(c)') /\ (\A c \in Commands : FoundIsOpen(c)')
    BY <1>2 DEF vars, LInv, Command1, FoundIsOpen, Current
  <2> QED BY <2>1, <2>2, <2>3 DEF LInv
<1> QED BY <1>1, <1>2, SurroundingsKeep DEF Next

LEMMA Inductive == Spec => []LInv
BY InitLInv, NextKeepsLInv, PTL DEF Spec

(***************************************************************************)
(* Projects, approvals, tokens and commands keep their types, for any      *)
(* number of them and any interleaving and failure of the services.        *)
(***************************************************************************)
THEOREM TypeCorrect == Spec => []TypeOK
<1>1. LInv => TypeOK BY DEF LInv
<1> QED BY <1>1, Inductive, PTL

(***************************************************************************)
(* The approval of a submission stays open, and stays the one a decision   *)
(* finds, for as long as the project waits for it; and unless a PATCH set  *)
(* the status past the approvals, a waiting project has no other open one  *)
(* and a draft none -- whatever submissions, activations, edits to any     *)
(* status and decisions run against each other.                            *)
(***************************************************************************)
THEOREM NoStrandedApproval == Spec => []PendingHasOneOpen
<1>1. LInv => PendingHasOneOpen BY DEF LInv, OpenInv
<1> QED BY <1>1, Inductive, PTL

(***************************************************************************)
(* A decided approval is never written again, although                     *)
(* DecideProjectActivationService updates it by id alone.                  *)
(***************************************************************************)
THEOREM DecidedForGood == Spec => DecisionIsFinal
<1>1. LInv /\ [Next]_vars =>
        [\A a \in Approvals :
           approval[a].state \in {"APPROVED", "REJECTED"} => approval'[a] = approval[a]]_vars
  <2> SUFFICES ASSUME LInv, [Next]_vars, NEW a \in Approvals,
                      approval[a].state \in {"APPROVED", "REJECTED"}
               PROVE  approval'[a] = approval[a]
    BY DEF vars
  <2>1. CASE \E c \in Commands : Save(c)
    <3> PICK c \in Commands : Save(c) BY <2>1
    <3>1. CASE Current(c) BY <3>1, SaveApprovals DEF Save
    <3>2. CASE ~Current(c) BY <3>2 DEF Save
    <3> QED BY <3>1, <3>2
  <2>2. CASE ~ \E c \in Commands : Save(c)
    <3>1. CASE \E c \in Commands, p \in Projects :
                 \/ Submit(c, p) \/ Activate(c, p) \/ Decide(c, p) \/ Close(c, p) \/ Update(c, p)
      BY <3>1 DEF Submit, Activate, Decide, Close, Update, Begin
    <3>2. CASE \E c \in Commands : \/ FindOpenApproval(c) \/ CheckStaffing(c) \/ RegisterUndo(c)
                                   \/ Restore(c) \/ MarkConsumed(c) \/ Fail(c)
      BY <3>2 DEF FindOpenApproval, CheckStaffing, RegisterUndo, Restore, MarkConsumed, Fail
    <3>3. CASE \/ \E c \in Commands, t \in Tokens : ClickUndo(c, t)
               \/ \E t \in Tokens : Expire(t)
               \/ \E p \in Projects : StaffingChanges(p)
               \/ UNCHANGED vars
      BY <3>3 DEF ClickUndo, Expire, StaffingChanges, vars
    <3> QED BY <2>2, <3>1, <3>2, <3>3 DEF Next, CommandStep
  <2> QED BY <2>1, <2>2
<1> QED BY <1>1, Inductive, PTL DEF Spec, DecisionIsFinal

-----------------------------------------------------------------------------
(* Undo tokens: a token that was never clicked twice has one click at most, *)
(* which has not reopened the project before its save and is the only      *)
(* reason why a token that reopened it may still look unused.              *)

Used == {"expired", "consumed"}

OneClick(t) ==
  t \notin doubled =>
    /\ \A c, d \in InClick(t) : c = d
    /\ \A c \in InClick(t) : /\ cmd[c].pc \in {"restore", "save", "mark"}
                             /\ cmd[c].pc # "mark" => reopened[t] = 0
    /\ reopened[t] <= 1
    /\ reopened[t] = 1 => \/ token[t].state \in Used
                          \/ \E c \in InClick(t) : cmd[c].pc = "mark"
    /\ token[t].state = "none" => reopened[t] = 0 /\ InClick(t) = {}

\* Tokens come into being once and are used up once.
TokenMoves(t) ==
  /\ token'[t].state = "none" => token[t].state = "none"
  /\ token[t].state \in Used => token'[t].state \in Used

\* A step of a command that has nothing to do with t.
LEMMA Elsewhere ==
  ASSUME NEW c \in Commands, NEW t \in Tokens, OneClick(t), TokenMoves(t),
         \A d \in Commands \ {c} : cmd'[d] = cmd[d],
         c \notin InClick(t), c \notin InClick(t)',
         reopened'[t] = reopened[t], t \in doubled => t \in doubled'
  PROVE  OneClick(t)'
<1>1. InClick(t)' = InClick(t) BY DEF InClick
<1>2. \A d \in InClick(t) : cmd'[d] = cmd[d] BY DEF InClick
<1> QED BY <1>1, <1>2 DEF OneClick, TokenMoves

\* A click of t ends: before its save, or once the token is used up.
LEMMA ClickEnds ==
  ASSUME LInv, NEW c \in Commands, NEW t \in Tokens, OneClick(t), TokenMoves(t),
         End(c), c \in InClick(t),
         cmd[c].pc = "mark" => t \in doubled' \/ token'[t].state \in Used,
         reopened'[t] = reopened[t], t \in doubled => t \in doubled'
  PROVE  OneClick(t)'
<1> SUFFICES ASSUME t \notin doubled' PROVE OneClick(t)'
  BY DEF OneClick
<1>1. \A d \in Commands \ {c} : cmd'[d] = cmd[d] BY DEF End, LInv, TypeOK
<1>2. cmd'[c].kind = "patch" BY DEF End, LInv, TypeOK, Idle
<1>3. InClick(t)' = {} BY <1>1, <1>2 DEF InClick, OneClick
<1>4. reopened[t] \in Nat BY DEF LInv, TypeOK
<1>5. reopened[t] = 1 => token'[t].state \in Used
  BY DEF OneClick, TokenMoves
<1> QED BY <1>3, <1>4, <1>5 DEF OneClick, TokenMoves

\* A click of t goes on.
LEMMA ClickGoesOn ==
  ASSUME LInv, NEW c \in Commands, NEW t \in Tokens, OneClick(t), UNCHANGED <<token, doubled>>,
         \A d \in Commands \ {c} : cmd'[d] = cmd[d],
         c \in InClick(t), c \in InClick(t)', cmd[c].pc \in {"restore", "save"},
         \/ cmd'[c].pc = "save" /\ UNCHANGED reopened
         \/ cmd'[c].pc = "mark" /\ reopened'[t] \in {reopened[t], reopened[t] + 1}
  PROVE  OneClick(t)'
<1> SUFFICES ASSUME t \notin doubled PROVE OneClick(t)'
  BY DEF OneClick
<1>1. InClick(t) = {c} BY DEF OneClick
<1>2. InClick(t)' = {c} BY <1>1 DEF InClick
<1>3. reopened[t] = 0 BY DEF OneClick
<1> QED BY <1>1, <1>2, <1>3 DEF OneClick

LEMMA SaveOneClick ==
  ASSUME LInv, NEW c \in Commands, NEW t \in Tokens, OneClick(t), Save(c)
  PROVE  OneClick(t)'
<1>1. /\ cmd[c] \in Command /\ cmd[c].pc = "save" /\ Command1(c)
      /\ UNCHANGED <<token, doubled>> /\ TokenMoves(t)
      /\ \A d \in Commands \ {c} : cmd'[d] = cmd[d]
  BY DEF LInv, TypeOK, Save, End, Continue, TokenMoves
<1>2. CASE End(c) /\ UNCHANGED reopened
  <2>1. c \notin InClick(t)' BY <1>2 DEF End, InClick, Idle, LInv, TypeOK
  <2> QED BY <1>1, <1>2, <2>1, Elsewhere, ClickEnds
<1>3. CASE cmd[c].kind # "undo"
  <2>1. UNCHANGED reopened BY <1>3 DEF Save
  <2>2. c \notin InClick(t) /\ c \notin InClick(t)'
    BY <1>1, <1>3 DEF InClick, Save, End, Continue, Idle, LInv, TypeOK, Command
  <2> QED BY <1>1, <2>1, <2>2, Elsewhere
<1>4. CASE cmd[c].kind = "undo" /\ Current(c)
  <2>1. /\ reopened' = [reopened EXCEPT ![cmd[c].ref] = @ + 1]
        /\ cmd' = [cmd EXCEPT ![c].pc = "mark"]
    BY <1>4 DEF Save, NextPc, Continue
  <2>2. cmd'[c].pc = "mark" /\ cmd'[c].kind = "undo" /\ cmd'[c].ref = cmd[c].ref
    BY <1>1, <1>4, <2>1 DEF LInv, TypeOK, Command
  <2>3. CASE cmd[c].ref = t
    <3>1. c \in InClick(t) /\ c \in InClick(t)' BY <1>4, <2>2, <2>3 DEF InClick
    <3>2. reopened'[t] = reopened[t] + 1 BY <2>1, <2>3 DEF LInv, TypeOK
    <3> QED BY <1>1, <2>2, <3>1, <3>2, ClickGoesOn
  <2>4. CASE cmd[c].ref # t
    <3>1. c \notin InClick(t) /\ c \notin InClick(t)' BY <2>2, <2>4 DEF InClick
    <3>2. reopened'[t] = reopened[t] BY <2>1, <2>4 DEF LInv, TypeOK
    <3> QED BY <1>1, <3>1, <3>2, Elsewhere
  <2> QED BY <2>3, <2>4
<1> QED BY <1>2, <1>3, <1>4 DEF Save

LEMMA ClickOneClick ==
  ASSUME LInv, NEW c \in Commands, NEW u \in Tokens, ClickUndo(c, u),
         NEW t \in Tokens, OneClick(t), cmd[c].kind # "undo"
  PROVE  OneClick(t)'
<1> DEFINE x == [Idle EXCEPT !.pc = "restore", !.kind = "undo", !.project = token[u].project, !.ref = u]
<1>1. /\ x.pc = "restore" /\ x.kind = "undo" /\ x.ref = u /\ cmd' = [cmd EXCEPT ![c] = x]
  BY IdleType DEF Command, ClickUndo
<1>2. /\ cmd'[c].pc = "restore" /\ cmd'[c].kind = "undo" /\ cmd'[c].ref = u
      /\ \A d \in Commands \ {c} : cmd'[d] = cmd[d]
  BY <1>1 DEF LInv, TypeOK
<1>3. UNCHANGED <<token, reopened>> /\ TokenMoves(t) /\ token[u].state = "fresh"
  BY DEF ClickUndo, Usable, TokenMoves
<1>4. CASE u # t
  <2>1. c \notin InClick(t) /\ c \notin InClick(t)' BY <1>2, <1>4 DEF InClick
  <2> QED BY <1>2, <1>3, <2>1, Elsewhere DEF ClickUndo
<1>5. CASE u = t /\ t \notin doubled'
  <2>1. InClick(t) = {} /\ t \notin doubled BY <1>5 DEF ClickUndo
  <2>2. InClick(t)' = {c} BY <1>2, <1>5, <2>1 DEF InClick
  <2>3. reopened[t] \in Nat BY DEF LInv, TypeOK
  <2>4. reopened[t] = 0 BY <1>3, <1>5, <2>1, <2>3 DEF OneClick, Used
  <2> QED BY <1>2, <1>3, <1>5, <2>2, <2>4 DEF OneClick
<1> QED BY <1>4, <1>5 DEF OneClick

LEMMA RestoreOneClick ==
  ASSUME LInv, NEW c \in Commands, NEW t \in Tokens, OneClick(t), Restore(c)
  PROVE  OneClick(t)'
<1>1. /\ cmd[c] \in Command /\ cmd[c].pc = "restore"
      /\ UNCHANGED <<token, reopened, doubled>> /\ TokenMoves(t)
      /\ \A d \in Commands \ {c} : cmd'[d] = cmd[d]
  BY DEF LInv, TypeOK, Restore, Continue, TokenMoves
<1>2. /\ cmd'[c].pc \in {"save", "mark"}
      /\ cmd'[c].kind = cmd[c].kind /\ cmd'[c].ref = cmd[c].ref
  BY <1>1 DEF LInv, TypeOK, Restore, Continue, Command
<1>3. CASE c \in InClick(t)
  <2>1. c \in InClick(t)' BY <1>2, <1>3 DEF InClick
  <2> QED BY <1>1, <1>2, <1>3, <2>1, ClickGoesOn
<1>4. CASE c \notin InClick(t)
  <2>1. c \notin InClick(t)' BY <1>2, <1>4 DEF InClick
  <2> QED BY <1>1, <1>4, <2>1, Elsewhere
<1> QED BY <1>3, <1>4

\* No command that is idle, or that looks at approvals or positions, is a click.
NoClickHere(c) == cmd[c].pc \in {"idle", "find", "staffing", "register"} => cmd[c].kind # "undo"

UInv == (\A c \in Commands : NoClickHere(c)) /\ (\A t \in Tokens : OneClick(t))

LEMMA NoClickKept ==
  ASSUME LInv, \A c \in Commands : NoClickHere(c), [Next]_vars
  PROVE  \A c \in Commands : NoClickHere(c)'
<1>1. ASSUME NEW c \in Commands, CommandStep(c), NEW d \in Commands PROVE NoClickHere(d)'
  <2>1. /\ d # c => cmd'[d] = cmd[d]
        /\ End(c) => cmd'[c].kind # "undo"
    <3>1. \E x : cmd' = [cmd EXCEPT ![c] = x]
      <4>1. CASE \E p \in Projects : Submit(c, p) \/ Activate(c, p) \/ Decide(c, p) \/ Close(c, p) \/ Update(c, p)
        BY <4>1 DEF Submit, Activate, Decide, Close, Update, Begin
      <4>2. CASE FindOpenApproval(c) \/ CheckStaffing(c) \/ Save(c)
        BY <4>2 DEF FindOpenApproval, CheckStaffing, Save, End, Continue, LInv, TypeOK
      <4>3. CASE (\E t \in Tokens : ClickUndo(c, t)) \/ Restore(c)
        BY <4>3 DEF ClickUndo, Restore, Continue, LInv, TypeOK
      <4>4. CASE RegisterUndo(c) \/ MarkConsumed(c) \/ Fail(c)
        BY <4>4 DEF RegisterUndo, MarkConsumed, Fail, End
      <4> QED BY <1>1, <4>1, <4>2, <4>3, <4>4 DEF CommandStep
    <3>2. End(c) => cmd'[c].kind = "patch" BY DEF End, Idle, LInv, TypeOK
    <3> QED BY <3>1, <3>2 DEF LInv, TypeOK
  <2>2. CASE d # c BY <2>1, <2>2 DEF NoClickHere
  <2>3. CASE End(c) /\ d = c BY <2>1, <2>3 DEF NoClickHere
  <2>4. CASE d = c /\ \E p \in Projects : Submit(c, p) \/ Activate(c, p) \/ Decide(c, p) \/ Close(c, p) \/ Update(c, p)
    <3>1. PICK kind \in Kinds \ {"undo"}, p \in Projects : \E to : Begin(c, kind, p, to)
      BY <2>4 DEF Submit, Activate, Decide, Close, Update, Kinds
    <3> QED BY <2>4, <3>1 DEF Begin, NoClickHere, LInv, TypeOK
  <2>5. CASE d = c /\ (FindOpenApproval(c) \/ CheckStaffing(c)) /\ ~ End(c)
    <3>1. cmd'[c].kind = cmd[c].kind
      BY <2>5 DEF FindOpenApproval, CheckStaffing, Continue, LInv, TypeOK, Command
    <3> QED BY <2>5, <3>1 DEF FindOpenApproval, CheckStaffing, NoClickHere
  <2>6. CASE d = c /\ Save(c) /\ ~ End(c)
    <3>1. cmd' = [cmd EXCEPT ![c].pc = NextPc(cmd[c].kind)] BY <2>6 DEF Save, Continue
    <3>2. cmd'[c].kind = cmd[c].kind /\ cmd'[c].pc = NextPc(cmd[c].kind)
      BY <3>1 DEF LInv, TypeOK, Command
    <3> QED BY <2>6, <3>2 DEF NextPc, NoClickHere
  <2>7. CASE d = c /\ ((\E t \in Tokens : ClickUndo(c, t)) \/ Restore(c))
    <3>1. cmd[c] \in Command /\ Idle \in Command BY IdleType DEF LInv, TypeOK
    <3>2. CASE Restore(c)
      <4>1. cmd'[c].pc \in {"save", "mark"}
        BY <3>1, <3>2 DEF Restore, Continue, LInv, TypeOK, Command
      <4> QED BY <2>7, <4>1 DEF NoClickHere
    <3>3. ASSUME NEW t \in Tokens, ClickUndo(c, t) PROVE NoClickHere(d)'
      <4>1. cmd'[c].pc = "restore" BY <3>1, <3>3 DEF ClickUndo, LInv, TypeOK, Command
      <4> QED BY <2>7, <4>1 DEF NoClickHere
    <3> QED BY <2>7, <3>2, <3>3
  <2> QED BY <1>1, <2>2, <2>3, <2>4, <2>5, <2>6, <2>7
        DEF CommandStep, RegisterUndo, MarkConsumed, Fail
<1>2. CASE UNCHANGED cmd BY <1>2 DEF NoClickHere
<1> QED BY <1>1, <1>2 DEF Next, Expire, StaffingChanges, vars

LEMMA OneClickKept ==
  ASSUME LInv, UInv, [Next]_vars, NEW t \in Tokens
  PROVE  OneClick(t)'
<1>0. OneClick(t) BY DEF UInv
<1>1. ASSUME NEW c \in Commands, CommandStep(c) PROVE OneClick(t)'
  <2>0. NoClickHere(c) /\ Command1(c) BY DEF UInv, LInv
  <2>1. CASE \E p \in Projects : Submit(c, p) \/ Activate(c, p) \/ Decide(c, p) \/ Close(c, p) \/ Update(c, p)
    <3>1. PICK kind \in Kinds \ {"undo"}, p \in Projects : \E to : Begin(c, kind, p, to)
      BY <2>1 DEF Submit, Activate, Decide, Close, Update, Kinds
    <3>2. /\ cmd'[c].kind = kind /\ \A d \in Commands \ {c} : cmd'[d] = cmd[d]
          /\ UNCHANGED <<token, reopened, doubled>> /\ TokenMoves(t)
      BY <3>1 DEF Begin, LInv, TypeOK, TokenMoves
    <3>3. c \notin InClick(t) /\ c \notin InClick(t)'
      BY <2>0, <3>1, <3>2 DEF Begin, NoClickHere, InClick
    <3> QED BY <1>0, <3>2, <3>3, Elsewhere
  <2>2. CASE FindOpenApproval(c) \/ CheckStaffing(c)
    <3>1. /\ \A d \in Commands \ {c} : cmd'[d] = cmd[d]
          /\ UNCHANGED <<token, reopened, doubled>> /\ TokenMoves(t)
      BY <2>2 DEF FindOpenApproval, CheckStaffing, End, Continue, LInv, TypeOK, TokenMoves
    <3>2. c \notin InClick(t)
      BY <2>0, <2>2 DEF FindOpenApproval, CheckStaffing, NoClickHere, InClick
    <3>3. cmd'[c].kind \in {cmd[c].kind, "patch"}
      BY <2>2 DEF FindOpenApproval, CheckStaffing, End, Continue, Idle, LInv, TypeOK, Command
    <3>4. c \notin InClick(t)'
      BY <2>0, <2>2, <3>3 DEF FindOpenApproval, CheckStaffing, NoClickHere, InClick
    <3> QED BY <1>0, <3>1, <3>2, <3>4, Elsewhere
  <2>3. CASE Save(c) BY <1>0, <2>3, SaveOneClick
  <2>4. CASE \E u \in Tokens : ClickUndo(c, u)
    BY <1>0, <2>0, <2>4, ClickOneClick DEF ClickUndo, NoClickHere
  <2>5. CASE Restore(c) BY <1>0, <2>5, RestoreOneClick
  <2>6. CASE RegisterUndo(c) \/ MarkConsumed(c) \/ Fail(c)
    <3>1. /\ End(c) /\ UNCHANGED reopened /\ \A d \in Commands \ {c} : cmd'[d] = cmd[d]
      BY <2>6 DEF RegisterUndo, MarkConsumed, Fail, End, LInv, TypeOK
    <3>2. c \notin InClick(t)' BY <3>1 DEF End, InClick, Idle, LInv, TypeOK
    <3>3. CASE RegisterUndo(c)
      <4>1. TokenMoves(t)
        BY <3>3 DEF RegisterUndo, IsNext, TokenMoves, LInv, TypeOK, Used
      <4>2. c \notin InClick(t) BY <2>0, <3>3 DEF RegisterUndo, NoClickHere, InClick
      <4> QED BY <1>0, <3>1, <3>2, <3>3, <4>1, <4>2, Elsewhere DEF RegisterUndo
    <3>4. CASE MarkConsumed(c)
      <4>1. TokenMoves(t) /\ (cmd[c].ref = t => token'[t].state \in Used)
        BY <3>4 DEF MarkConsumed, TokenMoves, LInv, TypeOK, Used
      <4>2. c \in InClick(t) => cmd[c].ref = t BY DEF InClick
      <4> QED BY <1>0, <3>1, <3>2, <3>4, <4>1, <4>2, Elsewhere, ClickEnds DEF MarkConsumed
    <3>5. CASE Fail(c)
      <4>1. /\ TokenMoves(t) /\ (t \in doubled => t \in doubled')
            /\ cmd[c].pc = "mark" /\ cmd[c].ref = t => t \in doubled'
        BY <3>5 DEF Fail, TokenMoves
      <4>2. c \in InClick(t) => cmd[c].ref = t BY DEF InClick
      <4> QED BY <1>0, <3>1, <3>2, <4>1, <4>2, Elsewhere, ClickEnds
    <3> QED BY <2>6, <3>3, <3>4, <3>5
  <2> QED BY <1>1, <2>1, <2>2, <2>3, <2>4, <2>5, <2>6 DEF CommandStep
<1>2. CASE UNCHANGED <<cmd, reopened, doubled>> /\ TokenMoves(t)
  BY <1>0, <1>2 DEF OneClick, InClick, TokenMoves
<1>3. ASSUME NEW u \in Tokens, Expire(u) PROVE OneClick(t)'
  <2>1. TokenMoves(t) BY <1>3 DEF Expire, TokenMoves, LInv, TypeOK, Used
  <2> QED BY <1>2, <1>3, <2>1 DEF Expire
<1>4. CASE (\E p \in Projects : StaffingChanges(p)) \/ UNCHANGED vars
  <2>1. TokenMoves(t) BY <1>4 DEF StaffingChanges, vars, TokenMoves
  <2> QED BY <1>2, <1>4, <2>1 DEF StaffingChanges, vars
<1> QED BY <1>1, <1>3, <1>4 DEF Next

LEMMA InitUInv == Init => UInv
BY DEF Init, UInv, NoClickHere, OneClick, InClick, Idle

LEMMA UndoInductive == Spec => [](LInv /\ UInv)
<1>1. LInv /\ UInv /\ [Next]_vars => UInv'
  BY NoClickKept, OneClickKept DEF UInv
<1> QED BY <1>1, InitUInv, Inductive, PTL DEF Spec

(***************************************************************************)
(* UndoService.consume stamps a token only after its executor returned, so *)
(* one token can reopen a project twice; for any number of projects,       *)
(* tokens and commands it takes a second click before that stamp, or a     *)
(* stamp that was lost.                                                    *)
(***************************************************************************)
THEOREM ReopenedOncePerClick == Spec => []SecondReopenNeedsDoubleClick
<1>1. LInv /\ UInv => SecondReopenNeedsDoubleClick
  <2> SUFFICES ASSUME LInv, UInv, NEW t \in Tokens, reopened[t] > 1, t \notin doubled
               PROVE  FALSE
    BY DEF SecondReopenNeedsDoubleClick
  <2>1. reopened[t] \in Nat /\ reopened[t] <= 1 BY DEF LInv, TypeOK, UInv, OneClick
  <2> QED BY <2>1
<1> QED BY <1>1, UndoInductive, PTL
=============================================================================
