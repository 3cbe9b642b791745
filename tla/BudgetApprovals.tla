--------------------------- MODULE BudgetApprovals ---------------------------
(***************************************************************************)
(* The budget of one project and fiscal year and the approvals of changes  *)
(* to it.  RequestBudgetChangeService, DecideBudgetChangeService and the   *)
(* direct upsert with its auto-trigger read, and then write in a           *)
(* transaction or statement of their own; the approval is updated by id.   *)
(* Capex and opex are one amount, 0 the empty budget.  Which responsibility *)
(* rule matches is left to chance: it may approve at once, or refuse the   *)
(* person who decides.                                                     *)
(***************************************************************************)
EXTENDS Naturals, FiniteSets

CONSTANTS Approvals,  \* ids of approval rows (bounds how many are created)
          Commands,   \* commands in flight
          People, Amounts,
          NoAmount, NoOne

ASSUME BudgetAssumption == /\ Amounts \subseteq Nat /\ NoAmount \notin Nat
                           /\ NoOne \notin People \cup Approvals
                           /\ IsFiniteSet(Approvals) /\ IsFiniteSet(Commands)

VARIABLES budget,    \* the ProjectBudget row: NoAmount until it is created
          approval,  \* the BudgetApproval rows
          cmd,       \* the commands in flight
          applied    \* history: approvals whose change reached the budget

vars == <<budget, approval, cmd, applied>>

-----------------------------------------------------------------------------
Budgets == Amounts \cup {NoAmount}

\* A change without amounts is one of the auto-trigger.
Approval == [ status : {"ABSENT", "PENDING", "APPROVED", "REJECTED"},
              change : Budgets,
              by     : People \cup {NoOne},   \* requestedByPersonId
              dec    : People \cup {NoOne} ]  \* decidedByPersonId

Command == [ pc     : {"idle", "create", "decide", "upsert", "trigger", "createTrigger"},
             who    : People \cup {NoOne},
             id     : Approvals \cup {NoOne},  \* the approval a decision is about
             action : {"APPROVE", "REJECT"},
             amount : Budgets,        \* the requested amount; the budget as read by the upsert
             auto   : BOOLEAN,        \* a rule approves at once
             late   : BOOLEAN ]       \* history: the approval was decided since it was read

Idle == [ pc |-> "idle", who |-> NoOne, id |-> NoOne, action |-> "REJECT",
          amount |-> NoAmount, auto |-> FALSE, late |-> FALSE ]

TypeOK == /\ budget \in Budgets
          /\ approval \in [Approvals -> Approval]
          /\ cmd \in [Commands -> Command]
          /\ applied \subseteq Approvals
          /\ \A c \in Commands :
               /\ cmd[c].pc = "create" => cmd[c].amount # NoAmount
               /\ cmd[c].pc = "decide" => cmd[c].id # NoOne
          \* only an automatic row lacks amounts, and nobody can approve one
          /\ \A i \in Approvals : approval[i].status = "APPROVED" => approval[i].change # NoAmount

Init == /\ budget = NoAmount
        /\ approval = [i \in Approvals |-> [ status |-> "ABSENT", change |-> NoAmount,
                                             by |-> NoOne, dec |-> NoOne ]]
        /\ cmd = [c \in Commands |-> Idle]
        /\ applied = {}

-----------------------------------------------------------------------------
(* Helpers *)

Pending == {i \in Approvals : approval[i].status = "PENDING"}

\* Mutant of MayStack: only the auto-trigger looks for a pending approval.
AlwaysStack == TRUE

\* findFirst: no pending approval of this budget.
MayStack == Pending = {}

Start(c, new) == cmd[c].pc = "idle" /\ cmd' = [cmd EXCEPT ![c] = new]

End(c) == cmd' = [cmd EXCEPT ![c] = Idle]

\* Rows are created in any order of their ids: ids are random.
Fresh == {i \in Approvals : approval[i].status = "ABSENT"}

Create(i, status, change, by, dec) ==
  approval' = [approval EXCEPT ![i] = [status |-> status, change |-> change, by |-> by, dec |-> dec]]

-----------------------------------------------------------------------------
(* RequestBudgetChangeService *)

\* Reads: a budget exists and nothing is pending; the rule is resolved.
Request(c) ==
  /\ budget # NoAmount /\ MayStack
  /\ \E p \in People, a \in Amounts, auto \in BOOLEAN :
       Start(c, [Idle EXCEPT !.pc = "create", !.who = p, !.amount = a, !.auto = auto])
  /\ UNCHANGED <<budget, approval, applied>>

\* Mutant of Automatic: the rule approves, the budget is left to be written later.
AutomaticUnapplied(i, a) ==
  UNCHANGED <<budget, applied>>

\* projectBudget.update of an approval a rule grants at once.
Automatic(i, a) ==
  budget' = a /\ applied' = applied \cup {i}

\* The transaction: the row, and the budget when a rule approves it.
CreateApproval(c) ==
  LET a == cmd[c].amount
      p == cmd[c].who IN
  /\ cmd[c].pc = "create"
  /\ \E i \in Fresh :
       \/ /\ cmd[c].auto
          /\ Create(i, "APPROVED", a, p, p)
          /\ Automatic(i, a)
       \/ /\ ~cmd[c].auto
          /\ Create(i, "PENDING", a, p, NoOne)
          /\ UNCHANGED <<budget, applied>>
  /\ End(c)

-----------------------------------------------------------------------------
(* DecideBudgetChangeService *)

\* Mutant of MayDecide: decided approvals may be decided again.
MayRedecide(i, p) == approval[i].status # "ABSENT" /\ approval[i].by # p

MayDecide(i, p) == approval[i].status = "PENDING" /\ approval[i].by # p

Decide(c) ==
  /\ \E i \in Approvals, p \in People, d \in {"APPROVE", "REJECT"} :
       /\ MayDecide(i, p)
       /\ Start(c, [Idle EXCEPT !.pc = "decide", !.who = p, !.id = i, !.action = d])
  /\ UNCHANGED <<budget, approval, applied>>

\* Mutant of Complete: a change without amounts is taken for one of nothing.
AnyChange(i) == TRUE

Complete(i) == approval[i].change # NoAmount

\* The transaction, whatever the approval has become; an approval without
\* amounts rolls it back.
ApplyDecision(c) ==
  LET i == cmd[c].id
      approve == cmd[c].action = "APPROVE" IN
  /\ cmd[c].pc = "decide"
  /\ approve => Complete(i)
  /\ approval' = [approval EXCEPT ![i] =
                    [@ EXCEPT !.status = IF approve THEN "APPROVED" ELSE "REJECTED",
                              !.dec = cmd[c].who]]
  /\ budget' = IF approve THEN approval[i].change ELSE budget
  /\ applied' = IF approve THEN applied \cup {i} ELSE applied
  /\ cmd' = [d \in Commands |->
              IF d = c THEN Idle
              ELSE [cmd[d] EXCEPT !.late = @ \/ (cmd[d].pc = "decide" /\ cmd[d].id = i)]]

-----------------------------------------------------------------------------
(* FinancialService.upsertProjectBudget and the auto-trigger *)

Upsert(c) ==
  /\ \E p \in People : Start(c, [Idle EXCEPT !.pc = "upsert", !.who = p, !.amount = budget])
  /\ UNCHANGED <<budget, approval, applied>>

\* The new amount is approved afterwards if there was nothing before, and may be
\* if it varies from the amount read before by the threshold.
SaveBudget(c) ==
  LET prior == IF cmd[c].amount = NoAmount THEN 0 ELSE cmd[c].amount IN
  /\ cmd[c].pc = "upsert"
  /\ \E a \in Amounts :
       /\ budget' = a
       /\ \/ a # prior /\ cmd' = [cmd EXCEPT ![c].pc = "trigger"]
          \/ (prior # 0 \/ a = 0) /\ End(c)
  /\ UNCHANGED <<approval, applied>>

\* maybeTriggerForBudgetMutation: findFirst.
Trigger(c) ==
  /\ cmd[c].pc = "trigger"
  /\ IF MayStack THEN cmd' = [cmd EXCEPT ![c].pc = "createTrigger"] ELSE End(c)
  /\ UNCHANGED <<budget, approval, applied>>

CreateTriggered(c) ==
  /\ cmd[c].pc = "createTrigger"
  /\ \E i \in Fresh : Create(i, "PENDING", NoAmount, cmd[c].who, NoOne)
  /\ End(c)
  /\ UNCHANGED <<budget, applied>>

\* The rule refuses the decider, a transaction rolls back, or the request dies.
Fail(c) ==
  /\ cmd[c].pc # "idle"
  /\ End(c)
  /\ UNCHANGED <<budget, approval, applied>>

CommandStep(c) ==
  \/ Request(c) \/ CreateApproval(c) \/ Decide(c) \/ ApplyDecision(c)
  \/ Upsert(c) \/ SaveBudget(c) \/ Trigger(c) \/ CreateTriggered(c) \/ Fail(c)

Next == \E c \in Commands : CommandStep(c)

Spec == Init /\ [][Next]_vars

-----------------------------------------------------------------------------
(* Properties *)

Creating == {c \in Commands : cmd[c].pc \in {"create", "createTrigger"}}

\* At most one approval is pending per command in flight: one when commands do
\* not overlap, as the services mean it, and never more than could have passed
\* the check together, however requests, triggers and decisions alternate
\* (request-budget-change.service.ts:95, budget-approval-auto-trigger.service.ts:105).
PendingPerCommand == Cardinality(Pending) + Cardinality(Creating) <= Cardinality(Commands)

\* An approved change has reached the budget, by a decision or by a rule
\* (decide-budget-change.service.ts:58).
ApprovedIsApplied ==
  \A i \in Approvals : approval[i].status = "APPROVED" => i \in applied

\* A decision is replaced only by a command that read the approval before it, and
\* never by the requester (decide-budget-change.service.ts:92, 97).
DecisionIsFinalUnlessRaced ==
  [][\A i \in Approvals :
       approval[i].status \in {"APPROVED", "REJECTED"} /\ approval'[i] # approval[i] =>
         /\ \E c \in Commands : cmd[c].late /\ cmd[c].id = i /\ cmd'[c].pc = "idle"
         /\ approval'[i].dec # approval[i].by]_vars
=============================================================================
