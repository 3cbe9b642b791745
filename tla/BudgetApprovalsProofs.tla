------------------------ MODULE BudgetApprovalsProofs ------------------------
(***************************************************************************)
(* For any number of people, commands and approvals: types, the bound on   *)
(* pending approvals, approved changes are applied, and decisions are      *)
(* replaced only by a command that read the approval before.               *)
(***************************************************************************)
EXTENDS BudgetApprovals, FiniteSetTheorems, TLAPS

\* What every record update has to keep.
LEMMA IdleTyped == Idle \in Command /\ Idle.pc = "idle"
  BY DEF Idle, Command, Budgets

LEMMA InitTyped == Init => TypeOK
  BY IdleTyped DEF Init, TypeOK, Approval, Budgets

LEMMA StepTyped == TypeOK /\ [Next]_vars => TypeOK'
<1> SUFFICES ASSUME TypeOK, [Next]_vars PROVE TypeOK'
  OBVIOUS
<1> USE IdleTyped DEF TypeOK
<1>1. ASSUME NEW c \in Commands, CommandStep(c) PROVE TypeOK'
  <2> cmd[c] \in Command
    OBVIOUS
  <2>1. CASE Request(c)
    <3>1. PICK p \in People, a \in Amounts, auto \in BOOLEAN :
            cmd' = [cmd EXCEPT ![c] = [Idle EXCEPT !.pc = "create", !.who = p,
                                                   !.amount = a, !.auto = auto]]
      BY <2>1 DEF Request, Start
    <3>2. [Idle EXCEPT !.pc = "create", !.who = p, !.amount = a, !.auto = auto] \in Command
      BY DEF Command, Budgets
    <3> QED BY <2>1, <3>1, <3>2, BudgetAssumption DEF Request, Idle
  <2>2. CASE CreateApproval(c)
    <3>1. PICK i \in Fresh :
            \/ /\ Create(i, "APPROVED", cmd[c].amount, cmd[c].who, cmd[c].who)
               /\ Automatic(i, cmd[c].amount)
            \/ /\ Create(i, "PENDING", cmd[c].amount, cmd[c].who, NoOne)
               /\ UNCHANGED <<budget, applied>>
      BY <2>2 DEF CreateApproval
    <3>2. /\ cmd' \in [Commands -> Command]
          /\ \A d \in Commands : cmd'[d] \in {cmd[d], Idle}
      BY <2>2 DEF CreateApproval, End
    <3>3. budget' \in Budgets /\ applied' \subseteq Approvals
      BY <2>2, <3>1 DEF Automatic, Fresh, CreateApproval, Command
    <3>4. /\ approval' \in [Approvals -> Approval]
          /\ \A j \in Approvals : approval'[j] = approval[j] \/ approval'[j].change # NoAmount
      <4>1. \A st \in {"APPROVED", "PENDING"}, q \in People \cup {NoOne} :
              [status |-> st, change |-> cmd[c].amount, by |-> cmd[c].who, dec |-> q] \in Approval
        BY DEF Approval, Command
      <4>2. cmd[c].amount # NoAmount /\ cmd[c].who \in People \cup {NoOne}
        <5>1. cmd[c].pc = "create"
          BY <2>2 DEF CreateApproval
        <5> QED BY <5>1 DEF Command
      <4>3. PICK st \in {"APPROVED", "PENDING"}, q \in People \cup {NoOne} :
              Create(i, st, cmd[c].amount, cmd[c].who, q)
        BY <3>1, <4>2
      <4> QED BY <4>1, <4>2, <4>3 DEF Create
    <3> QED BY <3>2, <3>3, <3>4, IdleTyped
  <2>3. CASE Decide(c)
    <3>1. PICK i \in Approvals, p \in People, d \in {"APPROVE", "REJECT"} :
            cmd' = [cmd EXCEPT ![c] = [Idle EXCEPT !.pc = "decide", !.who = p, !.id = i, !.action = d]]
      BY <2>3 DEF Decide, Start
    <3>2. [Idle EXCEPT !.pc = "decide", !.who = p, !.id = i, !.action = d] \in Command
      BY DEF Command
    <3> QED BY <2>3, <3>1, <3>2, BudgetAssumption DEF Decide, Idle
  <2>4. CASE ApplyDecision(c)
    <3>1. cmd[c].id \in Approvals /\ cmd[c].who \in People \cup {NoOne}
      BY <2>4 DEF ApplyDecision, Command
    <3>2. PICK st \in {"APPROVED", "REJECTED"} :
            /\ approval' = [approval EXCEPT ![cmd[c].id] = [@ EXCEPT !.status = st, !.dec = cmd[c].who]]
            /\ st = "APPROVED" => approval[cmd[c].id].change # NoAmount
      BY <2>4 DEF ApplyDecision, Complete
    <3>3. [approval[cmd[c].id] EXCEPT !.status = st, !.dec = cmd[c].who] \in Approval
      BY <3>1 DEF Approval
    <3>4. /\ approval' \in [Approvals -> Approval]
          /\ \A i \in Approvals : approval'[i].status = "APPROVED" => approval'[i].change # NoAmount
      BY <3>1, <3>2, <3>3 DEF Approval
    <3>5. /\ cmd' \in [Commands -> Command]
          /\ \A d \in Commands : cmd'[d] = Idle \/ (/\ cmd'[d].pc = cmd[d].pc
                                                   /\ cmd'[d].amount = cmd[d].amount
                                                   /\ cmd'[d].id = cmd[d].id)
      <4> DEFINE late(d) == cmd[d].late \/ (cmd[d].pc = "decide" /\ cmd[d].id = cmd[c].id)
      <4>1. \A d \in Commands : [cmd[d] EXCEPT !.late = late(d)] \in Command
        BY DEF Command
      <4>2. cmd' = [d \in Commands |-> IF d = c THEN Idle ELSE [cmd[d] EXCEPT !.late = late(d)]]
        BY <2>4 DEF ApplyDecision
      <4> HIDE DEF late
      <4> QED BY <4>1, <4>2 DEF Command
    <3>6. budget' \in Budgets /\ applied' \subseteq Approvals
      BY <2>4, <3>1 DEF ApplyDecision, Approval
    <3> QED BY <3>4, <3>5, <3>6, IdleTyped
  <2>5. CASE Upsert(c)
    <3>1. PICK p \in People :
            cmd' = [cmd EXCEPT ![c] = [Idle EXCEPT !.pc = "upsert", !.who = p, !.amount = budget]]
      BY <2>5 DEF Upsert, Start
    <3>2. [Idle EXCEPT !.pc = "upsert", !.who = p, !.amount = budget] \in Command
      BY DEF Command
    <3> QED BY <2>5, <3>1, <3>2 DEF Upsert, Idle
  <2>6. CASE SaveBudget(c)       BY <2>6 DEF SaveBudget, End, Command, Budgets
  <2>7. CASE Trigger(c)          BY <2>7 DEF Trigger, End, Command
  <2>8. CASE CreateTriggered(c)
    BY <2>8 DEF CreateTriggered, Create, End, Fresh, Approval, Command, Budgets
  <2>9. CASE Fail(c)             BY <2>9 DEF Fail, End
  <2> QED BY <1>1, <2>1, <2>2, <2>3, <2>4, <2>5, <2>6, <2>7, <2>8, <2>9 DEF CommandStep
<1>2. CASE UNCHANGED vars        BY <1>2 DEF vars
<1> QED BY <1>1, <1>2 DEF Next

\* The tables and the commands keep their types, and no automatic row is approved.
THEOREM TypeCorrect == Spec => []TypeOK
  BY InitTyped, StepTyped, PTL DEF Spec

-----------------------------------------------------------------------------
LEMMA AppliedStep == TypeOK /\ ApprovedIsApplied /\ [Next]_vars => ApprovedIsApplied'
<1> SUFFICES ASSUME TypeOK, ApprovedIsApplied, [Next]_vars PROVE ApprovedIsApplied'
  OBVIOUS
<1> USE DEF ApprovedIsApplied
<1>1. ASSUME NEW c \in Commands, CommandStep(c) PROVE ApprovedIsApplied'
  <2> cmd[c] \in Command
    BY DEF TypeOK
  <2>1. CASE CreateApproval(c)
    BY <2>1 DEF CreateApproval, Create, Automatic, Fresh, TypeOK
  <2>2. CASE ApplyDecision(c)
    <3>1. CASE cmd[c].action = "APPROVE"
      <4>1. applied' = applied \cup {cmd[c].id}
        BY <2>2, <3>1 DEF ApplyDecision
      <4>2. \A i \in Approvals \ {cmd[c].id} : approval'[i] = approval[i]
        BY <2>2 DEF ApplyDecision, TypeOK
      <4> QED BY <4>1, <4>2
    <3>2. CASE cmd[c].action # "APPROVE"
      <4>1. PICK v : approval' = [approval EXCEPT ![cmd[c].id] = [@ EXCEPT !.status = "REJECTED", !.dec = v]]
        BY <2>2, <3>2 DEF ApplyDecision
      <4>2. applied' = applied
        BY <2>2, <3>2 DEF ApplyDecision
      <4> QED BY <4>1, <4>2 DEF TypeOK, Approval
    <3> QED BY <3>1, <3>2
  <2>3. CASE CreateTriggered(c)
    BY <2>3 DEF CreateTriggered, Create, Fresh, TypeOK
  <2>4. CASE Request(c) \/ Decide(c) \/ Upsert(c) \/ SaveBudget(c) \/ Trigger(c) \/ Fail(c)
    BY <2>4 DEF Request, Decide, Upsert, SaveBudget, Trigger, Fail
  <2> QED BY <1>1, <2>1, <2>2, <2>3, <2>4 DEF CommandStep
<1>2. CASE UNCHANGED vars
  BY <1>2 DEF vars
<1> QED BY <1>1, <1>2 DEF Next

\* No approval is APPROVED without its change having reached the budget.
THEOREM ApprovedWasApplied == Spec => []ApprovedIsApplied
<1>1. Init => ApprovedIsApplied
  BY DEF Init, ApprovedIsApplied
<1> QED BY <1>1, AppliedStep, TypeCorrect, PTL DEF Spec

-----------------------------------------------------------------------------
\* A pending decision is by somebody else than the requester, and knows whether
\* the approval was decided since it was read.
Informed ==
  \A c \in Commands :
    cmd[c].pc = "decide" =>
      LET i == cmd[c].id IN
      /\ approval[i].status # "ABSENT" /\ approval[i].by # cmd[c].who
      /\ approval[i].status = "PENDING" \/ cmd[c].late

\* No row is decided but by a command that knows it, and none is created twice.
LEMMA InformedStep == TypeOK /\ Informed /\ [Next]_vars => Informed'
<1> SUFFICES ASSUME TypeOK, Informed, [Next]_vars, NEW d \in Commands, cmd'[d].pc = "decide"
             PROVE  LET i == cmd'[d].id IN
                    /\ approval'[i].status # "ABSENT" /\ approval'[i].by # cmd'[d].who
                    /\ approval'[i].status = "PENDING" \/ cmd'[d].late
  BY DEF Informed
<1> Idle.pc # "decide"
  BY DEF Idle
<1>1. ASSUME NEW c \in Commands, CommandStep(c)
      PROVE  LET i == cmd'[d].id IN
             /\ approval'[i].status # "ABSENT" /\ approval'[i].by # cmd'[d].who
             /\ approval'[i].status = "PENDING" \/ cmd'[d].late
  <2> USE DEF TypeOK, Informed
  <2>1. CASE Request(c)          BY <2>1, IdleTyped DEF Request, Start, Command
  <2>2. CASE CreateApproval(c)
    <3>1. cmd'[d] = cmd[d]
      BY <2>2 DEF CreateApproval, End
    <3>2. PICK i \in Fresh : \A j \in Approvals \ {i} : approval'[j] = approval[j]
      BY <2>2 DEF CreateApproval, Create
    <3>3. cmd[d].id \in Approvals \ {i}
      BY <3>1 DEF Fresh, Command
    <3> QED BY <3>1, <3>2, <3>3
  <2>3. CASE Decide(c)           BY <2>3, IdleTyped DEF Decide, MayDecide, Start, Command
  <2>4. CASE ApplyDecision(c)
    <3>1. d # c /\ cmd'[d] = [cmd[d] EXCEPT !.late = @ \/ (cmd[d].pc = "decide" /\ cmd[d].id = cmd[c].id)]
      BY <2>4 DEF ApplyDecision
    <3>2. cmd[d].pc = "decide" /\ cmd'[d].id = cmd[d].id /\ cmd'[d].who = cmd[d].who
      BY <3>1 DEF Command
    <3>3. cmd'[d].late = (cmd[d].late \/ cmd[d].id = cmd[c].id)
      BY <3>1, <3>2 DEF Command
    <3>4. PICK st \in {"APPROVED", "REJECTED"} :
            approval' = [approval EXCEPT ![cmd[c].id] = [@ EXCEPT !.status = st, !.dec = cmd[c].who]]
      BY <2>4 DEF ApplyDecision
    <3>5. CASE cmd[d].id = cmd[c].id
      <4>1. cmd[d].id \in Approvals /\ approval[cmd[d].id].by # cmd[d].who
        BY <3>2 DEF Command
      <4>2. approval'[cmd[d].id] = [approval[cmd[d].id] EXCEPT !.status = st, !.dec = cmd[c].who]
        BY <3>4, <3>5, <4>1
      <4>3. approval'[cmd[d].id].by = approval[cmd[d].id].by /\ approval'[cmd[d].id].status = st
        BY <4>1, <4>2 DEF Approval
      <4>4. cmd'[d].late
        BY <3>3, <3>5
      <4> QED BY <3>2, <4>1, <4>3, <4>4
    <3>6. CASE cmd[d].id # cmd[c].id
      BY <3>2, <3>3, <3>4, <3>6 DEF Command
    <3> QED BY <3>5, <3>6
  <2>5. CASE Upsert(c)           BY <2>5, IdleTyped DEF Upsert, Start, Command
  <2>6. CASE SaveBudget(c)       BY <2>6 DEF SaveBudget, End, Command
  <2>7. CASE Trigger(c)          BY <2>7 DEF Trigger, End, Command
  <2>8. CASE CreateTriggered(c)
    <3>1. cmd'[d] = cmd[d]
      BY <2>8 DEF CreateTriggered, End
    <3>2. PICK i \in Fresh : \A j \in Approvals \ {i} : approval'[j] = approval[j]
      BY <2>8 DEF CreateTriggered, Create
    <3>3. cmd[d].id \in Approvals \ {i}
      BY <3>1 DEF Fresh, Command
    <3> QED BY <3>1, <3>2, <3>3
  <2>9. CASE Fail(c)             BY <2>9 DEF Fail, End
  <2> QED BY <1>1, <2>1, <2>2, <2>3, <2>4, <2>5, <2>6, <2>7, <2>8, <2>9 DEF CommandStep
<1>2. CASE UNCHANGED vars
  BY <1>2 DEF vars, Informed
<1> QED BY <1>1, <1>2 DEF Next

LEMMA DecisionStep ==
  ASSUME TypeOK, Informed, [Next]_vars, NEW i \in Approvals,
         approval[i].status \in {"APPROVED", "REJECTED"}, approval'[i] # approval[i]
  PROVE  /\ \E c \in Commands : cmd[c].late /\ cmd[c].id = i /\ cmd'[c].pc = "idle"
         /\ approval'[i].dec # approval[i].by
<1>1. PICK c \in Commands : CommandStep(c)
  BY DEF Next, vars
<1>2. CASE ApplyDecision(c)
  <2>1. cmd[c].pc = "decide" /\ cmd'[c] = Idle /\ cmd[c].id = i
    BY <1>2 DEF ApplyDecision, TypeOK
  <2>2. PICK st : approval' = [approval EXCEPT ![i] = [@ EXCEPT !.status = st, !.dec = cmd[c].who]]
    BY <1>2, <2>1 DEF ApplyDecision
  <2>3. approval'[i].dec = cmd[c].who
    BY <2>2 DEF TypeOK, Approval
  <2>4. cmd[c].late /\ approval[i].by # cmd[c].who
    BY <2>1 DEF Informed
  <2> QED BY <2>1, <2>3, <2>4 DEF Idle
<1>3. CASE CreateApproval(c) \/ CreateTriggered(c)
  BY <1>3 DEF CreateApproval, CreateTriggered, Create, Fresh, TypeOK
<1>4. CASE Request(c) \/ Decide(c) \/ Upsert(c) \/ SaveBudget(c) \/ Trigger(c) \/ Fail(c)
  BY <1>4 DEF Request, Decide, Upsert, SaveBudget, Trigger, Fail
<1> QED BY <1>1, <1>2, <1>3, <1>4 DEF CommandStep

\* A decision is replaced only by one that was already under way, and nobody
\* decides on a change of their own.
THEOREM DecisionFinal == Spec => DecisionIsFinalUnlessRaced
<1>1. Init => Informed
  BY DEF Init, Informed, Idle
<1>2. TypeOK /\ Informed /\ [Next]_vars =>
        [\A i \in Approvals :
           approval[i].status \in {"APPROVED", "REJECTED"} /\ approval'[i] # approval[i] =>
             /\ \E c \in Commands : cmd[c].late /\ cmd[c].id = i /\ cmd'[c].pc = "idle"
             /\ approval'[i].dec # approval[i].by]_vars
  BY DecisionStep
<1> QED BY <1>1, <1>2, InformedStep, TypeCorrect, PTL DEF Spec, DecisionIsFinalUnlessRaced

-----------------------------------------------------------------------------
(* The bound on pending approvals *)

LEMMA CountsFinite ==
  TypeOK => /\ IsFiniteSet(Pending) /\ Cardinality(Pending) \in Nat
            /\ IsFiniteSet(Creating) /\ Cardinality(Creating) \in Nat
            /\ Cardinality(Creating) <= Cardinality(Commands)
            /\ Cardinality(Commands) \in Nat
  BY BudgetAssumption, FS_Subset, FS_CardinalityType DEF Pending, Creating

\* Whoever joins the creators saw nothing pending.
LEMMA JoinKeepsBound ==
  ASSUME TypeOK', Pending' = {} PROVE PendingPerCommand'
<1>1. Cardinality(Pending') = 0
  BY FS_EmptySet
<1>2. /\ Cardinality(Creating') \in Nat /\ Cardinality(Commands) \in Nat
      /\ Cardinality(Creating') <= Cardinality(Commands)
  <2>1. IsFiniteSet(Commands) /\ Creating' \subseteq Commands
    BY BudgetAssumption DEF Creating
  <2> QED BY <2>1, FS_Subset, FS_CardinalityType
<1> QED BY <1>1, <1>2 DEF PendingPerCommand

LEMMA FewerKeepsBound ==
  ASSUME TypeOK, PendingPerCommand, Pending' \subseteq Pending, Creating' \subseteq Creating
  PROVE  PendingPerCommand'
<1>1. /\ Cardinality(Pending') \in Nat /\ Cardinality(Pending') <= Cardinality(Pending)
      /\ Cardinality(Creating') \in Nat /\ Cardinality(Creating') <= Cardinality(Creating)
  BY CountsFinite, FS_Subset, FS_CardinalityType
<1> QED BY <1>1, CountsFinite DEF PendingPerCommand

\* A creator leaves as its approval arrives.
LEMMA CreateKeepsBound ==
  ASSUME TypeOK, PendingPerCommand, NEW c \in Creating, NEW i,
         Pending' \subseteq Pending \cup {i}, Creating' \subseteq Creating \ {c}
  PROVE  PendingPerCommand'
<1>1. /\ Cardinality(Pending') \in Nat
      /\ Cardinality(Pending') <= Cardinality(Pending) + 1
  <2>1. /\ IsFiniteSet(Pending \cup {i})
        /\ Cardinality(Pending \cup {i}) \in Nat
        /\ Cardinality(Pending \cup {i}) <= Cardinality(Pending) + 1
    <3>1. IsFiniteSet(Pending) /\ Cardinality(Pending) \in Nat
      BY CountsFinite
    <3>2. /\ IsFiniteSet(Pending \cup {i})
          /\ Cardinality(Pending \cup {i})
               = IF i \in Pending THEN Cardinality(Pending) ELSE Cardinality(Pending) + 1
      BY <3>1, FS_AddElement
    <3> QED BY <3>1, <3>2
  <2> QED BY <2>1, CountsFinite, FS_Subset, FS_CardinalityType
<1>2. /\ Cardinality(Creating') \in Nat
      /\ Cardinality(Creating') <= Cardinality(Creating) - 1
  <2>1. /\ IsFiniteSet(Creating \ {c})
        /\ Cardinality(Creating \ {c}) = Cardinality(Creating) - 1
    BY CountsFinite, FS_RemoveElement
  <2> QED BY <2>1, CountsFinite, FS_Subset, FS_CardinalityType
<1> QED BY <1>1, <1>2, CountsFinite DEF PendingPerCommand

LEMMA BoundStep == TypeOK /\ PendingPerCommand /\ [Next]_vars => PendingPerCommand'
<1> SUFFICES ASSUME TypeOK, PendingPerCommand, [Next]_vars PROVE PendingPerCommand'
  OBVIOUS
<1> TypeOK'
  BY StepTyped
<1> Idle.pc = "idle"
  BY DEF Idle
<1>1. ASSUME NEW c \in Commands, CommandStep(c) PROVE PendingPerCommand'
  <2> cmd \in [Commands -> Command] /\ cmd[c] \in Command
    BY DEF TypeOK
  <2>1. CASE Request(c)
    BY <2>1, JoinKeepsBound DEF Request, MayStack, Pending
  <2>2. CASE Trigger(c)
    <3>1. CASE MayStack
      BY <2>2, <3>1, JoinKeepsBound DEF Trigger, MayStack, Pending
    <3>2. CASE ~MayStack
      BY <2>2, <3>2, FewerKeepsBound DEF Trigger, End, Pending, Creating
    <3> QED BY <3>1, <3>2
  <2>3. CASE CreateApproval(c) \/ CreateTriggered(c)
    <3>1. PICK i \in Approvals : \A j \in Approvals \ {i} : approval'[j] = approval[j]
      <4>1. PICK i \in Fresh : \E v : approval' = [approval EXCEPT ![i] = v]
        BY <2>3 DEF CreateApproval, CreateTriggered, Create
      <4> QED BY <4>1 DEF Fresh, TypeOK
    <3>2. c \in Creating /\ Creating' \subseteq Creating \ {c}
      BY <2>3 DEF CreateApproval, CreateTriggered, End, Creating
    <3>3. Pending' \subseteq Pending \cup {i}
      BY <3>1 DEF Pending
    <3> QED BY <3>2, <3>3, CreateKeepsBound
  <2>4. CASE ApplyDecision(c)
    <3>1. PICK st \in {"APPROVED", "REJECTED"} :
            approval' = [approval EXCEPT ![cmd[c].id] = [@ EXCEPT !.status = st, !.dec = cmd[c].who]]
      BY <2>4 DEF ApplyDecision
    <3>2. Pending' \subseteq Pending
      BY <3>1 DEF Pending, TypeOK, Approval
    <3>3. \A d \in Commands : cmd'[d].pc \in {"idle", cmd[d].pc}
      BY <2>4 DEF ApplyDecision, Command
    <3> QED BY <3>2, <3>3, FewerKeepsBound DEF Creating
  <2>5. CASE Decide(c) \/ Upsert(c) \/ SaveBudget(c) \/ Fail(c)
    <3>1. approval' = approval
      BY <2>5 DEF Decide, Upsert, SaveBudget, Fail
    <3>2. \A d \in Commands \ {c} : cmd'[d] = cmd[d]
      BY <2>5 DEF Decide, Upsert, SaveBudget, Fail, Start, End
    <3>3. cmd'[c].pc \notin {"create", "createTrigger"}
      <4>1. CASE Decide(c)       BY <4>1 DEF Decide, Start, Idle
      <4>2. CASE Upsert(c)       BY <4>2 DEF Upsert, Start, Idle
      <4>3. CASE SaveBudget(c)   BY <4>3 DEF SaveBudget, End, Idle, Command
      <4>4. CASE Fail(c)         BY <4>4 DEF Fail, End, Idle
      <4> QED BY <2>5, <4>1, <4>2, <4>3, <4>4
    <3> QED BY <3>1, <3>2, <3>3, FewerKeepsBound DEF Pending, Creating
  <2> QED BY <1>1, <2>1, <2>2, <2>3, <2>4, <2>5 DEF CommandStep
<1>2. CASE UNCHANGED vars
  BY <1>2, FewerKeepsBound DEF vars, Pending, Creating
<1> QED BY <1>1, <1>2 DEF Next

\* Approvals are stacked only by commands that overlap: never more than one a
\* command, and so at most one when there is one command at a time.
THEOREM PendingBounded == Spec => []PendingPerCommand
<1>1. Init => PendingPerCommand
  <2> SUFFICES ASSUME Init PROVE PendingPerCommand
    OBVIOUS
  <2>1. Pending = {} /\ Creating = {}
    BY DEF Init, Pending, Creating, Idle
  <2>2. Cardinality(Commands) \in Nat
    BY BudgetAssumption, FS_CardinalityType
  <2> QED BY <2>1, <2>2, FS_EmptySet DEF PendingPerCommand
<1> QED BY <1>1, BoundStep, TypeCorrect, PTL DEF Spec
=============================================================================
