------------------------- MODULE LeaveRequestsProofs -------------------------
(***************************************************************************)
(* What LeaveRequestsService guarantees for any number of leaves, persons, *)
(* handlers and crashes.  The service locks nothing and any two decisions  *)
(* may race, so the theorems bound what the races can do: the leaves that  *)
(* stack up on one day, the decisions that stack up on one leave, and the  *)
(* balances that they put wrong.                                           *)
(***************************************************************************)
EXTENDS LeaveRequests, SumTheorems

\* A handler with nothing to do is well-formed too.
LEMMA IdleType == Idle \in Handler /\ Idle.pc = "idle"
<1>1. (CHOOSE l \in Leaves : TRUE) \in Leaves
  BY LeaveAssumption
<1> QED
  BY <1>1 DEF Idle, Handler, Statuses, Decisions

\* Every state is well-formed; balances may be negative in passing.
THEOREM TypeCorrect == Spec => []TypeOK
<1>1. Init => TypeOK
  <2> SUFFICES ASSUME Init PROVE TypeOK
    OBVIOUS
  <2>1. handler \in [Handlers -> Handler]
    BY IdleType DEF Init
  <2> QED
    BY <2>1, LeaveAssumption DEF Init, TypeOK, Statuses, Decisions
<1>2. TypeOK /\ [Next]_vars => TypeOK'
  <2> SUFFICES ASSUME TypeOK, [Next]_vars PROVE TypeOK'
    OBVIOUS
  <2> USE DEF TypeOK, Handler, Statuses, Decisions
  <2>1. ASSUME NEW h \in Handlers, NEW l \in Leaves, Create(h, l) PROVE TypeOK'
    BY <2>1 DEF Create
  <2>2. ASSUME NEW h \in Handlers, NEW l \in Leaves, NEW to \in Decisions,
               DecisionRead(h, l, to)
        PROVE TypeOK'
    BY <2>2 DEF DecisionRead
  <2>3. ASSUME NEW h \in Handlers, CheckOverlap(h) PROVE TypeOK'
    BY <2>3, IdleType DEF CheckOverlap
  <2>4. ASSUME NEW h \in Handlers, WriteStatus(h) PROVE TypeOK'
    BY <2>4 DEF WriteStatus
  <2>5. ASSUME NEW h \in Handlers, BookBalance(h) PROVE TypeOK'
    <3> DEFINE l == handler[h].leave
               d == Booking(l, handler[h].to)
    <3>1. l \in Leaves /\ Account[l] \in Accounts
      BY LeaveAssumption
    <3>2. d.pending \in Int /\ d.used \in Int
      BY <3>1, LeaveAssumption DEF Booking, Days
    <3> QED
      BY <2>5, <3>1, <3>2, IdleType DEF BookBalance
  <2>6. ASSUME NEW h \in Handlers, Crash(h) PROVE TypeOK'
    <3>1. handler' \in [Handlers -> Handler]
      BY <2>6, IdleType DEF Crash
    <3>2. crashes' \in 0 .. MaxCrashes
      BY <2>6, LeaveAssumption DEF Crash
    <3>3. status' = status /\ balance' = balance /\ decisions' = decisions
      BY <2>6 DEF Crash
    <3>4. unbooked' \subseteq Leaves
      BY <2>6 DEF Crash
    <3> QED
      BY <3>1, <3>2, <3>3, <3>4
  <2>7. ASSUME UNCHANGED vars PROVE TypeOK'
    BY <2>7 DEF vars
  <2> QED
    BY <2>1, <2>2, <2>3, <2>4, <2>5, <2>6, <2>7 DEF Next, Proceed
<1> QED
  BY <1>1, <1>2, PTL DEF Spec

-----------------------------------------------------------------------------
(* What a step does *)

\* One step is one step of one handler; the other handlers stay put.
LEMMA Steps ==
  ASSUME TypeOK, [Next]_vars
  PROVE  \/ UNCHANGED vars
         \/ \E h \in Handlers :
              /\ \A g \in Handlers \ {h} : handler'[g] = handler[g]
              /\ \/ \E l \in Leaves : Create(h, l)
                 \/ \E l \in Leaves, to \in Decisions : DecisionRead(h, l, to)
                 \/ CheckOverlap(h) \/ WriteStatus(h) \/ BookBalance(h) \/ Crash(h)
BY DEF Next, Proceed, Create, DecisionRead, CheckOverlap, WriteStatus, BookBalance, Crash,
       TypeOK

-----------------------------------------------------------------------------
(* Decisions per leave *)

\* The requests that found a leave PENDING and have not written yet.
Deciding(l) ==
  {h \in Handlers : handler[h].pc \in {"overlap", "write"} /\ handler[h].leave = l}

\* They carry a decision, on a leave that exists; a leave without a decision
\* is pending; and once it is decided nobody joins those on their way.
DInv ==
  /\ \A h \in Handlers : handler[h].pc \in {"overlap", "write"} =>
       handler[h].to \in Decisions /\ status[handler[h].leave] # "ABSENT"
  /\ \A l \in Leaves : status[l] \in {"ABSENT", "PENDING"} <=> decisions[l] = 0
  /\ \A l \in Leaves : decisions[l] + Cardinality(Deciding(l)) <= Cardinality(Handlers)

\* Handlers can be counted.
LEMMA HandlersCounted ==
  ASSUME NEW S \in SUBSET Handlers
  PROVE  /\ IsFiniteSet(S) /\ Cardinality(S) \in Nat
         /\ Cardinality(Handlers) \in Nat /\ Cardinality(S) <= Cardinality(Handlers)
BY LeaveAssumption, FS_Subset, FS_CardinalityType

\* A step that decides nothing and sends nobody new to decide keeps the bound.
LEMMA DecidingFalls ==
  ASSUME TypeOK, DInv, UNCHANGED decisions,
         NEW l \in Leaves, Deciding(l)' \subseteq Deciding(l)
  PROVE  decisions'[l] + Cardinality(Deciding(l)') <= Cardinality(Handlers)
<1>1. IsFiniteSet(Deciding(l)) /\ Cardinality(Deciding(l)) \in Nat
  BY HandlersCounted DEF Deciding
<1>2. Cardinality(Deciding(l)') <= Cardinality(Deciding(l)) /\ Cardinality(Deciding(l)') \in Nat
  BY <1>1, FS_Subset, FS_CardinalityType
<1>3. Cardinality(Handlers) \in Nat
  BY HandlersCounted
<1> QED
  BY <1>1, <1>2, <1>3 DEF DInv, TypeOK

\* The inductive step of the bound on decisions.
LEMMA DInvStep == TypeOK /\ TypeOK' /\ DInv /\ [Next]_vars => DInv'
<1> SUFFICES ASSUME TypeOK, TypeOK', DInv, [Next]_vars PROVE DInv'
  OBVIOUS
<1>1. CASE UNCHANGED vars
  BY <1>1 DEF vars, DInv, Deciding
<1>2. ASSUME NEW h \in Handlers, \A g \in Handlers \ {h} : handler'[g] = handler[g],
             NEW l \in Leaves, Create(h, l)
      PROVE  DInv'
  <2>1. handler'[h].pc = "book" /\ status[l] = "ABSENT" /\ UNCHANGED decisions
        /\ status' = [status EXCEPT ![l] = "PENDING"]
    BY <1>2 DEF Create, TypeOK
  <2>2. \A k \in Leaves : Deciding(k)' \subseteq Deciding(k)
    BY <1>2, <2>1 DEF Deciding
  <2>3. \A k \in Leaves : decisions'[k] + Cardinality(Deciding(k)') <= Cardinality(Handlers)
    BY <2>1, <2>2, DecidingFalls
  <2>4. \A g \in Handlers : handler'[g].pc \in {"overlap", "write"} =>
          handler'[g].to \in Decisions /\ status'[handler'[g].leave] # "ABSENT"
    BY <1>2, <2>1 DEF DInv, TypeOK, Handler
  <2>5. \A k \in Leaves : status'[k] \in {"ABSENT", "PENDING"} <=> decisions'[k] = 0
    BY <2>1 DEF DInv, TypeOK
  <2> QED BY <2>3, <2>4, <2>5 DEF DInv
<1>3. ASSUME NEW h \in Handlers, \A g \in Handlers \ {h} : handler'[g] = handler[g],
             NEW l \in Leaves, NEW to \in Decisions, DecisionRead(h, l, to)
      PROVE  DInv'
  <2>1. /\ handler'[h].leave = l /\ handler'[h].to = to /\ UNCHANGED <<status, decisions>>
        /\ status[l] = "PENDING" /\ decisions[l] = 0
    BY <1>3 DEF DecisionRead, Decidable, TypeOK, DInv
  <2>2. \A k \in Leaves \ {l} : Deciding(k)' \subseteq Deciding(k)
    BY <1>3, <2>1 DEF Deciding
  <2>3. \A k \in Leaves \ {l} :
          decisions'[k] + Cardinality(Deciding(k)') <= Cardinality(Handlers)
    BY <2>1, <2>2, DecidingFalls
  <2>4. Deciding(l)' \in SUBSET Handlers
    BY DEF Deciding
  <2>5. decisions'[l] + Cardinality(Deciding(l)') <= Cardinality(Handlers)
    BY <2>1, <2>4, HandlersCounted
  <2>6. \A g \in Handlers : handler'[g].pc \in {"overlap", "write"} =>
          handler'[g].to \in Decisions /\ status'[handler'[g].leave] # "ABSENT"
    BY <1>3, <2>1 DEF DInv
  <2> QED BY <2>1, <2>3, <2>5, <2>6 DEF DInv
<1>4. ASSUME NEW h \in Handlers, \A g \in Handlers \ {h} : handler'[g] = handler[g],
             WriteStatus(h)
      PROVE  DInv'
  <2>0. PICK l \in Leaves, to \in Decisions : handler[h].leave = l /\ handler[h].to = to
    BY <1>4 DEF WriteStatus, DInv, TypeOK, Handler
  <2>1. /\ l \in Leaves /\ to \in Decisions /\ h \in Deciding(l)
        /\ handler'[h].pc = "book"
        /\ status' = [status EXCEPT ![l] = to]
        /\ decisions' = [decisions EXCEPT ![l] = @ + 1]
    BY <1>4, <2>0 DEF WriteStatus, DInv, TypeOK, Handler, Deciding
  <2>2. ASSUME NEW k \in Leaves \ {l}
        PROVE  decisions'[k] = decisions[k] /\ Deciding(k)' = Deciding(k)
    <3>1. decisions'[k] = decisions[k]
      BY <2>1 DEF TypeOK
    <3>2. h \notin Deciding(k) /\ h \notin Deciding(k)'
      BY <2>0, <2>1 DEF Deciding
    <3>3. \A g \in Handlers \ {h} : g \in Deciding(k)' <=> g \in Deciding(k)
      BY <1>4 DEF Deciding
    <3>4. Deciding(k) \subseteq Handlers /\ Deciding(k)' \subseteq Handlers
      BY DEF Deciding
    <3> QED BY <3>1, <3>2, <3>3, <3>4
  <2>3. Deciding(l)' = Deciding(l) \ {h}
    BY <1>4, <2>1 DEF Deciding
  <2>4. IsFiniteSet(Deciding(l)) /\ Cardinality(Deciding(l)) \in Nat
    BY HandlersCounted DEF Deciding
  <2>5. Cardinality(Deciding(l)') = Cardinality(Deciding(l)) - 1
    BY <2>1, <2>3, <2>4, FS_RemoveElement
  <2>6. decisions'[l] = decisions[l] + 1 /\ decisions[l] \in Nat
    BY <2>1 DEF TypeOK
  <2>7. decisions[l] + Cardinality(Deciding(l)) <= Cardinality(Handlers)
    BY <2>1 DEF DInv
  <2>8. \A k \in Leaves : decisions'[k] + Cardinality(Deciding(k)') <= Cardinality(Handlers)
    <3>1. Cardinality(Handlers) \in Nat
      BY HandlersCounted
    <3>2. decisions'[l] + Cardinality(Deciding(l)') <= Cardinality(Handlers)
      BY <2>4, <2>5, <2>6, <2>7, <3>1
    <3>3. ASSUME NEW k \in Leaves \ {l}
          PROVE  decisions'[k] + Cardinality(Deciding(k)') <= Cardinality(Handlers)
      <4>1. decisions[k] + Cardinality(Deciding(k)) <= Cardinality(Handlers)
        BY DEF DInv
      <4> QED BY <2>2, <4>1
    <3> QED BY <3>2, <3>3
  <2>9. \A g \in Handlers : handler'[g].pc \in {"overlap", "write"} =>
          handler'[g].to \in Decisions /\ status'[handler'[g].leave] # "ABSENT"
    BY <1>4, <2>1 DEF DInv, TypeOK, Handler, Decisions
  <2>10. \A k \in Leaves : status'[k] \in {"ABSENT", "PENDING"} <=> decisions'[k] = 0
    BY <2>1, <2>2, <2>6 DEF DInv, TypeOK, Decisions
  <2> QED BY <2>8, <2>9, <2>10 DEF DInv
<1>5. ASSUME NEW h \in Handlers, \A g \in Handlers \ {h} : handler'[g] = handler[g],
             CheckOverlap(h) \/ BookBalance(h) \/ Crash(h)
      PROVE  DInv'
  <2>1. UNCHANGED <<status, decisions>>
    BY <1>5 DEF CheckOverlap, BookBalance, Crash
  <2>2. handler'[h].pc \in {"overlap", "write"} =>
          /\ handler[h].pc = "overlap"
          /\ handler'[h].leave = handler[h].leave /\ handler'[h].to = handler[h].to
    BY <1>5, IdleType DEF CheckOverlap, BookBalance, Crash, TypeOK, Handler
  <2>3. \A k \in Leaves : Deciding(k)' \subseteq Deciding(k)
    BY <1>5, <2>2 DEF Deciding
  <2>4. \A k \in Leaves : decisions'[k] + Cardinality(Deciding(k)') <= Cardinality(Handlers)
    BY <2>1, <2>3, DecidingFalls
  <2>5. \A g \in Handlers : handler'[g].pc \in {"overlap", "write"} =>
          handler'[g].to \in Decisions /\ status'[handler'[g].leave] # "ABSENT"
    BY <1>5, <2>1, <2>2 DEF DInv
  <2> QED BY <2>1, <2>4, <2>5 DEF DInv
<1> QED BY <1>1, <1>2, <1>3, <1>4, <1>5, Steps

LEMMA DInvInit == Init /\ TypeOK => DInv
<1> SUFFICES ASSUME Init, TypeOK PROVE DInv
  OBVIOUS
<1>1. \A h \in Handlers : handler[h].pc = "idle"
  BY IdleType DEF Init
<1>2. \A l \in Leaves : Deciding(l) = {} /\ decisions[l] = 0 /\ status[l] = "ABSENT"
  BY <1>1 DEF Init, Deciding
<1>3. Cardinality({}) = 0 /\ Cardinality(Handlers) \in Nat
  BY HandlersCounted, FS_EmptySet
<1>4. \A l \in Leaves : decisions[l] + Cardinality(Deciding(l)) <= Cardinality(Handlers)
  <2> TAKE l \in Leaves
  <2>1. Cardinality(Deciding(l)) = 0
    BY <1>2, <1>3
  <2> QED BY <1>2, <1>3, <2>1
<1> QED BY <1>1, <1>2, <1>4 DEF DInv

LEMMA DecisionsInvariant == Spec => [](TypeOK /\ DInv)
<1> QED BY DInvInit, DInvStep, TypeCorrect, PTL DEF Spec

\* However many decisions on a leave are sent, and whoever dies, no more are
\* written than requests run at a time.
THEOREM DecisionsPerHandler == Spec => []DecidedPerHandler
<1>1. TypeOK /\ DInv => DecidedPerHandler
  <2> SUFFICES ASSUME TypeOK, DInv, NEW l \in Leaves
               PROVE  decisions[l] <= Cardinality(Handlers)
    BY DEF DecidedPerHandler
  <2>1. Cardinality(Deciding(l)) \in Nat /\ Cardinality(Handlers) \in Nat
    BY HandlersCounted DEF Deciding
  <2> QED BY <2>1 DEF DInv, TypeOK
<1> QED BY <1>1, DecisionsInvariant, PTL

-----------------------------------------------------------------------------
(* Approved leaves per day *)

\* The leaves of a person on a day that are approved or past the overlap
\* query on their way to it.
Approving(p, day) ==
  {l \in Leaves :
     /\ Owner[l] = p /\ Covers(l, day)
     /\ \/ status[l] = "APPROVED"
        \/ \E h \in Handlers : /\ handler[h].pc = "write" /\ handler[h].to = "APPROVED"
                               /\ handler[h].leave = l}

ApprovingBound ==
  \A p \in Persons, day \in Int : Cardinality(Approving(p, day)) <= Cardinality(Handlers)

LEMMA LeavesCounted ==
  ASSUME NEW S \in SUBSET Leaves
  PROVE  IsFiniteSet(S) /\ Cardinality(S) \in Nat
BY LeaveAssumption, FS_Subset, FS_CardinalityType

\* A day nobody joins stays within the bound.
LEMMA ApprovingFalls ==
  ASSUME ApprovingBound, NEW p \in Persons, NEW day \in Int,
         Approving(p, day)' \subseteq Approving(p, day)
  PROVE  Cardinality(Approving(p, day)') <= Cardinality(Handlers)
<1>1. IsFiniteSet(Approving(p, day)) /\ Cardinality(Approving(p, day)) \in Nat
  BY LeavesCounted DEF Approving
<1>2. Cardinality(Approving(p, day)') <= Cardinality(Approving(p, day))
      /\ Cardinality(Approving(p, day)') \in Nat
  BY <1>1, FS_Subset, FS_CardinalityType
<1> QED BY <1>1, <1>2, HandlersCounted DEF ApprovingBound

\* An approval that found the day free shares it with those only that are
\* past their own query: one leave for each request at work.
LEMMA ApprovingCounted ==
  ASSUME TypeOK, TypeOK', NEW h \in Handlers, CheckOverlap(h),
         \A g \in Handlers \ {h} : handler'[g] = handler[g],
         NEW p \in Persons, NEW day \in Int, handler'[h].pc = "write",
         Covers(handler[h].leave, day), Owner[handler[h].leave] = p
  PROVE  Cardinality(Approving(p, day)') <= Cardinality(Handlers)
<1> DEFINE named == [g \in Handlers |-> handler'[g].leave]
           image == {named[g] : g \in Handlers}
<1>1. ~ OverlapsApproved(handler[h].leave) /\ handler'[h].leave = handler[h].leave
      /\ UNCHANGED status
  BY IdleType DEF CheckOverlap, TypeOK, Handler
<1>2. Approving(p, day)' \subseteq image
  <2> SUFFICES ASSUME NEW k \in Approving(p, day)' PROVE k \in image
    OBVIOUS
  <2>1. k \in Leaves /\ Owner[k] = p /\ Covers(k, day)
    BY DEF Approving, Covers
  <2>2. CASE \E g \in Handlers : handler'[g].leave = k
    BY <2>2
  <2>3. CASE status[k] = "APPROVED"
    <3>1. Overlaps(handler[h].leave, k)
      BY <2>1, LeaveAssumption DEF Covers, Overlaps, TypeOK, Handler
    <3>2. k = handler[h].leave
      BY <1>1, <2>1, <2>3, <3>1 DEF OverlapsApproved
    <3> QED BY <1>1, <3>2
  <2> QED BY <1>1, <2>2, <2>3 DEF Approving
<1>3. named \in Surjection(Handlers, image)
  BY DEF Surjection
<1>4. IsFiniteSet(image) /\ Cardinality(image) <= Cardinality(Handlers)
  <2> HIDE DEF named, image
  <2> QED BY <1>3, LeaveAssumption, FS_Surjection
<1>5. /\ Cardinality(Approving(p, day)') <= Cardinality(image)
      /\ Cardinality(Approving(p, day)') \in Nat /\ Cardinality(image) \in Nat
  BY <1>2, <1>4, FS_Subset, FS_CardinalityType
<1> QED BY <1>4, <1>5, HandlersCounted

\* Only an overlap query that succeeded lets a leave join a day.
LEMMA ApprovingStep == TypeOK /\ TypeOK' /\ ApprovingBound /\ [Next]_vars => ApprovingBound'
<1> SUFFICES ASSUME TypeOK, TypeOK', ApprovingBound, [Next]_vars,
                    NEW p \in Persons, NEW day \in Int
             PROVE  Cardinality(Approving(p, day)') <= Cardinality(Handlers)
  BY DEF ApprovingBound
<1> DEFINE Good == Cardinality(Approving(p, day)') <= Cardinality(Handlers)
           Less == Approving(p, day)' \subseteq Approving(p, day)
<1>0. Less => Good
  BY ApprovingFalls
<1>1. CASE UNCHANGED vars
  <2>1. Less
    BY <1>1 DEF vars, Approving, Covers
  <2> QED BY <1>0, <2>1
<1>2. ASSUME NEW h \in Handlers, \A g \in Handlers \ {h} : handler'[g] = handler[g],
             \/ \E l \in Leaves : Create(h, l)
             \/ \E l \in Leaves, to \in Decisions : DecisionRead(h, l, to)
             \/ BookBalance(h) \/ Crash(h)
      PROVE  Good
  <2>1. ~ (handler'[h].pc = "write" /\ handler'[h].to = "APPROVED")
    BY <1>2, IdleType DEF Create, DecisionRead, BookBalance, Crash, TypeOK
  <2>2. \A k \in Leaves : status'[k] = "APPROVED" => status[k] = "APPROVED"
    BY <1>2 DEF Create, DecisionRead, BookBalance, Crash, TypeOK
  <2>3. Less
    BY <1>2, <2>1, <2>2 DEF Approving, Covers
  <2> QED BY <1>0, <2>3
<1>3. ASSUME NEW h \in Handlers, \A g \in Handlers \ {h} : handler'[g] = handler[g],
             WriteStatus(h)
      PROVE  Good
  <2>1. handler[h].pc = "write" /\ handler'[h].pc = "book"
        /\ status' = [status EXCEPT ![handler[h].leave] = handler[h].to]
    BY <1>3 DEF WriteStatus, TypeOK, Handler
  <2>2. \A k \in Leaves : status'[k] = "APPROVED" =>
          \/ status[k] = "APPROVED"
          \/ handler[h].leave = k /\ handler[h].to = "APPROVED"
    BY <2>1 DEF TypeOK
  <2>3. Less
    BY <1>3, <2>1, <2>2 DEF Approving, Covers
  <2> QED BY <1>0, <2>3
<1>4. ASSUME NEW h \in Handlers, \A g \in Handlers \ {h} : handler'[g] = handler[g],
             CheckOverlap(h)
      PROVE  Good
  <2>1. UNCHANGED status
    BY <1>4 DEF CheckOverlap
  <2>2. handler'[h].pc = "write" \/ handler'[h].pc = "idle"
    BY <1>4, IdleType DEF CheckOverlap, TypeOK, Handler
  <2>3. CASE handler'[h].pc = "write" /\ Covers(handler[h].leave, day)
             /\ Owner[handler[h].leave] = p
    BY <1>4, <2>3, ApprovingCounted
  <2>4. CASE handler'[h].pc = "idle"
    <3>1. Less
      BY <1>4, <2>1, <2>4 DEF Approving, Covers
    <3> QED BY <1>0, <3>1
  <2>5. CASE handler'[h].pc = "write"
             /\ ~ (Covers(handler[h].leave, day) /\ Owner[handler[h].leave] = p)
    <3>1. handler'[h].leave = handler[h].leave
      BY <1>4, <2>5, IdleType DEF CheckOverlap, TypeOK, Handler
    <3>2. Less
      BY <1>4, <2>1, <2>5, <3>1 DEF Approving, Covers
    <3> QED BY <1>0, <3>2
  <2> QED BY <2>2, <2>3, <2>4, <2>5
<1> QED BY <1>1, <1>2, <1>3, <1>4, Steps

LEMMA ApprovingInit == Init => ApprovingBound
<1> SUFFICES ASSUME Init, NEW p \in Persons, NEW day \in Int
             PROVE  Cardinality(Approving(p, day)) <= Cardinality(Handlers)
  BY DEF ApprovingBound
<1>1. \A h \in Handlers : handler[h].pc = "idle"
  BY IdleType DEF Init
<1>2. Approving(p, day) = {}
  BY <1>1 DEF Init, Approving
<1> QED BY <1>2, FS_EmptySet, HandlersCounted

\* With any number of approvals racing, no day is covered by more approved
\* leaves of one person than there are requests at a time.
THEOREM DaysPerHandler == Spec => []DayBookedPerHandler
<1>1. ApprovingBound => DayBookedPerHandler
  <2> SUFFICES ASSUME ApprovingBound, NEW p \in Persons, NEW l \in Leaves,
                      NEW day \in First[l] .. Last[l]
               PROVE  Cardinality(ApprovedOn(p, day)) <= Cardinality(Handlers)
    BY DEF DayBookedPerHandler
  <2>1. day \in Int
    OBVIOUS
  <2>2. ApprovedOn(p, day) \subseteq Approving(p, day)
    BY DEF ApprovedOn, Approving
  <2>3. IsFiniteSet(Approving(p, day)) /\ Cardinality(Approving(p, day)) \in Nat
    BY LeavesCounted DEF Approving
  <2>4. /\ Cardinality(ApprovedOn(p, day)) <= Cardinality(Approving(p, day))
        /\ Cardinality(ApprovedOn(p, day)) \in Nat
    BY <2>2, <2>3, FS_Subset, FS_CardinalityType
  <2> QED BY <2>1, <2>3, <2>4, HandlersCounted DEF ApprovingBound
<1> QED BY <1>1, ApprovingInit, ApprovingStep, TypeCorrect, PTL DEF Spec

-----------------------------------------------------------------------------
(* The balances *)

\* What a decision books is what it moves between the columns.
LEMMA BookingFits ==
  ASSUME NEW l \in Leaves, NEW to, NEW column \in Columns
  PROVE  /\ Days(l) \in Int
         /\ Booking(l, to)[column] \in Int
         /\ to = "PENDING" \/ to \in Decisions =>
              Booking(l, to)[column] =
                CASE to = Counted[column]                           -> Days(l)
                  [] to # Counted[column] /\ to # "PENDING"
                                         /\ column = "pending"      -> - Days(l)
                  [] OTHER                                          -> 0
<1>1. Days(l) \in Int
  BY LeaveAssumption DEF Days
<1>2. CASE column = "pending"
  BY <1>1, <1>2 DEF Booking, Counted, Decisions
<1>3. CASE column = "used"
  BY <1>1, <1>3 DEF Booking, Counted, Decisions
<1> QED BY <1>1, <1>2, <1>3 DEF Columns

LEMMA OwedInt ==
  ASSUME TypeOK, NEW column \in Columns, NEW h \in Handlers
  PROVE  /\ Owed(column)[h] = Booking(handler[h].leave, handler[h].to)[column]
         /\ Owed(column)[h] \in Int
BY BookingFits DEF TypeOK, Handler, Owed

LEMMA OwedNext ==
  ASSUME TypeOK', NEW column \in Columns, NEW h \in Handlers
  PROVE  /\ Owed(column)'[h] = Booking(handler'[h].leave, handler'[h].to)[column]
         /\ Owed(column)'[h] \in Int
<1>1. Owed(column)'[h] = Booking(handler'[h].leave, handler'[h].to)[column]
  BY DEF Owed, Booking, Days
<1>2. handler'[h].leave \in Leaves
  BY DEF TypeOK, Handler
<1> QED BY <1>1, <1>2, BookingFits

\* A creation or a decision moves the days of its leave.
LEMMA StatusDays ==
  ASSUME TypeOK, NEW l \in Leaves, NEW to,
         NEW a \in Accounts, NEW column \in Columns,
         \/ Account[l] # a
         \/ status[l] = "ABSENT" /\ to = "PENDING"
         \/ status[l] = "PENDING" /\ to \in Decisions,
         status' = [status EXCEPT ![l] = to]
  PROVE  DaysIn(a, column)' =
           DaysIn(a, column) + IF Account[l] = a THEN Booking(l, to)[column] ELSE 0
<1> DEFINE days == [k \in Leaves |-> Days(k)]
           before == LeavesIn(a, column)
           after == LeavesIn(a, column)'
<1>1. /\ \A k \in Leaves : days[k] = Days(k) /\ days[k] \in Int
      /\ Booking(l, to)[column] \in Int
  BY BookingFits
<1>2. before \subseteq Leaves /\ after \subseteq Leaves /\ IsFiniteSet(before) /\ IsFiniteSet(after)
  BY FS_Subset, LeaveAssumption DEF LeavesIn
<1>3. DaysIn(a, column) = SumFunctionOnSet(days, before)
  BY DEF DaysIn
<1>4. DaysIn(a, column)' = SumFunctionOnSet(days, after)
  BY DEF DaysIn, Days
<1>5. DaysIn(a, column) \in Int
  BY <1>1, <1>2, <1>3, SumInt
<1>6. /\ status'[l] = to /\ \A k \in Leaves \ {l} : status'[k] = status[k]
      /\ Account[l] = a => status[l] # to
  BY DEF TypeOK, Decisions
<1>7. ASSUME l \notin before, after = before \cup {l}
      PROVE  DaysIn(a, column)' = DaysIn(a, column) + Days(l)
  <2> HIDE DEF days, before, after
  <2>1. SumFunctionOnSet(days, before \cup {l}) = SumFunctionOnSet(days, before) + days[l]
    BY <1>1, <1>2, <1>7, SumPutIn
  <2> QED BY <1>1, <1>3, <1>4, <1>7, <2>1
<1>8. ASSUME l \in before, after = before \ {l}
      PROVE  DaysIn(a, column)' = DaysIn(a, column) - Days(l)
  <2>1. DaysIn(a, column)' \in Int
    BY <1>1, <1>2, <1>4, SumInt
  <2> HIDE DEF days, before, after
  <2>2. SumFunctionOnSet(days, before) = days[l] + SumFunctionOnSet(days, before \ {l})
    BY <1>1, <1>2, <1>8, SumTakeOut
  <2> QED BY <1>1, <1>3, <1>4, <1>5, <1>8, <2>1, <2>2
<1>9. CASE Account[l] # a
  <2>1. after = before
    BY <1>6, <1>9 DEF LeavesIn
  <2> QED BY <1>3, <1>4, <1>5, <1>9, <2>1
<1>10. CASE Account[l] = a /\ to = Counted[column]
  <2>1. l \notin before /\ after = before \cup {l}
    BY <1>6, <1>10 DEF LeavesIn
  <2>2. Booking(l, to)[column] = Days(l)
    BY <1>10, BookingFits
  <2> QED BY <1>7, <1>10, <2>1, <2>2
<1>11. CASE Account[l] = a /\ status[l] = Counted[column]
  <2>1. l \in before /\ after = before \ {l}
    BY <1>6, <1>11 DEF LeavesIn
  <2>2. to \in Decisions /\ to # "PENDING" /\ column = "pending"
    BY <1>11 DEF Columns, Counted, Decisions
  <2>3. Booking(l, to)[column] = - Days(l)
    BY <1>6, <1>11, <2>2, BookingFits
  <2> QED BY <1>1, <1>5, <1>8, <1>11, <2>1, <2>3
<1>12. CASE Account[l] = a /\ to # Counted[column] /\ status[l] # Counted[column]
  <2>1. after = before
    BY <1>6, <1>12 DEF LeavesIn
  <2>2. column = "used"
    BY <1>12 DEF Columns, Counted
  <2>3. Booking(l, to)[column] = 0
    BY <1>12, <2>2, BookingFits DEF Decisions
  <2> QED BY <1>3, <1>4, <1>5, <1>12, <2>1, <2>3
<1> QED BY <1>9, <1>10, <1>11, <1>12

\* An increment is owed from the write of the status to its booking.
LEMMA OwedStays ==
  ASSUME TypeOK, NEW a, NEW column \in Columns,
         \A g \in Handlers : handler[g].pc = "book" \/ handler'[g].pc = "book"
                              => handler'[g] = handler[g]
  PROVE  OwedTo(a, column)' = OwedTo(a, column)
<1>1. InFlight(a)' = InFlight(a) /\ IsFiniteSet(InFlight(a)) /\ InFlight(a) \subseteq Handlers
  BY FS_Subset, LeaveAssumption DEF InFlight
<1>2. \A g \in InFlight(a) : /\ Owed(column)[g] \in Int
                              /\ Owed(column)'[g] = Owed(column)[g]
  BY <1>1, OwedInt DEF InFlight, Owed, Booking, Days
<1> QED BY <1>1, <1>2, SumSame DEF OwedTo

LEMMA OwedGrows ==
  ASSUME TypeOK, TypeOK', NEW a, NEW column \in Columns, NEW h \in Handlers,
         handler[h].pc # "book", handler'[h].pc = "book",
         \A g \in Handlers \ {h} : handler'[g] = handler[g]
  PROVE  OwedTo(a, column)' =
           OwedTo(a, column)
             + IF Account[handler'[h].leave] = a
               THEN Booking(handler'[h].leave, handler'[h].to)[column] ELSE 0
<1>1. IsFiniteSet(InFlight(a)) /\ InFlight(a) \subseteq Handlers /\ h \notin InFlight(a)
  BY FS_Subset, LeaveAssumption DEF InFlight
<1>2. \A g \in InFlight(a) : /\ Owed(column)[g] \in Int
                              /\ Owed(column)'[g] = Owed(column)[g]
  BY <1>1, OwedInt DEF Owed, Booking, Days
<1>3. /\ Owed(column)'[h] = Booking(handler'[h].leave, handler'[h].to)[column]
      /\ Owed(column)'[h] \in Int
  BY OwedNext
<1>4. OwedTo(a, column) \in Int
  BY <1>1, <1>2, SumInt DEF OwedTo
<1>5. CASE Account[handler'[h].leave] = a
  <2>1. InFlight(a)' = InFlight(a) \cup {h}
    BY <1>5 DEF InFlight
  <2> QED BY <1>1, <1>2, <1>3, <1>5, <2>1, SumPutIn DEF OwedTo
<1>6. CASE Account[handler'[h].leave] # a
  <2>1. InFlight(a)' = InFlight(a)
    BY <1>6 DEF InFlight
  <2>2. OwedTo(a, column)' = OwedTo(a, column)
    BY <1>1, <1>2, <2>1, SumSame DEF OwedTo
  <2> QED BY <1>4, <1>6, <2>2
<1> QED BY <1>5, <1>6

LEMMA OwedShrinks ==
  ASSUME TypeOK, NEW a, NEW column \in Columns, NEW h \in Handlers,
         handler[h].pc = "book", handler'[h].pc # "book",
         \A g \in Handlers \ {h} : handler'[g] = handler[g]
  PROVE  OwedTo(a, column) =
           OwedTo(a, column)'
             + IF Account[handler[h].leave] = a
               THEN Booking(handler[h].leave, handler[h].to)[column] ELSE 0
<1>1. IsFiniteSet(InFlight(a)) /\ InFlight(a) \subseteq Handlers
  BY FS_Subset, LeaveAssumption DEF InFlight
<1>2. InFlight(a)' = InFlight(a) \ {h} /\ IsFiniteSet(InFlight(a)')
  <2>1. InFlight(a)' = InFlight(a) \ {h}
    BY DEF InFlight
  <2> QED BY <1>1, <2>1, FS_Subset
<1>3. \A g \in InFlight(a)' : /\ Owed(column)[g] \in Int
                               /\ Owed(column)'[g] = Owed(column)[g]
  BY <1>1, <1>2, OwedInt DEF Owed, Booking, Days
<1>4. OwedTo(a, column)' = SumFunctionOnSet(Owed(column), InFlight(a) \ {h})
  BY <1>2, <1>3, SumSame DEF OwedTo
<1>5. OwedTo(a, column) \in Int
  BY <1>1, OwedInt, SumInt DEF OwedTo
<1>6. CASE Account[handler[h].leave] = a
  <2>1. h \in InFlight(a)
    BY <1>6 DEF InFlight
  <2>2. OwedTo(a, column) = Owed(column)[h] + SumFunctionOnSet(Owed(column), InFlight(a) \ {h})
    BY <1>1, <2>1, OwedInt, SumTakeOut DEF OwedTo
  <2>3. OwedTo(a, column)' \in Int
    BY <1>1, <1>2, <1>4, OwedInt, SumInt
  <2> QED BY <1>4, <1>6, <2>2, <2>3, OwedInt
<1>7. CASE Account[handler[h].leave] # a
  <2>1. InFlight(a) \ {h} = InFlight(a)
    BY <1>7 DEF InFlight
  <2>2. OwedTo(a, column)' = OwedTo(a, column)
    BY <1>4, <2>1 DEF OwedTo
  <2> QED BY <1>5, <1>7, <2>2
<1> QED BY <1>6, <1>7

\* A step that puts a balance right finds it right: nothing cleans it.
LEMMA StaysUnclean ==
  ASSUME TypeOK, [Next]_vars, NEW a \in Accounts, Clean(a)'
  PROVE  Clean(a)
<1>1. ASSUME NEW l \in Leaves
      PROVE  /\ decisions[l] <= decisions'[l]
             /\ decisions[l] \in Nat /\ decisions'[l] \in Nat
  <2>1. CASE UNCHANGED decisions
    BY <2>1 DEF TypeOK
  <2>2. CASE \E h \in Handlers : decisions' = [decisions EXCEPT ![handler[h].leave] = @ + 1]
    BY <2>2 DEF TypeOK, Handler
  <2> QED BY <2>1, <2>2 DEF Next, Proceed, Create, DecisionRead, CheckOverlap, WriteStatus,
                           BookBalance, Crash, vars
<1>2. unbooked \subseteq unbooked'
  BY DEF Next, Proceed, Create, DecisionRead, CheckOverlap, WriteStatus, BookBalance, Crash,
         vars
<1>3. ASSUME NEW l \in Leaves, Account[l] = a PROVE decisions[l] <= 1 /\ l \notin unbooked
  <2>1. decisions'[l] <= 1 /\ l \notin unbooked'
    BY <1>3 DEF Clean
  <2> QED BY <1>1, <1>2, <2>1
<1> QED BY <1>3 DEF Clean

LEMMA ExplainedStep ==
  ASSUME TypeOK, TypeOK', DInv, BalanceExplained, [Next]_vars
  PROVE  BalanceExplained'
<1> SUFFICES ASSUME NEW a \in Accounts, NEW column \in Columns, Clean(a)'
             PROVE  balance'[a][column] + OwedTo(a, column)' = DaysIn(a, column)'
  BY DEF BalanceExplained
<1>1. balance[a][column] + OwedTo(a, column) = DaysIn(a, column)
  BY StaysUnclean DEF BalanceExplained
<1>2. /\ balance[a][column] \in Int /\ balance'[a][column] \in Int
      /\ OwedTo(a, column) \in Int /\ DaysIn(a, column) \in Int
  <2>1. balance[a][column] \in Int /\ balance'[a][column] \in Int
    BY DEF TypeOK, Columns
  <2>2. IsFiniteSet(InFlight(a)) /\ InFlight(a) \subseteq Handlers
    BY FS_Subset, LeaveAssumption DEF InFlight
  <2>3. OwedTo(a, column) \in Int
    BY <2>2, OwedInt, SumInt DEF OwedTo
  <2>4. IsFiniteSet(LeavesIn(a, column)) /\ LeavesIn(a, column) \subseteq Leaves
    BY FS_Subset, LeaveAssumption DEF LeavesIn
  <2>5. \A l \in LeavesIn(a, column) : [k \in Leaves |-> Days(k)][l] \in Int
    BY <2>4, BookingFits
  <2>6. DaysIn(a, column) \in Int
    BY <2>4, <2>5, SumInt DEF DaysIn
  <2> QED BY <2>1, <2>3, <2>6
<1>3. ASSUME UNCHANGED status PROVE DaysIn(a, column)' = DaysIn(a, column)
  BY <1>3 DEF DaysIn, LeavesIn, Days
<1>4. ASSUME NEW h \in Handlers, NEW l \in Leaves, NEW to, UNCHANGED balance,
             \/ Account[l] # a
             \/ status[l] = "ABSENT" /\ to = "PENDING"
             \/ status[l] = "PENDING" /\ to \in Decisions,
             status' = [status EXCEPT ![l] = to],
             handler[h].pc # "book", handler'[h].pc = "book",
             handler'[h].leave = l, handler'[h].to = to,
             \A g \in Handlers \ {h} : handler'[g] = handler[g]
      PROVE  balance'[a][column] + OwedTo(a, column)' = DaysIn(a, column)'
  <2> DEFINE d == IF Account[l] = a THEN Booking(l, to)[column] ELSE 0
  <2>1. d \in Int
    BY BookingFits
  <2>2. OwedTo(a, column)' = OwedTo(a, column) + d
    BY <1>4, OwedGrows
  <2>3. DaysIn(a, column)' = DaysIn(a, column) + d
    <3>1. CASE Account[l] # a
      BY <1>4, <3>1, StatusDays
    <3>2. CASE status[l] = "ABSENT" /\ to = "PENDING"
      BY <1>4, <3>2, StatusDays
    <3>3. CASE status[l] = "PENDING" /\ to \in Decisions
      BY <1>4, <3>3, StatusDays
    <3> QED BY <1>4, <3>1, <3>2, <3>3
  <2> HIDE DEF d
  <2> QED BY <1>1, <1>2, <1>4, <2>1, <2>2, <2>3
<1>5. ASSUME NEW h \in Handlers, NEW l \in Leaves, Create(h, l)
      PROVE  balance'[a][column] + OwedTo(a, column)' = DaysIn(a, column)'
  <2>1. /\ handler'[h] = [pc |-> "book", leave |-> l, to |-> "PENDING"]
        /\ \A g \in Handlers \ {h} : handler'[g] = handler[g]
    BY <1>5 DEF Create, TypeOK
  <2>2. /\ handler[h].pc # "book" /\ status[l] = "ABSENT" /\ UNCHANGED balance
        /\ status' = [status EXCEPT ![l] = "PENDING"]
    BY <1>5 DEF Create
  <2>3. handler'[h].pc = "book" /\ handler'[h].leave = l /\ handler'[h].to = "PENDING"
    BY <2>1
  <2> QED BY <1>4, <2>1, <2>2, <2>3
<1>6. ASSUME NEW h \in Handlers, WriteStatus(h)
      PROVE  balance'[a][column] + OwedTo(a, column)' = DaysIn(a, column)'
  <2>1. /\ handler'[h].pc = "book" /\ handler'[h].leave = handler[h].leave
        /\ handler'[h].to = handler[h].to /\ handler[h].leave \in Leaves
        /\ \A g \in Handlers \ {h} : handler'[g] = handler[g]
    BY <1>6 DEF WriteStatus, TypeOK, Handler
  <2>2. handler[h].to \in Decisions /\ status[handler[h].leave] # "ABSENT"
    BY <1>6 DEF WriteStatus, DInv
  <2>3. Account[handler[h].leave] # a \/ status[handler[h].leave] = "PENDING"
    <3>1. decisions'[handler[h].leave] = decisions[handler[h].leave] + 1
      BY <1>6, <2>1 DEF WriteStatus, TypeOK
    <3>2. Account[handler[h].leave] = a => decisions[handler[h].leave] = 0
      BY <2>1, <3>1 DEF Clean, TypeOK
    <3> QED BY <2>1, <2>2, <3>2 DEF DInv
  <2> QED BY <1>4, <1>6, <2>1, <2>2, <2>3 DEF WriteStatus
<1>7. ASSUME NEW h \in Handlers, BookBalance(h)
      PROVE  balance'[a][column] + OwedTo(a, column)' = DaysIn(a, column)'
  <2> DEFINE l == handler[h].leave
             d == Booking(l, handler[h].to)
             due == IF Account[l] = a THEN d[column] ELSE 0
  <2>1. /\ handler[h].pc = "book" /\ handler'[h].pc # "book"
        /\ \A g \in Handlers \ {h} : handler'[g] = handler[g]
    BY <1>7, IdleType DEF BookBalance, TypeOK, Handler
  <2>2. OwedTo(a, column) = OwedTo(a, column)' + due
    BY <2>1, OwedShrinks
  <2>3. l \in Leaves /\ Account[l] \in Accounts /\ d[column] \in Int
    BY BookingFits, LeaveAssumption DEF TypeOK, Handler
  <2>4. balance'[a][column] = balance[a][column] + due
    <3>1. balance' = [balance EXCEPT ![Account[l]] =
                        [pending |-> @.pending + d.pending, used |-> @.used + d.used]]
      BY <1>7 DEF BookBalance
    <3> HIDE DEF l, d
    <3>2. CASE Account[l] = a
      <4>1. balance'[a] = [ pending |-> balance[a].pending + d.pending,
                            used    |-> balance[a].used + d.used ]
        BY <3>1, <3>2 DEF TypeOK
      <4> QED BY <3>2, <4>1 DEF Columns
    <3>3. CASE Account[l] # a
      BY <1>2, <3>1, <3>3 DEF TypeOK
    <3> QED BY <3>2, <3>3
  <2>5. OwedTo(a, column)' \in Int
    <3>1. IsFiniteSet(InFlight(a)') /\ InFlight(a)' \subseteq Handlers
      BY FS_Subset, LeaveAssumption DEF InFlight
    <3>2. \A g \in Handlers : Owed(column)'[g] \in Int
      BY OwedNext
    <3> QED BY <3>1, <3>2, SumInt DEF OwedTo
  <2>6. due \in Int
    BY <2>3
  <2>7. DaysIn(a, column)' = DaysIn(a, column)
    BY <1>3, <1>7 DEF BookBalance
  <2> HIDE DEF due
  <2> QED BY <1>1, <1>2, <2>2, <2>4, <2>5, <2>6, <2>7
<1>8. ASSUME UNCHANGED <<status, balance>>,
             \A g \in Handlers : handler[g].pc = "book" \/ handler'[g].pc = "book"
                                  => handler'[g] = handler[g]
      PROVE  balance'[a][column] + OwedTo(a, column)' = DaysIn(a, column)'
  BY <1>1, <1>3, <1>8, OwedStays
<1>9. ASSUME NEW h \in Handlers, NEW l \in Leaves, NEW to \in Decisions,
             DecisionRead(h, l, to)
      PROVE  balance'[a][column] + OwedTo(a, column)' = DaysIn(a, column)'
  BY <1>8, <1>9 DEF DecisionRead, TypeOK
<1>10. ASSUME NEW h \in Handlers, CheckOverlap(h)
       PROVE  balance'[a][column] + OwedTo(a, column)' = DaysIn(a, column)'
  BY <1>8, <1>10, IdleType DEF CheckOverlap, TypeOK, Handler
<1>11. ASSUME NEW h \in Handlers, Crash(h)
       PROVE  balance'[a][column] + OwedTo(a, column)' = DaysIn(a, column)'
  <2>1. /\ handler'[h].pc # "book" /\ UNCHANGED <<status, balance>>
        /\ \A g \in Handlers \ {h} : handler'[g] = handler[g]
    BY <1>11, IdleType DEF Crash, TypeOK
  <2>2. CASE handler[h].pc # "book"
    BY <1>8, <2>1, <2>2
  <2>3. CASE handler[h].pc = "book"
    <3>1. handler[h].leave \in Leaves /\ handler[h].leave \in unbooked'
      BY <1>11, <2>3 DEF Crash, TypeOK, Handler
    <3>2. Account[handler[h].leave] # a
      BY <3>1 DEF Clean
    <3>3. OwedTo(a, column) = OwedTo(a, column)'
            + IF Account[handler[h].leave] = a
              THEN Booking(handler[h].leave, handler[h].to)[column] ELSE 0
      BY <2>1, <2>3, OwedShrinks
    <3>4. OwedTo(a, column)' \in Int
      <4>1. IsFiniteSet(InFlight(a)') /\ InFlight(a)' \subseteq Handlers
        BY FS_Subset, LeaveAssumption DEF InFlight
      <4>2. \A g \in Handlers : Owed(column)'[g] \in Int
        BY OwedNext
      <4> QED BY <4>1, <4>2, SumInt DEF OwedTo
    <3>5. OwedTo(a, column)' = OwedTo(a, column)
      BY <3>2, <3>3, <3>4
    <3> QED BY <1>1, <1>3, <2>1, <3>5
  <2> QED BY <2>2, <2>3
<1>12. CASE UNCHANGED vars
  BY <1>8, <1>12 DEF vars
<1> QED BY <1>5, <1>6, <1>7, <1>9, <1>10, <1>11, <1>12 DEF Next, Proceed

\* In whatever order the statements of the handlers run, a balance none of
\* whose leaves was decided twice or left unbooked by a death is that of the
\* leaves, up to the increments still to be booked.
THEOREM BalancesExplained == Spec => []BalanceExplained
<1>1. Init => BalanceExplained
  <2> SUFFICES ASSUME Init, NEW a \in Accounts, NEW column \in Columns
               PROVE  balance[a][column] + OwedTo(a, column) = DaysIn(a, column)
    BY DEF BalanceExplained
  <2>1. InFlight(a) = {} /\ LeavesIn(a, column) = {}
    BY IdleType DEF Init, InFlight, LeavesIn, Columns, Counted
  <2>2. OwedTo(a, column) = 0 /\ DaysIn(a, column) = 0
    BY <2>1, SumEmpty DEF OwedTo, DaysIn
  <2>3. balance[a][column] = 0
    BY DEF Init, Columns
  <2> QED BY <2>2, <2>3
<1>2. TypeOK /\ TypeOK' /\ DInv /\ BalanceExplained /\ [Next]_vars => BalanceExplained'
  BY ExplainedStep
<1> QED BY <1>1, <1>2, DecisionsInvariant, PTL DEF Spec
=============================================================================
