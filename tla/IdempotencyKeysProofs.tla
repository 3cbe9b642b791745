------------------------ MODULE IdempotencyKeysProofs ------------------------
(***************************************************************************)
(* Types; the work is committed once while nothing excuses a second run:   *)
(* until then the row names the only request that may have run; and what a *)
(* replay sends is the answer to the same body, for the row has the body   *)
(* of whoever may still stamp it, while only one may.                      *)
(***************************************************************************)
EXTENDS IdempotencyKeys, FiniteSetTheorems, TLAPS

LEMMA ReserveTyped ==
  ASSUME TypeOK, NEW r \in Requests, Reserve(r), UNCHANGED <<committed, excused>>
  PROVE  TypeOK'
<1>1. row' \in Row
  BY DEF TypeOK, Reserve, Reserved, Row, Request
<1>2. req' \in [Requests -> Request]
  <2>1. req \in [Requests -> Request] /\ req[r] \in Request
    BY DEF TypeOK
  <2>2. [req[r] EXCEPT !.pc = "run", !.holds = TRUE] \in Request
    BY <2>1 DEF Request
  <2> QED BY <2>1, <2>2 DEF Reserve
<1>3. \A q \in Requests : req'[q].stamp # "none" => req'[q].holds
  BY DEF TypeOK, Reserve, Request
<1>4. shared' \in BOOLEAN
  BY DEF TypeOK, Reserve
<1> QED BY <1>1, <1>2, <1>3, <1>4 DEF TypeOK

\* The row is typed, and every request is: TypeOK is inductive.
THEOREM TypeCorrect == Spec => []TypeOK
<1>1. Init => TypeOK
  <2> SUFFICES ASSUME Init PROVE TypeOK
    OBVIOUS
  <2>1. row \in Row
    <3>1. (CHOOSE b \in Bodies : TRUE) \in Bodies
      BY RequestAssumption
    <3> QED BY <3>1 DEF Init, Row
  <2>2. req \in [Requests -> Request] /\ \A r \in Requests : req[r].stamp = "none"
    <3>1. req \in [Requests -> [ pc : {"new"}, body : Bodies, holds : {FALSE},
                                stamp : {"none"}, answer : {NoRequest} ]]
      BY DEF Init
    <3> QED BY <3>1 DEF Request
  <2> QED BY <2>1, <2>2 DEF Init, TypeOK
<1>2. TypeOK /\ [Next]_vars => TypeOK'
  <2> SUFFICES ASSUME TypeOK, [Next]_vars PROVE TypeOK'
    OBVIOUS
  <2> USE DEF TypeOK
  <2>1. ASSUME NEW r \in Requests, RequestStep(r) PROVE TypeOK'
    <3> req[r] \in Request
      BY <2>1
    <3>1. CASE Arrive(r)         BY <3>1 DEF Arrive, Request
    <3>2. CASE Lookup(r)
      <4>1. PICK pc \in {"insert", "done", "renew"}, a \in Requests \cup {NoRequest} :
              req' = [req EXCEPT ![r] = [@ EXCEPT !.pc = pc, !.answer = a]]
        <5>1. \/ \E pc \in {"insert", "done", "renew"} : req' = [req EXCEPT ![r].pc = pc]
              \/ req' = [req EXCEPT ![r] = [@ EXCEPT !.pc = "done", !.answer = row.answer]]
          BY <3>2 DEF Lookup
        <5>2. \A pc : [req[r] EXCEPT !.pc = pc]
                        = [req[r] EXCEPT !.pc = pc, !.answer = req[r].answer]
          BY DEF Request
        <5>3. req[r].answer \in Requests \cup {NoRequest} /\ row.answer \in Requests \cup {NoRequest}
          BY DEF Request, Row
        <5>4. CASE req' = [req EXCEPT ![r] = [@ EXCEPT !.pc = "done", !.answer = row.answer]]
          BY <5>3, <5>4
        <5>5. ASSUME NEW pc \in {"insert", "done", "renew"}, req' = [req EXCEPT ![r].pc = pc]
              PROVE  req' = [req EXCEPT ![r] = [@ EXCEPT !.pc = pc, !.answer = req[r].answer]]
          BY <5>5, <5>2
        <5> QED BY <5>1, <5>3, <5>4, <5>5
      <4>2. [req[r] EXCEPT !.pc = pc, !.answer = a] \in Request
        BY DEF Request
      <4>3. req' \in [Requests -> Request]
        BY <4>1, <4>2
      <4>4. \A q \in Requests : req'[q].stamp = req[q].stamp /\ req'[q].holds = req[q].holds
        BY <4>1 DEF Request
      <4> QED BY <3>2, <4>3, <4>4 DEF Lookup
    <3>3. CASE Insert(r)
      <4>1. CASE Reserve(r)      BY <3>3, <4>1, ReserveTyped DEF Insert
      <4>2. CASE ~Reserve(r)     BY <3>3, <4>2 DEF Insert, Request
      <4> QED BY <4>1, <4>2
    <3>4. CASE Renew(r)          BY <3>4, ReserveTyped DEF Renew
    <3>5. CASE Bypass(r)         BY <3>5 DEF Bypass, Request
    <3>6. CASE HandlerReturns(r) BY <3>6 DEF HandlerReturns, Respond, StampOf, Commit, Request
    <3>7. CASE HandlerThrows(r)
      <4>1. PICK pc \in {"done", "rerun"} :
              req' = [req EXCEPT ![r] = [@ EXCEPT !.pc = pc, !.stamp = StampOf(r, "FAILED")]]
        BY <3>7 DEF HandlerThrows
      <4>2. StampOf(r, "FAILED") \in {"none", "COMPLETED", "FAILED"}
            /\ (StampOf(r, "FAILED") # "none" => req[r].holds)
        BY DEF StampOf, Request
      <4>3. [req[r] EXCEPT !.pc = pc, !.stamp = StampOf(r, "FAILED")] \in Request
        BY <4>2 DEF Request
      <4>4. req' \in [Requests -> Request]
        BY <4>1, <4>3
      <4>5. \A q \in Requests : req'[q].stamp # "none" => req'[q].holds
        BY <4>1, <4>2 DEF Request
      <4> QED BY <3>7, <4>4, <4>5 DEF HandlerThrows
    <3>8. CASE Stamp(r)          BY <3>8 DEF Stamp, Request, Row
    <3>9. CASE LoseStamp(r)      BY <3>9 DEF LoseStamp, Request
    <3>10. CASE Die(r)           BY <3>10 DEF Die, Request
    <3> QED BY <2>1, <3>1, <3>2, <3>3, <3>4, <3>5, <3>6, <3>7, <3>8, <3>9, <3>10 DEF RequestStep
  <2>2. CASE Expire              BY <2>2 DEF Expire, Row
  <2>3. CASE UNCHANGED vars      BY <2>3 DEF vars
  <2> QED BY <2>1, <2>2, <2>3 DEF Next
<1> QED BY <1>1, <1>2, PTL DEF Spec

-----------------------------------------------------------------------------
\* What a request has done so far that only a reservation entitles it to.
Ran(r) == req[r].pc = "run" \/ req[r].stamp # "none" \/ r \in committed

\* Until something excuses it, no row is given away again, and only the request
\* that inserted the row ran the handler.
OneRunner ==
  \/ excused
  \/ /\ row.status # "FAILED" /\ ~row.expired
     /\ \A r \in Requests :
          /\ req[r].pc \notin {"renew", "rerun"} /\ req[r].stamp # "FAILED"
          /\ Ran(r) => row.status # "ABSENT" /\ r = row.by

LEMMA RunnerInit == Init => OneRunner
<1> SUFFICES ASSUME Init PROVE OneRunner
  OBVIOUS
<1>1. row.status = "ABSENT" /\ row.expired = FALSE
  BY DEF Init
<1>2. \A r \in Requests : req[r].pc = "new" /\ req[r].stamp = "none"
  <2>1. req \in [Requests -> [ pc : {"new"}, body : Bodies, holds : {FALSE},
                              stamp : {"none"}, answer : {NoRequest} ]]
    BY DEF Init
  <2> QED BY <2>1
<1>3. committed = {}
  BY DEF Init
<1> QED BY <1>1, <1>2, <1>3 DEF OneRunner, Ran

LEMMA RunnerStep == TypeOK /\ OneRunner /\ [Next]_vars => OneRunner'
<1> SUFFICES ASSUME TypeOK, OneRunner, [Next]_vars PROVE OneRunner'
  OBVIOUS
<1> USE DEF TypeOK, OneRunner, Ran
<1>1. ASSUME NEW r \in Requests, RequestStep(r) PROVE OneRunner'
  <2>1. CASE Arrive(r)         BY <2>1 DEF Arrive, Request
  <2>2. CASE Lookup(r)
    <3>1. CASE excused         BY <2>2, <3>1 DEF Lookup
    <3>2. CASE ~excused
      <4>1. /\ \A q \in Requests \ {r} : req'[q] = req[q]
            /\ req'[r].pc \in {"insert", "done"} /\ req'[r].stamp = req[r].stamp
        <5>1. ~Renewable
          BY <3>2 DEF Renewable
        <5>2. \/ \E pc \in {"insert", "done"} : req' = [req EXCEPT ![r].pc = pc]
              \/ req' = [req EXCEPT ![r] = [@ EXCEPT !.pc = "done", !.answer = row.answer]]
          BY <2>2, <5>1 DEF Lookup
        <5> req[r] \in Request
          OBVIOUS
        <5>3. ASSUME NEW pc \in {"insert", "done"}, req' = [req EXCEPT ![r].pc = pc]
              PROVE  <4>1
          BY <5>3 DEF Request
        <5>4. CASE req' = [req EXCEPT ![r] = [@ EXCEPT !.pc = "done", !.answer = row.answer]]
          BY <5>4 DEF Request
        <5> QED BY <5>2, <5>3, <5>4
      <4> QED BY <2>2, <3>2, <4>1 DEF Lookup
    <3> QED BY <3>1, <3>2
  <2>3. CASE Insert(r)
    <3>1. CASE Taken           BY <2>3, <3>1 DEF Insert, Request
    <3>2. CASE ~Taken
      <4>1. /\ \A q \in Requests \ {r} : req'[q] = req[q]
            /\ req'[r].pc = "run" /\ req'[r].stamp = req[r].stamp
        <5>1. req' = [req EXCEPT ![r] = [@ EXCEPT !.pc = "run", !.holds = TRUE]]
          BY <2>3, <3>2 DEF Insert, Reserve
        <5> QED BY <5>1 DEF Request
      <4>2. row'.status = "PENDING" /\ row'.expired = FALSE /\ row'.by = r
        BY <2>3, <3>2 DEF Insert, Reserve, Reserved
      <4>3. ~excused => \A q \in Requests : ~Ran(q)
        BY <3>2 DEF Taken
      <4> QED BY <2>3, <4>1, <4>2, <4>3 DEF Insert
    <3> QED BY <3>1, <3>2
  <2>4. CASE Renew(r)          BY <2>4 DEF Renew
  <2>5. CASE Bypass(r)         BY <2>5 DEF Bypass
  <2>6. CASE HandlerReturns(r)
    <3>1. /\ \A q \in Requests \ {r} : req'[q] = req[q]
          /\ req'[r].pc = "done" /\ req'[r].stamp = StampOf(r, "COMPLETED")
      BY <2>6 DEF HandlerReturns, Respond, Request
    <3>2. StampOf(r, "COMPLETED") \in {"COMPLETED", req[r].stamp}
      BY DEF StampOf
    <3> QED BY <2>6, <3>1, <3>2 DEF HandlerReturns, Commit
  <2>7. CASE HandlerThrows(r)  BY <2>7 DEF HandlerThrows
  <2>8. CASE Stamp(r)          BY <2>8 DEF Stamp, Request, Row
  <2>9. CASE LoseStamp(r)      BY <2>9 DEF LoseStamp, Request
  <2>10. CASE Die(r)           BY <2>10 DEF Die, Request
  <2> QED BY <1>1, <2>1, <2>2, <2>3, <2>4, <2>5, <2>6, <2>7, <2>8, <2>9, <2>10 DEF RequestStep
<1>2. CASE Expire              BY <1>2 DEF Expire
<1>3. CASE UNCHANGED vars      BY <1>3 DEF vars
<1> QED BY <1>1, <1>2, <1>3 DEF Next

LEMMA OneRunnerCommitsOnce == TypeOK /\ OneRunner => CommittedOnceUnlessExcused
<1> SUFFICES ASSUME TypeOK, OneRunner, ~excused PROVE Cardinality(committed) <= 1
  BY DEF CommittedOnceUnlessExcused
<1>1. committed \subseteq {row.by}
  BY DEF TypeOK, OneRunner, Ran
<1>2. IsFiniteSet({row.by}) /\ Cardinality({row.by}) = 1
  BY FS_Singleton
<1>3. Cardinality(committed) <= Cardinality({row.by})
  BY <1>1, <1>2, FS_Subset
<1> QED BY <1>2, <1>3

\* Any number of copies of a request commit its work once, unless the row
\* expired, a handler threw or the lookup failed: a lost stamp or a dead
\* process never costs a second run.
THEOREM CommittedOnce == Spec => []CommittedOnceUnlessExcused
<1>1. Spec => []TypeOK
  BY TypeCorrect
<1>2. Init => OneRunner
  BY RunnerInit
<1>3. TypeOK /\ OneRunner /\ [Next]_vars => OneRunner'
  BY RunnerStep
<1>4. TypeOK /\ OneRunner => CommittedOnceUnlessExcused
  BY OneRunnerCommitsOnce
<1> QED BY <1>1, <1>2, <1>3, <1>4, PTL DEF Spec

-----------------------------------------------------------------------------
\* Whose stamp may come, and whose answer the row stores: a request with the
\* body of the row, unless the row was handed on under a holder.
HeldBody ==
  \A r \in Requests :
    /\ req[r].pc \in {"new", "lookup", "insert", "renew"} => ~ req[r].holds
    /\ req[r].stamp = "COMPLETED" => r \in committed
    /\ r \in Holders => req[r].body = row.body \/ shared

StoredBody ==
  LET a == row.answer IN
  a # NoRequest => a \in committed /\ (req[a].body = row.body \/ shared)

AnswerInv == HeldBody /\ StoredBody /\ ReplayIsOfItsOwnBody

\* Bodies do not change, and the two histories only grow.
LEMMA BodiesStay ==
  ASSUME TypeOK, [Next]_vars
  PROVE  /\ committed \subseteq committed' /\ (shared => shared')
         /\ \A q \in Requests : req'[q].body = req[q].body
<1>1. ASSUME NEW r \in Requests, RequestStep(r)
      PROVE  /\ committed \subseteq committed' /\ (shared => shared')
             /\ \A q \in Requests : req'[q].body = req[q].body
  <2> DEFINE Same == \A q \in Requests : req'[q].body = req[q].body
  <2>0. req \in [Requests -> Request] /\ req[r] \in Request
    BY DEF TypeOK
  <2>1. ASSUME NEW pc, req' = [req EXCEPT ![r].pc = pc] PROVE Same
    BY <2>0, <2>1 DEF Request
  <2>2. ASSUME NEW pc, NEW a, req' = [req EXCEPT ![r] = [@ EXCEPT !.pc = pc, !.answer = a]]
        PROVE  Same
    BY <2>0, <2>2 DEF Request
  <2>3. ASSUME NEW pc, NEW h, req' = [req EXCEPT ![r] = [@ EXCEPT !.pc = pc, !.holds = h]]
        PROVE  Same
    BY <2>0, <2>3 DEF Request
  <2>4. ASSUME NEW pc, NEW s, req' = [req EXCEPT ![r] = [@ EXCEPT !.pc = pc, !.stamp = s]]
        PROVE  Same
    BY <2>0, <2>4 DEF Request
  <2>5. CASE HandlerReturns(r)
    BY <2>0, <2>5 DEF HandlerReturns, Respond, Commit, Request
  <2>6. CASE Stamp(r) \/ LoseStamp(r) \/ Die(r)
    <3>1. CASE Stamp(r) \/ LoseStamp(r)
      <4>1. req' = [req EXCEPT ![r] = [@ EXCEPT !.stamp = "none", !.holds = FALSE]]
        BY <3>1 DEF Stamp, LoseStamp
      <4>2. Same
        BY <2>0, <4>1 DEF Request
      <4> QED BY <3>1, <4>2 DEF Stamp, LoseStamp
    <3>2. CASE Die(r)
      <4>1. Same
        BY <2>0, <3>2 DEF Die, Request
      <4> QED BY <3>2, <4>1 DEF Die
    <3> QED BY <2>6, <3>1, <3>2
  <2>7. CASE Arrive(r) \/ Bypass(r) \/ Insert(r) \/ Renew(r)
    BY <2>1, <2>3, <2>7 DEF Arrive, Bypass, Insert, Renew, Reserve
  <2>8. CASE Lookup(r)
    BY <2>1, <2>2, <2>8 DEF Lookup
  <2>9. CASE HandlerThrows(r)
    BY <2>4, <2>9 DEF HandlerThrows
  <2> QED BY <1>1, <2>5, <2>6, <2>7, <2>8, <2>9 DEF RequestStep
<1>2. CASE Expire \/ UNCHANGED vars
  BY <1>2 DEF Expire, vars
<1> QED BY <1>1, <1>2 DEF Next

\* A step after which the row stores what it did and r holds nothing new.
LEMMA AnswersStay ==
  ASSUME TypeOK, TypeOK', [Next]_vars, AnswerInv, NEW r \in Requests,
         row'.answer = row.answer, row'.body = row.body,
         \A q \in Requests \ {r} : req'[q] = req[q],
         req'[r].answer \in {req[r].answer, r},
         req'[r].pc \in {"new", "lookup", "insert", "renew"} => ~ req'[r].holds,
         req'[r].stamp = "COMPLETED" => r \in committed',
         r \in Holders' => r \in Holders
  PROVE  AnswerInv'
<1>1. /\ committed \subseteq committed' /\ (shared => shared')
      /\ \A q \in Requests : req'[q].body = req[q].body
  BY BodiesStay
<1>2. HeldBody'
  <2>1. ASSUME NEW q \in Requests \ {r}
        PROVE  /\ req'[q].pc \in {"new", "lookup", "insert", "renew"} => ~ req'[q].holds
               /\ req'[q].stamp = "COMPLETED" => q \in committed'
               /\ q \in Holders' => q \in Holders
    BY <1>1 DEF AnswerInv, HeldBody, Holders
  <2>2. \A q \in Requests : q \in Holders' => req'[q].body = row'.body \/ shared'
    BY <1>1, <2>1 DEF AnswerInv, HeldBody
  <2> QED BY <2>1, <2>2 DEF HeldBody
<1>3. StoredBody'
  BY <1>1 DEF AnswerInv, StoredBody, TypeOK, Row
<1>4. ReplayIsOfItsOwnBody'
  <2> SUFFICES ASSUME NEW q \in Requests, req'[q].answer \notin {NoRequest, q}
               PROVE  /\ req'[q].answer \in committed'
                      /\ req'[req'[q].answer].body = req'[q].body \/ shared'
    BY DEF ReplayIsOfItsOwnBody
  <2>1. req'[q].answer = req[q].answer
    OBVIOUS
  <2>2. req[q].answer \in Requests
    BY <2>1 DEF TypeOK, Request
  <2> QED BY <1>1, <2>1, <2>2 DEF AnswerInv, ReplayIsOfItsOwnBody
<1> QED BY <1>2, <1>3, <1>4 DEF AnswerInv

LEMMA ReserveAnswers ==
  ASSUME TypeOK, TypeOK', [Next]_vars, AnswerInv, NEW r \in Requests, Reserve(r), UNCHANGED committed
  PROVE  AnswerInv'
<1>1. /\ row'.answer = NoRequest /\ row'.body = req[r].body
      /\ \A q \in Requests \ {r} : req'[q] = req[q]
      /\ req'[r].pc = "run" /\ req'[r].stamp = req[r].stamp
      /\ req'[r].answer = req[r].answer
  BY DEF TypeOK, Reserve, Reserved, Request
<1>2. /\ \A q \in Requests : req'[q].body = req[q].body
      /\ shared => shared'
  BY BodiesStay
<1>3. \A q \in Requests : q \in Holders' => q = r \/ q \in Holders
  BY <1>1 DEF Holders
<1>4. Holders = {} \/ shared'
  BY DEF Reserve
<1>5. HeldBody'
  BY <1>1, <1>2, <1>3, <1>4 DEF AnswerInv, HeldBody
<1>6. StoredBody'
  BY <1>1 DEF StoredBody
<1>7. ReplayIsOfItsOwnBody'
  <2> SUFFICES ASSUME NEW q \in Requests, req'[q].answer \notin {NoRequest, q}
               PROVE  /\ req'[q].answer \in committed'
                      /\ req'[req'[q].answer].body = req'[q].body \/ shared'
    BY DEF ReplayIsOfItsOwnBody
  <2>1. req'[q].answer = req[q].answer /\ req[q].answer \in Requests
    BY <1>1 DEF TypeOK, Request
  <2> QED BY <1>2, <2>1 DEF AnswerInv, ReplayIsOfItsOwnBody
<1> QED BY <1>5, <1>6, <1>7 DEF AnswerInv

\* The lookup that replays: the row is complete and has the body it was asked with.
LEMMA LookupAnswers ==
  ASSUME TypeOK, TypeOK', [Next]_vars, AnswerInv, NEW r \in Requests, Lookup(r)
  PROVE  AnswerInv'
<1>1. UNCHANGED <<row, committed, shared>> /\ req[r].pc = "lookup" /\ req[r] \in Request
  BY DEF Lookup, TypeOK
<1>2. CASE \E pc \in {"insert", "done", "renew"} : req' = [req EXCEPT ![r].pc = pc]
  <2>1. /\ \A q \in Requests \ {r} : req'[q] = req[q]
        /\ req'[r].pc \in {"insert", "done", "renew"} /\ req'[r].stamp = req[r].stamp
        /\ req'[r].holds = req[r].holds /\ req'[r].answer = req[r].answer
    BY <1>1, <1>2 DEF TypeOK, Request
  <2> QED BY <1>1, <2>1, AnswersStay DEF AnswerInv, HeldBody, Holders
<1>3. CASE /\ Live /\ ~Mismatch(req[r].body) /\ row.status = "COMPLETED"
           /\ req' = [req EXCEPT ![r] = [@ EXCEPT !.pc = "done", !.answer = row.answer]]
  <2>1. /\ \A q \in Requests \ {r} : req'[q] = req[q]
        /\ req'[r].pc = "done" /\ req'[r].stamp = req[r].stamp
        /\ req'[r].holds = req[r].holds /\ req'[r].answer = row.answer
    BY <1>1, <1>3 DEF TypeOK, Request
  <2>2. row.body = req[r].body
    BY <1>3 DEF Mismatch
  <2>3. \A q \in Requests : req'[q].body = req[q].body
    BY BodiesStay
  <2>4. HeldBody'
    BY <1>1, <2>1, <2>3 DEF AnswerInv, HeldBody, Holders
  <2>5. StoredBody'
    BY <1>1, <2>3 DEF AnswerInv, StoredBody, TypeOK, Row
  <2>6. ReplayIsOfItsOwnBody'
    <3> SUFFICES ASSUME NEW q \in Requests, req'[q].answer \notin {NoRequest, q}
                 PROVE  /\ req'[q].answer \in committed'
                        /\ req'[req'[q].answer].body = req'[q].body \/ shared'
      BY DEF ReplayIsOfItsOwnBody
    <3>1. req'[q].answer \in Requests
      BY DEF TypeOK, Request
    <3>2. CASE q = r
      BY <1>1, <2>1, <2>2, <2>3, <3>1, <3>2 DEF AnswerInv, StoredBody
    <3>3. CASE q # r
      BY <1>1, <2>1, <2>3, <3>1, <3>3 DEF AnswerInv, ReplayIsOfItsOwnBody
    <3> QED BY <3>2, <3>3
  <2> QED BY <2>4, <2>5, <2>6 DEF AnswerInv
<1> QED BY <1>2, <1>3 DEF Lookup

LEMMA AnswerStep == TypeOK /\ TypeOK' /\ AnswerInv /\ [Next]_vars => AnswerInv'
<1> SUFFICES ASSUME TypeOK, TypeOK', AnswerInv, [Next]_vars PROVE AnswerInv'
  OBVIOUS
<1>1. ASSUME NEW r \in Requests, RequestStep(r) PROVE AnswerInv'
  <2> req[r] \in Request
    BY DEF TypeOK
  <2>1. CASE Arrive(r)
    <3>1. /\ \A q \in Requests \ {r} : req'[q] = req[q]
          /\ req'[r] = [req[r] EXCEPT !.pc = "lookup"] /\ req[r].pc = "new"
      BY <2>1 DEF Arrive, TypeOK
    <3> QED BY <2>1, <3>1, AnswersStay DEF Arrive, AnswerInv, HeldBody, Holders, Request
  <2>2. CASE Lookup(r) BY <2>2, LookupAnswers
  <2>3. CASE (Insert(r) /\ ~Taken) \/ Renew(r)
    BY <2>3, ReserveAnswers DEF Insert, Renew
  <2>4. CASE (Insert(r) /\ Taken) \/ Bypass(r)
    <3>1. /\ \A q \in Requests \ {r} : req'[q] = req[q]
          /\ \E pc \in {"lookup", "run"} : req'[r] = [req[r] EXCEPT !.pc = pc]
          /\ req[r].pc \in {"lookup", "insert", "renew"} /\ UNCHANGED <<row, committed>>
      BY <2>4 DEF Insert, Bypass, TypeOK
    <3>2. /\ ~ req[r].holds /\ req'[r].holds = req[r].holds /\ req'[r].stamp = req[r].stamp
          /\ req'[r].answer = req[r].answer
      BY <3>1 DEF AnswerInv, HeldBody, Request
    <3>3. r \notin Holders' /\ (req[r].stamp = "COMPLETED" => r \in committed)
      BY <3>2 DEF Holders, TypeOK, AnswerInv, HeldBody
    <3> QED BY <3>1, <3>2, <3>3, AnswersStay
  <2>5. CASE HandlerReturns(r)
    <3>1. /\ \A q \in Requests \ {r} : req'[q] = req[q]
          /\ req'[r].pc = "done" /\ req'[r].stamp = StampOf(r, "COMPLETED")
          /\ req'[r].answer = r /\ req'[r].holds = req[r].holds
          /\ UNCHANGED row /\ r \in committed'
      BY <2>5 DEF HandlerReturns, Respond, Commit, TypeOK, Request
    <3>2. r \in Holders' => r \in Holders
      BY <3>1 DEF Holders, StampOf
    <3> QED BY <3>1, <3>2, AnswersStay
  <2>6. CASE HandlerThrows(r)
    <3>1. /\ \A q \in Requests \ {r} : req'[q] = req[q]
          /\ req'[r].pc \in {"done", "rerun"} /\ req'[r].stamp = StampOf(r, "FAILED")
          /\ req'[r].answer = req[r].answer /\ req'[r].holds = req[r].holds
          /\ UNCHANGED <<row, committed>>
      <4>1. PICK pc \in {"done", "rerun"} :
              req' = [req EXCEPT ![r] = [@ EXCEPT !.pc = pc, !.stamp = StampOf(r, "FAILED")]]
        BY <2>6 DEF HandlerThrows
      <4>2. req'[r] = [req[r] EXCEPT !.pc = pc, !.stamp = StampOf(r, "FAILED")]
        BY <4>1 DEF TypeOK
      <4>3. /\ req'[r].pc = pc /\ req'[r].stamp = StampOf(r, "FAILED")
            /\ req'[r].answer = req[r].answer /\ req'[r].holds = req[r].holds
        BY <4>2 DEF Request
      <4> QED BY <2>6, <4>1, <4>3 DEF HandlerThrows, TypeOK
    <3>2. r \in Holders' => r \in Holders
      BY <3>1 DEF Holders, StampOf
    <3>3. req'[r].stamp = "COMPLETED" => r \in committed'
      BY <3>1 DEF StampOf, AnswerInv, HeldBody
    <3> QED BY <3>1, <3>2, <3>3, AnswersStay
  <2>7. CASE Stamp(r)
    <3>1. /\ \A q \in Requests \ {r} : req'[q] = req[q]
          /\ req'[r].stamp = "none" /\ req'[r].pc = req[r].pc /\ ~ req'[r].holds
          /\ req'[r].answer = req[r].answer /\ UNCHANGED <<committed, shared>>
          /\ row'.body = row.body
          /\ row'.answer = IF req[r].stamp = "COMPLETED" THEN r ELSE row.answer
      BY <2>7 DEF Stamp, TypeOK, Request, Row
    <3>2. \A q \in Requests : req'[q].body = req[q].body
      BY BodiesStay
    <3>3. HeldBody'
      BY <3>1, <3>2 DEF AnswerInv, HeldBody, Holders
    <3>4. req[r].stamp # "none" /\ r \in Holders
      BY <2>7 DEF Stamp, Holders, TypeOK
    <3>5. StoredBody'
      <4>1. CASE req[r].stamp = "COMPLETED"
        BY <3>1, <3>2, <3>4, <4>1 DEF AnswerInv, HeldBody, StoredBody
      <4>2. CASE req[r].stamp # "COMPLETED"
        BY <3>1, <3>2, <4>2 DEF AnswerInv, StoredBody, TypeOK, Row
      <4> QED BY <4>1, <4>2
    <3>6. ReplayIsOfItsOwnBody'
      <4> SUFFICES ASSUME NEW q \in Requests, req'[q].answer \notin {NoRequest, q}
                   PROVE  /\ req'[q].answer \in committed'
                          /\ req'[req'[q].answer].body = req'[q].body \/ shared'
        BY DEF ReplayIsOfItsOwnBody
      <4>1. req'[q].answer = req[q].answer /\ req[q].answer \in Requests
        BY <3>1 DEF TypeOK, Request
      <4> QED BY <3>1, <3>2, <4>1 DEF AnswerInv, ReplayIsOfItsOwnBody
    <3> QED BY <3>3, <3>5, <3>6 DEF AnswerInv
  <2>8. CASE LoseStamp(r) \/ Die(r)
    <3>1. /\ \A q \in Requests \ {r} : req'[q] = req[q]
          /\ req'[r].stamp = "none" /\ ~ req'[r].holds
          /\ req'[r].answer = req[r].answer /\ UNCHANGED <<row, committed>>
      <4>1. CASE LoseStamp(r) BY <4>1 DEF LoseStamp, TypeOK, Request
      <4>2. CASE Die(r) BY <4>2 DEF Die, TypeOK, Request
      <4> QED BY <2>8, <4>1, <4>2
    <3> QED BY <3>1, AnswersStay DEF Holders
  <2> QED BY <1>1, <2>1, <2>2, <2>3, <2>4, <2>5, <2>6, <2>7, <2>8 DEF RequestStep, Insert
<1>2. CASE Expire
  <2>1. /\ row'.answer = row.answer /\ row'.body = row.body
        /\ UNCHANGED <<req, committed, shared>>
    BY <1>2 DEF Expire, TypeOK, Row
  <2> QED BY <2>1 DEF AnswerInv, HeldBody, StoredBody, ReplayIsOfItsOwnBody, Holders
<1>3. CASE UNCHANGED vars
  BY <1>3 DEF vars, AnswerInv, HeldBody, StoredBody, ReplayIsOfItsOwnBody, Holders
<1> QED BY <1>1, <1>2, <1>3 DEF Next

LEMMA AnswerInit == Init => AnswerInv
<1> SUFFICES ASSUME Init PROVE AnswerInv
  OBVIOUS
<1>1. \A r \in Requests : /\ req[r].pc = "new" /\ req[r].stamp = "none"
                          /\ req[r].holds = FALSE /\ req[r].answer = NoRequest
  <2>1. req \in [Requests -> [ pc : {"new"}, body : Bodies, holds : {FALSE},
                              stamp : {"none"}, answer : {NoRequest} ]]
    BY DEF Init
  <2> QED BY <2>1
<1>2. row.answer = NoRequest
  BY DEF Init
<1> QED BY <1>1, <1>2 DEF AnswerInv, HeldBody, StoredBody, ReplayIsOfItsOwnBody, Holders

\* However many requests share a key, with whatever bodies, a replay is the
\* answer of a run that committed and had the body of the request it answers,
\* unless the row was handed on while another request held it.
THEOREM ReplayedFaithfully == Spec => []ReplayIsOfItsOwnBody
<1>1. AnswerInv => ReplayIsOfItsOwnBody
  BY DEF AnswerInv
<1> QED BY <1>1, AnswerInit, AnswerStep, TypeCorrect, PTL DEF Spec
=============================================================================
