--------------------------- MODULE IdempotencyKeys ---------------------------
(***************************************************************************)
(* IdempotencyInterceptor around one decorated route: requests that carry  *)
(* the same Idempotency-Key of the same actor share one row.  A request    *)
(* looks the row up, reserves it, runs the handler and stamps the result   *)
(* in statements of their own; the stamps are not awaited by the response. *)
(* The handler is that of any decorated route, whole: it commits and       *)
(* returns, or throws and has committed nothing.                           *)
(***************************************************************************)
EXTENDS Naturals, FiniteSets

CONSTANTS Requests, Bodies, NoRequest

ASSUME RequestAssumption == NoRequest \notin Requests /\ Bodies # {}

VARIABLES row,        \* the IdempotencyKey row
          req,        \* the HTTP requests
          committed,  \* requests whose handler committed its work
          excused,    \* history: the row expired, a handler threw or a lookup failed
          shared      \* history: the row was reserved while a request held it

vars == <<row, req, committed, excused, shared>>

-----------------------------------------------------------------------------
Row == [ status  : {"ABSENT", "PENDING", "COMPLETED", "FAILED"},
         body    : Bodies,                     \* requestHash
         answer  : Requests \cup {NoRequest},  \* whose response is stored
         expired : BOOLEAN,
         by      : Requests \cup {NoRequest} ] \* history: who reserved it last

Request == [ pc     : {"new", "lookup", "insert", "renew", "run", "rerun", "done"},
             body   : Bodies,
             holds  : BOOLEAN,                       \* got kind 'reserve'
             stamp  : {"none", "COMPLETED", "FAILED"}, \* the stamp still to be written
             answer : Requests \cup {NoRequest} ]    \* whose response it was sent

TypeOK == /\ row \in Row
          /\ req \in [Requests -> Request]
          /\ committed \subseteq Requests
          /\ excused \in BOOLEAN /\ shared \in BOOLEAN
          /\ \A r \in Requests : req[r].stamp # "none" => req[r].holds

Init == /\ row = [ status |-> "ABSENT", body |-> CHOOSE b \in Bodies : TRUE,
                   answer |-> NoRequest, expired |-> FALSE, by |-> NoRequest ]
        /\ req \in [Requests -> [ pc : {"new"}, body : Bodies, holds : {FALSE},
                                  stamp : {"none"}, answer : {NoRequest} ]]
        /\ committed = {} /\ excused = FALSE /\ shared = FALSE

-----------------------------------------------------------------------------
(* lookupAndDecide *)

Arrive(r) ==
  /\ req[r].pc = "new"
  /\ req' = [req EXCEPT ![r].pc = "lookup"]
  /\ UNCHANGED <<row, committed, excused, shared>>

Live == row.status # "ABSENT" /\ ~row.expired

\* Mutant of Mismatch: a completed row answers whatever body comes.
MismatchPendingOnly(b) == row.status = "PENDING" /\ row.body # b

Mismatch(b) == row.status # "FAILED" /\ row.body # b

\* The row is repurposed by id once it failed or expired.
Renewable == row.status # "ABSENT" /\ (row.expired \/ row.status = "FAILED")

\* findFirst and the decision on what it read.
Lookup(r) ==
  LET b == req[r].body
      Go(pc) == req' = [req EXCEPT ![r].pc = pc] IN
  /\ req[r].pc = "lookup"
  /\ \/ row.status = "ABSENT" /\ Go("insert")
     \/ Live /\ Mismatch(b) /\ Go("done")                     \* 409
     \/ /\ Live /\ ~Mismatch(b) /\ row.status = "COMPLETED"   \* replay
        /\ req' = [req EXCEPT ![r] = [@ EXCEPT !.pc = "done", !.answer = row.answer]]
     \/ Live /\ ~Mismatch(b) /\ row.status = "PENDING" /\ ~Renewable /\ Go("done")
     \/ Renewable /\ (Live => ~Mismatch(b)) /\ Go("renew")
  /\ UNCHANGED <<row, committed, excused, shared>>

Reserved(r) == [ status |-> "PENDING", body |-> req[r].body,
                 answer |-> NoRequest, expired |-> FALSE, by |-> r ]

Holders == {q \in Requests : req[q].holds /\ (req[q].pc = "run" \/ req[q].stamp # "none")}

\* The reservation passes to r; the one who held the row is not told.
Reserve(r) ==
  /\ row' = Reserved(r)
  /\ req' = [req EXCEPT ![r] = [@ EXCEPT !.pc = "run", !.holds = TRUE]]
  /\ shared' = IF Holders = {} THEN shared ELSE TRUE

\* Mutant of Taken: the unique index ignores the row.
NeverTaken == FALSE

\* The unique index on key, method, path and actor.
Taken == row.status # "ABSENT"

\* Mutant of Insert: P2002 inserts again.
InsertAgain(r) ==
  /\ req[r].pc = "insert" /\ ~Taken
  /\ Reserve(r)
  /\ UNCHANGED <<committed, excused>>

\* create; P2002 starts over.
Insert(r) ==
  /\ req[r].pc = "insert"
  /\ IF Taken THEN req' = [req EXCEPT ![r].pc = "lookup"] /\ UNCHANGED <<row, shared>>
              ELSE Reserve(r)
  /\ UNCHANGED <<committed, excused>>

\* update by id, whatever the row has become since the lookup.
Renew(r) ==
  /\ req[r].pc = "renew"
  /\ Reserve(r)
  /\ UNCHANGED <<committed, excused>>

\* A statement of the lookup fails: the handler runs without the row.
Bypass(r) ==
  /\ req[r].pc \in {"lookup", "insert", "renew"}
  /\ req' = [req EXCEPT ![r].pc = "run"]
  /\ excused' = TRUE
  /\ UNCHANGED <<row, committed, shared>>

-----------------------------------------------------------------------------
(* intercept: the handler, the response and the stamps *)

\* Only the first run, and only a reserved one, is followed by a stamp.
StampOf(r, status) ==
  IF req[r].pc = "run" /\ req[r].holds THEN status ELSE req[r].stamp

Commit(r) == committed' = committed \cup {r}

\* Mutant of Respond: the row is stamped whether it was reserved or not.
RespondStamped(r, stamp) ==
  req' = [req EXCEPT ![r] = [@ EXCEPT !.pc = "done", !.answer = r, !.stamp = "COMPLETED"]]

Respond(r, stamp) ==
  req' = [req EXCEPT ![r] = [@ EXCEPT !.pc = "done", !.answer = r, !.stamp = stamp]]

HandlerReturns(r) ==
  /\ req[r].pc \in {"run", "rerun"}
  /\ Commit(r)
  /\ Respond(r, StampOf(r, "COMPLETED"))
  /\ UNCHANGED <<row, excused, shared>>

\* Conflict and BadRequest go to the client; any other error of the handler
\* reaches the outer catchError, which calls the handler once more.  That one
\* is the last: what a second run throws goes to the client.
HandlerThrows(r) ==
  /\ req[r].pc \in {"run", "rerun"}
  /\ \E pc \in {"done", "rerun"} \ {req[r].pc} :
       req' = [req EXCEPT ![r] = [@ EXCEPT !.pc = pc, !.stamp = StampOf(r, "FAILED")]]
  /\ excused' = TRUE
  /\ UNCHANGED <<row, committed, shared>>

\* markCompleted, markFailed: by id, after the response or before it.
Stamp(r) ==
  /\ req[r].stamp # "none"
  /\ row' = [row EXCEPT !.status = req[r].stamp,
                        !.answer = IF req[r].stamp = "COMPLETED" THEN r ELSE @]
  /\ req' = [req EXCEPT ![r] = [@ EXCEPT !.stamp = "none", !.holds = FALSE]]
  /\ UNCHANGED <<committed, excused, shared>>

\* The stamp is lost: its error is swallowed, or the process restarted.
LoseStamp(r) ==
  /\ req[r].stamp # "none"
  /\ req' = [req EXCEPT ![r] = [@ EXCEPT !.stamp = "none", !.holds = FALSE]]
  /\ UNCHANGED <<row, committed, excused, shared>>

\* The process restarts: the request and its stamps are gone.
Die(r) ==
  /\ req[r].pc \notin {"new", "done"}
  /\ req' = [req EXCEPT ![r] = [@ EXCEPT !.pc = "done", !.stamp = "none", !.holds = FALSE]]
  /\ UNCHANGED <<row, committed, excused, shared>>

Expire ==
  /\ Live
  /\ row' = [row EXCEPT !.expired = TRUE]
  /\ excused' = TRUE
  /\ UNCHANGED <<req, committed, shared>>

RequestStep(r) ==
  \/ Arrive(r) \/ Lookup(r) \/ Insert(r) \/ Renew(r) \/ Bypass(r)
  \/ HandlerReturns(r) \/ HandlerThrows(r) \/ Stamp(r) \/ LoseStamp(r) \/ Die(r)

Next == (\E r \in Requests : RequestStep(r)) \/ Expire

\* A request that arrived is worked on until it is answered.
Progress(r) == Lookup(r) \/ Insert(r) \/ Renew(r) \/ HandlerReturns(r)

Spec == Init /\ [][Next]_vars /\ \A r \in Requests : WF_vars(Progress(r))

-----------------------------------------------------------------------------
(* Properties *)

\* However many copies of a request arrive together, are retried or die, and
\* whatever stamps are lost, the work is committed once, unless the row expired,
\* a handler threw or the lookup itself failed (idempotency.interceptor.ts:224).
CommittedOnceUnlessExcused == excused \/ Cardinality(committed) <= 1

\* A replayed response is that of a run that committed, and one with the body of
\* the request, unless two requests held the row at once: a retry of a failed or
\* expired row does not look at who else took it (idempotency.interceptor.ts:168, 194).
ReplayIsOfItsOwnBody ==
  \A r \in Requests :
    LET a == req[r].answer IN
    a \notin {NoRequest, r} => /\ a \in committed
                               /\ req[a].body = req[r].body \/ shared

\* A request that arrived is answered, however often it loses the insert
\* (idempotency.interceptor.ts:241).
EveryRequestAnswered ==
  \A r \in Requests : req[r].pc = "lookup" ~> req[r].pc = "done"

\* Violated.  A failed row stands for no committed work, so that a retry is free
\* to run again (idempotency.interceptor.ts:165); but a handler that threw is run
\* a second time, and the row stays FAILED whatever that run commits.
FailedRowIsClean == row.status = "FAILED" => row.by \notin committed
=============================================================================
