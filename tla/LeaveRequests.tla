---------------------------- MODULE LeaveRequests ----------------------------
(***************************************************************************)
(* LeaveRequestsService and LeaveBalanceService: the life of leave         *)
(* requests and the pending / used days of a person's balance.  Every      *)
(* handler is a sequence of separate database statements (read, overlap    *)
(* query, status update, balance update); none is in a transaction and     *)
(* every update is by id alone.  Handlers interleave between statements,   *)
(* and the process may die between any two of them.                        *)
(***************************************************************************)
EXTENDS Integers, FiniteSetsExt

CONSTANTS Leaves, Persons, Accounts, Handlers,
          Owner,      \* the person a leave is for
          Account,    \* the balance row of a leave: person, year and type
          First, Last,\* first and last calendar day of a leave
          MaxCrashes  \* bound on handlers that die half-way

ASSUME LeaveAssumption ==
  /\ Leaves # {} /\ IsFiniteSet(Leaves) /\ IsFiniteSet(Handlers)
  /\ Owner \in [Leaves -> Persons] /\ Account \in [Leaves -> Accounts]
  /\ First \in [Leaves -> Nat] /\ Last \in [Leaves -> Nat]
  /\ MaxCrashes \in Nat

VARIABLES status,   \* the LeaveRequest table
          balance,  \* the LeaveBalance table: pending and used days
          handler,  \* the requests in flight
          crashes,
          decisions,\* history: how many decisions were written on a leave
          unbooked  \* history: leaves with a status whose booking was lost

vars == <<status, balance, handler, crashes, decisions, unbooked>>

Decisions == {"APPROVED", "REJECTED", "CANCELLED"}

\* Mutant of Statuses: the enum of the table does not know CANCELLED.
StatusesBeforeCancel == {"ABSENT", "PENDING", "APPROVED", "REJECTED"}

Statuses == {"ABSENT", "PENDING"} \cup Decisions

Handler == [ pc    : {"idle", "overlap", "write", "book"},
             leave : Leaves,
             to    : Statuses \ {"ABSENT"} ]

Idle == [pc |-> "idle", leave |-> CHOOSE l \in Leaves : TRUE, to |-> "PENDING"]

TypeOK == /\ status \in [Leaves -> Statuses]
          /\ balance \in [Accounts -> [pending : Int, used : Int]]
          /\ handler \in [Handlers -> Handler]
          /\ crashes \in 0 .. MaxCrashes
          /\ decisions \in [Leaves -> Nat] /\ unbooked \subseteq Leaves

Init == /\ status = [l \in Leaves |-> "ABSENT"]
        /\ balance = [a \in Accounts |-> [pending |-> 0, used |-> 0]]
        /\ handler = [h \in Handlers |-> Idle]
        /\ crashes = 0
        /\ decisions = [l \in Leaves |-> 0] /\ unbooked = {}

-----------------------------------------------------------------------------
(* Helpers *)

\* calculateLeaveDaysInclusive
Days(l) == IF Last[l] < First[l] THEN 1 ELSE Last[l] - First[l] + 1

\* Mutant of Overlaps: leaves that share just one day do not overlap.
OverlapsInside(l, k) == First[k] < Last[l] /\ First[l] < Last[k]

Overlaps(l, k) == First[k] <= Last[l] /\ First[l] <= Last[k]

\* findFirstOverlappingApproved
OverlapsApproved(l) ==
  \E k \in Leaves \ {l} :
    Owner[k] = Owner[l] /\ status[k] = "APPROVED" /\ Overlaps(l, k)

\* Mutant of Decidable: an employee may still cancel what was approved.
DecidableUnlessRejected(l, to) ==
  status[l] = "PENDING" \/ (to = "CANCELLED" /\ status[l] = "APPROVED")

\* "Only pending requests can be approved / rejected / cancelled".
Decidable(l, to) == status[l] = "PENDING"

\* Mutants of Booking: an approval leaves the days pending as well; a
\* cancellation gives back nothing.
ApprovedStillPending(l, to) ==
  [ pending |-> CASE to = "PENDING"  -> Days(l)
                  [] to = "APPROVED" -> 0
                  [] OTHER           -> - Days(l),
    used    |-> IF to = "APPROVED" THEN Days(l) ELSE 0 ]
CancelledStillPending(l, to) ==
  [ pending |-> CASE to = "PENDING"   -> Days(l)
                  [] to = "CANCELLED" -> 0
                  [] OTHER            -> - Days(l),
    used    |-> IF to = "APPROVED" THEN Days(l) ELSE 0 ]

\* addPending, deduct, restorePending: what reaching a status books.
Booking(l, to) ==
  [ pending |-> IF to = "PENDING" THEN Days(l) ELSE - Days(l),
    used    |-> IF to = "APPROVED" THEN Days(l) ELSE 0 ]

-----------------------------------------------------------------------------
(* create: insert a PENDING row, then reserve its days. *)
Create(h, l) ==
  /\ handler[h].pc = "idle"
  /\ status[l] = "ABSENT"
  /\ status' = [status EXCEPT ![l] = "PENDING"]
  /\ handler' = [handler EXCEPT ![h] = [pc |-> "book", leave |-> l, to |-> "PENDING"]]
  /\ UNCHANGED <<balance, crashes, decisions, unbooked>>

\* approve, reject, cancelByEmployee: findById and the status check.  A
\* refused request leaves no trace and is not represented.
DecisionRead(h, l, to) ==
  /\ handler[h].pc = "idle"
  /\ status[l] # "ABSENT" /\ Decidable(l, to)
  /\ handler' = [handler EXCEPT ![h] =
       [pc |-> IF to = "APPROVED" THEN "overlap" ELSE "write", leave |-> l, to |-> to]]
  /\ UNCHANGED <<status, balance, crashes, decisions, unbooked>>

\* approve only: refuse next to an approved leave it overlaps with.
CheckOverlap(h) ==
  /\ handler[h].pc = "overlap"
  /\ handler' = [handler EXCEPT ![h] =
       IF OverlapsApproved(@.leave) THEN Idle ELSE [@ EXCEPT !.pc = "write"]]
  /\ UNCHANGED <<status, balance, crashes, decisions, unbooked>>

\* updateStatus: by id, whatever the status has become.
WriteStatus(h) ==
  /\ handler[h].pc = "write"
  /\ status' = [status EXCEPT ![handler[h].leave] = handler[h].to]
  /\ handler' = [handler EXCEPT ![h].pc = "book"]
  /\ decisions' = [decisions EXCEPT ![handler[h].leave] = @ + 1]
  /\ UNCHANGED <<balance, crashes, unbooked>>

\* ensureBalance and one atomic increment of both columns.
BookBalance(h) ==
  /\ handler[h].pc = "book"
  /\ LET l == handler[h].leave
         d == Booking(l, handler[h].to)
     IN balance' = [balance EXCEPT ![Account[l]] =
                      [pending |-> @.pending + d.pending, used |-> @.used + d.used]]
  /\ handler' = [handler EXCEPT ![h] = Idle]
  /\ UNCHANGED <<status, crashes, decisions, unbooked>>

\* The next statement fails or the process restarts.
Crash(h) ==
  /\ handler[h].pc # "idle"
  /\ crashes < MaxCrashes
  /\ crashes' = crashes + 1
  /\ handler' = [handler EXCEPT ![h] = Idle]
  /\ unbooked' = IF handler[h].pc = "book" THEN unbooked \cup {handler[h].leave}
                                           ELSE unbooked
  /\ UNCHANGED <<status, balance, decisions>>

Proceed(h) == CheckOverlap(h) \/ WriteStatus(h) \/ BookBalance(h)

Next == \E h \in Handlers :
          \/ \E l \in Leaves : Create(h, l)
          \/ \E l \in Leaves, to \in Decisions : DecisionRead(h, l, to)
          \/ Proceed(h)
          \/ Crash(h)

\* A handler that was started runs on; nobody has to start one.
Spec == Init /\ [][Next]_vars /\ \A h \in Handlers : WF_vars(Proceed(h))

-----------------------------------------------------------------------------
(* Properties *)

\* The column that counts the leaves of a status.
Columns == {"pending", "used"}
Counted == [pending |-> "PENDING", used |-> "APPROVED"]

LeavesIn(a, column) == {l \in Leaves : Account[l] = a /\ status[l] = Counted[column]}

DaysIn(a, column) == SumFunctionOnSet([l \in Leaves |-> Days(l)], LeavesIn(a, column))

\* The increments still to be booked.
InFlight(a) == {h \in Handlers : handler[h].pc = "book" /\ Account[handler[h].leave] = a}

Owed(column) == [h \in Handlers |-> Booking(handler[h].leave, handler[h].to)[column]]

OwedTo(a, column) == SumFunctionOnSet(Owed(column), InFlight(a))

\* The leaves of a balance were each decided once at most, and every status
\* that was written was booked or is about to be.
Clean(a) ==
  \A l \in Leaves : Account[l] = a => decisions[l] <= 1 /\ l \notin unbooked

(***************************************************************************)
(* The balance columns are derived data kept by increments in a second     *)
(* statement.  Whatever the interleaving of handlers on one balance, its   *)
(* pending (used) days are those of the pending (approved) leaves, up to   *)
(* the increments still in flight.  Only two things can put it wrong: two  *)
(* decisions that both found one leave PENDING, and a handler that died    *)
(* between its two statements.                                             *)
(***************************************************************************)
BalanceExplained ==
  \A a \in Accounts, column \in Columns :
    Clean(a) => balance[a][column] + OwedTo(a, column) = DaysIn(a, column)

Covers(l, day) == First[l] <= day /\ day <= Last[l]

ApprovedOn(p, day) ==
  {l \in Leaves : Owner[l] = p /\ status[l] = "APPROVED" /\ Covers(l, day)}

(***************************************************************************)
(* "Check for overlapping approved leave requests (20b-11)".  The query    *)
(* and the write are separate statements, so two approvals at once can     *)
(* both find the day free.  Each request at work can slip one leave        *)
(* through and no more: no day is ever covered by more approved leaves     *)
(* than there are requests at a time, and by one when there is one.        *)
(***************************************************************************)
DayBookedPerHandler ==
  \A p \in Persons, l \in Leaves :
    \A day \in First[l] .. Last[l] : Cardinality(ApprovedOn(p, day)) <= Cardinality(Handlers)

(***************************************************************************)
(* "Only pending requests can be approved / rejected / cancelled".  The    *)
(* decision is written by id after a separate check, so decisions that     *)
(* were all on their way while the leave was PENDING all land, the last    *)
(* over the others.  Nothing decided later does: however often a leave is  *)
(* asked about, at most one decision per request at a time is written.     *)
(***************************************************************************)
DecidedPerHandler == \A l \in Leaves : decisions[l] <= Cardinality(Handlers)

(***************************************************************************)
(* "Balance almost always updated": once the handlers are through, every   *)
(* clean balance is that of its requests.  One that is not clean stays     *)
(* wrong for good: no retry repairs it, as the comment goes on to promise, *)
(* for the request is no longer PENDING by then.                           *)
(***************************************************************************)
ReconciledWhenClean ==
  <>[](\A a \in Accounts, column \in Columns :
         Clean(a) => balance[a][column] = DaysIn(a, column))
=============================================================================
