--------------------------- MODULE TaskLifecycle ---------------------------
(***************************************************************************)
(* The life of one task in direct_release mode: assignment, submission,     *)
(* review, dispute, cancellation and expiry.                                *)
(*                                                                          *)
(* Every handler reads the task, the submission or the escrow, decides, and *)
(* then writes by id, whatever the row has become since: a database call is *)
(* one atomic step and other handlers run between two of them.  The status  *)
(* validator of update_task only logs, so no write is refused.              *)
(*                                                                          *)
(* Each handler runs one request at a time.  Jobs are the expiration loops  *)
(* of the server processes.  Settlement is taken from EscrowSettlement at   *)
(* the level of its contract: a claim, then either the funds move and the   *)
(* row is closed, or the claim is given back.  A call that fails may have   *)
(* reached the facilitator all the same; then the funds move later.         *)
(*                                                                          *)
(* Left out: the status verifying, the locks signed by the server or        *)
(* relayed for the agent, and the checks of identity, reputation and        *)
(* evidence.  A publisher who locks funds sends their payment_info.         *)
(***************************************************************************)
EXTENDS Naturals

CONSTANTS
    Workers,   \* executors
    NoWorker,  \* NULL in a column that refers to another row
    Disputes,  \* the dispute rows there is room for: a bound
    Handlers,  \* requests that may run at the same time
    Jobs,      \* expiration loops
    Requests,  \* the kinds of request that handlers serve
    Faults,    \* processes stop, and writes and settlements fail
    ReadFaults, \* look-ups fail that the code takes for an empty answer
    ServerSigning, \* the server holds a signing key and can ask the chain
    MaxJobRefunds  \* max_retries of the expiration job

AllRequests ==
    {"assign", "submit", "approve", "reject", "moreInfo", "cancel",
     "dispute", "resolve"}

ASSUME LifecycleConstants ==
    /\ NoWorker \notin Workers
    /\ Handlers \cap Jobs = {}
    /\ Requests \subseteq AllRequests
    /\ Faults \in BOOLEAN
    /\ ReadFaults \in BOOLEAN
    /\ ServerSigning \in BOOLEAN
    /\ MaxJobRefunds \in Nat \ {0}

Procs == Handlers \cup Jobs

VARIABLES
    task,     \* tasks: status, executor_id, and whether escrow_tx is a hash
    escrow,   \* escrows: status, and the receiver in its payment_info
    lock,     \* on chain: the funds locked for each worker
    lost,     \* settlements of each lock that were sent and not answered
    verdict,  \* submissions.agent_verdict of each worker
    latest,   \* the worker of the most recent submission
    dispute,  \* disputes: whose submission, and whether it is open
    paid,     \* workers whose submission has a final row in payments
    late,     \* the deadline has passed
    pc,       \* the next step of each handler and job
    req       \* their local variables

vars == <<task, escrow, lock, lost, verdict, latest, dispute, paid, late, pc, req>>

-----------------------------------------------------------------------------
OpenStatuses == {"published", "accepted", "in_progress", "submitted"}
ClosedStatuses == {"completed", "cancelled", "expired", "refunded"}
AllStatuses == OpenStatuses \cup ClosedStatuses \cup {"disputed"}

EscrowStatuses ==
    {"pending", "deposited", "releasing", "refunding", "released", "refunded"}

Verdicts ==
    {"none", "pending", "accepted", "rejected", "more_info", "disputed"}

Steps == {"idle", "assignCheck", "accept", "recordLock", "recordTx", "guard",
          "submitCheck", "submission", "submitted",
          "approveCheck", "settle", "claim", "send", "book", "verdict",
          "complete",
          "rejectRead", "rejectWrite", "reopen", "infoWrite", "resume",
          "disputeCheck", "disputeInsert", "disputeVerdict", "resolveWrite",
          "cancelCheck", "recheck", "cancelWrite", "deadline", "expire"}

(* worker: of the request's submission or assignment; payee: receiver of the*)
(* payment_info read under the claim; status: of the task as it was read;   *)
(* flag: fresh lock (assign), retry (approve), major (reject), refund       *)
(* (resolve); tx: the task row returned by the assignment has a transaction *)
(* hash; row: the dispute to resolve; tries: refunds the job has tried.     *)
Reqs == [kind : AllRequests \cup {"none", "expire"},
         worker : Workers \cup {NoWorker},
         payee : Workers \cup {NoWorker},
         status : AllStatuses,
         flag : BOOLEAN, tx : BOOLEAN, row : Disputes \cup {NoWorker},
         tries : 0..MaxJobRefunds]

NoReq == [kind |-> "none", worker |-> NoWorker, payee |-> NoWorker,
          status |-> "published", flag |-> FALSE, tx |-> FALSE,
          row |-> NoWorker, tries |-> 0]

(* A published task: escrow_tx holds a reference, not a transaction hash.   *)
Init ==
    /\ task = [status |-> "published", executor |-> NoWorker, tx |-> FALSE]
    /\ escrow = [status |-> "pending", payee |-> NoWorker]
    /\ lock = [w \in Workers |-> "none"]
    /\ lost = [w \in Workers |-> {}]
    /\ verdict = [w \in Workers |-> "none"]
    /\ latest = NoWorker
    /\ dispute = [d \in Disputes |-> [of |-> NoWorker, open |-> FALSE]]
    /\ paid = {}
    /\ late = FALSE
    /\ pc = [p \in Procs |-> "idle"]
    /\ req = [p \in Procs |-> NoReq]

-----------------------------------------------------------------------------
Goto(p, step) ==
    /\ pc' = [pc EXCEPT ![p] = step]
    /\ UNCHANGED req

Return(p) ==
    /\ pc' = [pc EXCEPT ![p] = "idle"]
    /\ req' = [req EXCEPT ![p] = NoReq]

(* A request that passes the checks of its first read.                      *)
Begin(p, kind, w, flag, step) ==
    /\ pc[p] = "idle"
    /\ kind \in Requests
    /\ pc' = [pc EXCEPT ![p] = step]
    /\ req' = [req EXCEPT ![p] = [NoReq EXCEPT !.kind = kind, !.worker = w,
                                               !.flag = flag]]
    /\ UNCHANGED <<task, escrow, lock, lost, verdict, latest, dispute, paid, late>>

-----------------------------------------------------------------------------
(* Assignment                                                               *)

(* The publisher authorises the escrow for a worker before it assigns.      *)
LockFunds(w) ==
    /\ task.status = "published"
    /\ lock[w] = "none"
    /\ lock' = [lock EXCEPT ![w] = "locked"]
    /\ UNCHANGED <<task, escrow, lost, verdict, latest, dispute, paid, late, pc, req>>

(* fresh: the request carries escrow_tx, the transaction that locked for w. *)
Assign(p, w, fresh) ==
    /\ task.status = "published"
    /\ fresh => lock[w] = "locked"
    /\ Begin(p, "assign", w, fresh, "assignCheck")

(* An escrow that cannot be looked up does not stop the assignment.         *)
AssignCheck(p) ==
    /\ pc[p] = "assignCheck"
    /\ \/ escrow.status \in {"pending", "deposited"} /\ Goto(p, "accept")
       \/ escrow.status \notin {"pending", "deposited"} /\ Return(p)
       \/ ReadFaults /\ Goto(p, "accept")
    /\ UNCHANGED <<task, escrow, lock, lost, verdict, latest, dispute, paid, late>>

Accept(p) ==
    /\ pc[p] = "accept"
    /\ task' = [task EXCEPT !.status = "accepted", !.executor = req[p].worker]
    /\ pc' = [pc EXCEPT ![p] = IF req[p].flag THEN "recordLock" ELSE "guard"]
    /\ req' = [req EXCEPT ![p].tx = task.tx]
    /\ UNCHANGED <<escrow, lock, lost, verdict, latest, dispute, paid, late>>

(* The lock replaces whatever the escrow row held.  An error is logged.     *)
RecordLock(p) ==
    /\ pc[p] = "recordLock"
    /\ \/ /\ escrow' = [status |-> "deposited", payee |-> req[p].worker]
          /\ Goto(p, "recordTx")
       \/ /\ Faults
          /\ UNCHANGED escrow
          /\ Goto(p, "guard")
    /\ UNCHANGED <<task, lock, lost, verdict, latest, dispute, paid, late>>

RecordTx(p) ==
    /\ pc[p] = "recordTx"
    /\ \/ task' = [task EXCEPT !.tx = TRUE] /\ Return(p)
       \/ Faults /\ UNCHANGED task /\ Goto(p, "guard")
    /\ UNCHANGED <<escrow, lock, lost, verdict, latest, dispute, paid, late>>

(* ESCROW GUARD: without a lock of this request the transaction of the task *)
(* row counts; without one the assignment is taken back.                    *)
Guard(p) ==
    /\ pc[p] = "guard"
    /\ \/ req[p].tx /\ UNCHANGED task
       \/ /\ ~req[p].tx
          /\ task' = [task EXCEPT !.status = "published", !.executor = NoWorker]
       \/ Faults /\ ~req[p].tx /\ UNCHANGED task
    /\ Return(p)
    /\ UNCHANGED <<escrow, lock, lost, verdict, latest, dispute, paid, late>>

-----------------------------------------------------------------------------
(* Submission                                                               *)

Submit(p, w) ==
    /\ task.executor = w
    /\ ~late
    /\ task.status \in {"accepted", "in_progress"}
    /\ Begin(p, "submit", w, FALSE, "submitCheck")

SubmitCheck(p) ==
    /\ pc[p] = "submitCheck"
    /\ IF escrow.status = "deposited" THEN Goto(p, "submission") ELSE Return(p)
    /\ UNCHANGED <<task, escrow, lock, lost, verdict, latest, dispute, paid, late>>

(* The insert of a first submission also moves the task (trigger); a        *)
(* resubmission updates the row and does not.                               *)
Submission(p) ==
    LET w == req[p].worker IN
    /\ pc[p] = "submission"
    /\ verdict' = [verdict EXCEPT ![w] = "pending"]
    /\ latest' = w
    /\ task' = IF /\ verdict[w] = "none"
                  /\ task.status \in {"accepted", "in_progress"}
               THEN [task EXCEPT !.status = "submitted"]
               ELSE task
    /\ Goto(p, "submitted")
    /\ UNCHANGED <<escrow, lock, lost, paid, late, dispute>>

Submitted(p) ==
    /\ pc[p] = "submitted"
    /\ task' = [task EXCEPT !.status = "submitted"]
    /\ Return(p)
    /\ UNCHANGED <<escrow, lock, lost, verdict, latest, dispute, paid, late>>

-----------------------------------------------------------------------------
(* Settlement                                                               *)

Operation(p) == IF req[p].kind = "approve" THEN "release" ELSE "refund"
Claimed(op) == IF op = "release" THEN "releasing" ELSE "refunding"
Settled(op) == IF op = "release" THEN "released" ELSE "refunded"

(* Between its claim and its result a process alone settles the escrow.     *)
Settling(p) == pc[p] \in {"send", "book"}

(* Where a request goes on whose settlement did not happen.  A cancellation *)
(* carries on without the refund, the job tries again.                      *)
Unsettled(p) ==
    \/ req[p].kind = "cancel" /\ Goto(p, "recheck")
    \/ /\ req[p].kind = "expire"
       /\ req[p].tries + 1 < MaxJobRefunds
       /\ pc' = [pc EXCEPT ![p] = "claim"]
       /\ req' = [req EXCEPT ![p].tries = @ + 1]
    \/ /\ req[p].kind # "cancel"
       /\ req[p].kind = "expire" => req[p].tries + 1 >= MaxJobRefunds
       /\ Return(p)

(* A deposited row is taken, and payment_info is read under the claim.  The *)
(* job takes a refund of somebody else for its own.                         *)
Claim(p) ==
    /\ pc[p] = "claim"
    /\ \/ /\ escrow.status = "deposited"
          /\ escrow' = [escrow EXCEPT !.status = Claimed(Operation(p))]
          /\ pc' = [pc EXCEPT ![p] = "send"]
          /\ req' = [req EXCEPT ![p].payee = escrow.payee]
       \/ escrow.status # "deposited" /\ Unsettled(p) /\ UNCHANGED escrow
       \/ /\ escrow.status = "refunded" /\ req[p].kind = "expire"
          /\ Return(p)
          /\ UNCHANGED escrow
    /\ UNCHANGED <<task, lock, lost, verdict, latest, dispute, paid, late>>

(* The facilitator settles the lock that payment_info names and answers.    *)
(* Whatever was sent before for the same lock can then only revert.         *)
SendOk(p) ==
    LET w == req[p].payee IN
    /\ pc[p] = "send"
    /\ lock[w] = "locked"
    /\ lock' = [lock EXCEPT ![w] = Settled(Operation(p))]
    /\ lost' = [lost EXCEPT ![w] = {}]
    /\ IF req[p].kind \in {"expire", "resolve"} THEN Return(p)
                                               ELSE Goto(p, "book")
    /\ UNCHANGED <<task, escrow, verdict, latest, dispute, paid, late>>

(* Variant of SendFail that takes a failure for a settlement.               *)
SendFailBooked(p) ==
    /\ pc[p] = "send"
    /\ Faults \/ lock[req[p].payee] # "locked"
    /\ Goto(p, "book")
    /\ UNCHANGED <<task, escrow, lock, lost, verdict, latest, dispute,
                   paid, late>>

(* The settlement is refused, or its answer is lost: then the transaction   *)
(* may be under way.  The claim is given back; an error in that is logged.  *)
(* A release that timed out over an empty escrow also ends with the row     *)
(* still claimed: settle refuses the stand-in for a transaction hash.       *)
SendFail(p) ==
    LET w == req[p].payee IN
    /\ pc[p] = "send"
    /\ \/ /\ Faults \/ lock[w] # "locked"
          /\ UNCHANGED lost
       \/ /\ Faults /\ lock[w] = "locked"
          /\ lost' = [lost EXCEPT ![w] = @ \cup {Operation(p)}]
    /\ \/ escrow' = IF escrow.status = Claimed(Operation(p))
                    THEN [escrow EXCEPT !.status = "deposited"]
                    ELSE escrow
       \/ Faults /\ UNCHANGED escrow
    /\ Unsettled(p)
    /\ UNCHANGED <<task, lock, verdict, latest, dispute, paid, late>>

(* What was sent is carried out at any time, once for a lock: a later       *)
(* transaction reverts.                                                     *)
Mine(w, op) ==
    /\ op \in lost[w]
    /\ lock[w] = "locked"
    /\ lock' = [lock EXCEPT ![w] = Settled(op)]
    /\ UNCHANGED <<task, escrow, lost, verdict, latest, dispute, paid,
                   late, pc, req>>

(* The rows of payments and escrows; an error in either is only logged.     *)
Book(p) ==
    /\ pc[p] = "book"
    /\ \/ escrow' = [escrow EXCEPT !.status = Settled(Operation(p))]
       \/ Faults /\ UNCHANGED escrow
    /\ \/ Operation(p) = "release" /\ paid' = paid \cup {req[p].worker}
       \/ Operation(p) = "refund" /\ UNCHANGED paid
       \/ Faults /\ UNCHANGED paid
    /\ \/ req[p].kind = "cancel" /\ Goto(p, "recheck")
       \/ req[p].kind = "approve" /\ ~req[p].flag /\ Goto(p, "verdict")
       \/ req[p].kind = "approve" /\ req[p].flag /\ Return(p)
    /\ UNCHANGED <<task, lock, lost, verdict, latest, dispute, late>>

(* Variants of Reconcile that do not look at the chain: one reopens every   *)
(* row, one closes every row.                                               *)
ReconcileReopens ==
    /\ escrow.status \in {"releasing", "refunding"}
    /\ \A p \in Procs : ~Settling(p)
    /\ escrow' = [escrow EXCEPT !.status = "deposited"]
    /\ UNCHANGED <<task, lock, lost, verdict, latest, dispute, paid, late, pc, req>>

ReconcileCloses ==
    /\ escrow.status \in {"releasing", "refunding"}
    /\ \A p \in Procs : ~Settling(p)
    /\ escrow' = [escrow EXCEPT !.status =
                    IF @ = "releasing" THEN "released" ELSE "refunded"]
    /\ UNCHANGED <<task, lock, lost, verdict, latest, dispute, paid, late, pc, req>>

(* A claim left by a job or by a process that stopped: the reconciler closes*)
(* the row if the funds are gone and reopens it otherwise.  Where they went *)
(* it does not see, and without the key it cannot ask.                      *)
Reconcile ==
    /\ ServerSigning
    /\ escrow.status \in {"releasing", "refunding"}
    /\ \A p \in Procs : ~Settling(p)
    /\ escrow' = [escrow EXCEPT !.status =
                    IF lock[escrow.payee] = "locked" THEN "deposited"
                    ELSE IF @ = "releasing" THEN "released" ELSE "refunded"]
    /\ UNCHANGED <<task, lock, lost, verdict, latest, dispute, paid, late, pc, req>>

-----------------------------------------------------------------------------
(* Review                                                                   *)

(* Variant of Approve that leaves 'refunded' out of the statuses it refuses.*)
ApproveRefunded(p, w) ==
    \/ /\ verdict[w] = "pending"
       /\ task.status \notin ClosedStatuses \ {"refunded"}
       /\ Begin(p, "approve", w, FALSE, "approveCheck")
    \/ /\ verdict[w] = "accepted"
       /\ Begin(p, "approve", w, TRUE, "settle")

(* A submission already accepted only has its settlement repeated.          *)
Approve(p, w) ==
    \/ /\ verdict[w] = "pending"
       /\ task.status \notin ClosedStatuses
       /\ Begin(p, "approve", w, FALSE, "approveCheck")
    \/ /\ verdict[w] = "accepted"
       /\ Begin(p, "approve", w, TRUE, "settle")

ApproveCheck(p) ==
    /\ pc[p] = "approveCheck"
    /\ IF escrow.status = "deposited" THEN Goto(p, "settle") ELSE Return(p)
    /\ UNCHANGED <<task, escrow, lock, lost, verdict, latest, dispute, paid, late>>

(* A recorded payment is not made again; a lookup that fails finds none.    *)
Settle(p) ==
    /\ pc[p] = "settle"
    /\ \/ req[p].worker \notin paid /\ Goto(p, "claim")
       \/ ReadFaults /\ Goto(p, "claim")
       \/ req[p].worker \in paid /\ ~req[p].flag /\ Goto(p, "verdict")
       \/ req[p].worker \in paid /\ req[p].flag /\ Return(p)
    /\ UNCHANGED <<task, escrow, lock, lost, verdict, latest, dispute, paid, late>>

(* update_submission with 'accepted': the verdict, then the task.           *)
AcceptWork(p) ==
    /\ pc[p] = "verdict"
    /\ verdict' = [verdict EXCEPT ![req[p].worker] = "accepted"]
    /\ Goto(p, "complete")
    /\ UNCHANGED <<task, escrow, lock, lost, latest, dispute, paid, late>>

Complete(p) ==
    /\ pc[p] = "complete"
    /\ task' = [task EXCEPT !.status = "completed"]
    /\ Return(p)
    /\ UNCHANGED <<escrow, lock, lost, verdict, latest, dispute, paid, late>>

(* Variant of Reject that does not look at the verdict.                     *)
RejectAnyVerdict(p, w, major) ==
    /\ verdict[w] # "none"
    /\ Begin(p, "reject", w, major, "rejectRead")

Reject(p, w, major) ==
    /\ verdict[w] = "pending"
    /\ Begin(p, "reject", w, major, "rejectRead")

RejectRead(p) ==
    /\ pc[p] = "rejectRead"
    /\ pc' = [pc EXCEPT ![p] = "rejectWrite"]
    /\ req' = [req EXCEPT ![p].status = task.status]
    /\ UNCHANGED <<task, escrow, lock, lost, verdict, latest, dispute, paid, late>>

RejectWrite(p) ==
    /\ pc[p] = "rejectWrite"
    /\ verdict' = [verdict EXCEPT ![req[p].worker] = "rejected"]
    /\ IF req[p].status \in {"submitted", "in_progress"} THEN Goto(p, "reopen")
                                                         ELSE Return(p)
    /\ UNCHANGED <<task, escrow, lock, lost, latest, dispute, paid, late>>

(* Variant of Reopen that leaves executor_id in the row.                    *)
ReopenKeepsExecutor(p) ==
    /\ pc[p] = "reopen"
    /\ task' = [task EXCEPT !.status = IF req[p].flag THEN "published"
                                                      ELSE "in_progress"]
    /\ Return(p)
    /\ UNCHANGED <<escrow, lock, lost, verdict, latest, dispute, paid, late>>

(* Variant of Reopen that writes the verdict into the task.                 *)
ReopenWithVerdict(p) ==
    /\ pc[p] = "reopen"
    /\ task' = IF req[p].flag
               THEN [task EXCEPT !.status = "published", !.executor = NoWorker]
               ELSE [task EXCEPT !.status = "rejected"]
    /\ Return(p)
    /\ UNCHANGED <<escrow, lock, lost, verdict, latest, dispute, paid, late>>

(* A major rejection returns the task to the pool, a minor one to the same  *)
(* worker.                                                                  *)
Reopen(p) ==
    /\ pc[p] = "reopen"
    /\ task' = IF req[p].flag
               THEN [task EXCEPT !.status = "published", !.executor = NoWorker]
               ELSE [task EXCEPT !.status = "in_progress"]
    /\ Return(p)
    /\ UNCHANGED <<escrow, lock, lost, verdict, latest, dispute, paid, late>>

(* Variant of MoreInfo that does not look at the verdict.                   *)
MoreInfoAnyVerdict(p, w) ==
    /\ verdict[w] # "none"
    /\ Begin(p, "moreInfo", w, FALSE, "infoWrite")

(* The status of the task is not looked at.                                 *)
MoreInfo(p, w) ==
    /\ verdict[w] \in {"pending", "more_info"}
    /\ Begin(p, "moreInfo", w, FALSE, "infoWrite")

InfoWrite(p) ==
    /\ pc[p] = "infoWrite"
    /\ verdict' = [verdict EXCEPT ![req[p].worker] = "more_info"]
    /\ Goto(p, "resume")
    /\ UNCHANGED <<task, escrow, lock, lost, latest, dispute, paid, late>>

Resume(p) ==
    /\ pc[p] = "resume"
    /\ task' = [task EXCEPT !.status = "in_progress"]
    /\ Return(p)
    /\ UNCHANGED <<escrow, lock, lost, verdict, latest, dispute, paid, late>>

-----------------------------------------------------------------------------
(* Disputes                                                                 *)

(* The guard against settled submissions reads a column that the table does *)
(* not have, and the task is not looked at: a paid submission of a completed*)
(* task can be disputed.                                                    *)
Dispute(p, w) ==
    /\ verdict[w] # "none"
    /\ Begin(p, "dispute", w, FALSE, "disputeCheck")

DisputeCheck(p) ==
    /\ pc[p] = "disputeCheck"
    /\ IF \E d \in Disputes : dispute[d] = [of |-> req[p].worker, open |-> TRUE]
       THEN Return(p)
       ELSE Goto(p, "disputeInsert")
    /\ UNCHANGED <<task, escrow, lock, lost, verdict, latest, dispute, paid, late>>

(* The insert moves the task, whatever its status (trigger).  The second    *)
(* disjunct is the bound: no row is left.                                   *)
DisputeInsert(p) ==
    /\ pc[p] = "disputeInsert"
    /\ \/ /\ \E d \in Disputes :
                /\ dispute[d].of = NoWorker
                /\ dispute' = [dispute EXCEPT
                                  ![d] = [of |-> req[p].worker, open |-> TRUE]]
          /\ task' = [task EXCEPT !.status = "disputed"]
          /\ Goto(p, "disputeVerdict")
       \/ /\ \A d \in Disputes : dispute[d].of # NoWorker
          /\ Return(p)
          /\ UNCHANGED <<task, dispute>>
    /\ UNCHANGED <<escrow, lock, lost, verdict, latest, paid, late>>

(* An error is logged: the dispute stands without its verdict.              *)
DisputeVerdict(p) ==
    /\ pc[p] = "disputeVerdict"
    /\ \/ verdict' = [verdict EXCEPT ![req[p].worker] = "disputed"]
       \/ Faults /\ UNCHANGED verdict
    /\ Return(p)
    /\ UNCHANGED <<task, escrow, lock, lost, latest, dispute, paid, late>>

(* An arbiter refunds the publisher or splits the amount.  A release fails  *)
(* before it writes: it first reads the column that does not exist.         *)
Resolve(p, d, refund) ==
    /\ pc[p] = "idle"
    /\ "resolve" \in Requests
    /\ dispute[d].open
    /\ pc' = [pc EXCEPT ![p] = "resolveWrite"]
    /\ req' = [req EXCEPT ![p] = [NoReq EXCEPT !.kind = "resolve", !.row = d,
                                               !.flag = refund]]
    /\ UNCHANGED <<task, escrow, lock, lost, verdict, latest, dispute, paid, late>>

(* Variant of ResolveWrite that closes the task of a split like a refund.   *)
ResolveWriteSplitCloses(p) ==
    /\ pc[p] = "resolveWrite"
    /\ dispute' = [dispute EXCEPT ![req[p].row].open = FALSE]
    /\ task' = [task EXCEPT !.status = "refunded"]
    /\ IF req[p].flag THEN Goto(p, "claim") ELSE Return(p)
    /\ UNCHANGED <<escrow, lock, lost, verdict, latest, paid, late>>

(* A refund closes the task before the funds move (trigger); a split leaves *)
(* task and funds as they are.                                              *)
ResolveWrite(p) ==
    /\ pc[p] = "resolveWrite"
    /\ dispute' = [dispute EXCEPT ![req[p].row].open = FALSE]
    /\ IF req[p].flag
       THEN task' = [task EXCEPT !.status = "refunded"] /\ Goto(p, "claim")
       ELSE UNCHANGED task /\ Return(p)
    /\ UNCHANGED <<escrow, lock, lost, verdict, latest, paid, late>>

-----------------------------------------------------------------------------
(* Cancellation                                                             *)

Cancel(p) ==
    /\ task.status \in {"published", "accepted", "expired"}
    /\ Begin(p, "cancel", NoWorker, FALSE, "cancelCheck")

(* Variant of CancelCheck that cancels without a refund.                    *)
CancelWithoutRefund(p) ==
    /\ pc[p] = "cancelCheck"
    /\ IF escrow.status = "released" THEN Return(p) ELSE Goto(p, "recheck")
    /\ UNCHANGED <<task, escrow, lock, lost, verdict, latest, dispute, paid, late>>

(* Only a released escrow refuses the cancellation; only a deposited one is *)
(* refunded first.                                                          *)
CancelCheck(p) ==
    /\ pc[p] = "cancelCheck"
    /\ \/ escrow.status = "released" /\ Return(p)
       \/ escrow.status = "deposited" /\ Goto(p, "claim")
       \/ escrow.status \notin {"released", "deposited"} /\ Goto(p, "recheck")
    /\ UNCHANGED <<task, escrow, lock, lost, verdict, latest, dispute, paid, late>>

(* db.cancel_task reads the task again and cancels fewer statuses.          *)
Recheck(p) ==
    /\ pc[p] = "recheck"
    /\ IF task.status \in {"published", "accepted"} THEN Goto(p, "cancelWrite")
                                                    ELSE Return(p)
    /\ UNCHANGED <<task, escrow, lock, lost, verdict, latest, dispute, paid, late>>

CancelWrite(p) ==
    /\ pc[p] = "cancelWrite"
    /\ task' = [task EXCEPT !.status = "cancelled"]
    /\ Return(p)
    /\ UNCHANGED <<escrow, lock, lost, verdict, latest, dispute, paid, late>>

-----------------------------------------------------------------------------
(* The expiration job                                                       *)

PassDeadline ==
    /\ ~late
    /\ late' = TRUE
    /\ UNCHANGED <<task, escrow, lock, lost, verdict, latest, dispute, paid, pc, req>>

Overdue(p) ==
    /\ pc[p] = "idle"
    /\ late
    /\ task.status \in OpenStatuses
    /\ pc' = [pc EXCEPT ![p] = IF task.status = "submitted" THEN "deadline"
                                                            ELSE "expire"]
    /\ req' = [req EXCEPT ![p].kind = "expire"]
    /\ UNCHANGED <<task, escrow, lock, lost, verdict, latest, dispute, paid, late>>

(* Variant of Deadline that keeps for a retry what can never be paid.       *)
DeadlineKeepsRetrying(p) ==
    /\ pc[p] = "deadline"
    /\ \/ /\ latest \in paid
          /\ verdict[latest] = "pending"
          /\ pc' = [pc EXCEPT ![p] = "verdict"]
          /\ req' = [req EXCEPT ![p].worker = latest]
       \/ latest \notin paid /\ Return(p)
    /\ UNCHANGED <<task, escrow, lock, lost, verdict, latest, dispute, paid, late>>

(* A submitted task whose latest submission has been paid is completed; one *)
(* whose verdict is 'accepted' or 'disputed' is left as it is.  In          *)
(* direct_release no other submission can be paid by the job                *)
(* (missing_payment_header).  A look-up that fails, of the submission or of *)
(* its payment, expires the task.                                           *)
Deadline(p) ==
    /\ pc[p] = "deadline"
    /\ \/ /\ latest \in paid
          /\ verdict[latest] = "pending"
          /\ pc' = [pc EXCEPT ![p] = "verdict"]
          /\ req' = [req EXCEPT ![p].worker = latest]
       \/ /\ latest \in paid
          /\ verdict[latest] \in {"accepted", "disputed"}
          /\ Return(p)
       \/ /\ \/ latest \in paid => verdict[latest] \in {"rejected", "more_info"}
             \/ ReadFaults
          /\ Goto(p, "expire")
    /\ UNCHANGED <<task, escrow, lock, lost, verdict, latest, dispute, paid, late>>

Expire(p) ==
    /\ pc[p] = "expire"
    /\ task' = [task EXCEPT !.status = "expired"]
    /\ Goto(p, "claim")
    /\ UNCHANGED <<escrow, lock, lost, verdict, latest, dispute, paid, late>>

-----------------------------------------------------------------------------
(* The process stops, or a call fails whose error ends the request.         *)
Crash(p) ==
    /\ Faults
    /\ pc[p] # "idle"
    /\ Return(p)
    /\ UNCHANGED <<task, escrow, lock, lost, verdict, latest, dispute, paid, late>>

Request(p) ==
    \/ \E w \in Workers :
          \/ \E fresh \in BOOLEAN : Assign(p, w, fresh)
          \/ Submit(p, w)
          \/ Approve(p, w)
          \/ \E major \in BOOLEAN : Reject(p, w, major)
          \/ MoreInfo(p, w)
          \/ Dispute(p, w)
    \/ Cancel(p)
    \/ \E d \in Disputes, refund \in BOOLEAN : Resolve(p, d, refund)

SettleStep(p) ==
    \/ Settle(p) \/ Claim(p) \/ SendOk(p) \/ SendFail(p) \/ Book(p)

Step(p) ==
    \/ AssignCheck(p) \/ Accept(p) \/ RecordLock(p) \/ RecordTx(p) \/ Guard(p)
    \/ SubmitCheck(p) \/ Submission(p) \/ Submitted(p)
    \/ ApproveCheck(p) \/ AcceptWork(p) \/ Complete(p)
    \/ RejectRead(p) \/ RejectWrite(p) \/ Reopen(p)
    \/ InfoWrite(p) \/ Resume(p)
    \/ DisputeCheck(p) \/ DisputeInsert(p) \/ DisputeVerdict(p)
    \/ ResolveWrite(p)
    \/ CancelCheck(p) \/ Recheck(p) \/ CancelWrite(p)
    \/ Deadline(p) \/ Expire(p)
    \/ SettleStep(p)

Next ==
    \/ \E w \in Workers : LockFunds(w)
    \/ \E p \in Handlers : Request(p)
    \/ \E p \in Jobs : Overdue(p)
    \/ \E p \in Procs : Step(p) \/ Crash(p)
    \/ \E w \in Workers, op \in {"release", "refund"} : Mine(w, op)
    \/ Reconcile
    \/ PassDeadline

Spec == Init /\ [][Next]_vars

(* A request that has begun ends, and the expiration loop comes round.      *)
FairSpec ==
    /\ Spec
    /\ \A p \in Procs : WF_vars(Step(p))
    /\ \A p \in Jobs : WF_vars(Overdue(p))

-----------------------------------------------------------------------------
(* The types of the variables.                                              *)
TypeOK ==
    /\ task \in [status : AllStatuses,
                 executor : Workers \cup {NoWorker}, tx : BOOLEAN]
    /\ escrow \in [status : EscrowStatuses, payee : Workers \cup {NoWorker}]
    /\ lock \in [Workers -> {"none", "locked", "released", "refunded"}]
    /\ lost \in [Workers -> SUBSET {"release", "refund"}]
    /\ verdict \in [Workers -> Verdicts]
    /\ latest \in Workers \cup {NoWorker}
    /\ dispute \in [Disputes -> [of : Workers \cup {NoWorker}, open : BOOLEAN]]
    /\ paid \subseteq Workers
    /\ late \in BOOLEAN
    /\ pc \in [Procs -> Steps]
    /\ req \in [Procs -> Reqs]

(* A completed task, an accepted submission and a recorded payment each     *)
(* mean that locked funds have reached a worker: the handlers settle before *)
(* they write, whatever runs in between.                                    *)
AcceptedIsPaid ==
    \/ task.status = "completed"
    \/ paid # {}
    \/ \E w \in Workers : verdict[w] = "accepted"
    => \E w \in Workers : lock[w] = "released"

(* One task pays one worker, even when it was locked for several: the row   *)
(* of the escrow is claimed before the funds of the lock it names move.     *)
(* Only a release whose answer was lost can pay a second one: its claim was *)
(* given back while the transaction was under way.                          *)
SinglePayout ==
    \A v, w \in Workers :
        lock[v] = "released" /\ lock[w] = "released" /\ v # w
            => "release" \in lost[v] \cup lost[w]

(* A closed escrow row leaves nothing locked behind the payment_info it     *)
(* names, whichever answers were lost; without the signing key, as in       *)
(* production, it also tells where the funds went.                          *)
ClosedRowSettled ==
    escrow.status \in {"released", "refunded"} =>
        /\ lock[escrow.payee] # "locked"
        /\ ~ServerSigning => lock[escrow.payee] = escrow.status

(* The assignment of a task passes from one worker to another only by a     *)
(* request that read the task as published before the first was assigned:   *)
(* every step that returns a task to the pool clears its executor, however  *)
(* many requests run.                                                       *)
AssignedOnce ==
    [][{task.executor, task'.executor} \subseteq Workers
         => \/ task'.executor = task.executor
            \/ \E p \in Handlers :
                  pc[p] = "accept" /\ req[p].status # task.status]_vars

(* A rejected submission has not been paid for: only a submission without a *)
(* verdict can be rejected, and an approval that pays writes its verdict.   *)
RejectedUnpaid ==
    \A w \in Workers : verdict[w] = "rejected" => w \notin paid

(* A completed task keeps its status, also when reviews, rejections and     *)
(* requests for more information follow; only a dispute, its resolution and *)
(* an expiration job that listed the task before it was completed can still *)
(* overwrite it.                                                            *)
CompletedStays ==
    [][task.status = "completed" =>
         \/ task'.status = "completed"
         \/ \E p \in Procs : pc[p] \in {"disputeInsert", "resolveWrite"}
         \/ \E j \in Jobs : pc[j] = "expire"]_vars

(* "Cancel a task and handle payment refunds automatically": once every     *)
(* request has ended, no funds are locked behind a cancelled task.          *)
CancelledUnlocked ==
    task.status = "cancelled" /\ (\A p \in Procs : pc[p] = "idle")
        => ~(escrow.status = "deposited" /\ lock[escrow.payee] = "locked")

(* A dispute resolved for the publisher returns the funds: once every       *)
(* request has ended, none are locked behind a refunded task.               *)
RefundedUnlocked ==
    task.status = "refunded" /\ (\A p \in Procs : pc[p] = "idle")
        => ~(escrow.status = "deposited" /\ lock[escrow.payee] = "locked")

(* What a dispute has decided stays decided: no worker is paid from a       *)
(* refunded task, not even when its refund failed and the submission still  *)
(* reads pending because the verdict of the dispute was not written.  The   *)
(* exception is a release sent before, whose answer was lost.               *)
RefundedPaysNobody ==
    [][task.status = "refunded" =>
         \A w \in Workers :
            lock[w] = "locked" /\ lock'[w] = "released"
                => "release" \in lost[w]]_vars

(* An open task past its deadline closes, unless it is disputed: neither the*)
(* job nor a cancellation closes a disputed task.                           *)
OverdueClosed ==
    (task.status \in OpenStatuses /\ late)
        ~> (task.status \in ClosedStatuses \cup {"disputed"})
=============================================================================
