------------------------------ MODULE H2AEscrow ------------------------------
(***************************************************************************)
(* A task of a human publisher in escrow mode, from publication to its end: *)
(* sign-on-assignment.                                                      *)
(*                                                                          *)
(* The task is published with a marker, an escrows row 'pending_assignment' *)
(* and no signature.  At assignment the publisher signs an authorisation    *)
(* for the worker chosen; the server first writes the assignment, then      *)
(* relays the authorisation, then records the lock in the marker - or in a  *)
(* new row, when there is no marker any more - and takes the assignment     *)
(* back if anything of this fails.  A task may so come to have several      *)
(* escrows rows.  Look-ups take any row of the task, the settlement takes   *)
(* the newest, and updates by task id hit all of them.                      *)
(*                                                                          *)
(* Handlers and steps are as in TaskLifecycle: a database call is one step, *)
(* checks are made on what was read, and rows are then written by id.  The  *)
(* settlement is taken from EscrowSettlement at the level of its contract;  *)
(* a call that fails may have reached the facilitator all the same.         *)
(***************************************************************************)
EXTENDS Naturals, Sequences

CONSTANTS
    Workers,    \* executors who have applied
    NoWorker,   \* NULL in a column that refers to an executor
    MaxSigned,  \* authorisations the publisher signs for one worker
    Handlers,   \* requests that may run at the same time
    Jobs,       \* expiration loops
    Requests,   \* the kinds of request that handlers serve
    Faults,     \* processes stop, and calls and settlements fail
    ReadFaults, \* look-ups fail that the code takes for an empty answer
    ServerSigning, \* the server holds a signing key and can ask the chain
    MaxJobRefunds  \* max_retries of the expiration job

AllRequests == {"assign", "submit", "approve", "reject", "revise", "cancel"}

ASSUME H2AConstants ==
    /\ NoWorker \notin Workers
    /\ MaxSigned \in Nat \ {0}
    /\ Handlers \cap Jobs = {}
    /\ Requests \subseteq AllRequests
    /\ Faults \in BOOLEAN
    /\ ReadFaults \in BOOLEAN
    /\ ServerSigning \in BOOLEAN
    /\ MaxJobRefunds \in Nat \ {0}

VARIABLES
    task,     \* tasks: status and executor_id
    rows,     \* escrows rows of the task, oldest first
    chain,    \* what became of the funds of each authorisation
    lost,     \* settlements of each that were sent and not answered
    verdict,  \* submissions.agent_verdict of each worker
    late,     \* the deadline has passed
    pc,       \* the next step of each handler and job
    req       \* their local variables

vars == <<task, rows, chain, lost, verdict, late, pc, req>>
world == <<task, rows, chain, lost, verdict, late>>

-----------------------------------------------------------------------------
Procs == Handlers \cup Jobs

(* A signed authorisation commits to its receiver; the number stands for    *)
(* the salt of its paymentInfo.                                             *)
Auths == Workers \X (1..MaxSigned)
NoAuth == <<NoWorker, 0>>
Receiver(a) == a[1]
Locked(a) == chain[a] = "locked"

OpenStatuses == {"published", "accepted", "in_progress", "submitted"}
ClosedStatuses == {"completed", "cancelled", "expired"}

(* _BLOCKED_CLAIM_STATUSES: these refuse a claim, the marker does not.      *)
Blocked == {"releasing", "refunding", "released", "refunded"}
RowStatuses == {"pending", "cancelled", "deposited"} \cup Blocked

Verdicts == {"none", "pending", "accepted", "rejected", "more_info"}

Steps == {"idle", "marker", "accept", "drain", "relay", "lockRow", "insertRow",
          "lockTx", "takeBack", "submitCheck", "submission", "submitted",
          "findLock", "claim", "send", "book", "complete", "verdict",
          "rejectWrite", "reviseWrite", "resume",
          "cancelMarker", "cancelFree", "closeMarker", "close", "expire"}

(* worker: of the request; auth: of the lock or of the payment_info claimed;*)
(* seen: status of the row before the claim; tries: refunds of the job.     *)
Reqs == [kind : AllRequests \cup {"none", "expire"},
         worker : Workers \cup {NoWorker},
         auth : Auths \cup {NoAuth},
         seen : RowStatuses, tries : 0..MaxJobRefunds]

NoReq == [kind |-> "none", worker |-> NoWorker, auth |-> NoAuth,
          seen |-> "pending", tries |-> 0]

Row(status, auth) == [status |-> status, auth |-> auth, prev |-> status]
Newest == rows[Len(rows)]

(* What a look-up by task id without an order may find.                     *)
Found(status) == \E i \in DOMAIN rows : rows[i].status = status

SetStatus(from, to) ==
    [i \in DOMAIN rows |->
        IF rows[i].status \in from THEN [rows[i] EXCEPT !.status = to]
                                   ELSE rows[i]]

Init ==
    /\ task = [status |-> "published", executor |-> NoWorker]
    /\ rows = <<Row("pending", NoAuth)>>
    /\ chain = [a \in Auths |-> "none"]
    /\ lost = [a \in Auths |-> {}]
    /\ verdict = [w \in Workers |-> "none"]
    /\ late = FALSE
    /\ pc = [p \in Procs |-> "idle"]
    /\ req = [p \in Procs |-> NoReq]

-----------------------------------------------------------------------------
Goto(p, step) ==
    /\ pc' = [pc EXCEPT ![p] = step]
    /\ UNCHANGED req

Return(p) ==
    /\ pc' = [pc EXCEPT ![p] = "idle"]
    /\ req' = [req EXCEPT ![p] = NoReq]

(* A request that passes the checks of its first reads.                     *)
Begin(p, kind, w, a, step) ==
    /\ pc[p] = "idle"
    /\ kind \in Requests
    /\ pc' = [pc EXCEPT ![p] = step]
    /\ req' = [req EXCEPT ![p] = [NoReq EXCEPT !.kind = kind, !.worker = w,
                                               !.auth = a]]
    /\ UNCHANGED world

-----------------------------------------------------------------------------
(* assign_h2a_worker and lock_with_fresh_auth                               *)

Assign(p, w, a) ==
    /\ task.status = "published"
    /\ Begin(p, "assign", w, a, "marker")

(* get_escrow_marker: no marker, or a look-up that fails, means a task of   *)
(* the old kind, assigned without a lock.                                   *)
FindMarker(p) ==
    /\ pc[p] = "marker"
    /\ \/ Found("pending") /\ Goto(p, "accept")
       \/ ~Found("pending") /\ Goto(p, "drain")
       \/ ReadFaults /\ Goto(p, "drain")
    /\ UNCHANGED world

AssignTo(w) == task' = [status |-> "accepted", executor |-> w]

Accept(p) ==
    /\ pc[p] = "accept"
    /\ AssignTo(req[p].worker)
    /\ Goto(p, "relay")
    /\ UNCHANGED <<rows, chain, lost, verdict, late>>

Drain(p) ==
    /\ pc[p] = "drain"
    /\ AssignTo(req[p].worker)
    /\ Return(p)
    /\ UNCHANGED <<rows, chain, lost, verdict, late>>

(* Variant of Relay that does not compare the receiver with the worker.     *)
RelayAnyReceiver(p) ==
    LET a == req[p].auth IN
    /\ pc[p] = "relay"
    /\ \/ /\ chain[a] = "none"
          /\ chain' = [chain EXCEPT ![a] = "locked"]
          /\ Goto(p, "lockRow")
       \/ chain[a] # "none" /\ Goto(p, "takeBack") /\ UNCHANGED chain
    /\ UNCHANGED <<task, rows, lost, verdict, late>>

(* An authorisation is used once.  It must be signed for this worker.  The  *)
(* answer may be lost after the funds are locked: a repeated attempt is then*)
(* refused, and the lock is reported as failed.                             *)
Relay(p) ==
    LET a == req[p].auth IN
    /\ pc[p] = "relay"
    /\ \/ /\ Receiver(a) = req[p].worker
          /\ chain[a] = "none"
          /\ chain' = [chain EXCEPT ![a] = "locked"]
          /\ Goto(p, "lockRow") \/ (Faults /\ Goto(p, "takeBack"))
       \/ /\ Receiver(a) # req[p].worker \/ chain[a] # "none" \/ Faults
          /\ Goto(p, "takeBack")
          /\ UNCHANGED chain
    /\ UNCHANGED <<task, rows, lost, verdict, late>>

(* Variant of LockRow without the insert of a new row.                      *)
LockRowUpdateOnly(p) ==
    /\ pc[p] = "lockRow"
    /\ rows' = [i \in DOMAIN rows |->
                  IF rows[i].status = "pending" THEN Row("deposited", req[p].auth)
                                                ELSE rows[i]]
    /\ Goto(p, "lockTx")
    /\ UNCHANGED <<task, chain, lost, verdict, late>>

(* UPDATE escrows ... WHERE status = 'pending_assignment'                   *)
LockRow(p) ==
    /\ pc[p] = "lockRow"
    /\ \/ /\ Found("pending")
          /\ rows' = [i \in DOMAIN rows |->
                        IF rows[i].status = "pending"
                        THEN Row("deposited", req[p].auth)
                        ELSE rows[i]]
          /\ Goto(p, "lockTx")
       \/ ~Found("pending") /\ Goto(p, "insertRow") /\ UNCHANGED rows
       \/ Faults /\ Goto(p, "takeBack") /\ UNCHANGED rows
    /\ UNCHANGED <<task, chain, lost, verdict, late>>

InsertRow(p) ==
    /\ pc[p] = "insertRow"
    /\ \/ /\ rows' = Append(rows, Row("deposited", req[p].auth))
          /\ Goto(p, "lockTx")
       \/ Faults /\ Goto(p, "takeBack") /\ UNCHANGED rows
    /\ UNCHANGED <<task, chain, lost, verdict, late>>

(* tasks.escrow_tx is the last write of the lock; no step here reads it, but*)
(* its failure is the lock's.                                               *)
LockTx(p) ==
    /\ pc[p] = "lockTx"
    /\ Return(p) \/ (Faults /\ Goto(p, "takeBack"))
    /\ UNCHANGED world

(* The assignment is taken back; an error is logged.                        *)
TakeBack(p) ==
    /\ pc[p] = "takeBack"
    /\ \/ task' = [status |-> "published", executor |-> NoWorker]
       \/ Faults /\ UNCHANGED task
    /\ Return(p)
    /\ UNCHANGED <<rows, chain, lost, verdict, late>>

-----------------------------------------------------------------------------
(* submit_work                                                              *)

Submit(p, w) ==
    /\ task.executor = w
    /\ ~late
    /\ task.status \in {"accepted", "in_progress"}
    /\ Begin(p, "submit", w, NoAuth, "submitCheck")

SubmitCheck(p) ==
    /\ pc[p] = "submitCheck"
    /\ \/ Found("deposited") /\ Goto(p, "submission")
       \/ (\E s \in RowStatuses \ {"deposited"} : Found(s)) /\ Return(p)
    /\ UNCHANGED world

(* A first submission also moves the task (trigger).                        *)
Submission(p) ==
    LET w == req[p].worker IN
    /\ pc[p] = "submission"
    /\ verdict' = [verdict EXCEPT ![w] = "pending"]
    /\ task' = IF /\ verdict[w] = "none"
                  /\ task.status \in {"accepted", "in_progress"}
               THEN [task EXCEPT !.status = "submitted"]
               ELSE task
    /\ Goto(p, "submitted")
    /\ UNCHANGED <<rows, chain, lost, late>>

Submitted(p) ==
    /\ pc[p] = "submitted"
    /\ task' = [task EXCEPT !.status = "submitted"]
    /\ Return(p)
    /\ UNCHANGED <<rows, chain, lost, verdict, late>>

-----------------------------------------------------------------------------
(* The settlement: refund_trustless_escrow and release_direct_to_worker     *)

Operation(p) == IF req[p].kind = "approve" THEN "release" ELSE "refund"
Claimed(op) == IF op = "release" THEN "releasing" ELSE "refunding"
Settled(op) == IF op = "release" THEN "released" ELSE "refunded"

Settling(p) == pc[p] \in {"send", "book"}

(* Where a review or a cancellation goes that does not settle the escrow.   *)
(* An approval then needs signatures of its own, which an escrow-mode       *)
(* publisher does not send.                                                 *)
WithoutEscrow(p) ==
    IF req[p].kind = "approve" THEN Return(p) ELSE Goto(p, "close")

(* Is there an escrow to settle?  A look-up that fails finds none.          *)
FindLock(p) ==
    /\ pc[p] = "findLock"
    /\ \/ Found("deposited") /\ Goto(p, "claim")
       \/ (\E s \in RowStatuses \ {"deposited"} : Found(s)) /\ WithoutEscrow(p)
       \/ ReadFaults /\ WithoutEscrow(p)
    /\ UNCHANGED world

(* A failed settlement ends the request; the job tries again.               *)
Unsettled(p) ==
    \/ /\ req[p].kind = "expire"
       /\ req[p].tries + 1 < MaxJobRefunds
       /\ pc' = [pc EXCEPT ![p] = "claim"]
       /\ req' = [req EXCEPT ![p].tries = @ + 1]
    \/ /\ req[p].kind = "expire" => req[p].tries + 1 >= MaxJobRefunds
       /\ Return(p)

(* The newest row decides; all rows with its status are claimed with it and *)
(* receive its metadata, payment_info included.  A refund that finds the row*)
(* refunded counts as done.                                                 *)
Claim(p) ==
    /\ pc[p] = "claim"
    /\ \/ /\ Newest.status \notin Blocked
          /\ rows' = [i \in DOMAIN rows |->
                        IF rows[i].status = Newest.status
                        THEN [status |-> Claimed(Operation(p)),
                              auth |-> Newest.auth, prev |-> Newest.status]
                        ELSE rows[i]]
          /\ pc' = [pc EXCEPT ![p] = "send"]
          /\ req' = [req EXCEPT ![p].auth = Newest.auth,
                                ![p].seen = Newest.status]
       \/ /\ Newest.status = "refunded" /\ req[p].kind # "approve"
          /\ IF req[p].kind = "expire" THEN Return(p) ELSE Goto(p, "book")
          /\ UNCHANGED rows
       \/ /\ \/ Newest.status \in Blocked \ {"refunded"}
             \/ Newest.status = "refunded" /\ req[p].kind = "approve"
             \/ Faults
          /\ Unsettled(p)
          /\ UNCHANGED rows
    /\ UNCHANGED <<task, chain, lost, verdict, late>>

GiveBack(p) == rows' = SetStatus({Claimed(Operation(p))}, req[p].seen)

(* The facilitator settles the lock that payment_info names and answers;    *)
(* whatever was sent before for the same lock can then only revert.  The job*)
(* leaves the row to the reconciler.                                        *)
SendOk(p) ==
    LET a == req[p].auth IN
    /\ pc[p] = "send"
    /\ a \in Auths
    /\ chain[a] = "locked"
    /\ chain' = [chain EXCEPT ![a] = Settled(Operation(p))]
    /\ lost' = [lost EXCEPT ![a] = {}]
    /\ IF req[p].kind = "expire" THEN Return(p) ELSE Goto(p, "book")
    /\ UNCHANGED <<task, rows, verdict, late>>

(* A marker has no payment_info: the refund reports success.                *)
NothingLocked(p) ==
    /\ pc[p] = "send"
    /\ req[p].auth = NoAuth
    /\ GiveBack(p)
    /\ IF req[p].kind = "expire" THEN Return(p) ELSE Goto(p, "book")
    /\ UNCHANGED <<task, chain, lost, verdict, late>>

(* Variant of SendFail that takes a refusal for a settlement.               *)
SendFailBooked(p) ==
    /\ pc[p] = "send"
    /\ req[p].auth \in Auths
    /\ Faults \/ chain[req[p].auth] # "locked"
    /\ Goto(p, "book")
    /\ UNCHANGED world

(* The settlement is refused, or its answer is lost: then the transaction   *)
(* may be under way.  The claim is given back; an error in that is logged.  *)
SendFail(p) ==
    LET a == req[p].auth IN
    /\ pc[p] = "send"
    /\ a \in Auths
    /\ \/ /\ Faults \/ chain[a] # "locked"
          /\ UNCHANGED lost
       \/ /\ Faults /\ chain[a] = "locked"
          /\ lost' = [lost EXCEPT ![a] = @ \cup {Operation(p)}]
    /\ GiveBack(p) \/ (Faults /\ UNCHANGED rows)
    /\ Unsettled(p)
    /\ UNCHANGED <<task, chain, verdict, late>>

(* Variant of TimedOut that reads a missing capturableAmount as zero.       *)
TimedOutMissingIsZero(p) ==
    /\ pc[p] = "send"
    /\ req[p].auth \in Auths
    /\ Faults /\ ServerSigning /\ req[p].kind = "approve"
    /\ Goto(p, "book")
    /\ UNCHANGED world

(* A release that times out asks the chain: an escrow that something has    *)
(* emptied counts as released, and the stand-in for a transaction hash is   *)
(* as good as one to the approval.                                          *)
TimedOut(p) ==
    LET a == req[p].auth IN
    /\ pc[p] = "send"
    /\ a \in Auths
    /\ Faults /\ ServerSigning /\ req[p].kind = "approve"
    /\ ~Locked(a)
    /\ Goto(p, "book")
    /\ UNCHANGED world

(* What was sent is carried out at any time, once for a lock: a later       *)
(* transaction reverts.                                                     *)
Mine(a, op) ==
    /\ op \in lost[a]
    /\ Locked(a)
    /\ chain' = [chain EXCEPT ![a] = Settled(op)]
    /\ UNCHANGED <<task, rows, lost, verdict, late, pc, req>>

(* The result is written by task id, to every row.                          *)
Book(p) ==
    /\ pc[p] = "book"
    /\ \/ rows' = SetStatus(RowStatuses, Settled(Operation(p)))
       \/ Faults /\ UNCHANGED rows
    /\ Goto(p, IF req[p].kind = "approve" THEN "complete" ELSE "close")
    /\ UNCHANGED <<task, chain, lost, verdict, late>>

(* Variant of Reconcile that closes every claim without asking the chain.   *)
ReconcileCloses ==
    /\ \A p \in Procs : ~Settling(p)
    /\ \E i \in DOMAIN rows :
          /\ rows[i].status \in {"releasing", "refunding"}
          /\ rows' = [rows EXCEPT ![i].status =
                        IF @ = "releasing" THEN "released" ELSE "refunded"]
    /\ UNCHANGED <<task, chain, lost, verdict, late, pc, req>>

(* The reconciler goes row by row.  It does not see where the funds went,   *)
(* and without the key it can resolve only rows that name no lock.          *)
Reconcile ==
    /\ \A p \in Procs : ~Settling(p)
    /\ \E i \in DOMAIN rows :
          /\ rows[i].status \in {"releasing", "refunding"}
          /\ ServerSigning \/ rows[i].auth = NoAuth
          /\ rows' = [rows EXCEPT ![i].status =
                        IF rows[i].auth = NoAuth \/ Locked(rows[i].auth)
                        THEN rows[i].prev
                        ELSE IF @ = "releasing" THEN "released" ELSE "refunded"]
    /\ UNCHANGED <<task, chain, lost, verdict, late, pc, req>>

-----------------------------------------------------------------------------
(* approve_h2a_submission                                                   *)

(* Variant of Reviewable without the check of the verdict.                  *)
ReviewableAnyVerdict(w) ==
    /\ task.status \in {"submitted", "in_progress"}
    /\ verdict[w] # "none"

(* A submission already accepted or rejected is not processed again.        *)
Reviewable(w) ==
    /\ task.status \in {"submitted", "in_progress"}
    /\ verdict[w] \in {"pending", "more_info"}

Approve(p, w) ==
    /\ Reviewable(w)
    /\ Begin(p, "approve", w, NoAuth, "findLock")

Complete(p) ==
    /\ pc[p] = "complete"
    /\ task' = [task EXCEPT !.status = "completed"]
    /\ Goto(p, "verdict")
    /\ UNCHANGED <<rows, chain, lost, verdict, late>>

AcceptWork(p) ==
    /\ pc[p] = "verdict"
    /\ verdict' = [verdict EXCEPT ![req[p].worker] = "accepted"]
    /\ Return(p)
    /\ UNCHANGED <<task, rows, chain, lost, late>>

Reject(p, w) ==
    /\ Reviewable(w)
    /\ Begin(p, "reject", w, NoAuth, "rejectWrite")

(* Variant of RejectWrite that closes the task without the refund.          *)
RejectWithoutRefund(p) ==
    /\ pc[p] = "rejectWrite"
    /\ verdict' = [verdict EXCEPT ![req[p].worker] = "rejected"]
    /\ Goto(p, "close")
    /\ UNCHANGED <<task, rows, chain, lost, late>>

RejectWrite(p) ==
    /\ pc[p] = "rejectWrite"
    /\ verdict' = [verdict EXCEPT ![req[p].worker] = "rejected"]
    /\ Goto(p, "findLock")
    /\ UNCHANGED <<task, rows, chain, lost, late>>

Revise(p, w) ==
    /\ Reviewable(w)
    /\ Begin(p, "revise", w, NoAuth, "reviseWrite")

ReviseWrite(p) ==
    /\ pc[p] = "reviseWrite"
    /\ verdict' = [verdict EXCEPT ![req[p].worker] = "more_info"]
    /\ Goto(p, "resume")
    /\ UNCHANGED <<task, rows, chain, lost, late>>

(* Variant of Resume that writes the verdict into the task.                 *)
ResumeWithVerdict(p) ==
    /\ pc[p] = "resume"
    /\ task' = [task EXCEPT !.status = "more_info"]
    /\ Return(p)
    /\ UNCHANGED <<rows, chain, lost, verdict, late>>

Resume(p) ==
    /\ pc[p] = "resume"
    /\ task' = [task EXCEPT !.status = "in_progress"]
    /\ Return(p)
    /\ UNCHANGED <<rows, chain, lost, verdict, late>>

-----------------------------------------------------------------------------
(* cancel_h2a_task; a rejection ends like a cancellation                    *)

Cancel(p) ==
    /\ task.status \in OpenStatuses
    /\ Begin(p, "cancel", NoWorker, NoAuth, "cancelMarker")

(* Variant of CancelMarker that takes any escrows row for the marker.       *)
CancelMarkerAnyRow(p) ==
    /\ pc[p] = "cancelMarker"
    /\ Goto(p, "cancelFree")
    /\ UNCHANGED world

CancelMarker(p) ==
    /\ pc[p] = "cancelMarker"
    /\ \/ Found("pending") /\ Goto(p, "cancelFree")
       \/ ~Found("pending") /\ Goto(p, "findLock")
       \/ ReadFaults /\ Goto(p, "findLock")
    /\ UNCHANGED world

CancelTask == task' = [task EXCEPT !.status = "cancelled"]

CancelFree(p) ==
    /\ pc[p] = "cancelFree"
    /\ CancelTask
    /\ Goto(p, "closeMarker")
    /\ UNCHANGED <<rows, chain, lost, verdict, late>>

CloseMarker(p) ==
    /\ pc[p] = "closeMarker"
    /\ \/ rows' = SetStatus({"pending"}, "cancelled")
       \/ Faults /\ UNCHANGED rows
    /\ Return(p)
    /\ UNCHANGED <<task, chain, lost, verdict, late>>

Close(p) ==
    /\ pc[p] = "close"
    /\ CancelTask
    /\ Return(p)
    /\ UNCHANGED <<rows, chain, lost, verdict, late>>

-----------------------------------------------------------------------------
(* The expiration job.  A submission here has no payment header, so that a  *)
(* submitted task expires like the others.                                  *)

PassDeadline ==
    /\ ~late
    /\ late' = TRUE
    /\ UNCHANGED <<task, rows, chain, lost, verdict, pc, req>>

Overdue(p) ==
    /\ pc[p] = "idle"
    /\ late
    /\ task.status \in OpenStatuses
    /\ pc' = [pc EXCEPT ![p] = "expire"]
    /\ req' = [req EXCEPT ![p].kind = "expire"]
    /\ UNCHANGED world

Expire(p) ==
    /\ pc[p] = "expire"
    /\ task' = [task EXCEPT !.status = "expired"]
    /\ Goto(p, "claim")
    /\ UNCHANGED <<rows, chain, lost, verdict, late>>

-----------------------------------------------------------------------------
(* The process stops, or a call fails whose error ends the request.         *)
Crash(p) ==
    /\ Faults
    /\ pc[p] # "idle"
    /\ Return(p)
    /\ UNCHANGED world

Request(p) ==
    \/ Cancel(p)
    \/ \E w \in Workers :
          \/ \E a \in Auths : Assign(p, w, a)
          \/ Submit(p, w)
          \/ Approve(p, w) \/ Reject(p, w) \/ Revise(p, w)

Step(p) ==
    \/ FindMarker(p) \/ Accept(p) \/ Drain(p) \/ Relay(p)
    \/ LockRow(p) \/ InsertRow(p) \/ LockTx(p) \/ TakeBack(p)
    \/ SubmitCheck(p) \/ Submission(p) \/ Submitted(p)
    \/ FindLock(p) \/ Claim(p)
    \/ SendOk(p) \/ NothingLocked(p) \/ SendFail(p) \/ TimedOut(p)
    \/ Book(p)
    \/ Complete(p) \/ AcceptWork(p)
    \/ RejectWrite(p) \/ ReviseWrite(p) \/ Resume(p)
    \/ CancelMarker(p) \/ CancelFree(p) \/ CloseMarker(p) \/ Close(p)
    \/ Expire(p)

Next ==
    \/ \E p \in Handlers : Request(p)
    \/ \E p \in Jobs : Overdue(p)
    \/ \E p \in Procs : Step(p) \/ Crash(p)
    \/ \E a \in Auths, op \in {"release", "refund"} : Mine(a, op)
    \/ Reconcile
    \/ PassDeadline

Spec == Init /\ [][Next]_vars

(* A request that has begun ends, deadlines pass, and the expiration loop   *)
(* comes round.                                                             *)
FairSpec ==
    /\ Spec
    /\ \A p \in Procs : WF_vars(Step(p))
    /\ \A p \in Jobs : WF_vars(Overdue(p))
    /\ WF_vars(PassDeadline)

-----------------------------------------------------------------------------
TypeOK ==
    /\ task \in [status : OpenStatuses \cup ClosedStatuses,
                 executor : Workers \cup {NoWorker}]
    /\ rows \in Seq([status : RowStatuses, auth : Auths \cup {NoAuth},
                     prev : RowStatuses])
    /\ chain \in [Auths -> {"none", "locked", "released", "refunded"}]
    /\ lost \in [Auths -> SUBSET {"release", "refund"}]
    /\ verdict \in [Workers -> Verdicts]
    /\ late \in BOOLEAN
    /\ pc \in [Procs -> Steps]
    /\ req \in [Procs -> Reqs]

Idle == \A p \in Procs : pc[p] = "idle"
PaidTo(w) == \E a \in Auths : Receiver(a) = w /\ chain[a] = "released"

(* A completed task and accepted work mean that locked funds have reached a *)
(* worker: the escrow is released before the task or the verdict is written.*)
(* With the signing key a release is also inferred from an empty escrow;    *)
(* then a refund may have emptied it.                                       *)
AcceptedIsPaid ==
    (task.status = "completed" \/ \E w \in Workers : verdict[w] = "accepted")
        => \/ \E w \in Workers : PaidTo(w)
           \/ ServerSigning /\ \E a \in Auths : chain[a] = "refunded"

(* A closed row leaves nothing locked behind the payment_info it names, as  *)
(* long as the task has one row, whichever answers were lost; without the   *)
(* signing key, as in production, it also tells where the funds went.       *)
ClosedRowTrue ==
    /\ Len(rows) = 1
    /\ rows[1].auth \in Auths
    /\ rows[1].status \in {"released", "refunded"}
    => /\ chain[rows[1].auth] \in {"released", "refunded"}
       /\ ~ServerSigning => chain[rows[1].auth] = rows[1].status

(* "the funds must NOT reach them": a worker who was rejected is not paid   *)
(* afterwards, whether the refund succeeded, failed or stopped half-way,    *)
(* unless by a release that was sent before and whose answer was lost.      *)
RejectedNeverPaid ==
    [][\A w \in Workers :
          verdict[w] = "rejected" =>
              (PaidTo(w)' =>
                  \/ PaidTo(w)
                  \/ \E a \in Auths : Receiver(a) = w /\ "release" \in lost[a])]_vars

(* The worker whose work is accepted is the one who is paid.                *)
AcceptedWorkerPaid ==
    \A w \in Workers : verdict[w] = "accepted" => PaidTo(w)

(* Between requests every locked authorisation is named by a row that can   *)
(* still be settled, also when the expiration job had the marker claimed    *)
(* while the lock was made.                                                 *)
LockKnown ==
    Idle => \A a \in Auths : Locked(a) =>
                \E i \in DOMAIN rows :
                    rows[i].status = "deposited" /\ rows[i].auth = a

(* A completed or cancelled task leaves nothing in escrow, as long as its   *)
(* lock was recorded in the marker.                                         *)
ClosedEmpty ==
    Idle /\ Len(rows) = 1 /\ task.status \in {"completed", "cancelled"}
        => \A a \in Auths : ~Locked(a)

(* Funds locked for an open task and recorded in its marker leave the       *)
(* escrow, whatever reviews, cancellations and deadlines follow.            *)
FundsLeave ==
    \A a \in Auths :
        (/\ Idle
         /\ task.status \in OpenStatuses
         /\ Len(rows) = 1
         /\ rows[1].status = "deposited"
         /\ rows[1].auth = a)
            ~> ~Locked(a)
=============================================================================
