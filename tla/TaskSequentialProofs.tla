------------------------ MODULE TaskSequentialProofs ------------------------
(***************************************************************************)
(* TaskLifecycle when one handler serves the task: its requests come one    *)
(* after the other, while any number of expiration jobs and the reconciler  *)
(* run beside them.  Where a step leads, who is assigned, who is paid and   *)
(* which verdicts follow.  TaskEscrowProofs completes the invariants.       *)
(***************************************************************************)
EXTENDS TaskLifecycleProofs

-----------------------------------------------------------------------------
(* Where a step takes a process                                             *)

(* What p leaves alone.                                                     *)
Others(p) == \A q \in Procs \ {p} : pc'[q] = pc[q] /\ req'[q] = req[q]

Ends(p) == pc'[p] = "idle" /\ req'[p] = NoReq

(* The process goes on with the same request.                               *)
Goes(p, from, to) == pc[p] = from /\ pc'[p] = to /\ req'[p] = req[p]

(* The parts of a request that do not change while it is served.            *)
SameRequest(p) ==
    /\ req'[p].kind = req[p].kind
    /\ req'[p].flag = req[p].flag

AssignSteps(p) ==
    \/ AssignCheck(p) \/ Accept(p) \/ RecordLock(p) \/ RecordTx(p) \/ Guard(p)
    \/ SubmitCheck(p) \/ Submission(p) \/ Submitted(p)
ReviewSteps(p) ==
    \/ ApproveCheck(p) \/ AcceptWork(p) \/ Complete(p)
    \/ RejectRead(p) \/ RejectWrite(p) \/ Reopen(p) \/ InfoWrite(p) \/ Resume(p)
    \/ DisputeCheck(p) \/ DisputeInsert(p) \/ DisputeVerdict(p) \/ ResolveWrite(p)
CloseSteps(p) ==
    \/ CancelCheck(p) \/ Recheck(p) \/ CancelWrite(p)
    \/ Deadline(p) \/ Expire(p) \/ Crash(p)
Steps1(p) == AssignSteps(p) \/ ReviewSteps(p) \/ CloseSteps(p) \/ SettleStep(p)

LEMMA StepGroups ==
    ASSUME NEW p, Step(p) \/ Crash(p)
    PROVE  Steps1(p)
BY DEF Step, Steps1, AssignSteps, ReviewSteps, CloseSteps

LEMMA GotoEffect ==
    ASSUME ControlType, NEW p \in Procs, NEW s, Goto(p, s)
    PROVE  Others(p) /\ pc'[p] = s /\ req'[p] = req[p]
BY DEF ControlType, Goto, Others

LEMMA ReturnEffect ==
    ASSUME ControlType, NEW p \in Procs, Return(p)
    PROVE  Others(p) /\ Ends(p)
BY DEF ControlType, Return, Others, Ends

LEMMA AssignMoves ==
    ASSUME ControlType, NEW p \in Procs, AssignSteps(p)
    PROVE  /\ Others(p)
           /\ \/ Ends(p)
              \/ /\ Goes(p, "assignCheck", "accept")
                 /\ escrow.status \in {"pending", "deposited"} \/ ReadFaults
              \/ /\ pc[p] = "accept" /\ pc'[p] \in {"recordLock", "guard"}
                 /\ pc'[p] = "recordLock" => req[p].flag
                 /\ SameRequest(p) /\ req'[p].worker = req[p].worker
              \/ Goes(p, "recordLock", "recordTx") \/ Goes(p, "recordLock", "guard")
              \/ Goes(p, "recordTx", "guard")
              \/ Goes(p, "submitCheck", "submission") /\ escrow.status = "deposited"
              \/ Goes(p, "submission", "submitted")
<1>1. ASSUME NEW s, Goto(p, s)
      PROVE  Others(p) /\ Goes(p, pc[p], s)
  BY <1>1, GotoEffect DEF Goes
<1>2. ASSUME Return(p)
      PROVE  Others(p) /\ Ends(p)
  BY <1>2, ReturnEffect
<1>3. CASE AssignCheck(p)
  BY <1>1, <1>2, <1>3 DEF AssignCheck
<1>4. CASE Accept(p)
  <2>1. /\ pc[p] = "accept" /\ Others(p)
        /\ pc'[p] = IF req[p].flag THEN "recordLock" ELSE "guard"
        /\ req'[p] = [req[p] EXCEPT !.tx = task.tx]
    BY <1>4 DEF Accept, ControlType, Others
  <2>2. SameRequest(p) /\ req'[p].worker = req[p].worker
    BY <2>1 DEF SameRequest, ControlType, Reqs
  <2>3. QED BY <2>1, <2>2
<1>5. CASE RecordLock(p) \/ RecordTx(p) \/ Guard(p)
  BY <1>1, <1>2, <1>5 DEF RecordLock, RecordTx, Guard
<1>6. CASE SubmitCheck(p) \/ Submission(p) \/ Submitted(p)
  BY <1>1, <1>2, <1>6 DEF SubmitCheck, Submission, Submitted
<1>7. QED BY <1>3, <1>4, <1>5, <1>6 DEF AssignSteps

LEMMA ReviewMoves ==
    ASSUME ControlType, NEW p \in Procs, ReviewSteps(p)
    PROVE  /\ Others(p)
           /\ \/ Ends(p)
              \/ Goes(p, "approveCheck", "settle") /\ escrow.status = "deposited"
              \/ Goes(p, "verdict", "complete")
              \/ /\ pc[p] = "rejectRead" /\ pc'[p] = "rejectWrite"
                 /\ SameRequest(p) /\ req'[p].worker = req[p].worker
              \/ Goes(p, "rejectWrite", "reopen")
              \/ Goes(p, "infoWrite", "resume")
              \/ Goes(p, "disputeCheck", "disputeInsert")
              \/ Goes(p, "disputeInsert", "disputeVerdict")
              \/ Goes(p, "resolveWrite", "claim")
<1>1. ASSUME NEW s, Goto(p, s)
      PROVE  Others(p) /\ Goes(p, pc[p], s)
  BY <1>1, GotoEffect DEF Goes
<1>2. ASSUME Return(p)
      PROVE  Others(p) /\ Ends(p)
  BY <1>2, ReturnEffect
<1>3. CASE ApproveCheck(p) \/ AcceptWork(p) \/ Complete(p)
  BY <1>1, <1>2, <1>3 DEF ApproveCheck, AcceptWork, Complete
<1>4. CASE RejectRead(p)
  <2>1. /\ pc[p] = "rejectRead" /\ Others(p) /\ pc'[p] = "rejectWrite"
        /\ req'[p] = [req[p] EXCEPT !.status = task.status]
    BY <1>4 DEF RejectRead, ControlType, Others
  <2>2. SameRequest(p) /\ req'[p].worker = req[p].worker
    BY <2>1 DEF SameRequest, ControlType, Reqs
  <2>3. QED BY <2>1, <2>2
<1>5. CASE RejectWrite(p) \/ Reopen(p) \/ InfoWrite(p) \/ Resume(p)
  BY <1>1, <1>2, <1>5 DEF RejectWrite, Reopen, InfoWrite, Resume
<1>6. CASE DisputeCheck(p) \/ DisputeInsert(p) \/ DisputeVerdict(p) \/ ResolveWrite(p)
  BY <1>1, <1>2, <1>6 DEF DisputeCheck, DisputeInsert, DisputeVerdict, ResolveWrite
<1>7. QED BY <1>3, <1>4, <1>5, <1>6 DEF ReviewSteps

LEMMA CloseMoves ==
    ASSUME ControlType, NEW p \in Procs, CloseSteps(p)
    PROVE  /\ Others(p)
           /\ \/ Ends(p)
              \/ Goes(p, "cancelCheck", "claim") \/ Goes(p, "cancelCheck", "recheck")
              \/ Goes(p, "recheck", "cancelWrite")
              \/ /\ pc[p] = "deadline" /\ pc'[p] = "verdict" /\ SameRequest(p)
                 /\ req'[p].worker = latest
                 /\ latest \in paid /\ verdict[latest] = "pending"
              \/ Goes(p, "deadline", "expire")
              \/ Goes(p, "expire", "claim")
<1>1. ASSUME NEW s, Goto(p, s)
      PROVE  Others(p) /\ Goes(p, pc[p], s)
  BY <1>1, GotoEffect DEF Goes
<1>2. ASSUME Return(p)
      PROVE  Others(p) /\ Ends(p)
  BY <1>2, ReturnEffect
<1>3. CASE CancelCheck(p) \/ Recheck(p) \/ CancelWrite(p) \/ Expire(p) \/ Crash(p)
  BY <1>1, <1>2, <1>3 DEF CancelCheck, Recheck, CancelWrite, Expire, Crash
<1>4. CASE Deadline(p)
  <2>1. CASE /\ latest \in paid /\ verdict[latest] = "pending"
             /\ pc' = [pc EXCEPT ![p] = "verdict"]
             /\ req' = [req EXCEPT ![p].worker = latest]
    <3>1. /\ pc[p] = "deadline" /\ pc'[p] = "verdict" /\ Others(p)
          /\ req'[p] = [req[p] EXCEPT !.worker = latest]
      BY <1>4, <2>1 DEF Deadline, ControlType, Others
    <3>2. SameRequest(p) /\ req'[p].worker = latest
      BY <3>1 DEF SameRequest, ControlType, Reqs
    <3>3. QED BY <2>1, <3>1, <3>2
  <2>2. QED BY <1>1, <1>2, <1>4, <2>1 DEF Deadline
<1>5. QED BY <1>3, <1>4 DEF CloseSteps

LEMMA SettleMoves ==
    ASSUME ControlType, NEW p \in Procs, SettleStep(p)
    PROVE  /\ Others(p)
           /\ \/ Ends(p)
              \/ /\ Goes(p, "settle", "claim")
                 /\ req[p].worker \notin paid \/ ReadFaults
              \/ /\ Goes(p, "settle", "verdict")
                 /\ req[p].worker \in paid /\ ~req[p].flag
              \/ /\ pc[p] = "claim" /\ pc'[p] = "send" /\ SameRequest(p)
                 /\ req'[p].worker = req[p].worker
                 /\ req'[p].payee = escrow.payee /\ escrow.status = "deposited"
                 /\ escrow' = [escrow EXCEPT !.status = Claimed(Operation(p))]
              \/ /\ Goes(p, "claim", "recheck") \/ Goes(p, "send", "recheck")
                 /\ req[p].kind = "cancel"
              \/ /\ pc[p] \in {"claim", "send"} /\ pc'[p] = "claim"
                 /\ SameRequest(p) /\ req'[p].worker = req[p].worker
                 /\ req[p].kind = "expire"
              \/ /\ Goes(p, "send", "book") /\ SendOk(p)
                 /\ req[p].kind \notin {"expire", "resolve"}
              \/ Goes(p, "book", "recheck")
              \/ /\ Goes(p, "book", "verdict")
                 /\ req[p].kind = "approve" /\ ~req[p].flag
<1>1. ASSUME NEW s, Goto(p, s)
      PROVE  Others(p) /\ Goes(p, pc[p], s)
  BY <1>1, GotoEffect DEF Goes
<1>2. ASSUME Return(p)
      PROVE  Others(p) /\ Ends(p)
  BY <1>2, ReturnEffect
<1>3. CASE Settle(p) \/ Book(p) \/ SendOk(p)
  BY <1>1, <1>2, <1>3 DEF Settle, Book, SendOk
<1>4. ASSUME req[p].kind = "expire", pc' = [pc EXCEPT ![p] = "claim"],
             req' = [req EXCEPT ![p].tries = @ + 1]
      PROVE  /\ Others(p) /\ pc'[p] = "claim"
             /\ SameRequest(p) /\ req'[p].worker = req[p].worker
  <2>1. /\ pc'[p] = "claim" /\ Others(p)
        /\ req'[p] = [req[p] EXCEPT !.tries = @ + 1]
    BY <1>4 DEF ControlType, Others
  <2>2. SameRequest(p) /\ req'[p].worker = req[p].worker
    BY <2>1 DEF SameRequest, ControlType, Reqs
  <2>3. QED BY <2>1, <2>2
<1>5. CASE SendFail(p)
  BY <1>1, <1>2, <1>5, <1>4 DEF SendFail, Unsettled
<1>6. CASE Claim(p)
  <2>1. CASE /\ escrow.status = "deposited"
             /\ escrow' = [escrow EXCEPT !.status = Claimed(Operation(p))]
             /\ pc' = [pc EXCEPT ![p] = "send"]
             /\ req' = [req EXCEPT ![p].payee = escrow.payee]
    <3>1. /\ pc[p] = "claim" /\ pc'[p] = "send" /\ Others(p)
          /\ req'[p] = [req[p] EXCEPT !.payee = escrow.payee]
      BY <1>6, <2>1 DEF Claim, ControlType, Others
    <3>2. /\ SameRequest(p) /\ req'[p].worker = req[p].worker
          /\ req'[p].payee = escrow.payee
      BY <3>1 DEF SameRequest, ControlType, Reqs
    <3>3. QED BY <2>1, <3>1, <3>2
  <2>2. CASE Unsettled(p)
    BY <1>1, <1>2, <1>6, <1>4, <2>2 DEF Claim, Unsettled
  <2>3. CASE Return(p)
    BY <1>2, <2>3
  <2>4. QED BY <1>6, <2>1, <2>2, <2>3 DEF Claim
<1>7. QED BY <1>3, <1>5, <1>6 DEF SettleStep

LEMMA Effects ==
    ASSUME ControlType, NEW p \in Procs, Steps1(p)
    PROVE  Others(p)
BY AssignMoves, ReviewMoves, CloseMoves, SettleMoves DEF Steps1

-----------------------------------------------------------------------------
(* What a step writes                                                       *)

LEMMA TaskMoves ==
    ASSUME WorldType, NEW p \in Procs, Steps1(p)
    PROVE  \/ UNCHANGED task
           \/ /\ pc[p] = "accept" /\ task'.status = "accepted"
              /\ task'.executor = req[p].worker
           \/ /\ pc[p] = "guard" \/ (pc[p] = "reopen" /\ req[p].flag)
              /\ task'.status = "published" /\ task'.executor = NoWorker
           \/ /\ task'.executor = task.executor
              /\ \/ pc[p] = "recordTx" /\ task'.status = task.status
                 \/ pc[p] \in {"submission", "submitted"} /\ task'.status = "submitted"
                 \/ pc[p] = "complete" /\ task'.status = "completed"
                 \/ pc[p] \in {"reopen", "resume"} /\ task'.status = "in_progress"
                 \/ pc[p] = "disputeInsert" /\ task'.status = "disputed"
                 \/ pc[p] = "resolveWrite" /\ task'.status = "refunded"
                 \/ pc[p] = "cancelWrite" /\ task'.status = "cancelled"
                 \/ pc[p] = "expire" /\ task'.status = "expired"
<1>0. task \in [status : AllStatuses, executor : Workers \cup {NoWorker}, tx : BOOLEAN]
  BY DEF WorldType
<1>1. CASE Accept(p) \/ RecordTx(p) \/ Guard(p)
  BY <1>0, <1>1 DEF Accept, RecordTx, Guard
<1>2. CASE Submission(p) \/ Submitted(p) \/ Complete(p) \/ Reopen(p) \/ Resume(p)
  BY <1>0, <1>2 DEF Submission, Submitted, Complete, Reopen, Resume
<1>3. CASE DisputeInsert(p) \/ ResolveWrite(p) \/ CancelWrite(p) \/ Expire(p)
  BY <1>0, <1>3 DEF DisputeInsert, ResolveWrite, CancelWrite, Expire
<1>4. CASE UNCHANGED task
  BY <1>4
<1>5. QED
  BY <1>1, <1>2, <1>3, <1>4
     DEF Steps1, AssignSteps, ReviewSteps, CloseSteps, SettleStep, AssignCheck,
         RecordLock, SubmitCheck, ApproveCheck, AcceptWork, RejectRead,
         RejectWrite, InfoWrite, DisputeCheck, DisputeVerdict, CancelCheck,
         Recheck, Deadline, Crash, Settle, Claim, SendOk, SendFail, Book

LEMMA EscrowMoves ==
    ASSUME WorldType, NEW p \in Procs, Steps1(p)
    PROVE  \/ UNCHANGED escrow
           \/ /\ pc[p] = "recordLock"
              /\ escrow' = [status |-> "deposited", payee |-> req[p].worker]
           \/ /\ escrow'.payee = escrow.payee
              /\ \/ /\ pc[p] = "claim" /\ escrow.status = "deposited"
                    /\ escrow'.status = Claimed(Operation(p))
                 \/ /\ SendFail(p) /\ escrow.status = Claimed(Operation(p))
                    /\ escrow'.status = "deposited"
                 \/ Book(p) /\ escrow'.status = Settled(Operation(p))
<1>0. escrow \in [status : EscrowStatuses, payee : Workers \cup {NoWorker}]
  BY DEF WorldType
<1>1. CASE RecordLock(p)
  BY <1>1 DEF RecordLock
<1>2. CASE Claim(p) \/ SendFail(p) \/ Book(p)
  BY <1>0, <1>2 DEF Claim, SendFail, Book
<1>3. CASE UNCHANGED escrow
  BY <1>3
<1>4. QED
  BY <1>1, <1>2, <1>3
     DEF Steps1, AssignSteps, ReviewSteps, CloseSteps, SettleStep, AssignCheck,
         Accept, RecordTx, Guard, SubmitCheck, Submission, Submitted,
         ApproveCheck, AcceptWork, Complete, RejectRead, RejectWrite, Reopen,
         InfoWrite, Resume, DisputeCheck, DisputeInsert, DisputeVerdict,
         ResolveWrite, CancelCheck, Recheck, CancelWrite, Deadline, Expire,
         Crash, Settle, SendOk

LEMMA LockMoves ==
    ASSUME NEW p \in Procs, Steps1(p)
    PROVE  UNCHANGED lock \/ SendOk(p)
BY DEF Steps1, AssignSteps, ReviewSteps, CloseSteps, SettleStep, AssignCheck,
       Accept, RecordLock, RecordTx, Guard, SubmitCheck, Submission, Submitted,
       ApproveCheck, AcceptWork, Complete, RejectRead, RejectWrite, Reopen,
       InfoWrite, Resume, DisputeCheck, DisputeInsert, DisputeVerdict,
       ResolveWrite, CancelCheck, Recheck, CancelWrite, Deadline, Expire,
       Crash, Settle, Claim, SendFail, Book

LEMMA VerdictMoves ==
    ASSUME WorldType, NEW p \in Procs, Steps1(p)
    PROVE  \/ UNCHANGED verdict
           \/ /\ \A w \in Workers \ {req[p].worker} : verdict'[w] = verdict[w]
              /\ \A w \in Workers : w = req[p].worker =>
                    \/ pc[p] = "submission" /\ verdict'[w] = "pending"
                    \/ pc[p] = "verdict" /\ verdict'[w] = "accepted"
                    \/ pc[p] = "rejectWrite" /\ verdict'[w] = "rejected"
                    \/ pc[p] = "infoWrite" /\ verdict'[w] = "more_info"
                    \/ pc[p] = "disputeVerdict" /\ verdict'[w] = "disputed"
<1>0. verdict \in [Workers -> Verdicts]
  BY DEF WorldType
<1>1. CASE \/ Submission(p) \/ AcceptWork(p) \/ RejectWrite(p) \/ InfoWrite(p)
           \/ DisputeVerdict(p)
  BY <1>0, <1>1
     DEF Submission, AcceptWork, RejectWrite, InfoWrite, DisputeVerdict
<1>2. CASE UNCHANGED verdict
  BY <1>2
<1>3. QED
  BY <1>1, <1>2
     DEF Steps1, AssignSteps, ReviewSteps, CloseSteps, SettleStep, AssignCheck,
         Accept, RecordLock, RecordTx, Guard, SubmitCheck, Submitted,
         ApproveCheck, Complete, RejectRead, Reopen, Resume, DisputeCheck,
         DisputeInsert, ResolveWrite, CancelCheck, Recheck, CancelWrite,
         Deadline, Expire, Crash, Settle, Claim, SendOk, SendFail, Book

LEMMA PaidMoves ==
    ASSUME NEW p \in Procs, Steps1(p)
    PROVE  \/ UNCHANGED paid
           \/ /\ pc[p] = "book" /\ Operation(p) = "release"
              /\ paid' = paid \cup {req[p].worker}
BY DEF Steps1, AssignSteps, ReviewSteps, CloseSteps, SettleStep, AssignCheck,
       Accept, RecordLock, RecordTx, Guard, SubmitCheck, Submission, Submitted,
       ApproveCheck, AcceptWork, Complete, RejectRead, RejectWrite, Reopen,
       InfoWrite, Resume, DisputeCheck, DisputeInsert, DisputeVerdict,
       ResolveWrite, CancelCheck, Recheck, CancelWrite, Deadline, Expire,
       Crash, Settle, Claim, SendOk, SendFail, Book

-----------------------------------------------------------------------------
(* Requests                                                                 *)

LEMMA RequestMoves ==
    ASSUME ControlType, LifecycleConstants, NEW p \in Procs, Request(p)
    PROVE  /\ Others(p) /\ UNCHANGED world /\ pc[p] = "idle"
           /\ \/ \E w \in Workers :
                 /\ req'[p].worker = w
                 /\ \/ /\ pc'[p] = "assignCheck" /\ req'[p].kind = "assign"
                       /\ task.status = "published"
                       /\ req'[p].flag => lock[w] = "locked"
                    \/ /\ pc'[p] = "submitCheck" /\ req'[p].kind = "submit"
                       /\ task.executor = w /\ ~late
                       /\ task.status \in {"accepted", "in_progress"}
                    \/ /\ pc'[p] = "approveCheck" /\ req'[p].kind = "approve"
                       /\ verdict[w] = "pending" /\ task.status \notin ClosedStatuses
                       /\ req'[p].flag = FALSE
                    \/ /\ pc'[p] = "settle" /\ req'[p].kind = "approve"
                       /\ verdict[w] = "accepted" /\ req'[p].flag = TRUE
                    \/ /\ pc'[p] = "rejectRead" /\ req'[p].kind = "reject"
                       /\ verdict[w] = "pending"
                    \/ /\ pc'[p] = "infoWrite" /\ req'[p].kind = "moreInfo"
                       /\ verdict[w] \in {"pending", "more_info"}
                    \/ pc'[p] = "disputeCheck" /\ req'[p].kind = "dispute"
              \/ pc'[p] = "cancelCheck" /\ req'[p].kind = "cancel"
              \/ pc'[p] = "resolveWrite" /\ req'[p].kind = "resolve"
<1>1. ASSUME NEW kind, NEW w, NEW flag \in BOOLEAN, NEW s, Begin(p, kind, w, flag, s)
      PROVE  /\ Others(p) /\ UNCHANGED world /\ pc[p] = "idle" /\ pc'[p] = s
             /\ req'[p].kind = kind /\ req'[p].worker = w /\ req'[p].flag = flag
  <2>1. req'[p] = [NoReq EXCEPT !.kind = kind, !.worker = w, !.flag = flag]
    BY <1>1 DEF Begin, ControlType
  <2>2. req'[p].kind = kind /\ req'[p].worker = w /\ req'[p].flag = flag
    BY <2>1 DEF NoReq
  <2>3. QED BY <1>1, <2>2 DEF Begin, ControlType, Others, world
<1>2. ASSUME NEW w \in Workers, NEW fresh \in BOOLEAN, Assign(p, w, fresh)
      PROVE  /\ Others(p) /\ UNCHANGED world /\ pc[p] = "idle"
             /\ req'[p].worker = w
             /\ pc'[p] = "assignCheck" /\ req'[p].kind = "assign"
             /\ task.status = "published" /\ (req'[p].flag => lock[w] = "locked")
  <2>1. Begin(p, "assign", w, fresh, "assignCheck")
    BY <1>2 DEF Assign
  <2>2. QED BY <1>1, <1>2, <2>1 DEF Assign
<1>3. ASSUME NEW w \in Workers,
             Submit(p, w) \/ Approve(p, w) \/ MoreInfo(p, w) \/ Dispute(p, w)
      PROVE  /\ Others(p) /\ UNCHANGED world /\ pc[p] = "idle"
             /\ req'[p].worker = w
             /\ \/ /\ pc'[p] = "submitCheck" /\ req'[p].kind = "submit"
                   /\ task.executor = w /\ ~late
                   /\ task.status \in {"accepted", "in_progress"}
                \/ /\ pc'[p] = "approveCheck" /\ req'[p].kind = "approve"
                   /\ verdict[w] = "pending" /\ task.status \notin ClosedStatuses
                   /\ req'[p].flag = FALSE
                \/ /\ pc'[p] = "settle" /\ req'[p].kind = "approve"
                   /\ verdict[w] = "accepted" /\ req'[p].flag = TRUE
                \/ /\ pc'[p] = "infoWrite" /\ req'[p].kind = "moreInfo"
                   /\ verdict[w] \in {"pending", "more_info"}
                \/ pc'[p] = "disputeCheck" /\ req'[p].kind = "dispute"
  BY <1>1, <1>3 DEF Submit, Approve, MoreInfo, Dispute
<1>4. ASSUME NEW w \in Workers, NEW major \in BOOLEAN, Reject(p, w, major)
      PROVE  /\ Others(p) /\ UNCHANGED world /\ pc[p] = "idle"
             /\ req'[p].worker = w
             /\ pc'[p] = "rejectRead" /\ req'[p].kind = "reject"
             /\ verdict[w] = "pending"
  BY <1>1, <1>4 DEF Reject
<1>5. CASE Cancel(p)
  BY <1>1, <1>5 DEF Cancel
<1>6. ASSUME NEW d \in Disputes, NEW refund \in BOOLEAN, Resolve(p, d, refund)
      PROVE  /\ Others(p) /\ UNCHANGED world /\ pc[p] = "idle"
             /\ pc'[p] = "resolveWrite" /\ req'[p].kind = "resolve"
  <2>1. req'[p] = [NoReq EXCEPT !.kind = "resolve", !.row = d, !.flag = refund]
    BY <1>6 DEF Resolve, ControlType
  <2>2. QED BY <1>6, <2>1 DEF Resolve, ControlType, Others, world, NoReq
<1>7. QED BY <1>2, <1>3, <1>4, <1>5, <1>6 DEF Request

-----------------------------------------------------------------------------
(* Jobs                                                                     *)

JobSteps == {"idle", "deadline", "expire", "claim", "send", "verdict", "complete"}

(* Jobs only expire the task, or complete one that was paid for.            *)
JobsExpire ==
    \A p \in Jobs :
        pc[p] \in JobSteps /\ (pc[p] # "idle" => req[p].kind = "expire")

LEMMA JobStep ==
    ASSUME ControlType, LifecycleConstants, JobsExpire, NEW p \in Jobs, Steps1(p)
    PROVE  /\ JobsExpire'
           /\ \A q \in Handlers : pc'[q] = pc[q] /\ req'[q] = req[q]
<1>1. /\ p \in Procs /\ pc[p] \in JobSteps
      /\ pc[p] # "idle" => req[p].kind = "expire"
  BY DEF JobsExpire, Procs
<1>2. Others(p)
  BY <1>1, Effects
<1>3. pc'[p] \in JobSteps /\ (pc'[p] # "idle" => req'[p].kind = "expire")
  <2>1. CASE AssignSteps(p)
    BY <1>1, <2>1, AssignMoves DEF JobSteps, Goes, Ends
  <2>2. CASE ReviewSteps(p)
    BY <1>1, <2>2, ReviewMoves DEF JobSteps, Goes, Ends
  <2>3. CASE CloseSteps(p)
    BY <1>1, <2>3, CloseMoves DEF JobSteps, Goes, Ends, SameRequest
  <2>4. CASE SettleStep(p)
    BY <1>1, <2>4, SettleMoves DEF JobSteps, Goes, Ends, SameRequest
  <2>5. QED BY <2>1, <2>2, <2>3, <2>4 DEF Steps1
<1>4. /\ \A q \in Handlers : q \in Procs \ {p}
      /\ \A q \in Jobs : q \in Procs
  BY DEF Procs, LifecycleConstants
<1>5. QED BY <1>2, <1>3, <1>4 DEF Others, JobsExpire

LEMMA HandlerStep ==
    ASSUME LifecycleConstants, JobsExpire, NEW p \in Handlers, Others(p)
    PROVE  JobsExpire'
<1>1. \A q \in Jobs : q \in Procs \ {p}
  BY DEF Procs, LifecycleConstants
<1>2. QED BY <1>1 DEF Others, JobsExpire

LEMMA OverdueMoves ==
    ASSUME ControlType, LifecycleConstants, JobsExpire, NEW p \in Jobs, Overdue(p)
    PROVE  /\ JobsExpire' /\ UNCHANGED world /\ late
           /\ Others(p) /\ pc'[p] \in {"deadline", "expire"}
           /\ \A q \in Handlers : pc'[q] = pc[q] /\ req'[q] = req[q]
<1>1. /\ p \in Procs /\ \A q \in Handlers : q \in Procs \ {p}
      /\ \A q \in Jobs : q \in Procs
  BY DEF Procs, LifecycleConstants
<1>2. /\ Others(p) /\ pc'[p] \in {"deadline", "expire"}
      /\ req'[p] = [req[p] EXCEPT !.kind = "expire"]
  BY <1>1 DEF Overdue, ControlType, Others
<1>3. req'[p].kind = "expire"
  BY <1>1, <1>2 DEF ControlType, Reqs
<1>4. UNCHANGED world /\ late
  BY DEF Overdue, world
<1>5. QED BY <1>1, <1>2, <1>3, <1>4 DEF Others, JobsExpire, JobSteps

(* The steps of nobody in particular.                                       *)
Outside ==
    \/ \E w \in Workers : LockFunds(w)
    \/ \E w \in Workers, op \in {"release", "refund"} : Mine(w, op)
    \/ Reconcile
    \/ PassDeadline

(* Who takes a step.                                                        *)
LEMMA NextCases ==
    ASSUME [Next]_vars
    PROVE  \/ \E p \in Handlers : Request(p)
           \/ \E p \in Handlers : Steps1(p)
           \/ \E p \in Jobs : Steps1(p)
           \/ \E p \in Jobs : Overdue(p)
           \/ Outside \/ UNCHANGED vars
BY StepGroups DEF Next, Procs, Outside

(* The steps of nobody in particular leave the processes alone.             *)
LEMMA OutsideStep ==
    ASSUME Outside \/ UNCHANGED vars
    PROVE  UNCHANGED <<task, verdict, latest, dispute, paid, pc, req>>
BY DEF Outside, LockFunds, Mine, Reconcile, PassDeadline, vars

LEMMA JobsExpireKept ==
    ASSUME IInv, LifecycleConstants, JobsExpire, [Next]_vars
    PROVE  JobsExpire'
<1>1. ControlType
  BY DEF IInv
<1>2. ASSUME NEW p \in Handlers, Request(p) \/ Steps1(p)
      PROVE  JobsExpire'
  BY <1>1, <1>2, RequestMoves, Effects, HandlerStep DEF Procs
<1>3. ASSUME NEW p \in Jobs, Overdue(p) \/ Steps1(p)
      PROVE  JobsExpire'
  BY <1>1, <1>3, OverdueMoves, JobStep
<1>4. CASE UNCHANGED <<pc, req>>
  BY <1>4 DEF JobsExpire
<1>5. QED BY <1>2, <1>3, <1>4, NextCases, OutsideStep

-----------------------------------------------------------------------------
(* How the assignment of a task passes from one worker to another.          *)

(* A published task has no executor.                                        *)
Unassigned == task.status = "published" => task.executor = NoWorker

(* The step gives a task to a worker whose request read it as published,    *)
(* and which somebody has taken since.                                      *)
LateAssignment ==
    \E p \in Handlers : pc[p] = "accept" /\ req[p].status # task.status

LEMMA UnassignedKept ==
    ASSUME IInv, LifecycleConstants, JobsExpire, Unassigned, [Next]_vars
    PROVE  /\ Unassigned'
           /\ {task.executor, task'.executor} \subseteq Workers
                 => task'.executor = task.executor \/ LateAssignment
<1>1. /\ ControlType /\ WorldType /\ ControlInv /\ NoWorker \notin Workers
  BY DEF IInv, LifecycleConstants
<1>2. ASSUME NEW p \in Procs, Steps1(p)
      PROVE  /\ Unassigned'
             /\ {task.executor, task'.executor} \subseteq Workers
                   => task'.executor = task.executor \/ LateAssignment
  <2>1. Unassigned'
    BY <1>1, <1>2, TaskMoves DEF Unassigned
  <2>2. \/ task'.executor \in {NoWorker, task.executor}
        \/ pc[p] = "accept"
    BY <1>1, <1>2, TaskMoves
  <2>3. CASE pc[p] = "accept"
    <3>1. p \in Handlers
      BY <2>3 DEF JobsExpire, JobSteps, Procs
    <3>2. req[p].status = "published"
      BY <1>1, <2>3 DEF ControlInv, Fits
    <3>3. task.status = "published" \/ LateAssignment
      BY <2>3, <3>1, <3>2 DEF LateAssignment
    <3>4. QED BY <1>1, <2>1, <3>3 DEF Unassigned
  <2>4. QED BY <1>1, <2>1, <2>2, <2>3
<1>3. ASSUME NEW p \in Handlers, Request(p)
      PROVE  UNCHANGED task
  BY <1>1, <1>3, RequestMoves DEF Procs, world
<1>4. ASSUME NEW p \in Jobs, Overdue(p)
      PROVE  UNCHANGED task
  BY <1>4 DEF Overdue
<1>5. CASE UNCHANGED task
  BY <1>5 DEF Unassigned
<1>6. QED BY <1>2, <1>3, <1>4, <1>5, NextCases, OutsideStep DEF Procs

LEMMA InitJobs ==
    ASSUME Init
    PROVE  JobsExpire /\ Unassigned
BY DEF Init, JobsExpire, JobSteps, Unassigned, Procs

(* assign_task, however many requests and jobs run and whatever fails: the  *)
(* executor of a task changes only to nobody or from nobody, or by a request*)
(* that read the task as published and was overtaken, because every step    *)
(* that returns a task to the pool clears its executor.                     *)
THEOREM AssignmentIsExclusive == Spec => AssignedOnce
<1>1. Init => IInv /\ JobsExpire /\ Unassigned
  BY InitIInv, InitJobs, LifecycleConstants
<1>2. IInv /\ JobsExpire /\ Unassigned /\ [Next]_vars
         => IInv' /\ JobsExpire' /\ Unassigned'
  BY NextIInv, JobsExpireKept, UnassignedKept, LifecycleConstants
<1>3. IInv /\ JobsExpire /\ Unassigned /\ [Next]_vars =>
         ({task.executor, task'.executor} \subseteq Workers
            => \/ task'.executor = task.executor
               \/ \E p \in Handlers :
                     pc[p] = "accept" /\ req[p].status # task.status)
  BY UnassignedKept, LifecycleConstants DEF LateAssignment
<1>4. QED BY <1>1, <1>2, <1>3, PTL DEF Spec, AssignedOnce

-----------------------------------------------------------------------------
(* One task pays one worker.                                                *)

OneHandler == \A g, h \in Handlers : g = h

Approving(p) == p \in Handlers /\ req[p].kind = "approve"

(* Once a lock is released by a call that was answered, the escrow row names*)
(* it and never goes back to 'deposited', so that no handler gets to a step *)
(* that would replace, settle or submit on that row again.                  *)
PaidOut ==
    \A v \in Workers : PaidBy(v) =>
        /\ escrow.payee = v
        /\ escrow.status \in {"releasing", "released"}
        /\ \A p \in Handlers :
              /\ pc[p] \notin {"accept", "recordLock", "send", "submission"}
              /\ pc[p] = "book" => req[p].kind = "approve"

(* The row that is being released is the handler's own claim.               *)
OwnRelease ==
    \A p \in Handlers : pc[p] = "send" /\ req[p].kind = "approve" =>
        escrow.status = "releasing" /\ escrow.payee = req[p].payee

(* An approval is served only while the task is not refunded, or as the     *)
(* retry of one that has already paid.                                      *)
ApprovalOpen ==
    \A p \in Handlers :
        /\ req[p].kind = "approve"
        /\ pc[p] \in {"approveCheck", "settle", "claim", "send"}
        => task.status # "refunded" \/ Released

PayoutInv == JobsExpire /\ PaidOut /\ OwnRelease /\ ApprovalOpen

(* Nobody is about to look up the escrow for an assignment once the funds   *)
(* are paid out.                                                            *)
AssignUnpaid == Released => \A p \in Handlers : pc[p] # "assignCheck"

LEMMA InitPayout ==
    ASSUME Init
    PROVE  PayoutInv
BY InitJobs DEF Init, PayoutInv, PaidOut, PaidBy, OwnRelease, ApprovalOpen, Procs

(* How a handler gets to the steps that PayoutInv speaks of.                *)
LEMMA HandlerArrives ==
    ASSUME ControlType, ControlInv, NEW p \in Procs, Steps1(p)
    PROVE  /\ pc'[p] = "accept" =>
                 \/ escrow.status \in {"pending", "deposited"}
                 \/ ReadFaults /\ pc[p] = "assignCheck"
           /\ pc'[p] = "recordLock" => pc[p] = "accept"
           /\ pc'[p] = "submission" => escrow.status = "deposited"
           /\ pc'[p] = "send" =>
                 /\ pc[p] = "claim" /\ escrow.status = "deposited"
                 /\ req'[p].payee = escrow.payee
                 /\ req'[p].kind = req[p].kind
                 /\ escrow' = [escrow EXCEPT !.status = Claimed(Operation(p))]
           /\ pc'[p] = "book" => pc[p] = "send" /\ req'[p] = req[p]
           /\ pc'[p] \in {"approveCheck", "settle", "claim", "send"}
                    /\ req'[p].kind = "approve" =>
                 /\ req[p].kind = "approve"
                 /\ pc[p] \in {"approveCheck", "settle", "claim", "send"}
<1>1. Fits(pc[p], req[p])
  BY DEF ControlInv
<1>2. CASE AssignSteps(p)
  BY <1>2, AssignMoves DEF Goes, Ends
<1>3. CASE ReviewSteps(p)
  BY <1>1, <1>3, ReviewMoves DEF Goes, Ends, Fits
<1>4. CASE CloseSteps(p)
  BY <1>1, <1>4, CloseMoves DEF Goes, Ends, Fits
<1>5. CASE SettleStep(p)
  BY <1>1, <1>5, SettleMoves DEF Goes, Ends, Fits, SameRequest
<1>6. QED BY <1>2, <1>3, <1>4, <1>5 DEF Steps1

(* Only an approval releases a lock, and a released lock stays released.    *)
LEMMA ReleaseByApproval ==
    ASSUME WorldType, ControlType, ControlInv, JobsExpire,
           NEW p \in Procs, Steps1(p)
    PROVE  /\ \A v \in Workers : PaidBy(v) => PaidBy(v)'
           /\ \A v \in Workers : ~PaidBy(v) /\ PaidBy(v)' =>
                 /\ Approving(p) /\ pc[p] = "send" /\ v = req[p].payee
                 /\ SendOk(p) /\ pc'[p] = "book" /\ req'[p] = req[p]
                 /\ UNCHANGED <<escrow, task>>
           /\ \A v \in Workers : lock[v] = "locked" /\ lock'[v] = "released" =>
                 Approving(p) /\ pc[p] = "send"
<1>1. CASE ~SendOk(p)
  <2>1. UNCHANGED lock
    BY <1>1, LockMoves
  <2>2. CASE SendFail(p)
    <3>1. req[p].payee \in Workers
      BY <2>2 DEF SendFail, ControlInv, Fits
    <3>2. \A v \in Workers : lock[v] # "locked" => lost'[v] = lost[v]
      BY <2>2, <3>1 DEF SendFail, WorldType
    <3>3. QED BY <2>1, <3>2 DEF PaidBy
  <2>3. CASE ~SendFail(p)
    <3>1. UNCHANGED lost
      BY <1>1, <2>3
         DEF Steps1, AssignSteps, ReviewSteps, CloseSteps, SettleStep,
             AssignCheck, Accept, RecordLock, RecordTx, Guard, SubmitCheck,
             Submission, Submitted, ApproveCheck, AcceptWork, Complete,
             RejectRead, RejectWrite, Reopen, InfoWrite, Resume, DisputeCheck,
             DisputeInsert, DisputeVerdict, ResolveWrite, CancelCheck, Recheck,
             CancelWrite, Deadline, Expire, Crash, Settle, Claim, Book
    <3>2. QED BY <2>1, <3>1 DEF PaidBy
  <2>4. QED BY <2>2, <2>3
<1>2. CASE SendOk(p)
  <2>1. /\ Fits(pc[p], req[p]) /\ req[p].payee \in Workers
        /\ pc[p] = "send"
    BY <1>2 DEF ControlInv, Fits, SendOk
  <2>2. /\ lock[req[p].payee] = "locked"
        /\ lock' = [lock EXCEPT ![req[p].payee] = Settled(Operation(p))]
        /\ lost' = [lost EXCEPT ![req[p].payee] = {}]
    BY <1>2 DEF SendOk
  <2>3. /\ lock \in [Workers -> {"none", "locked", "released", "refunded"}]
        /\ lost \in [Workers -> SUBSET {"release", "refund"}]
    BY DEF WorldType
  <2>4. /\ lock'[req[p].payee] = Settled(Operation(p))
        /\ \A v \in Workers : v # req[p].payee => lock'[v] = lock[v] /\ lost'[v] = lost[v]
    BY <2>1, <2>2, <2>3
  <2>5. Settled(Operation(p)) = "released" => req[p].kind = "approve"
    BY DEF Settled, Operation
  <2>6. req[p].kind = "approve" =>
           /\ p \in Handlers /\ pc'[p] = "book" /\ req'[p] = req[p]
    <3>1. req[p].kind = "approve" => p \in Handlers
      BY <2>1 DEF JobsExpire, Procs
    <3>2. req[p].kind = "approve" => Goto(p, "book")
      BY <1>2 DEF SendOk
    <3>3. QED BY <3>1, <3>2, GotoEffect
  <2>7. UNCHANGED <<escrow, task>>
    BY <1>2 DEF SendOk
  <2>8. QED BY <1>2, <2>1, <2>2, <2>4, <2>5, <2>6, <2>7 DEF Approving, PaidBy
<1>3. QED BY <1>1, <1>2

(* A step that neither releases a lock nor moves a handler, and that leaves *)
(* alone a row that is being released or has been.                          *)
LEMMA PayoutApart ==
    ASSUME WorldType, PaidOut, OwnRelease, ApprovalOpen,
           \A v \in Workers : PaidBy(v)' <=> PaidBy(v),
           \A p \in Handlers : pc'[p] = pc[p] /\ req'[p] = req[p],
           task'.status = "refunded" => task.status = "refunded",
           escrow.status \in {"releasing", "released"} =>
              /\ escrow'.payee = escrow.payee
              /\ \/ escrow'.status = escrow.status
                 \/ /\ escrow'.status = "released"
                    /\ \A p \in Handlers : pc[p] # "send"
                 \/ /\ \A p \in Handlers : pc[p] # "send"
                    /\ \A v \in Workers : ~PaidBy(v)
    PROVE  PaidOut' /\ OwnRelease' /\ ApprovalOpen'
<1>1. PaidOut'
  BY DEF PaidOut
<1>2. OwnRelease'
  BY DEF OwnRelease
<1>3. Released => Released'
  BY DEF Released
<1>4. ApprovalOpen'
  BY <1>3 DEF ApprovalOpen
<1>5. QED BY <1>1, <1>2, <1>4

LEMMA PayoutHandlerStep ==
    ASSUME IInv, LifecycleConstants, OneHandler, PayoutInv,
           ReadFaults => AssignUnpaid, NEW p \in Handlers, Steps1(p)
    PROVE  PaidOut' /\ OwnRelease' /\ ApprovalOpen'
<1>1. /\ ControlType /\ WorldType /\ ControlInv /\ JobsExpire
      /\ PaidOut /\ OwnRelease /\ ApprovalOpen
  BY DEF IInv, PayoutInv
<1>2. p \in Procs /\ \A q \in Handlers : q = p
  BY DEF Procs, OneHandler
<1>3. Fits(pc[p], req[p])
  BY <1>1, <1>2 DEF ControlInv
<1>4. \A v \in Workers : PaidBy(v) => PaidBy(v)'
  BY <1>1, <1>2, ReleaseByApproval
<1>5. ASSUME NEW v \in Workers, PaidBy(v)
      PROVE  /\ escrow'.payee = v
             /\ escrow'.status \in {"releasing", "released"}
             /\ pc'[p] \notin {"accept", "recordLock", "send", "submission"}
             /\ pc'[p] = "book" => req'[p].kind = "approve"
  <2>1. /\ escrow.payee = v /\ escrow.status \in {"releasing", "released"}
        /\ pc[p] \notin {"accept", "recordLock", "send", "submission"}
        /\ pc[p] = "book" => req[p].kind = "approve"
    BY <1>1, <1>5 DEF PaidOut
  <2>2. /\ pc'[p] \notin {"accept", "recordLock", "send", "submission"}
        /\ pc'[p] # "book"
    BY <1>1, <1>2, <1>5, <2>1, HandlerArrives DEF AssignUnpaid, Released
  <2>3. ~SendFail(p)
    BY <2>1 DEF SendFail
  <2>4. Book(p) => Settled(Operation(p)) = "released"
    BY <2>1 DEF Book, Settled, Operation
  <2>5. escrow'.payee = v /\ escrow'.status \in {"releasing", "released"}
    BY <1>1, <1>2, <2>1, <2>3, <2>4, EscrowMoves
  <2>6. QED BY <2>2, <2>5
<1>6. ASSUME NEW v \in Workers, ~PaidBy(v), PaidBy(v)'
      PROVE  /\ escrow'.payee = v
             /\ escrow'.status \in {"releasing", "released"}
             /\ pc'[p] = "book" /\ req'[p].kind = "approve"
  <2>1. /\ req[p].kind = "approve" /\ pc[p] = "send" /\ v = req[p].payee
        /\ pc'[p] = "book" /\ req'[p] = req[p] /\ UNCHANGED escrow
    BY <1>1, <1>2, <1>6, ReleaseByApproval DEF Approving
  <2>2. QED BY <1>1, <2>1 DEF OwnRelease
<1>7. PaidOut'
  BY <1>2, <1>5, <1>6 DEF PaidOut
<1>8. OwnRelease'
  <2>1. ASSUME pc'[p] = "send", req'[p].kind = "approve"
        PROVE  escrow'.status = "releasing" /\ escrow'.payee = req'[p].payee
    <3>1. /\ pc[p] = "claim" /\ escrow.status = "deposited"
          /\ req'[p].payee = escrow.payee /\ req[p].kind = "approve"
          /\ escrow' = [escrow EXCEPT !.status = Claimed(Operation(p))]
      BY <1>1, <1>2, <2>1, HandlerArrives
    <3>2. Claimed(Operation(p)) = "releasing"
      BY <3>1 DEF Claimed, Operation
    <3>3. QED BY <1>1, <3>1, <3>2 DEF WorldType
  <2>2. QED BY <1>2, <2>1 DEF OwnRelease
<1>9. ApprovalOpen'
  <2>1. Released => Released'
    BY <1>4 DEF Released
  <2>2. ASSUME pc'[p] \in {"approveCheck", "settle", "claim", "send"},
               req'[p].kind = "approve"
        PROVE  task'.status # "refunded" \/ Released'
    <3>1. /\ req[p].kind = "approve"
          /\ pc[p] \in {"approveCheck", "settle", "claim", "send"}
      BY <1>1, <1>2, <2>2, HandlerArrives
    <3>2. UNCHANGED task
      BY <1>1, <1>2, <3>1, TaskMoves
    <3>3. QED BY <1>1, <2>1, <3>1, <3>2 DEF ApprovalOpen
  <2>3. QED BY <1>2, <2>2 DEF ApprovalOpen
<1>10. QED BY <1>7, <1>8, <1>9

LEMMA PayoutJobStep ==
    ASSUME IInv, LifecycleConstants, PayoutInv, NEW p \in Jobs, Steps1(p)
    PROVE  PaidOut' /\ OwnRelease' /\ ApprovalOpen'
<1>1. /\ ControlType /\ WorldType /\ ControlInv /\ JobsExpire
      /\ PaidOut /\ OwnRelease /\ ApprovalOpen
  BY DEF IInv, PayoutInv
<1>2. /\ p \in Procs /\ p \notin Handlers /\ pc[p] \in JobSteps
      /\ pc[p] # "idle" => req[p].kind = "expire"
  BY <1>1 DEF Procs, LifecycleConstants, JobsExpire
<1>3. \A v \in Workers : PaidBy(v)' <=> PaidBy(v)
  BY <1>1, <1>2, ReleaseByApproval DEF Approving
<1>4. \A q \in Handlers : pc'[q] = pc[q] /\ req'[q] = req[q]
  BY <1>1, JobStep
<1>5. task'.status = "refunded" => task.status = "refunded"
  BY <1>1, <1>2, TaskMoves DEF JobSteps
<1>6. SendFail(p) => escrow.status = "refunding" \/ UNCHANGED escrow
  BY <1>2 DEF SendFail, Claimed, Operation
<1>7. ~Book(p)
  BY <1>2 DEF Book, JobSteps
<1>8. escrow.status \in {"releasing", "released"} => UNCHANGED escrow
  BY <1>1, <1>2, <1>6, <1>7, EscrowMoves DEF JobSteps
<1>9. QED BY <1>1, <1>3, <1>4, <1>5, <1>8, PayoutApart

LEMMA PayoutRequest ==
    ASSUME IInv, LifecycleConstants, OneHandler, PayoutInv,
           NEW p \in Handlers, Request(p)
    PROVE  PaidOut' /\ OwnRelease' /\ ApprovalOpen'
<1>1. ControlType /\ AcceptedIsSettled /\ PaidOut
  BY DEF IInv, PayoutInv
<1>2. p \in Procs /\ \A q \in Handlers : q = p
  BY DEF Procs, OneHandler
<1>3. UNCHANGED world
  BY <1>1, <1>2, RequestMoves
<1>4. pc'[p] \notin {"accept", "recordLock", "send", "submission", "book", "claim"}
  BY <1>1, <1>2, RequestMoves
<1>5. /\ req'[p].kind = "approve"
      /\ pc'[p] \in {"approveCheck", "settle"}
      => task.status # "refunded" \/ \E w \in Workers : verdict[w] = "accepted"
  BY <1>1, <1>2, RequestMoves DEF ClosedStatuses
<1>6. Released' <=> Released
  BY <1>3 DEF Released, PaidBy, world
<1>7. (\E w \in Workers : verdict[w] = "accepted") => Released
  BY <1>1 DEF AcceptedIsSettled, Released
<1>8. PaidOut' /\ OwnRelease'
  BY <1>1, <1>2, <1>3, <1>4 DEF PaidOut, PaidBy, OwnRelease, world
<1>9. ApprovalOpen'
  BY <1>2, <1>3, <1>4, <1>5, <1>6, <1>7 DEF ApprovalOpen, world
<1>10. QED BY <1>8, <1>9

LEMMA PayoutOutside ==
    ASSUME IInv, PayoutInv,
           Outside \/ UNCHANGED vars
    PROVE  PaidOut' /\ OwnRelease' /\ ApprovalOpen'
<1>1. WorldType /\ PaidOut /\ OwnRelease /\ ApprovalOpen
  BY DEF IInv, PayoutInv
<1>2. UNCHANGED <<task, pc, req>>
  BY OutsideStep
<1>3. CASE \/ \E w \in Workers : LockFunds(w)
           \/ \E w \in Workers, op \in {"release", "refund"} : Mine(w, op)
  <2>1. UNCHANGED escrow
    BY <1>3 DEF LockFunds, Mine
  <2>2. \A v \in Workers : PaidBy(v)' <=> PaidBy(v)
    BY <1>1, <1>3 DEF LockFunds, Mine, WorldType, PaidBy, Settled
  <2>3. QED BY <1>1, <1>2, <2>1, <2>2, PayoutApart
<1>4. CASE Reconcile
  <2>1. /\ escrow' = [escrow EXCEPT !.status =
                        IF lock[escrow.payee] = "locked" THEN "deposited"
                        ELSE IF @ = "releasing" THEN "released" ELSE "refunded"]
        /\ escrow.status \in {"releasing", "refunding"} /\ UNCHANGED <<lock, lost>>
        /\ \A p \in Handlers : pc[p] # "send"
    BY <1>4 DEF Reconcile, Settling, Procs
  <2>2. escrow'.payee = escrow.payee
    BY <1>1, <2>1 DEF WorldType
  <2>3. lock[escrow.payee] # "locked" /\ escrow.status = "releasing"
           => escrow'.status = "released"
    BY <1>1, <2>1 DEF WorldType
  <2>4. lock[escrow.payee] = "locked" => \A v \in Workers : ~PaidBy(v)
    BY <1>1 DEF PaidOut, PaidBy
  <2>5. \A v \in Workers : PaidBy(v)' <=> PaidBy(v)
    BY <2>1 DEF PaidBy
  <2>6. QED BY <1>1, <1>2, <2>1, <2>2, <2>3, <2>4, <2>5, PayoutApart
<1>5. CASE UNCHANGED <<escrow, lock, lost>>
  <2>1. \A v \in Workers : PaidBy(v)' <=> PaidBy(v)
    BY <1>5 DEF PaidBy
  <2>2. QED BY <1>1, <1>2, <1>5, <2>1, PayoutApart
<1>6. QED BY <1>3, <1>4, <1>5 DEF Outside, PassDeadline, vars

LEMMA PayoutKept ==
    ASSUME IInv, LifecycleConstants, OneHandler, PayoutInv,
           ReadFaults => AssignUnpaid, [Next]_vars
    PROVE  PayoutInv'
<1>1. JobsExpire' /\ ControlType /\ JobsExpire
  BY JobsExpireKept DEF PayoutInv, IInv
<1>2. ASSUME NEW p \in Jobs, Overdue(p)
      PROVE  PaidOut' /\ OwnRelease' /\ ApprovalOpen'
  <2>1. /\ UNCHANGED world
        /\ \A q \in Handlers : pc'[q] = pc[q] /\ req'[q] = req[q]
    BY <1>1, <1>2, OverdueMoves
  <2>2. QED
    BY <2>1, PayoutApart DEF world, PaidBy, PayoutInv, IInv
<1>3. QED
  BY <1>1, <1>2, NextCases, PayoutRequest, PayoutHandlerStep, PayoutJobStep,
     PayoutOutside DEF PayoutInv

(* No step releases a lock from a refunded task, but for a release that was *)
(* sent before and not answered.                                            *)
LEMMA RefundedStep ==
    ASSUME IInv, PayoutInv, [Next]_vars, task.status = "refunded",
           NEW v \in Workers, lock[v] = "locked", lock'[v] = "released"
    PROVE  "release" \in lost[v]
<1>1. /\ ControlType /\ WorldType /\ ControlInv /\ JobsExpire
      /\ PaidOut /\ ApprovalOpen
  BY DEF IInv, PayoutInv
<1>2. ASSUME NEW p \in Procs, Steps1(p)
      PROVE  FALSE
  <2>1. Approving(p) /\ pc[p] = "send"
    BY <1>1, <1>2, ReleaseByApproval
  <2>2. ~Released
    BY <1>1, <2>1 DEF PaidOut, Released, Approving
  <2>3. QED BY <1>1, <2>1, <2>2 DEF ApprovalOpen, Approving
<1>3. ASSUME NEW p \in Handlers, Request(p)
      PROVE  UNCHANGED lock
  BY <1>1, <1>3, RequestMoves, LifecycleConstants DEF Procs, world
<1>4. ASSUME NEW w \in Workers, LockFunds(w)
      PROVE  lock'[v] # "released"
  BY <1>1, <1>4 DEF LockFunds, WorldType
<1>5. ASSUME NEW w \in Workers, NEW op \in {"release", "refund"}, Mine(w, op)
      PROVE  "release" \in lost[v]
  BY <1>1, <1>5 DEF Mine, Settled, WorldType
<1>6. Handlers \subseteq Procs /\ Jobs \subseteq Procs
  BY DEF Procs
<1>7. QED
  BY <1>2, <1>3, <1>4, <1>5, <1>6, NextCases
     DEF Outside, Overdue, Reconcile, PassDeadline, vars

-----------------------------------------------------------------------------
(* A rejected submission has not been paid for.                             *)

ApprovalSteps == {"approveCheck", "settle", "claim", "send", "book", "verdict"}

(* A paid submission has its verdict, or the handler is about to write it.  *)
PaidHasVerdict ==
    \A w \in paid :
        \/ verdict[w] \in {"accepted", "disputed"}
        \/ \E p \in Handlers : pc[p] = "verdict" /\ req[p].worker = w

(* Nobody turns down a submission that is paid.                             *)
TurnedDownUnpaid ==
    \A p \in Handlers :
        pc[p] \in {"rejectRead", "rejectWrite", "infoWrite"}
            => req[p].worker \notin paid

(* An approval is of a pending submission, or the retry of an accepted one. *)
ApprovalOf ==
    \A p \in Handlers : pc[p] \in ApprovalSteps /\ req[p].kind = "approve" =>
        /\ req[p].worker \in Workers
        /\ \/ verdict[req[p].worker] = "accepted"
           \/ verdict[req[p].worker] = "pending" /\ req[p].flag = FALSE

HandlersApprove ==
    \A p \in Handlers :
        /\ pc[p] = "verdict" => req[p].kind = "approve"
        /\ pc[p] # "deadline"

ApprovalInv == ApprovalOf /\ HandlersApprove
ReviewInv == PaidHasVerdict /\ TurnedDownUnpaid /\ ApprovalInv

LEMMA InitReview ==
    ASSUME Init
    PROVE  ReviewInv
BY DEF Init, ReviewInv, ApprovalInv, PaidHasVerdict, TurnedDownUnpaid,
       ApprovalOf, HandlersApprove, ApprovalSteps, Procs

(* How a process gets to the steps that ReviewInv speaks of.                *)
LEMMA ReviewArrives ==
    ASSUME ControlType, ControlInv, NEW p \in Procs, Steps1(p)
    PROVE  /\ pc'[p] = "deadline" => pc[p] = "deadline"
           /\ pc'[p] \in {"rejectRead", "rejectWrite", "infoWrite"} =>
                 pc[p] = "rejectRead" /\ req'[p].worker = req[p].worker
           /\ pc'[p] \in ApprovalSteps /\ req'[p].kind = "approve"
                    /\ pc[p] # "deadline" =>
                 /\ pc[p] \in ApprovalSteps \ {"verdict"}
                 /\ req[p].kind = "approve" /\ req'[p].flag = req[p].flag
                 /\ req'[p].worker = req[p].worker
           /\ pc'[p] = "verdict" /\ pc[p] # "deadline" => req'[p].kind = "approve"
<1>1. Fits(pc[p], req[p])
  BY DEF ControlInv
<1>2. CASE AssignSteps(p)
  BY <1>2, AssignMoves DEF Goes, Ends, ApprovalSteps
<1>3. CASE ReviewSteps(p)
  BY <1>1, <1>3, ReviewMoves DEF Goes, Ends, Fits, ApprovalSteps
<1>4. CASE CloseSteps(p)
  BY <1>1, <1>4, CloseMoves DEF Goes, Ends, Fits, ApprovalSteps
<1>5. CASE SettleStep(p)
  BY <1>1, <1>5, SettleMoves DEF Goes, Ends, Fits, SameRequest, ApprovalSteps
<1>6. QED BY <1>2, <1>3, <1>4, <1>5 DEF Steps1

(* The step after a payment writes the verdict, if nothing fails.           *)
LEMMA VerdictFollows ==
    ASSUME ~Faults, NEW p \in Procs, Steps1(p)
    PROVE  /\ pc[p] = "verdict" => AcceptWork(p)
           /\ pc[p] = "book" => Book(p)
<1>1. AssignSteps(p) => pc[p] \notin {"verdict", "book"}
  BY DEF AssignSteps, AssignCheck, Accept, RecordLock, RecordTx, Guard,
         SubmitCheck, Submission, Submitted
<1>2. CASE AcceptWork(p) \/ Book(p)
  <2>1. AcceptWork(p) => pc[p] = "verdict"
    BY DEF AcceptWork
  <2>2. Book(p) => pc[p] = "book"
    BY DEF Book
  <2>3. QED BY <1>2, <2>1, <2>2
<1>3. ReviewSteps(p) => AcceptWork(p) \/ pc[p] \notin {"verdict", "book"}
  <2>1. ASSUME ReviewSteps(p), ~AcceptWork(p)
        PROVE  pc[p] \notin {"verdict", "book"}
    BY <2>1
       DEF ReviewSteps, ApproveCheck, Complete, RejectRead, RejectWrite, Reopen,
           InfoWrite, Resume, DisputeCheck, DisputeInsert, DisputeVerdict,
           ResolveWrite
  <2>2. QED BY <2>1, Zenon
<1>4. CloseSteps(p) => pc[p] \notin {"verdict", "book"}
  BY DEF CloseSteps, CancelCheck, Recheck, CancelWrite, Deadline, Expire, Crash
<1>5. SettleStep(p) => Book(p) \/ pc[p] \notin {"verdict", "book"}
  <2>1. ASSUME SettleStep(p), ~Book(p)
        PROVE  pc[p] \notin {"verdict", "book"}
    BY <2>1 DEF SettleStep, Settle, Claim, SendOk, SendFail
  <2>2. QED BY <2>1, Zenon
<1>6. QED BY <1>1, <1>2, <1>3, <1>4, <1>5 DEF Steps1

LEMMA ApprovalHandlerStep ==
    ASSUME IInv, LifecycleConstants, OneHandler, ApprovalInv,
           NEW p \in Handlers, Steps1(p)
    PROVE  ApprovalInv'
<1>1. ControlType /\ WorldType /\ ControlInv /\ ApprovalOf /\ HandlersApprove
  BY DEF IInv, ApprovalInv
<1>2. p \in Procs /\ \A q \in Handlers : q = p
  BY DEF Procs, OneHandler
<1>3. pc[p] # "deadline"
  BY <1>1 DEF HandlersApprove
<1>4. ApprovalOf'
  <2>1. ASSUME pc'[p] \in ApprovalSteps, req'[p].kind = "approve"
        PROVE  /\ req'[p].worker \in Workers
               /\ \/ verdict'[req'[p].worker] = "accepted"
                  \/ verdict'[req'[p].worker] = "pending" /\ req'[p].flag = FALSE
    <3>1. /\ pc[p] \in ApprovalSteps \ {"verdict"}
          /\ req[p].kind = "approve" /\ req'[p].flag = req[p].flag
          /\ req'[p].worker = req[p].worker
      BY <1>1, <1>2, <1>3, <2>1, ReviewArrives
    <3>2. UNCHANGED verdict
      <4>1. ~(AcceptWork(p) \/ Submission(p) \/ RejectWrite(p) \/ InfoWrite(p)
                \/ DisputeVerdict(p))
        BY <3>1 DEF ApprovalSteps, AcceptWork, Submission, RejectWrite,
                    InfoWrite, DisputeVerdict
      <4>2. QED
        BY <4>1
           DEF Steps1, AssignSteps, ReviewSteps, CloseSteps, SettleStep,
               AssignCheck, Accept, RecordLock, RecordTx, Guard, SubmitCheck,
               Submitted, ApproveCheck, Complete, RejectRead, Reopen, Resume,
               DisputeCheck, DisputeInsert, ResolveWrite, CancelCheck, Recheck,
               CancelWrite, Deadline, Expire, Crash, Settle, Claim, SendOk,
               SendFail, Book
    <3>3. QED BY <1>1, <3>1, <3>2 DEF ApprovalOf
  <2>2. QED BY <1>2, <2>1 DEF ApprovalOf
<1>5. HandlersApprove'
  BY <1>1, <1>2, <1>3, ReviewArrives DEF HandlersApprove
<1>6. QED BY <1>4, <1>5 DEF ApprovalInv

LEMMA ApprovalJobStep ==
    ASSUME IInv, LifecycleConstants, JobsExpire, ApprovalInv,
           NEW p \in Jobs, Steps1(p)
    PROVE  ApprovalInv'
<1>1. ControlType /\ WorldType /\ ApprovalOf /\ HandlersApprove
  BY DEF IInv, ApprovalInv
<1>2. p \in Procs /\ pc[p] \in JobSteps
  BY DEF Procs, JobsExpire
<1>3. \A q \in Handlers : pc'[q] = pc[q] /\ req'[q] = req[q]
  BY <1>1, JobStep
<1>4. \A w \in Workers : verdict'[w] = verdict[w] \/ verdict'[w] = "accepted"
  BY <1>1, <1>2, VerdictMoves DEF JobSteps
<1>5. ApprovalOf'
  <2>1. ASSUME NEW q \in Handlers, pc[q] \in ApprovalSteps, req[q].kind = "approve"
        PROVE  /\ req[q].worker \in Workers
               /\ \/ verdict'[req[q].worker] = "accepted"
                  \/ verdict'[req[q].worker] = "pending" /\ req[q].flag = FALSE
    <3>1. /\ req[q].worker \in Workers
          /\ \/ verdict[req[q].worker] = "accepted"
             \/ verdict[req[q].worker] = "pending" /\ req[q].flag = FALSE
      BY <1>1, <2>1 DEF ApprovalOf
    <3>2. QED BY <1>4, <3>1, <2>1
  <2>2. QED BY <1>3, <2>1 DEF ApprovalOf
<1>6. HandlersApprove'
  BY <1>1, <1>3 DEF HandlersApprove
<1>7. QED BY <1>5, <1>6 DEF ApprovalInv

LEMMA ApprovalRequest ==
    ASSUME IInv, LifecycleConstants, OneHandler, ApprovalInv,
           NEW p \in Handlers, Request(p)
    PROVE  ApprovalInv'
<1>1. ControlType /\ p \in Procs /\ \A q \in Handlers : q = p
  BY DEF IInv, Procs, OneHandler
<1>2. UNCHANGED verdict
  BY <1>1, RequestMoves DEF world
<1>3. pc'[p] \in ApprovalSteps /\ req'[p].kind = "approve" =>
         /\ req'[p].worker \in Workers
         /\ \/ verdict[req'[p].worker] = "accepted"
            \/ verdict[req'[p].worker] = "pending" /\ req'[p].flag = FALSE
  BY <1>1, RequestMoves DEF ApprovalSteps
<1>4. pc'[p] \notin {"verdict", "deadline"}
  BY <1>1, RequestMoves
<1>5. QED BY <1>1, <1>2, <1>3, <1>4 DEF ApprovalInv, ApprovalOf, HandlersApprove

LEMMA ApprovalKept ==
    ASSUME IInv, LifecycleConstants, OneHandler, JobsExpire, ApprovalInv, [Next]_vars
    PROVE  ApprovalInv'
<1>1. CASE UNCHANGED <<verdict, pc, req>>
  BY <1>1 DEF ApprovalInv, ApprovalOf, HandlersApprove
<1>2. ASSUME NEW p \in Jobs, Overdue(p)
      PROVE  ApprovalInv'
  <2>1. /\ UNCHANGED verdict
        /\ \A q \in Handlers : pc'[q] = pc[q] /\ req'[q] = req[q]
    BY <1>2, OverdueMoves DEF world, IInv
  <2>2. QED BY <2>1 DEF ApprovalInv, ApprovalOf, HandlersApprove
<1>3. QED
  BY <1>1, <1>2, NextCases, OutsideStep, ApprovalRequest, ApprovalHandlerStep,
     ApprovalJobStep

LEMMA ReviewHandlerStep ==
    ASSUME IInv, LifecycleConstants, OneHandler, ~Faults, PaidOut, ReviewInv,
           NEW p \in Handlers, Steps1(p)
    PROVE  PaidHasVerdict' /\ TurnedDownUnpaid'
<1>1. /\ ControlType /\ WorldType /\ ControlInv /\ AcceptedIsSettled
      /\ PaidHasVerdict /\ TurnedDownUnpaid /\ ApprovalOf /\ HandlersApprove
  BY DEF IInv, ReviewInv, ApprovalInv
<1>2. p \in Procs /\ \A q \in Handlers : q = p
  BY DEF Procs, OneHandler
<1>3. pc[p] # "deadline"
  BY <1>1 DEF HandlersApprove
<1>4. paid # {} => pc[p] # "submission"
  BY <1>1 DEF AcceptedIsSettled, Released, PaidOut
<1>5. paid \subseteq Workers
  BY <1>1 DEF WorldType
<1>6. ASSUME NEW w \in paid
      PROVE  verdict'[w] \in {"accepted", "disputed"}
  <2>1. CASE pc[p] = "verdict" /\ req[p].worker = w
    <3>1. AcceptWork(p)
      BY <1>1, <1>2, <2>1, VerdictFollows
    <3>2. QED BY <1>1, <1>5, <1>6, <2>1, <3>1 DEF AcceptWork, WorldType
  <2>2. CASE ~(pc[p] = "verdict" /\ req[p].worker = w)
    <3>1. verdict[w] \in {"accepted", "disputed"}
      BY <1>1, <1>2, <1>6, <2>2 DEF PaidHasVerdict
    <3>2. w = req[p].worker => pc[p] \notin {"submission", "rejectWrite", "infoWrite"}
      BY <1>1, <1>4, <1>6 DEF TurnedDownUnpaid
    <3>3. w \in Workers
      BY <1>5, <1>6
    <3>4. QED BY <1>1, <1>2, <3>1, <3>2, <3>3, VerdictMoves
  <2>3. QED BY <2>1, <2>2
<1>7. ASSUME NEW w \in paid', w \notin paid
      PROVE  \/ verdict'[w] = "accepted"
             \/ pc'[p] = "verdict" /\ req'[p].worker = w
  <2>1. pc[p] = "book" /\ Operation(p) = "release" /\ w = req[p].worker
    BY <1>2, <1>7, PaidMoves
  <2>2. req[p].kind = "approve"
    BY <2>1 DEF Operation
  <2>3. Book(p) /\ UNCHANGED verdict
    BY <1>1, <1>2, <2>1, VerdictFollows DEF Book
  <2>4. \/ verdict[w] = "accepted"
        \/ req[p].flag = FALSE
    BY <1>1, <2>1, <2>2 DEF ApprovalOf, ApprovalSteps
  <2>5. CASE req[p].flag = FALSE
    <3>1. Goto(p, "verdict")
      BY <2>2, <2>3, <2>5 DEF Book
    <3>2. QED BY <1>1, <1>2, <2>1, <3>1, GotoEffect
  <2>6. QED BY <2>3, <2>4, <2>5
<1>8. PaidHasVerdict'
  BY <1>6, <1>7 DEF PaidHasVerdict
<1>9. TurnedDownUnpaid'
  <2>1. pc'[p] \in {"rejectRead", "rejectWrite", "infoWrite"} =>
           pc[p] = "rejectRead" /\ req'[p].worker = req[p].worker
    BY <1>1, <1>2, ReviewArrives
  <2>2. pc[p] = "rejectRead" => paid' = paid
    BY <1>2, PaidMoves
  <2>3. QED BY <1>1, <1>2, <2>1, <2>2 DEF TurnedDownUnpaid
<1>10. QED BY <1>8, <1>9

LEMMA ReviewJobStep ==
    ASSUME IInv, LifecycleConstants, JobsExpire, ReviewInv,
           NEW p \in Jobs, Steps1(p)
    PROVE  PaidHasVerdict' /\ TurnedDownUnpaid'
<1>1. ControlType /\ WorldType /\ PaidHasVerdict /\ TurnedDownUnpaid
  BY DEF IInv, ReviewInv
<1>2. p \in Procs /\ pc[p] \in JobSteps
  BY DEF Procs, JobsExpire
<1>3. \A q \in Handlers : pc'[q] = pc[q] /\ req'[q] = req[q]
  BY <1>1, JobStep
<1>4. paid' = paid /\ paid \subseteq Workers
  BY <1>1, <1>2, PaidMoves DEF JobSteps, WorldType
<1>5. \A w \in Workers : verdict'[w] = verdict[w] \/ verdict'[w] = "accepted"
  BY <1>1, <1>2, VerdictMoves DEF JobSteps
<1>6. PaidHasVerdict'
  BY <1>1, <1>3, <1>4, <1>5 DEF PaidHasVerdict
<1>7. TurnedDownUnpaid'
  BY <1>1, <1>3, <1>4 DEF TurnedDownUnpaid
<1>8. QED BY <1>6, <1>7

LEMMA ReviewRequest ==
    ASSUME IInv, LifecycleConstants, OneHandler, ReviewInv,
           NEW p \in Handlers, Request(p)
    PROVE  PaidHasVerdict' /\ TurnedDownUnpaid'
<1>1. ControlType /\ PaidHasVerdict /\ TurnedDownUnpaid
  BY DEF IInv, ReviewInv
<1>2. p \in Procs /\ \A q \in Handlers : q = p
  BY DEF Procs, OneHandler
<1>3. UNCHANGED <<verdict, paid>> /\ pc[p] = "idle"
  BY <1>1, <1>2, RequestMoves DEF world
<1>4. \A w \in paid : verdict[w] \in {"accepted", "disputed"}
  BY <1>1, <1>2, <1>3 DEF PaidHasVerdict
<1>5. pc'[p] \in {"rejectRead", "rejectWrite", "infoWrite"}
         => verdict[req'[p].worker] \in {"pending", "more_info"}
  BY <1>1, <1>2, RequestMoves
<1>6. QED
  BY <1>2, <1>3, <1>4, <1>5 DEF PaidHasVerdict, TurnedDownUnpaid

LEMMA ReviewKept ==
    ASSUME IInv, LifecycleConstants, OneHandler, ~Faults, PayoutInv, ReviewInv,
           [Next]_vars
    PROVE  ReviewInv'
<1>1. ControlType /\ JobsExpire /\ PaidOut /\ ApprovalInv
  BY DEF IInv, PayoutInv, ReviewInv
<1>2. ApprovalInv'
  BY <1>1, ApprovalKept
<1>3. CASE UNCHANGED <<verdict, paid, pc, req>>
  BY <1>3 DEF ReviewInv, PaidHasVerdict, TurnedDownUnpaid, ApprovalInv, ApprovalOf,
              HandlersApprove
<1>4. ASSUME NEW p \in Jobs, Overdue(p)
      PROVE  PaidHasVerdict' /\ TurnedDownUnpaid'
  <2>1. /\ UNCHANGED <<verdict, paid>>
        /\ \A q \in Handlers : pc'[q] = pc[q] /\ req'[q] = req[q]
    BY <1>1, <1>4, OverdueMoves DEF world
  <2>2. QED BY <2>1 DEF ReviewInv, PaidHasVerdict, TurnedDownUnpaid
<1>5. ASSUME NEW p \in Handlers, Request(p) \/ Steps1(p)
      PROVE  PaidHasVerdict' /\ TurnedDownUnpaid'
  BY <1>1, <1>5, ReviewRequest, ReviewHandlerStep
<1>6. ASSUME NEW p \in Jobs, Steps1(p)
      PROVE  PaidHasVerdict' /\ TurnedDownUnpaid'
  BY <1>1, <1>6, ReviewJobStep
<1>7. QED
  BY <1>2, <1>3, <1>4, <1>5, <1>6, NextCases, OutsideStep DEF ReviewInv

=============================================================================
