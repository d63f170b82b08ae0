------------------------ MODULE TaskLifecycleProofs ------------------------
(***************************************************************************)
(* Theorems about TaskLifecycle, for any workers, handlers and jobs.        *)
(***************************************************************************)
EXTENDS TaskLifecycle, TLAPS

-----------------------------------------------------------------------------
(* The inductive invariant                                                  *)

(* Locked funds have reached a worker, and whoever sent them knows.         *)
PaidBy(w) == lock[w] = "released" /\ "release" \notin lost[w]
Released == \E w \in Workers : PaidBy(w)

AcceptedIsSettled ==
    \/ task.status = "completed"
    \/ paid # {}
    \/ \E w \in Workers : verdict[w] = "accepted"
    => Released

WorldType ==
    /\ task \in [status : AllStatuses,
                 executor : Workers \cup {NoWorker}, tx : BOOLEAN]
    /\ escrow \in [status : EscrowStatuses, payee : Workers \cup {NoWorker}]
    /\ lock \in [Workers -> {"none", "locked", "released", "refunded"}]
    /\ lost \in [Workers -> SUBSET {"release", "refund"}]
    /\ verdict \in [Workers -> Verdicts]
    /\ latest \in Workers \cup {NoWorker}
    /\ dispute \in [Disputes -> [of : Workers \cup {NoWorker}, open : BOOLEAN]]
    /\ paid \subseteq Workers
    /\ late \in BOOLEAN

ControlType ==
    /\ pc \in [Procs -> Steps]
    /\ req \in [Procs -> Reqs]

(* A row that can be settled names the worker of a lock.                    *)
PayeeKnown ==
    escrow.status \in {"deposited", "releasing", "refunding"}
        => escrow.payee \in Workers

(* What the locals r of a process hold at step s.                           *)
Fits(s, r) ==
    /\ s \in {"approveCheck", "settle"} => r.kind = "approve"
    /\ s = "cancelCheck" => r.kind = "cancel"
    /\ s \in {"deadline", "expire"} => r.kind = "expire"
    /\ s \in {"claim", "send"}
          => r.kind \in {"approve", "cancel", "expire", "resolve"}
    /\ s = "resolveWrite" => r.kind = "resolve" /\ r.row \in Disputes
    /\ s \in {"disputeCheck", "disputeInsert"} => r.worker \in Workers
    /\ s = "book" => r.kind \in {"approve", "cancel"}
    /\ s \in {"assignCheck", "accept", "recordLock", "approveCheck", "settle"}
          => r.worker \in Workers
    /\ s \in {"claim", "send", "book"} /\ r.kind = "approve"
          => r.worker \in Workers
    /\ s = "send" => r.payee \in Workers
    /\ s \in {"assignCheck", "accept"} => r.status = "published"

(* The steps that follow a payment.                                         *)
AfterPay(s, r) ==
    \/ s \in {"verdict", "complete"}
    \/ s = "book" /\ r.kind = "approve"

ControlInv ==
    \A p \in Procs : /\ Fits(pc[p], req[p])
                     /\ AfterPay(pc[p], req[p]) => Released

IInv ==
    /\ WorldType
    /\ ControlType
    /\ PayeeKnown
    /\ ControlInv
    /\ AcceptedIsSettled

world == <<task, escrow, lock, lost, verdict, latest, dispute, paid, late>>

LEMMA TypeParts == TypeOK <=> WorldType /\ ControlType
BY DEF TypeOK, WorldType, ControlType

-----------------------------------------------------------------------------
(* How a process moves                                                      *)

(* A move of one process to step s with locals r.                           *)
LEMMA Move ==
    ASSUME ControlType, ControlInv, Released => Released',
           NEW p \in Procs, NEW s \in Steps, NEW r \in Reqs,
           pc' = [pc EXCEPT ![p] = s], req' = [req EXCEPT ![p] = r],
           Fits(s, r), AfterPay(s, r) => Released'
    PROVE  ControlType' /\ ControlInv'
<1>1. ControlType'
  BY DEF ControlType
<1>2. ASSUME NEW q \in Procs
      PROVE  Fits(pc'[q], req'[q]) /\ (AfterPay(pc'[q], req'[q]) => Released')
  <2>1. CASE q = p
    <3>1. pc'[q] = s /\ req'[q] = r
      BY <2>1 DEF ControlType
    <3>2. QED BY <3>1
  <2>2. CASE q # p
    <3>1. pc'[q] = pc[q] /\ req'[q] = req[q]
      BY <2>2 DEF ControlType
    <3>2. QED BY <3>1 DEF ControlInv
  <2>3. QED BY <2>1, <2>2
<1>3. QED BY <1>1, <1>2 DEF ControlInv

LEMMA GotoMove ==
    ASSUME ControlType, ControlInv, Released => Released',
           NEW p \in Procs, NEW s \in Steps, Goto(p, s),
           Fits(s, req[p]), AfterPay(s, req[p]) => Released'
    PROVE  ControlType' /\ ControlInv'
<1>1. req[p] \in Reqs
  BY DEF ControlType
<1>2. req' = [req EXCEPT ![p] = req[p]]
  BY DEF Goto, ControlType
<1>3. pc' = [pc EXCEPT ![p] = s]
  BY DEF Goto
<1>4. QED BY <1>1, <1>2, <1>3, Move

LEMMA NoReqType == NoReq \in Reqs
BY LifecycleConstants
   DEF LifecycleConstants, NoReq, Reqs, AllStatuses, OpenStatuses

LEMMA ReturnMove ==
    ASSUME ControlType, ControlInv, Released => Released',
           NEW p \in Procs, Return(p)
    PROVE  ControlType' /\ ControlInv'
<1>1. "idle" \in Steps /\ Fits("idle", NoReq) /\ ~AfterPay("idle", NoReq)
  BY DEF Steps, Fits, AfterPay
<1>2. pc' = [pc EXCEPT ![p] = "idle"] /\ req' = [req EXCEPT ![p] = NoReq]
  BY DEF Return
<1>3. QED BY <1>1, <1>2, NoReqType, Move

(* A step that changes nothing but the control.                             *)
LEMMA QuietStep ==
    ASSUME IInv, UNCHANGED world, ControlType', ControlInv'
    PROVE  IInv'
BY DEF IInv, world, WorldType, PayeeKnown, AcceptedIsSettled, Released, PaidBy

LEMMA QuietReleased ==
    ASSUME lock' = lock, lost' = lost
    PROVE  Released => Released'
BY DEF Released, PaidBy

(* A step that leaves the funds alone and accepts, completes or records     *)
(* nothing unless funds have reached a worker.                              *)
LEMMA StillPaid ==
    ASSUME IInv, Released => Released',
           \/ Released
           \/ /\ task'.status = "completed" => task.status = "completed"
              /\ \A w \in Workers :
                    verdict'[w] = "accepted" => verdict[w] = "accepted"
              /\ paid' = paid
    PROVE  AcceptedIsSettled'
BY DEF IInv, AcceptedIsSettled

-----------------------------------------------------------------------------
(* Requests                                                                 *)

(* A request begins at a step that none of its locals contradicts.          *)
LEMMA BeginStep ==
    ASSUME IInv, LifecycleConstants, NEW p \in Procs, NEW kind \in AllRequests,
           NEW w \in Workers \cup {NoWorker}, NEW flag \in BOOLEAN,
           NEW s \in Steps, Begin(p, kind, w, flag, s),
           \/ /\ s \in {"assignCheck", "submitCheck", "disputeCheck"}
              /\ w \in Workers
           \/ s \in {"approveCheck", "settle"} /\ w \in Workers /\ kind = "approve"
           \/ s \in {"rejectRead", "infoWrite"}
           \/ s = "cancelCheck" /\ kind = "cancel"
    PROVE  IInv'
<1> DEFINE r == [NoReq EXCEPT !.kind = kind, !.worker = w, !.flag = flag]
<1>1. r \in Reqs /\ r.kind = kind /\ r.worker = w /\ r.status = "published"
  BY NoReqType DEF NoReq, Reqs
<1>2. Fits(s, r) /\ ~AfterPay(s, r)
  BY <1>1 DEF Fits, AfterPay
<1>3. pc' = [pc EXCEPT ![p] = s] /\ req' = [req EXCEPT ![p] = r]
  BY DEF Begin
<1>4. UNCHANGED world
  BY DEF Begin, world
<1>5. Released => Released'
  BY <1>4, QuietReleased DEF world
<1>6. ControlType' /\ ControlInv'
  <2> HIDE DEF r
  <2> QED BY <1>1, <1>2, <1>3, <1>5, Move DEF IInv
<1>7. QED BY <1>4, <1>6, QuietStep

LEMMA ResolveBegins ==
    ASSUME IInv, NEW p \in Procs, NEW d \in Disputes, NEW refund \in BOOLEAN,
           Resolve(p, d, refund)
    PROVE  IInv'
<1> DEFINE r == [NoReq EXCEPT !.kind = "resolve", !.row = d, !.flag = refund]
<1>1. /\ r \in Reqs /\ "resolveWrite" \in Steps
      /\ r.kind = "resolve" /\ r.row = d
  BY NoReqType DEF NoReq, Reqs, AllRequests, Steps
<1>2. Fits("resolveWrite", r) /\ ~AfterPay("resolveWrite", r)
  BY <1>1 DEF Fits, AfterPay
<1>3. pc' = [pc EXCEPT ![p] = "resolveWrite"] /\ req' = [req EXCEPT ![p] = r]
  BY DEF Resolve
<1>4. UNCHANGED world
  BY DEF Resolve, world
<1>5. Released => Released'
  BY <1>4, QuietReleased DEF world
<1>6. ControlType' /\ ControlInv'
  <2> HIDE DEF r
  <2> QED BY <1>1, <1>2, <1>3, <1>5, Move DEF IInv
<1>7. QED BY <1>4, <1>6, QuietStep

LEMMA RequestStep ==
    ASSUME IInv, LifecycleConstants, NEW p \in Handlers, Request(p)
    PROVE  IInv'
<1>1. p \in Procs
  BY DEF Procs
<1>2. Requests \subseteq AllRequests
  BY DEF LifecycleConstants
<1>3. {"assignCheck", "submitCheck", "approveCheck", "settle", "rejectRead",
       "infoWrite", "cancelCheck", "disputeCheck"} \subseteq Steps
  BY DEF Steps
<1>4. {"assign", "submit", "approve", "reject", "moreInfo", "cancel",
       "dispute"} \subseteq AllRequests
  BY DEF AllRequests
<1>5. CASE Cancel(p)
  BY <1>1, <1>3, <1>4, <1>5, BeginStep DEF Cancel
<1>6. ASSUME NEW w \in Workers, NEW fresh \in BOOLEAN, Assign(p, w, fresh)
      PROVE  IInv'
  BY <1>1, <1>3, <1>4, <1>6, BeginStep DEF Assign
<1>7. ASSUME NEW w \in Workers, Submit(p, w)
      PROVE  IInv'
  BY <1>1, <1>3, <1>4, <1>7, BeginStep DEF Submit
<1>8. ASSUME NEW w \in Workers, Approve(p, w)
      PROVE  IInv'
  BY <1>1, <1>3, <1>4, <1>8, BeginStep DEF Approve
<1>9. ASSUME NEW w \in Workers, NEW major \in BOOLEAN, Reject(p, w, major)
      PROVE  IInv'
  BY <1>1, <1>3, <1>4, <1>9, BeginStep DEF Reject
<1>10. ASSUME NEW w \in Workers, MoreInfo(p, w)
       PROVE  IInv'
  BY <1>1, <1>3, <1>4, <1>10, BeginStep DEF MoreInfo
<1>11. ASSUME NEW w \in Workers, Dispute(p, w)
       PROVE  IInv'
  BY <1>1, <1>3, <1>4, <1>11, BeginStep DEF Dispute
<1>12. ASSUME NEW d \in Disputes, NEW refund \in BOOLEAN, Resolve(p, d, refund)
       PROVE  IInv'
  BY <1>1, <1>12, ResolveBegins
<1>13. QED
  BY <1>5, <1>6, <1>7, <1>8, <1>9, <1>10, <1>11, <1>12 DEF Request

-----------------------------------------------------------------------------
(* Steps that only read                                                     *)

LEMMA ReadStep ==
    ASSUME IInv, NEW p \in Procs, UNCHANGED world,
           \/ Return(p)
           \/ \E s \in Steps : /\ Goto(p, s)
                               /\ Fits(s, req[p])
                               /\ AfterPay(s, req[p]) => Released
    PROVE  IInv'
<1>1. lock' = lock /\ lost' = lost
  BY DEF world
<1>2. Released => Released'
  BY <1>1, QuietReleased
<1>3. CASE Return(p)
  BY <1>2, <1>3, ReturnMove, QuietStep DEF IInv
<1>4. ASSUME NEW s \in Steps, Goto(p, s), Fits(s, req[p]),
             AfterPay(s, req[p]) => Released
      PROVE  IInv'
  BY <1>2, <1>4, GotoMove, QuietStep DEF IInv
<1>5. QED BY <1>3, <1>4

LEMMA CheckSteps ==
    ASSUME IInv, NEW p \in Procs,
           \/ AssignCheck(p) \/ SubmitCheck(p) \/ ApproveCheck(p)
           \/ CancelCheck(p) \/ Recheck(p) \/ Settle(p) \/ DisputeCheck(p)
    PROVE  IInv'
<1> USE DEF world
<1>1. Fits(pc[p], req[p]) /\ (AfterPay(pc[p], req[p]) => Released)
  BY DEF IInv, ControlInv
<1>2. {"accept", "submission", "settle", "claim", "recheck", "cancelWrite",
       "verdict", "disputeInsert"} \subseteq Steps
  BY DEF Steps
<1>3. CASE AssignCheck(p)
  BY <1>1, <1>2, <1>3, ReadStep DEF AssignCheck, Fits, AfterPay
<1>4. CASE SubmitCheck(p)
  BY <1>1, <1>2, <1>4, ReadStep DEF SubmitCheck, Fits, AfterPay
<1>5. CASE ApproveCheck(p)
  BY <1>1, <1>2, <1>5, ReadStep DEF ApproveCheck, Fits, AfterPay
<1>6. CASE CancelCheck(p)
  BY <1>1, <1>2, <1>6, ReadStep DEF CancelCheck, Fits, AfterPay
<1>7. CASE Recheck(p)
  BY <1>1, <1>2, <1>7, ReadStep DEF Recheck, Fits, AfterPay
<1>8. CASE Settle(p)
  <2>1. req[p].worker \in paid => Released
    BY DEF IInv, AcceptedIsSettled, Released
  <2>2. QED
    BY <1>1, <1>2, <1>8, <2>1, ReadStep DEF Settle, Fits, AfterPay
<1>9. CASE DisputeCheck(p)
  BY <1>1, <1>2, <1>9, ReadStep DEF DisputeCheck, Fits, AfterPay
<1>10. QED BY <1>3, <1>4, <1>5, <1>6, <1>7, <1>8, <1>9

-----------------------------------------------------------------------------
(* Steps that write task, escrow, submission or payment, but move no funds  *)

(* It is enough that the process moves on soundly, that what is written has *)
(* its type, that a row that can be settled has its payee, and that         *)
(* nothing is accepted or recorded before funds have moved.                 *)
LEMMA WriteStep ==
    ASSUME IInv, NEW p \in Procs, Released => Released', WorldType', PayeeKnown',
           \/ Return(p)
           \/ \E s \in Steps : /\ Goto(p, s)
                               /\ Fits(s, req[p])
                               /\ AfterPay(s, req[p]) => Released
           \/ \E s \in Steps, r \in Reqs :
                 /\ pc' = [pc EXCEPT ![p] = s]
                 /\ req' = [req EXCEPT ![p] = r]
                 /\ Fits(s, r)
                 /\ AfterPay(s, r) => Released,
           \/ Released
           \/ /\ task'.status = "completed" => task.status = "completed"
              /\ \A w \in Workers :
                    verdict'[w] = "accepted" => verdict[w] = "accepted"
              /\ paid' = paid
    PROVE  IInv'
<1>1. AcceptedIsSettled'
  BY StillPaid
<1>2. ControlType' /\ ControlInv'
  <2>1. CASE Return(p)
    BY <2>1, ReturnMove DEF IInv
  <2>2. ASSUME NEW s \in Steps, Goto(p, s), Fits(s, req[p]),
               AfterPay(s, req[p]) => Released
        PROVE  ControlType' /\ ControlInv'
    BY <2>2, GotoMove DEF IInv
  <2>3. ASSUME NEW s \in Steps, NEW r \in Reqs,
               pc' = [pc EXCEPT ![p] = s], req' = [req EXCEPT ![p] = r],
               Fits(s, r), AfterPay(s, r) => Released
        PROVE  ControlType' /\ ControlInv'
    BY <2>3, Move DEF IInv
  <2>4. QED BY <2>1, <2>2, <2>3
<1>3. QED BY <1>1, <1>2 DEF IInv

LEMMA AcceptStep ==
    ASSUME IInv, NEW p \in Procs, Accept(p)
    PROVE  IInv'
<1> DEFINE s == IF req[p].flag THEN "recordLock" ELSE "guard"
           r == [req[p] EXCEPT !.tx = task.tx]
<1>1. s \in Steps
  BY DEF Steps
<1>2. req[p].worker \in Workers
  BY DEF IInv, ControlInv, Fits, Accept
<1>3. r \in Reqs /\ r.worker = req[p].worker
  BY DEF IInv, ControlType, WorldType, Reqs
<1>4. Fits(s, r) /\ ~AfterPay(s, r)
  BY <1>2, <1>3 DEF Fits, AfterPay
<1>5. pc' = [pc EXCEPT ![p] = s] /\ req' = [req EXCEPT ![p] = r]
  BY DEF Accept, IInv, ControlType
<1>6. WorldType' /\ PayeeKnown'
  BY <1>2 DEF IInv, WorldType, PayeeKnown, Accept, OpenStatuses,
            AllStatuses
<1>7. /\ task'.status # "completed" /\ lock' = lock /\ lost' = lost
      /\ verdict' = verdict /\ paid' = paid
  BY DEF Accept, IInv, WorldType
<1>8. QED
  <2> HIDE DEF s, r
  <2> QED BY <1>1, <1>3, <1>4, <1>5, <1>6, <1>7, QuietReleased, WriteStep

LEMMA RecordLockStep ==
    ASSUME IInv, NEW p \in Procs, RecordLock(p)
    PROVE  IInv'
<1>1. req[p].worker \in Workers
  BY DEF IInv, ControlInv, Fits, RecordLock
<1>2. WorldType' /\ PayeeKnown'
  BY <1>1 DEF IInv, WorldType, PayeeKnown, RecordLock, EscrowStatuses
<1>3. "recordTx" \in Steps /\ Fits("recordTx", req[p]) /\ ~AfterPay("recordTx", req[p])
  BY DEF Steps, Fits, AfterPay
<1>4. "guard" \in Steps /\ Fits("guard", req[p]) /\ ~AfterPay("guard", req[p])
  BY DEF Steps, Fits, AfterPay
<1>5. lock' = lock /\ lost' = lost /\ task' = task /\ verdict' = verdict /\ paid' = paid
  BY DEF RecordLock
<1>6. QED BY <1>2, <1>3, <1>4, <1>5, QuietReleased, WriteStep DEF RecordLock

(* Writes of the task that leave it open, cancelled or expired.             *)
LEMMA TaskWrites ==
    ASSUME IInv, NEW p \in Procs,
           \/ RecordTx(p) \/ Guard(p) \/ Submitted(p) \/ Reopen(p)
           \/ Resume(p) \/ CancelWrite(p) \/ Expire(p)
    PROVE  IInv'
<1>1. /\ "guard" \in Steps /\ Fits("guard", req[p])
      /\ ~AfterPay("guard", req[p])
  BY DEF Steps, Fits, AfterPay
<1>2. UNCHANGED <<escrow, lock, lost, verdict, latest, dispute, paid, late>>
  BY DEF RecordTx, Guard, Submitted, Reopen, Resume, CancelWrite, Expire
<1>3. /\ task' \in [status : AllStatuses,
                    executor : Workers \cup {NoWorker}, tx : BOOLEAN]
      /\ task'.status = "completed" => task.status = "completed"
  BY DEF RecordTx, Guard, Submitted, Reopen, Resume, CancelWrite, Expire,
         IInv, WorldType, AllStatuses, OpenStatuses, ClosedStatuses
<1>4. WorldType' /\ PayeeKnown'
  BY <1>2, <1>3 DEF IInv, WorldType, PayeeKnown
<1>5. CASE Expire(p)
  <2>1. req[p].kind = "expire"
    BY <1>5 DEF Expire, IInv, ControlInv, Fits
  <2>2. /\ "claim" \in Steps /\ Fits("claim", req[p])
        /\ ~AfterPay("claim", req[p])
    BY <2>1 DEF Steps, Fits, AfterPay
  <2>3. Goto(p, "claim")
    BY <1>5 DEF Expire
  <2>4. QED BY <1>2, <1>3, <1>4, <2>2, <2>3, QuietReleased, WriteStep
<1>6. CASE ~Expire(p)
  <2>1. Return(p) \/ Goto(p, "guard")
    BY <1>6 DEF RecordTx, Guard, Submitted, Reopen, Resume, CancelWrite
  <2>2. QED BY <1>1, <1>2, <1>3, <1>4, <2>1, QuietReleased, WriteStep
<1>7. QED BY <1>5, <1>6

LEMMA SubmissionStep ==
    ASSUME IInv, NEW p \in Procs, Submission(p)
    PROVE  IInv'
<1>1. WorldType' /\ PayeeKnown'
  BY DEF IInv, WorldType, PayeeKnown, Submission, ControlType, Reqs,
         AllStatuses, OpenStatuses, Verdicts
<1>2. /\ "submitted" \in Steps /\ Fits("submitted", req[p])
      /\ ~AfterPay("submitted", req[p])
  BY DEF Steps, Fits, AfterPay
<1>3. /\ task'.status = "completed" => task.status = "completed"
      /\ \A w \in Workers : verdict'[w] = "accepted" => verdict[w] = "accepted"
  BY DEF Submission, IInv, WorldType
<1>4. lock' = lock /\ lost' = lost /\ paid' = paid /\ Goto(p, "submitted")
  BY DEF Submission
<1>5. QED BY <1>1, <1>2, <1>3, <1>4, QuietReleased, WriteStep

(* The other verdicts: rejected and more_info.                              *)
LEMMA VerdictWrites ==
    ASSUME IInv, NEW p \in Procs, RejectWrite(p) \/ InfoWrite(p)
    PROVE  IInv'
<1>1. UNCHANGED <<task, escrow, lock, lost, latest, dispute, paid, late>>
  BY DEF RejectWrite, InfoWrite
<1>2. /\ verdict' \in [Workers -> Verdicts]
      /\ \A w \in Workers : verdict'[w] = "accepted" => verdict[w] = "accepted"
  BY DEF RejectWrite, InfoWrite, IInv, WorldType, Verdicts
<1>3. WorldType' /\ PayeeKnown'
  BY <1>1, <1>2 DEF IInv, WorldType, PayeeKnown
<1>4. \A s \in {"reopen", "resume"} :
         s \in Steps /\ Fits(s, req[p]) /\ ~AfterPay(s, req[p])
  BY DEF Steps, Fits, AfterPay
<1>5. \/ Return(p)
      \/ Goto(p, "reopen")
      \/ Goto(p, "resume")
  BY DEF RejectWrite, InfoWrite
<1>6. QED BY <1>1, <1>2, <1>3, <1>4, <1>5, QuietReleased, WriteStep

LEMMA RejectReadStep ==
    ASSUME IInv, NEW p \in Procs, RejectRead(p)
    PROVE  IInv'
<1> DEFINE r == [req[p] EXCEPT !.status = task.status]
<1>1. r \in Reqs /\ "rejectWrite" \in Steps
  BY DEF IInv, ControlType, WorldType, Reqs, Steps
<1>2. Fits("rejectWrite", r) /\ ~AfterPay("rejectWrite", r)
  BY DEF Fits, AfterPay
<1>3. pc' = [pc EXCEPT ![p] = "rejectWrite"] /\ req' = [req EXCEPT ![p] = r]
  BY DEF RejectRead, IInv, ControlType
<1>4. UNCHANGED world
  BY DEF RejectRead, world
<1>5. WorldType' /\ PayeeKnown'
  BY <1>4 DEF world, IInv, WorldType, PayeeKnown
<1>6. QED
  <2> HIDE DEF r
  <2> QED BY <1>1, <1>2, <1>3, <1>4, <1>5, QuietReleased, WriteStep DEF world

(* A dispute and its resolution complete, accept and record nothing.        *)
LEMMA DisputeWrites ==
    ASSUME IInv, NEW p \in Procs,
           DisputeInsert(p) \/ DisputeVerdict(p) \/ ResolveWrite(p)
    PROVE  IInv'
<1>1. UNCHANGED <<escrow, lock, lost, latest, paid, late>>
  BY DEF DisputeInsert, DisputeVerdict, ResolveWrite
<1>2. /\ task' \in [status : AllStatuses,
                    executor : Workers \cup {NoWorker}, tx : BOOLEAN]
      /\ task'.status = "completed" => task.status = "completed"
  BY DEF DisputeInsert, DisputeVerdict, ResolveWrite, IInv, WorldType,
         AllStatuses, ClosedStatuses
<1>3. /\ verdict' \in [Workers -> Verdicts]
      /\ \A w \in Workers : verdict'[w] = "accepted" => verdict[w] = "accepted"
  BY DEF DisputeInsert, DisputeVerdict, ResolveWrite, IInv, WorldType, Verdicts
<1>4. dispute' \in [Disputes -> [of : Workers \cup {NoWorker}, open : BOOLEAN]]
  <2>1. Fits(pc[p], req[p])
    BY DEF IInv, ControlInv
  <2>2. CASE DisputeInsert(p)
    <3>1. req[p].worker \in Workers
      BY <2>1, <2>2 DEF DisputeInsert, Fits
    <3> DEFINE new == [of |-> req[p].worker, open |-> TRUE]
    <3>2. \/ dispute' = dispute
          \/ \E d \in Disputes : dispute' = [dispute EXCEPT ![d] = new]
      BY <2>2 DEF DisputeInsert
    <3>3. new \in [of : Workers \cup {NoWorker}, open : BOOLEAN]
      BY <3>1
    <3>4. QED
      <4> HIDE DEF new
      <4> QED BY <3>2, <3>3 DEF IInv, WorldType
  <2>3. CASE DisputeVerdict(p)
    BY <2>3 DEF DisputeVerdict, IInv, WorldType
  <2>4. CASE ResolveWrite(p)
    <3> DEFINE row == req[p].row
    <3>1. row \in Disputes
      BY <2>1, <2>4 DEF ResolveWrite, Fits
    <3>2. dispute' = [dispute EXCEPT ![row].open = FALSE]
      BY <2>4 DEF ResolveWrite
    <3>3. QED
      <4> HIDE DEF row
      <4> QED BY <3>1, <3>2 DEF IInv, WorldType
  <2>5. QED BY <2>2, <2>3, <2>4
<1>5. WorldType' /\ PayeeKnown'
  BY <1>1, <1>2, <1>3, <1>4 DEF IInv, WorldType, PayeeKnown
<1>6. /\ "disputeVerdict" \in Steps /\ Fits("disputeVerdict", req[p])
      /\ ~AfterPay("disputeVerdict", req[p])
  BY DEF Steps, Fits, AfterPay
<1>7. pc[p] = "resolveWrite"
         => /\ "claim" \in Steps /\ Fits("claim", req[p])
            /\ ~AfterPay("claim", req[p])
  BY DEF Steps, Fits, AfterPay, IInv, ControlInv
<1>8. \/ Return(p)
      \/ Goto(p, "disputeVerdict")
      \/ pc[p] = "resolveWrite" /\ Goto(p, "claim")
  BY DEF DisputeInsert, DisputeVerdict, ResolveWrite
<1>9. QED BY <1>1, <1>2, <1>3, <1>5, <1>6, <1>7, <1>8, QuietReleased, WriteStep

(* The writes of an approval follow the payment.                            *)
LEMMA ApprovalWrites ==
    ASSUME IInv, NEW p \in Procs, AcceptWork(p) \/ Complete(p)
    PROVE  IInv'
<1>1. Released
  BY DEF AcceptWork, Complete, IInv, ControlInv, AfterPay
<1>2. WorldType' /\ PayeeKnown'
  BY DEF AcceptWork, Complete, IInv, WorldType, PayeeKnown, Verdicts,
         AllStatuses, ClosedStatuses
<1>3. "complete" \in Steps /\ Fits("complete", req[p])
  BY DEF Steps, Fits
<1>4. lock' = lock /\ lost' = lost /\ (Return(p) \/ Goto(p, "complete"))
  BY DEF AcceptWork, Complete
<1>5. QED BY <1>1, <1>2, <1>3, <1>4, QuietReleased, WriteStep

-----------------------------------------------------------------------------
(* Settlement                                                               *)

LEMMA OperationStatus ==
    ASSUME NEW p
    PROVE  /\ Claimed(Operation(p)) \in EscrowStatuses
           /\ Settled(Operation(p)) \in EscrowStatuses
           /\ Settled(Operation(p)) \in {"released", "refunded"}
BY DEF Claimed, Settled, Operation, EscrowStatuses

(* Where a settlement that failed goes on.                                  *)
LEMMA UnsettledGoes ==
    ASSUME IInv, NEW p \in Procs, Unsettled(p), Fits("claim", req[p])
    PROVE  \/ Return(p)
           \/ \E s \in Steps : /\ Goto(p, s)
                               /\ Fits(s, req[p])
                               /\ AfterPay(s, req[p]) => Released
           \/ \E s \in Steps, r \in Reqs :
                 /\ pc' = [pc EXCEPT ![p] = s]
                 /\ req' = [req EXCEPT ![p] = r]
                 /\ Fits(s, r)
                 /\ AfterPay(s, r) => Released
<1> DEFINE r == [req[p] EXCEPT !.tries = @ + 1]
<1>1. /\ "recheck" \in Steps /\ Fits("recheck", req[p])
      /\ ~AfterPay("recheck", req[p])
  BY DEF Steps, Fits, AfterPay
<1>2. CASE /\ req[p].kind = "expire"
           /\ req[p].tries + 1 < MaxJobRefunds
           /\ pc' = [pc EXCEPT ![p] = "claim"]
           /\ req' = [req EXCEPT ![p].tries = @ + 1]
  <2>1. req[p] \in Reqs /\ req[p].tries \in 0..MaxJobRefunds
    BY DEF IInv, ControlType, Reqs
  <2>2. req[p].tries + 1 \in 0..MaxJobRefunds
    BY <1>2, <2>1, LifecycleConstants DEF LifecycleConstants
  <2>3. /\ r \in Reqs /\ r.kind = "expire"
        /\ req' = [req EXCEPT ![p] = r]
    BY <1>2, <2>1, <2>2 DEF IInv, ControlType, Reqs
  <2>4. "claim" \in Steps /\ Fits("claim", r) /\ ~AfterPay("claim", r)
    BY <2>3 DEF Steps, Fits, AfterPay
  <2>5. QED
    <3> HIDE DEF r
    <3> QED BY <1>2, <2>3, <2>4
<1>3. QED BY <1>1, <1>2 DEF Unsettled

LEMMA ClaimStep ==
    ASSUME IInv, NEW p \in Procs, Claim(p)
    PROVE  IInv'
<1>1. UNCHANGED <<task, lock, lost, verdict, latest, dispute, paid, late>>
  BY DEF Claim
<1>2. CASE /\ escrow.status = "deposited"
           /\ escrow' = [escrow EXCEPT !.status = Claimed(Operation(p))]
           /\ pc' = [pc EXCEPT ![p] = "send"]
           /\ req' = [req EXCEPT ![p].payee = escrow.payee]
  <2> DEFINE r == [req[p] EXCEPT !.payee = escrow.payee]
  <2>1. escrow.payee \in Workers
    BY <1>2 DEF IInv, PayeeKnown
  <2>2. WorldType' /\ PayeeKnown'
    BY <1>1, <1>2, <2>1, OperationStatus DEF IInv, WorldType, PayeeKnown
  <2>3. /\ r \in Reqs /\ "send" \in Steps
        /\ r.kind = req[p].kind /\ r.worker = req[p].worker
        /\ r.payee = escrow.payee
    BY <2>1 DEF IInv, ControlType, Reqs, Steps
  <2>4. Fits("claim", req[p])
    BY DEF Claim, IInv, ControlInv
  <2>5. Fits("send", r) /\ ~AfterPay("send", r)
    BY <2>1, <2>3, <2>4 DEF Fits, AfterPay
  <2>6. req' = [req EXCEPT ![p] = r]
    BY <1>2 DEF IInv, ControlType
  <2>7. QED
    <3> HIDE DEF r
    <3> QED BY <1>1, <1>2, <2>2, <2>3, <2>5, <2>6, QuietReleased, WriteStep
<1>3. CASE Unsettled(p) /\ UNCHANGED escrow
  <2>1. WorldType' /\ PayeeKnown'
    BY <1>1, <1>3 DEF IInv, WorldType, PayeeKnown
  <2>2. Fits("claim", req[p])
    BY DEF Claim, IInv, ControlInv
  <2>3. QED BY <1>1, <1>3, <2>1, <2>2, UnsettledGoes, QuietReleased, WriteStep
<1>4. CASE Return(p) /\ UNCHANGED escrow
  <2>1. WorldType' /\ PayeeKnown'
    BY <1>1, <1>4 DEF IInv, WorldType, PayeeKnown
  <2>2. QED BY <1>1, <1>4, <2>1, QuietReleased, WriteStep
<1>5. QED BY <1>2, <1>3, <1>4 DEF Claim

LEMMA SendFailStep ==
    ASSUME IInv, NEW p \in Procs, SendFail(p)
    PROVE  IInv'
<1>1. /\ UNCHANGED <<task, lock, verdict, latest, dispute, paid, late>>
      /\ Unsettled(p)
  BY DEF SendFail
<1>2. Fits("send", req[p])
  BY DEF SendFail, IInv, ControlInv
<1>3. Fits("claim", req[p])
  BY <1>2 DEF Fits
<1>4. lost' \in [Workers -> SUBSET {"release", "refund"}]
  BY <1>2 DEF SendFail, Fits, Operation, IInv, WorldType
<1>5. Released => Released'
  BY <1>2 DEF SendFail, Fits, Released, PaidBy, IInv, WorldType
<1>6. CASE escrow' = escrow
  <2>1. WorldType' /\ PayeeKnown'
    BY <1>1, <1>4, <1>6 DEF IInv, WorldType, PayeeKnown
  <2>2. QED BY <1>1, <1>3, <1>5, <2>1, UnsettledGoes, WriteStep
<1>7. CASE /\ escrow.status = Claimed(Operation(p))
           /\ escrow' = [escrow EXCEPT !.status = "deposited"]
  <2>1. escrow.payee \in Workers
    BY <1>7 DEF IInv, PayeeKnown, Claimed
  <2>2. escrow' \in [status : EscrowStatuses, payee : Workers \cup {NoWorker}]
    BY <1>7 DEF IInv, WorldType, EscrowStatuses
  <2>3. PayeeKnown'
    BY <1>7, <2>1 DEF IInv, WorldType, PayeeKnown
  <2>4. WorldType'
    BY <1>1, <1>4, <2>2 DEF IInv, WorldType
  <2>5. QED BY <1>1, <1>3, <1>5, <2>3, <2>4, UnsettledGoes, WriteStep
<1>8. QED BY <1>6, <1>7 DEF SendFail

(* A settlement moves funds: a release makes Released true, and none makes  *)
(* it false.                                                                *)
LEMMA SendOkStep ==
    ASSUME IInv, NEW p \in Procs, SendOk(p)
    PROVE  IInv'
<1> DEFINE w == req[p].payee
<1>1. w \in Workers /\ req[p].kind \in {"approve", "cancel", "expire", "resolve"}
  BY DEF SendOk, IInv, ControlInv, Fits
<1>2. /\ UNCHANGED <<task, escrow, verdict, latest, dispute, paid, late>>
      /\ lock' = [lock EXCEPT ![w] = Settled(Operation(p))]
      /\ lost' = [lost EXCEPT ![w] = {}]
      /\ lock[w] = "locked"
  BY DEF SendOk
<1>3. WorldType' /\ PayeeKnown'
  <2>1. lost' \in [Workers -> SUBSET {"release", "refund"}]
    BY DEF SendOk, IInv, WorldType
  <2>2. lock' \in [Workers -> {"none", "locked", "released", "refunded"}]
    BY <1>1, <1>2, OperationStatus DEF IInv, WorldType
  <2>3. QED BY <1>2, <2>1, <2>2 DEF IInv, WorldType, PayeeKnown
<1>4. Released => Released'
  BY <1>1, <1>2 DEF Released, PaidBy, IInv, WorldType
<1>5. req[p].kind = "approve" => Released'
  BY <1>1, <1>2 DEF Released, PaidBy, IInv, WorldType, Settled, Operation
<1>6. AcceptedIsSettled'
  BY <1>2, <1>4 DEF IInv, AcceptedIsSettled
<1>7. ControlType' /\ ControlInv'
  <2>1. CASE req[p].kind \in {"expire", "resolve"}
    BY <1>4, <2>1, ReturnMove DEF SendOk, IInv
  <2>2. CASE req[p].kind \notin {"expire", "resolve"}
    <3>1. Goto(p, "book") /\ "book" \in Steps
      BY <2>2 DEF SendOk, Steps
    <3>2. Fits("send", req[p])
      BY DEF SendOk, IInv, ControlInv
    <3>3. Fits("book", req[p])
      BY <2>2, <3>2 DEF Fits
    <3>4. AfterPay("book", req[p]) => Released'
      BY <1>5 DEF AfterPay
    <3>5. QED BY <1>4, <3>1, <3>3, <3>4, GotoMove DEF IInv
  <2>3. QED BY <2>1, <2>2
<1>8. QED BY <1>3, <1>6, <1>7 DEF IInv

LEMMA BookStep ==
    ASSUME IInv, NEW p \in Procs, Book(p)
    PROVE  IInv'
<1>1. UNCHANGED <<task, lock, lost, verdict, latest, dispute, late>>
  BY DEF Book
<1>2. /\ Fits("book", req[p])
      /\ req[p].kind = "approve" => Released
  BY DEF Book, IInv, ControlInv, AfterPay
<1>3. /\ escrow' \in [status : EscrowStatuses, payee : Workers \cup {NoWorker}]
      /\ PayeeKnown'
  BY OperationStatus DEF Book, IInv, WorldType, PayeeKnown
<1>4. /\ paid' \subseteq Workers
      /\ paid' = paid \/ Released
  BY <1>2 DEF Book, IInv, WorldType, Fits, Operation
<1>5. WorldType'
  BY <1>1, <1>3, <1>4 DEF IInv, WorldType
<1>6. \/ Return(p)
      \/ \E s \in Steps : /\ Goto(p, s)
                          /\ Fits(s, req[p])
                          /\ AfterPay(s, req[p]) => Released
  <2>1. /\ "recheck" \in Steps /\ Fits("recheck", req[p])
        /\ ~AfterPay("recheck", req[p])
    BY DEF Steps, Fits, AfterPay
  <2>2. "verdict" \in Steps /\ Fits("verdict", req[p])
    BY DEF Steps, Fits
  <2>3. QED BY <1>2, <2>1, <2>2 DEF Book
<1>7. QED BY <1>1, <1>3, <1>4, <1>5, <1>6, QuietReleased, WriteStep

(* The job completes only what has been paid.                               *)
LEMMA DeadlineStep ==
    ASSUME IInv, NEW p \in Procs, Deadline(p)
    PROVE  IInv'
<1>1. UNCHANGED world
  BY DEF Deadline, world
<1>2. WorldType' /\ PayeeKnown'
  BY <1>1 DEF world, IInv, WorldType, PayeeKnown
<1>3. CASE /\ latest \in paid
           /\ pc' = [pc EXCEPT ![p] = "verdict"]
           /\ req' = [req EXCEPT ![p].worker = latest]
  <2> DEFINE r == [req[p] EXCEPT !.worker = latest]
  <2>1. r \in Reqs /\ "verdict" \in Steps
    BY DEF IInv, ControlType, WorldType, Reqs, Steps
  <2>2. Released
    BY <1>3 DEF IInv, AcceptedIsSettled, Released
  <2>3. Fits("verdict", r)
    BY DEF Fits
  <2>4. req' = [req EXCEPT ![p] = r]
    BY <1>3 DEF IInv, ControlType
  <2>5. QED
    <3> HIDE DEF r
    <3> QED BY <1>1, <1>2, <1>3, <2>1, <2>2, <2>3, <2>4, QuietReleased, WriteStep DEF world
<1>4. CASE Return(p)
  BY <1>1, <1>4, ReadStep
<1>5. CASE Goto(p, "expire")
  <2>1. req[p].kind = "expire"
    BY DEF Deadline, IInv, ControlInv, Fits
  <2>2. /\ "expire" \in Steps /\ Fits("expire", req[p])
        /\ ~AfterPay("expire", req[p])
    BY <2>1 DEF Steps, Fits, AfterPay
  <2>3. QED BY <1>1, <1>5, <2>2, ReadStep
<1>6. QED BY <1>3, <1>4, <1>5 DEF Deadline

-----------------------------------------------------------------------------
(* Every step of a process                                                  *)

LEMMA ProcessStep ==
    ASSUME IInv, NEW p \in Procs, Step(p)
    PROVE  IInv'
<1>1. CASE \/ AssignCheck(p) \/ SubmitCheck(p) \/ ApproveCheck(p)
           \/ CancelCheck(p) \/ Recheck(p) \/ Settle(p) \/ DisputeCheck(p)
  BY <1>1, CheckSteps
<1>2. CASE Accept(p) \/ RecordLock(p)
  BY <1>2, AcceptStep, RecordLockStep
<1>3. CASE \/ RecordTx(p) \/ Guard(p) \/ Submitted(p) \/ Reopen(p)
           \/ Resume(p) \/ CancelWrite(p) \/ Expire(p)
  BY <1>3, TaskWrites
<1>4. CASE Submission(p) \/ RejectWrite(p) \/ InfoWrite(p) \/ RejectRead(p)
  BY <1>4, SubmissionStep, VerdictWrites, RejectReadStep
<1>5. CASE AcceptWork(p) \/ Complete(p)
  BY <1>5, ApprovalWrites
<1>6. CASE Claim(p) \/ SendOk(p) \/ SendFail(p) \/ Book(p)
  BY <1>6, ClaimStep, SendOkStep, SendFailStep, BookStep
<1>7. CASE Deadline(p)
  BY <1>7, DeadlineStep
<1>8. CASE DisputeInsert(p) \/ DisputeVerdict(p) \/ ResolveWrite(p)
  BY <1>8, DisputeWrites
<1>9. QED
  BY <1>1, <1>2, <1>3, <1>4, <1>5, <1>6, <1>7, <1>8 DEF Step, SettleStep

LEMMA CrashStep ==
    ASSUME IInv, NEW p \in Procs, Crash(p)
    PROVE  IInv'
<1>1. UNCHANGED world /\ Return(p)
  BY DEF Crash, world
<1>2. QED BY <1>1, ReadStep

LEMMA OverdueStep ==
    ASSUME IInv, NEW p \in Procs, Overdue(p)
    PROVE  IInv'
<1> DEFINE s == IF task.status = "submitted" THEN "deadline" ELSE "expire"
           r == [req[p] EXCEPT !.kind = "expire"]
<1>1. UNCHANGED world
  BY DEF Overdue, world
<1>2. WorldType' /\ PayeeKnown'
  BY <1>1 DEF world, IInv, WorldType, PayeeKnown
<1>3. s \in Steps /\ r \in Reqs /\ r.kind = "expire"
  BY DEF IInv, ControlType, Reqs, Steps
<1>4. Fits(s, r) /\ ~AfterPay(s, r)
  BY <1>3 DEF Fits, AfterPay
<1>5. pc' = [pc EXCEPT ![p] = s] /\ req' = [req EXCEPT ![p] = r]
  BY DEF Overdue, IInv, ControlType
<1>6. QED
  <2> HIDE DEF s, r
  <2> QED BY <1>1, <1>2, <1>3, <1>4, <1>5, QuietReleased, WriteStep DEF world

(* The steps of nobody in particular: the publisher's lock, the clock, the  *)
(* reconciler, and a settlement that is carried out late.                   *)
LEMMA WorldStep ==
    ASSUME IInv,
           \/ \E w \in Workers : LockFunds(w)
           \/ \E w \in Workers, op \in {"release", "refund"} : Mine(w, op)
           \/ PassDeadline
           \/ Reconcile
    PROVE  IInv'
<1>1. /\ ControlType'
      /\ UNCHANGED <<task, verdict, latest, dispute, paid, pc, req>>
  BY DEF LockFunds, Mine, PassDeadline, Reconcile, IInv, ControlType
<1>2. Released => Released'
  BY DEF LockFunds, Mine, PassDeadline, Reconcile, Released, PaidBy, IInv, WorldType
<1>3. ControlInv' /\ AcceptedIsSettled'
  BY <1>1, <1>2 DEF IInv, ControlInv, AcceptedIsSettled
<1>4. WorldType' /\ PayeeKnown'
  <2>1. CASE \E w \in Workers : LockFunds(w)
    BY <2>1 DEF LockFunds, IInv, WorldType, PayeeKnown
  <2>2. CASE PassDeadline
    BY <2>2 DEF PassDeadline, IInv, WorldType, PayeeKnown
  <2>3. CASE Reconcile
    BY <2>3 DEF Reconcile, IInv, WorldType, PayeeKnown, EscrowStatuses
  <2>4. CASE \E w \in Workers, op \in {"release", "refund"} : Mine(w, op)
    BY <2>4 DEF Mine, Settled, IInv, WorldType, PayeeKnown
  <2>5. QED BY <2>1, <2>2, <2>3, <2>4
<1>5. QED BY <1>1, <1>3, <1>4 DEF IInv

LEMMA InitIInv ==
    ASSUME LifecycleConstants, Init
    PROVE  IInv
<1>1. ControlType
  BY NoReqType DEF Init, ControlType, Steps
<1>2. WorldType /\ PayeeKnown
  BY DEF Init, WorldType, PayeeKnown, AllStatuses, OpenStatuses,
         EscrowStatuses, Verdicts
<1>3. ControlInv
  BY DEF Init, ControlInv, Fits, AfterPay
<1>4. AcceptedIsSettled
  BY DEF Init, AcceptedIsSettled
<1>5. QED BY <1>1, <1>2, <1>3, <1>4 DEF IInv

LEMMA NextIInv ==
    ASSUME LifecycleConstants, IInv, [Next]_vars
    PROVE  IInv'
<1>1. CASE \E p \in Handlers : Request(p)
  BY <1>1, RequestStep
<1>2. CASE \E p \in Jobs : Overdue(p)
  BY <1>2, OverdueStep DEF Procs
<1>3. CASE \E p \in Procs : Step(p) \/ Crash(p)
  BY <1>3, ProcessStep, CrashStep
<1>4. CASE \/ \E w \in Workers : LockFunds(w)
           \/ \E w \in Workers, op \in {"release", "refund"} : Mine(w, op)
           \/ PassDeadline
           \/ Reconcile
  BY <1>4, WorldStep
<1>5. CASE UNCHANGED vars
  <2>1. UNCHANGED world /\ pc' = pc /\ req' = req
    BY <1>5 DEF vars, world
  <2>2. ControlType' /\ ControlInv'
    BY <2>1 DEF world, IInv, ControlType, ControlInv, Released, PaidBy
  <2>3. QED BY <2>1, <2>2, QuietStep
<1>6. QED BY <1>1, <1>2, <1>3, <1>4, <1>5 DEF Next

-----------------------------------------------------------------------------
(* The inductive invariant holds throughout.                                *)
THEOREM Inductive == Spec => []IInv
BY LifecycleConstants, InitIInv, NextIInv, PTL DEF Spec

(* Every reachable state is well typed: no handler or job leaves a status,  *)
(* verdict or local variable outside its range.                             *)
THEOREM TypeCorrect == Spec => []TypeOK
<1>1. IInv => TypeOK
  BY TypeParts DEF IInv
<1>2. QED BY <1>1, Inductive, PTL

(* A completed task, an accepted submission and a recorded payment mean that*)
(* locked funds have reached a worker: approve_submission and the job       *)
(* settle before they write, whoever else writes the same rows.             *)
THEOREM AcceptedOnlyIfPaid == Spec => []AcceptedIsPaid
<1>1. IInv => AcceptedIsPaid
  BY DEF IInv, AcceptedIsSettled, AcceptedIsPaid, Released, PaidBy
<1>2. QED BY <1>1, Inductive, PTL
=============================================================================
