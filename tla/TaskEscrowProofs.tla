-------------------------- MODULE TaskEscrowProofs --------------------------
(***************************************************************************)
(* Theorems about TaskLifecycle for one handler and any number of expiration*)
(* jobs: one worker is paid, a closed escrow row tells what became of the   *)
(* lock its payment_info names, no funds stay locked behind a task that was *)
(* called off, and a completed task stays completed.                        *)
(*                                                                          *)
(* A lock that was settled stays as it is.  So the row is true as long as it*)
(* names the lock that a request settles, from its claim until it closes    *)
(* the row: only an assignment names another lock, and the one handler      *)
(* cannot be at both.                                                       *)
(***************************************************************************)
EXTENDS TaskSequentialProofs

-----------------------------------------------------------------------------
(* The row and the lock it names                                            *)

(* The request to assign names a lock that exists.                          *)
FreshLock ==
    \A p \in Handlers :
        \/ pc[p] = "recordLock"
        \/ pc[p] \in {"assignCheck", "accept"} /\ req[p].flag
        => lock[req[p].worker] # "none"

(* A settlement of the handler is of the lock that the row names.           *)
HandlerSettles ==
    \A p \in Handlers : Settling(p) =>
        /\ escrow.payee = req[p].payee /\ escrow.payee \in Workers
        /\ pc[p] = "book" => lock[req[p].payee] = Settled(Operation(p))

RowNamed ==
    escrow.status # "pending" =>
        escrow.payee \in Workers /\ lock[escrow.payee] # "none"

RowInv == FreshLock /\ HandlerSettles /\ RowNamed /\ ClosedRowSettled

LEMMA InitRow ==
    ASSUME Init
    PROVE  RowInv
BY DEF Init, RowInv, FreshLock, HandlerSettles, RowNamed, ClosedRowSettled,
       Settling, Procs

-----------------------------------------------------------------------------
(* What a step does to the row and its lock                                 *)

Idles(p) == pc'[p] \notin {"send", "book"}

Replaces(p) ==
    /\ pc[p] = "recordLock" /\ Idles(p) /\ UNCHANGED lock
    /\ escrow' = [status |-> "deposited", payee |-> req[p].worker]

Takes(p) ==
    /\ pc[p] = "claim" /\ pc'[p] = "send" /\ UNCHANGED lock
    /\ req'[p].payee = escrow.payee /\ req'[p].kind = req[p].kind
    /\ escrow.status = "deposited"
    /\ escrow'.status = Claimed(Operation(p)) /\ escrow'.payee = escrow.payee

Settles(p) ==
    /\ pc[p] = "send" /\ UNCHANGED escrow
    /\ Idles(p) \/ (pc'[p] = "book" /\ req'[p] = req[p])
    /\ req[p].payee \in Workers /\ lock[req[p].payee] = "locked"
    /\ lock'[req[p].payee] = Settled(Operation(p))
    /\ \A v \in Workers : v # req[p].payee => lock'[v] = lock[v]

GivesBack(p) ==
    /\ pc[p] = "send" /\ Idles(p) /\ UNCHANGED lock
    /\ escrow.status = Claimed(Operation(p))
    /\ escrow'.status = "deposited" /\ escrow'.payee = escrow.payee

Books(p) ==
    /\ pc[p] = "book" /\ Idles(p) /\ UNCHANGED lock
    /\ escrow'.status = Settled(Operation(p)) /\ escrow'.payee = escrow.payee

LeavesRow(p) == Idles(p) /\ UNCHANGED <<escrow, lock>>

LEMMA RowEffects ==
    ASSUME WorldType, ControlType, ControlInv, NEW p \in Procs, Steps1(p)
    PROVE  \/ LeavesRow(p) \/ Replaces(p) \/ Takes(p) \/ Settles(p)
           \/ GivesBack(p) \/ Books(p)
<1>1. CASE SendOk(p)
  <2>1. /\ pc[p] = "send" /\ UNCHANGED escrow /\ lock[req[p].payee] = "locked"
        /\ lock' = [lock EXCEPT ![req[p].payee] = Settled(Operation(p))]
        /\ Return(p) \/ Goto(p, "book")
    BY <1>1 DEF SendOk
  <2>2. Idles(p) \/ (pc'[p] = "book" /\ req'[p] = req[p])
    BY <2>1, GotoEffect, ReturnEffect DEF Idles, Ends
  <2>3. req[p].payee \in Workers
    BY <2>1 DEF ControlInv, Fits
  <2>4. lock \in [Workers -> {"none", "locked", "released", "refunded"}]
    BY DEF WorldType
  <2>5. QED BY <2>1, <2>2, <2>3, <2>4 DEF Settles
<1>2. CASE ~SendOk(p)
  <2>1. UNCHANGED lock
    BY <1>2, LockMoves
  <2>2. pc'[p] # "book"
    <3>1. CASE AssignSteps(p)
      BY <3>1, AssignMoves DEF Goes, Ends
    <3>2. CASE ReviewSteps(p)
      BY <3>2, ReviewMoves DEF Goes, Ends
    <3>3. CASE CloseSteps(p)
      BY <3>3, CloseMoves DEF Goes, Ends
    <3>4. CASE SettleStep(p)
      BY <1>2, <3>4, SettleMoves DEF Goes, Ends
    <3>5. QED BY <3>1, <3>2, <3>3, <3>4 DEF Steps1
  <2>3. pc'[p] = "send" => Takes(p)
    <3>1. CASE AssignSteps(p)
      BY <3>1, AssignMoves DEF Goes, Ends
    <3>2. CASE ReviewSteps(p)
      BY <3>2, ReviewMoves DEF Goes, Ends
    <3>3. CASE CloseSteps(p)
      BY <3>3, CloseMoves DEF Goes, Ends
    <3>4. ASSUME SettleStep(p), pc'[p] = "send"
          PROVE  Takes(p)
      <4>1. /\ pc[p] = "claim" /\ SameRequest(p)
            /\ req'[p].payee = escrow.payee /\ escrow.status = "deposited"
            /\ escrow' = [escrow EXCEPT !.status = Claimed(Operation(p))]
        BY <3>4, SettleMoves DEF Goes, Ends
      <4>2. /\ escrow'.status = Claimed(Operation(p))
            /\ escrow'.payee = escrow.payee
        BY <4>1 DEF WorldType
      <4>3. QED BY <2>1, <3>4, <4>1, <4>2 DEF Takes, SameRequest
    <3>5. QED BY <3>1, <3>2, <3>3, <3>4 DEF Steps1
  <2>4. pc[p] = "claim" /\ escrow.status = "deposited" => UNCHANGED escrow \/ Takes(p)
    <3>1. CASE Claim(p)
      <4>1. CASE pc' = [pc EXCEPT ![p] = "send"]
        BY <2>3, <4>1 DEF ControlType
      <4>2. CASE UNCHANGED escrow
        BY <4>2
      <4>3. QED BY <3>1, <4>1, <4>2 DEF Claim
    <3>2. CASE UNCHANGED escrow
      BY <3>2
    <3>3. QED
      BY <3>1, <3>2
         DEF Steps1, AssignSteps, ReviewSteps, CloseSteps, SettleStep,
             AssignCheck, Accept, RecordLock, RecordTx, Guard, SubmitCheck,
             Submission, Submitted, ApproveCheck, AcceptWork, Complete,
             RejectRead, RejectWrite, Reopen, InfoWrite, Resume, DisputeCheck,
             DisputeInsert, DisputeVerdict, ResolveWrite, CancelCheck, Recheck,
             CancelWrite, Deadline, Expire, Crash, Settle, SendOk, SendFail, Book
  <2>5. CASE Takes(p)
    BY <2>5
  <2>6. CASE ~Takes(p)
    <3>1. Idles(p)
      BY <2>2, <2>3, <2>6 DEF Idles
    <3>2. CASE UNCHANGED escrow
      BY <2>1, <3>1, <3>2 DEF LeavesRow
    <3>3. CASE /\ pc[p] = "recordLock"
               /\ escrow' = [status |-> "deposited", payee |-> req[p].worker]
      BY <2>1, <3>1, <3>3 DEF Replaces
    <3>4. CASE /\ escrow'.payee = escrow.payee
               /\ SendFail(p) /\ escrow.status = Claimed(Operation(p))
               /\ escrow'.status = "deposited"
      BY <2>1, <3>1, <3>4 DEF GivesBack, SendFail
    <3>5. CASE /\ escrow'.payee = escrow.payee
               /\ Book(p) /\ escrow'.status = Settled(Operation(p))
      BY <2>1, <3>1, <3>5 DEF Books, Book
    <3>6. QED BY <2>4, <2>6, <3>2, <3>3, <3>4, <3>5, EscrowMoves
  <2>7. QED BY <2>5, <2>6
<1>3. QED BY <1>1, <1>2

(* Funds are locked once, and settled once.                                 *)
LEMMA LocksStay ==
    ASSUME IInv, [Next]_vars, NEW v \in Workers, lock[v] # "none"
    PROVE  /\ lock'[v] # "none"
           /\ lock[v] # "locked" => lock'[v] = lock[v]
<1>1. /\ WorldType /\ ControlType /\ ControlInv
      /\ lock[v] \in {"none", "locked", "released", "refunded"}
  BY DEF IInv, WorldType
<1>2. ASSUME NEW p \in Procs, Steps1(p)
      PROVE  UNCHANGED lock \/ Settles(p)
  BY <1>1, <1>2, RowEffects DEF LeavesRow, Replaces, Takes, GivesBack, Books
<1>3. ASSUME NEW p \in Procs, Settles(p)
      PROVE  /\ lock'[v] # "none"
             /\ lock[v] # "locked" => lock'[v] = lock[v]
  BY <1>3 DEF Settles, Settled
<1>4. ASSUME NEW p \in Handlers, Request(p)
      PROVE  UNCHANGED lock
  BY <1>1, <1>4, RequestMoves, LifecycleConstants DEF Procs, world
<1>5. CASE Outside
  BY <1>1, <1>5 DEF Outside, LockFunds, Mine, Reconcile, PassDeadline, Settled,
                    WorldType
<1>6. QED
  BY <1>2, <1>3, <1>4, <1>5, NextCases DEF Overdue, vars, Procs

(* How a handler gets to the steps of an assignment or a review.            *)
LEMMA RowArrives ==
    ASSUME ControlType, NEW p \in Procs, Steps1(p)
    PROVE  /\ pc'[p] \notin {"assignCheck", "submitCheck", "rejectRead"}
           /\ pc'[p] = "accept" =>
                 /\ pc[p] = "assignCheck" /\ req'[p].flag = req[p].flag
                 /\ req'[p].worker = req[p].worker
           /\ pc'[p] = "recordLock" =>
                 /\ pc[p] = "accept" /\ req[p].flag
                 /\ req'[p].worker = req[p].worker
           /\ pc'[p] \in {"recordTx", "guard"} =>
                 pc[p] \in {"accept", "recordLock", "recordTx"}
           /\ pc'[p] = "submission" =>
                 pc[p] = "submitCheck" /\ req'[p].worker = req[p].worker
           /\ pc'[p] = "rejectWrite" =>
                 pc[p] = "rejectRead" /\ req'[p].worker = req[p].worker
           /\ pc'[p] = "reopen" => pc[p] = "rejectWrite"
<1>1. CASE AssignSteps(p)
  BY <1>1, AssignMoves DEF Goes, Ends, SameRequest
<1>2. CASE ReviewSteps(p)
  BY <1>2, ReviewMoves DEF Goes, Ends
<1>3. CASE CloseSteps(p)
  BY <1>3, CloseMoves DEF Goes, Ends
<1>4. CASE SettleStep(p)
  BY <1>4, SettleMoves DEF Goes, Ends
<1>5. QED BY <1>1, <1>2, <1>3, <1>4 DEF Steps1

-----------------------------------------------------------------------------
(* The row, through every step                                              *)

(* What is used of a state.                                                 *)
Served == IInv /\ LifecycleConstants /\ OneHandler /\ JobsExpire /\ RowInv

LEMMA ServedParts ==
    ASSUME Served
    PROVE  /\ WorldType /\ ControlType /\ ControlInv /\ PayeeKnown
           /\ FreshLock /\ HandlerSettles /\ RowNamed /\ ClosedRowSettled
BY DEF Served, IInv, RowInv

LEMMA JobParts ==
    ASSUME LifecycleConstants, JobsExpire, NEW p \in Jobs
    PROVE  pc[p] \in JobSteps /\ p \in Procs /\ p \notin Handlers
BY DEF Procs, LifecycleConstants, JobsExpire

LEMMA FreshLockStep ==
    ASSUME Served, NEW p \in Procs, Steps1(p), [Next]_vars
    PROVE  FreshLock'
<1>1. /\ ControlType /\ ControlInv /\ FreshLock /\ Others(p)
  BY ServedParts, Effects
<1>2. ASSUME NEW q \in Handlers,
             \/ pc[q] = "recordLock"
             \/ pc[q] \in {"assignCheck", "accept"} /\ req[q].flag
      PROVE  lock'[req[q].worker] # "none"
  <2>1. req[q].worker \in Workers
    BY <1>1, <1>2 DEF ControlInv, Fits, Procs
  <2>2. QED BY <1>1, <1>2, <2>1, LocksStay DEF FreshLock, Served
<1>3. \/ pc'[p] = "recordLock"
      \/ pc'[p] \in {"assignCheck", "accept"} /\ req'[p].flag
      => /\ pc[p] \in {"assignCheck", "accept"} /\ req[p].flag
         /\ req'[p].worker = req[p].worker
  BY <1>1, RowArrives
<1>4. ASSUME NEW q \in Handlers,
             \/ pc'[q] = "recordLock"
             \/ pc'[q] \in {"assignCheck", "accept"} /\ req'[q].flag
      PROVE  lock'[req'[q].worker] # "none"
  <2>1. CASE q = p
    BY <1>2, <1>3, <1>4, <2>1
  <2>2. CASE q # p
    <3>1. pc'[q] = pc[q] /\ req'[q] = req[q]
      BY <1>1, <2>2 DEF Others, Procs
    <3>2. QED BY <1>2, <1>4, <3>1
  <2>3. QED BY <2>1, <2>2
<1>5. QED BY <1>4 DEF FreshLock

LEMMA HandlerSettlesStep ==
    ASSUME Served, NEW p \in Procs, Steps1(p), [Next]_vars
    PROVE  HandlerSettles'
<1>1. /\ WorldType /\ ControlType /\ ControlInv /\ HandlerSettles /\ RowNamed
      /\ Others(p)
  BY ServedParts, Effects
<1>2. ASSUME NEW q \in Handlers, pc'[q] \in {"send", "book"}, q = p
      PROVE  /\ escrow'.payee = req'[q].payee /\ escrow'.payee \in Workers
             /\ pc'[q] = "book" => lock'[req'[q].payee] = Settled(Operation(q))'
  <2>1. Takes(p) \/ Settles(p)
    BY <1>1, <1>2, RowEffects
       DEF LeavesRow, Replaces, GivesBack, Books, Idles
  <2>2. CASE Takes(p)
    BY <1>1, <1>2, <2>2 DEF Takes, RowNamed
  <2>3. CASE Settles(p)
    <3>1. pc[p] = "send" /\ req'[p] = req[p] /\ UNCHANGED escrow
      BY <1>2, <2>3 DEF Settles, Idles
    <3>2. Settled(Operation(p))' = Settled(Operation(p))
      BY <3>1 DEF Settled, Operation
    <3>3. escrow.payee = req[p].payee /\ escrow.payee \in Workers
      BY <1>1, <1>2, <3>1 DEF HandlerSettles, Settling
    <3>4. lock'[req[p].payee] = Settled(Operation(p))
      BY <2>3 DEF Settles
    <3>5. QED BY <1>2, <3>1, <3>2, <3>3, <3>4
  <2>4. QED BY <2>1, <2>2, <2>3
<1>3. ASSUME NEW q \in Handlers, pc'[q] \in {"send", "book"}, q # p
      PROVE  /\ escrow'.payee = req'[q].payee /\ escrow'.payee \in Workers
             /\ pc'[q] = "book" => lock'[req'[q].payee] = Settled(Operation(q))'
  <2>1. pc'[q] = pc[q] /\ req'[q] = req[q]
    BY <1>1, <1>3 DEF Others, Procs
  <2>2. p \in Jobs
    BY <1>3 DEF Served, OneHandler, Procs
  <2>3. ~Replaces(p)
    BY <2>2, JobParts DEF Served, Replaces, JobSteps
  <2>4. escrow'.payee = escrow.payee
    BY <1>1, <2>3, RowEffects DEF LeavesRow, Takes, Settles, GivesBack, Books
  <2>5. /\ escrow.payee = req[q].payee /\ escrow.payee \in Workers
        /\ pc[q] = "book" => lock[req[q].payee] = Settled(Operation(q))
    BY <1>1, <1>3, <2>1 DEF HandlerSettles, Settling
  <2>6. /\ Settled(Operation(q))' = Settled(Operation(q))
        /\ Settled(Operation(q)) \notin {"none", "locked"}
    BY <2>1 DEF Settled, Operation
  <2>7. pc[q] = "book" => lock'[req[q].payee] = lock[req[q].payee]
    BY <2>5, <2>6, LocksStay DEF Served
  <2>8. QED BY <2>1, <2>4, <2>5, <2>6, <2>7
<1>4. QED BY <1>2, <1>3 DEF HandlerSettles, Settling

LEMMA RowNamedStep ==
    ASSUME Served, NEW p \in Procs, Steps1(p), [Next]_vars
    PROVE  RowNamed' /\ ClosedRowSettled'
<1>1. /\ WorldType /\ ControlType /\ ControlInv /\ PayeeKnown /\ FreshLock
      /\ HandlerSettles /\ RowNamed /\ ClosedRowSettled
  BY ServedParts
<1>2. \A v \in Workers : lock[v] # "none" =>
         lock'[v] # "none" /\ (lock[v] # "locked" => lock'[v] = lock[v])
  BY LocksStay DEF Served
<1>3. CASE UNCHANGED escrow
  BY <1>1, <1>2, <1>3 DEF RowNamed, ClosedRowSettled
<1>4. CASE Takes(p)
  BY <1>1, <1>2, <1>4 DEF Takes, Claimed, RowNamed, ClosedRowSettled
<1>5. CASE GivesBack(p)
  BY <1>1, <1>2, <1>5 DEF GivesBack, Claimed, RowNamed, ClosedRowSettled
<1>6. CASE Replaces(p)
  <2>1. p \in Handlers
    BY <1>6, JobParts DEF Served, Replaces, JobSteps, Procs
  <2>2. req[p].worker \in Workers /\ lock[req[p].worker] # "none"
    BY <1>1, <1>6, <2>1 DEF Replaces, FreshLock, ControlInv, Fits
  <2>3. QED BY <1>2, <1>6, <2>2 DEF Replaces, RowNamed, ClosedRowSettled
<1>7. CASE Books(p)
  <2>1. p \in Handlers
    BY <1>7, JobParts DEF Served, Books, JobSteps, Procs
  <2>2. /\ escrow.payee \in Workers
        /\ lock[escrow.payee] = Settled(Operation(p))
    BY <1>1, <1>7, <2>1 DEF Books, HandlerSettles, Settling
  <2>3. /\ escrow'.payee = escrow.payee /\ UNCHANGED lock
        /\ escrow'.status = Settled(Operation(p))
    BY <1>7 DEF Books
  <2>4. Settled(Operation(p)) \in {"released", "refunded"}
    BY DEF Settled
  <2>5. QED BY <2>2, <2>3, <2>4 DEF RowNamed, ClosedRowSettled
<1>8. QED
  BY <1>1, <1>3, <1>4, <1>5, <1>6, <1>7, RowEffects DEF LeavesRow, Settles

(* A request begins, or a job does.                                         *)
LEMMA RowBegin ==
    ASSUME Served, (\E p \in Handlers : Request(p)) \/ (\E p \in Jobs : Overdue(p))
    PROVE  RowInv'
<1>1. /\ ControlType /\ FreshLock /\ HandlerSettles /\ RowNamed
      /\ ClosedRowSettled /\ LifecycleConstants /\ OneHandler /\ JobsExpire
  BY ServedParts DEF Served
<1>2. CASE \E p \in Handlers : Request(p)
  <2>1. PICK p \in Handlers : Request(p)
    BY <1>2
  <2>2. p \in Procs /\ \A q \in Handlers : q = p
    BY <1>1 DEF Procs, OneHandler
  <2>3. /\ UNCHANGED world
        /\ pc'[p] \notin {"send", "book", "recordLock", "accept"}
        /\ pc'[p] = "assignCheck" /\ req'[p].flag => lock[req'[p].worker] = "locked"
    BY <1>1, <2>1, <2>2, RequestMoves
  <2>4. FreshLock' /\ HandlerSettles'
    BY <2>2, <2>3 DEF FreshLock, HandlerSettles, Settling, world
  <2>5. RowNamed' /\ ClosedRowSettled'
    BY <1>1, <2>3 DEF RowNamed, ClosedRowSettled, world
  <2>6. QED BY <2>4, <2>5 DEF RowInv
<1>3. CASE \E p \in Jobs : Overdue(p)
  <2>1. /\ UNCHANGED world
        /\ \A q \in Handlers : pc'[q] = pc[q] /\ req'[q] = req[q]
    BY <1>1, <1>3, OverdueMoves
  <2>2. FreshLock' /\ HandlerSettles'
    BY <1>1, <2>1 DEF FreshLock, HandlerSettles, Settling, Operation, Settled, world
  <2>3. RowNamed' /\ ClosedRowSettled'
    BY <1>1, <2>1 DEF RowNamed, ClosedRowSettled, world
  <2>4. QED BY <2>2, <2>3 DEF RowInv
<1>4. QED BY <1>2, <1>3

LEMMA RowOutside ==
    ASSUME Served, Outside \/ UNCHANGED vars, [Next]_vars
    PROVE  RowInv'
<1>1. /\ WorldType /\ ControlInv /\ PayeeKnown /\ FreshLock /\ HandlerSettles
      /\ RowNamed /\ ClosedRowSettled
  BY ServedParts
<1>2. UNCHANGED <<pc, req>>
  BY OutsideStep
<1>3. \A v \in Workers : lock[v] # "none" =>
         lock'[v] # "none" /\ (lock[v] # "locked" => lock'[v] = lock[v])
  BY LocksStay DEF Served
<1>4. FreshLock'
  <2>1. ASSUME NEW q \in Handlers, pc[q] \in {"assignCheck", "accept", "recordLock"}
        PROVE  req[q].worker \in Workers
    BY <1>1, <2>1 DEF ControlInv, Fits, Procs
  <2>2. QED BY <1>1, <1>2, <1>3, <2>1 DEF FreshLock
<1>5. CASE UNCHANGED escrow
  <2>1. HandlerSettles'
    BY <1>1, <1>2, <1>3, <1>5 DEF HandlerSettles, Settling, Settled, Operation
  <2>2. RowNamed' /\ ClosedRowSettled'
    BY <1>1, <1>3, <1>5 DEF RowNamed, ClosedRowSettled
  <2>3. QED BY <1>4, <2>1, <2>2 DEF RowInv
<1>6. CASE Reconcile
  <2>1. /\ escrow' = [escrow EXCEPT !.status =
                        IF lock[escrow.payee] = "locked" THEN "deposited"
                        ELSE IF @ = "releasing" THEN "released" ELSE "refunded"]
        /\ escrow.status \in {"releasing", "refunding"} /\ UNCHANGED lock
        /\ ServerSigning /\ \A q \in Procs : pc[q] \notin {"send", "book"}
    BY <1>6 DEF Reconcile, Settling
  <2>2. /\ escrow'.payee = escrow.payee
        /\ escrow'.status = IF lock[escrow.payee] = "locked" THEN "deposited"
                            ELSE IF escrow.status = "releasing" THEN "released"
                            ELSE "refunded"
    BY <1>1, <2>1 DEF WorldType
  <2>3. HandlerSettles'
    BY <1>2, <2>1 DEF HandlerSettles, Settling, Procs
  <2>4. RowNamed' /\ ClosedRowSettled'
    BY <1>1, <2>1, <2>2 DEF RowNamed, ClosedRowSettled
  <2>5. QED BY <1>4, <2>3, <2>4 DEF RowInv
<1>7. QED BY <1>5, <1>6 DEF Outside, LockFunds, Mine, PassDeadline, vars

LEMMA ServedKept ==
    ASSUME Served, [Next]_vars
    PROVE  Served'
<1>1. IInv' /\ LifecycleConstants' /\ OneHandler' /\ JobsExpire'
  BY NextIInv, JobsExpireKept DEF Served, LifecycleConstants, OneHandler
<1>2. ASSUME NEW p \in Procs, Steps1(p)
      PROVE  RowInv'
  BY <1>2, FreshLockStep, HandlerSettlesStep, RowNamedStep DEF RowInv
<1>3. RowInv'
  BY <1>2, NextCases, RowBegin, RowOutside DEF Procs
<1>4. QED BY <1>1, <1>3 DEF Served

(* A row that reads released or refunded leaves nothing locked behind the   *)
(* payment_info it names, whichever answers were lost, and also when it was *)
(* closed by the reconciler after a claim that a stopped process or a failed*)
(* write left behind.  Without the signing key, as in production, the       *)
(* reconciler closes nothing and the row tells where the funds went.  With  *)
(* two handlers an assignment can replace the row under a settlement.       *)
THEOREM ClosedRowIsTrue ==
    ASSUME OneHandler
    PROVE  Spec => []ClosedRowSettled
<1>1. Init => Served
  BY InitIInv, InitJobs, InitRow, OneHandler, LifecycleConstants DEF Served
<1>2. Served /\ [Next]_vars => Served'
  BY ServedKept
<1>3. Served => ClosedRowSettled
  BY DEF Served, RowInv
<1>4. QED BY <1>1, <1>2, <1>3, PTL DEF Spec

-----------------------------------------------------------------------------
(* What is known of every state, as long as not both look-ups and anything  *)
(* else fail                                                                *)

Known == Served /\ PayoutInv /\ Unassigned /\ ApprovalInv

LEMMA KnownParts ==
    ASSUME Known
    PROVE  /\ WorldType /\ ControlType /\ ControlInv /\ AcceptedIsSettled
           /\ JobsExpire /\ PaidOut /\ OwnRelease /\ ApprovalOf
           /\ FreshLock /\ HandlerSettles /\ RowNamed
           /\ IInv /\ LifecycleConstants /\ OneHandler /\ Unassigned
           /\ NoWorker \notin Workers
BY DEF Known, Served, IInv, PayoutInv, ApprovalInv, RowInv, LifecycleConstants

LEMMA InitKnown ==
    ASSUME Init, OneHandler
    PROVE  Known
BY InitIInv, InitPayout, InitJobs, InitReview, InitRow, LifecycleConstants
   DEF Known, Served, ReviewInv

LEMMA KnownKept ==
    ASSUME Known, ReadFaults => AssignUnpaid, [Next]_vars
    PROVE  Known'
<1>1. IInv /\ LifecycleConstants /\ OneHandler /\ JobsExpire
  BY KnownParts
<1>2. Served'
  BY ServedKept DEF Known
<1>3. PayoutInv'
  BY <1>1, PayoutKept DEF Known
<1>4. Unassigned'
  BY <1>1, UnassignedKept DEF Known
<1>5. ApprovalInv'
  BY <1>1, ApprovalKept DEF Known
<1>6. QED BY <1>2, <1>3, <1>4, <1>5 DEF Known

LEMMA RejectedNow ==
    ASSUME WorldType, NEW p \in Procs, Steps1(p),
           pc[p] = "rejectWrite", pc'[p] = "reopen", pc \in [Procs -> Steps]
    PROVE  verdict' = [verdict EXCEPT ![req[p].worker] = "rejected"]
<1>1. CASE RejectWrite(p)
  BY <1>1 DEF RejectWrite
<1>2. CASE Crash(p)
  BY <1>2 DEF Crash, Return
<1>3. QED
  BY <1>1, <1>2
     DEF Steps1, AssignSteps, ReviewSteps, CloseSteps, SettleStep, AssignCheck,
         Accept, RecordLock, RecordTx, Guard, SubmitCheck, Submission, Submitted,
         ApproveCheck, AcceptWork, Complete, RejectRead, Reopen, InfoWrite,
         Resume, DisputeCheck, DisputeInsert, DisputeVerdict, ResolveWrite,
         CancelCheck, Recheck, CancelWrite, Deadline, Expire, Settle, Claim,
         SendOk, SendFail, Book

(* The action that leads on from a step, when no process stops.             *)
LEMMA ActionAt ==
    ASSUME ~Faults, NEW p \in Procs, Steps1(p)
    PROVE  \/ Accept(p) \/ CancelCheck(p) \/ ResolveWrite(p)
           \/ Claim(p) \/ SendOk(p) \/ SendFail(p)
           \/ pc[p] \notin {"accept", "cancelCheck", "resolveWrite", "claim", "send"}
<1>1. ASSUME ~(Accept(p) \/ CancelCheck(p) \/ ResolveWrite(p)),
             ~(Claim(p) \/ SendOk(p) \/ SendFail(p))
      PROVE  pc[p] \notin {"accept", "cancelCheck", "resolveWrite", "claim", "send"}
  <2>1. AssignSteps(p) => pc[p] \notin {"accept", "cancelCheck", "resolveWrite", "claim", "send"}
    BY <1>1 DEF AssignSteps, AssignCheck, RecordLock, RecordTx, Guard,
                SubmitCheck, Submission, Submitted
  <2>2. ReviewSteps(p) => pc[p] \notin {"accept", "cancelCheck", "resolveWrite", "claim", "send"}
    BY <1>1 DEF ReviewSteps, ApproveCheck, AcceptWork, Complete, RejectRead,
                RejectWrite, Reopen, InfoWrite, Resume, DisputeCheck,
                DisputeInsert, DisputeVerdict
  <2>3. CloseSteps(p) => pc[p] \notin {"accept", "cancelCheck", "resolveWrite", "claim", "send"}
    BY <1>1 DEF CloseSteps, Recheck, CancelWrite, Deadline, Expire, Crash
  <2>4. SettleStep(p) => pc[p] \notin {"accept", "cancelCheck", "resolveWrite", "claim", "send"}
    BY <1>1 DEF SettleStep, Settle, Book
  <2>5. QED BY <2>1, <2>2, <2>3, <2>4 DEF Steps1
<1>2. QED BY <1>1, Zenon

-----------------------------------------------------------------------------
(* After the payout                                                         *)

(* A submission that can still be reviewed is of the task's own worker.     *)
Open(w) == w \in Workers /\ verdict[w] \in {"pending", "more_info"}

OpenIsAssigned ==
    /\ \A w \in Workers : Open(w) => task.executor = w
    /\ \A p \in Handlers :
          /\ pc[p] \in {"submitCheck", "submission", "rejectRead", "rejectWrite",
                       "infoWrite"} => task.executor = req[p].worker
          /\ pc[p] \in {"assignCheck", "accept", "recordLock", "recordTx", "guard",
                       "reopen"} => \A w \in Workers : ~Open(w)

(* Where the handler can be once the funds of the task are paid out.        *)
ReleasedSteps ==
    {"idle", "book", "verdict", "complete", "approveCheck", "settle", "claim",
     "disputeCheck", "disputeInsert", "disputeVerdict", "resolveWrite",
     "cancelCheck", "submitCheck"}

(* From then on the task is not published again, the row refuses submissions*)
(* and cancellations, and there is no submission to reject or ask more of.  *)
AfterRelease ==
    Released =>
        /\ task.status # "published"
        /\ \A p \in Handlers :
              /\ pc[p] \in ReleasedSteps
              /\ pc[p] = "claim" => req[p].kind # "cancel"
              /\ escrow.status = "released" \/ pc[p] = "book"
              /\ \A w \in Workers : Open(w) =>
                    pc[p] \in {"book", "verdict"} /\ w = req[p].worker

LEMMA InitOpen ==
    ASSUME Init
    PROVE  OpenIsAssigned /\ AfterRelease
BY DEF Init, OpenIsAssigned, Open, AfterRelease, Released, PaidBy, Procs

LEMMA OpenMoves ==
    ASSUME Known, OpenIsAssigned, NEW p \in Handlers, Steps1(p)
    PROVE  /\ \A w \in Workers : Open(w)' =>
                 Open(w) \/ (pc[p] \in {"submission", "infoWrite"} /\ w = req[p].worker)
           /\ \A w \in Workers : Open(w)' => task'.executor = w
<1>1. WorldType /\ ControlType /\ Unassigned /\ NoWorker \notin Workers /\ p \in Procs
  BY KnownParts DEF Procs
<1>2. \A w \in Workers : Open(w)' =>
         Open(w) \/ (pc[p] \in {"submission", "infoWrite"} /\ w = req[p].worker)
  BY <1>1, VerdictMoves DEF Open
<1>3. \A w \in Workers :
         Open(w) \/ (pc[p] \in {"submission", "infoWrite"} /\ w = req[p].worker)
            => task.executor = w
  BY DEF OpenIsAssigned
<1>4. CASE task'.executor = task.executor
  BY <1>2, <1>3, <1>4
<1>5. CASE pc[p] \in {"accept", "guard", "reopen"}
  <2>1. \A w \in Workers : ~Open(w)
    BY <1>5 DEF OpenIsAssigned
  <2>2. QED BY <1>2, <1>5, <2>1
<1>6. QED BY <1>1, <1>2, <1>4, <1>5, TaskMoves

LEMMA OpenHandlerStep ==
    ASSUME Known, OpenIsAssigned, NEW p \in Handlers, Steps1(p)
    PROVE  OpenIsAssigned'
<1>1. /\ WorldType /\ ControlType /\ ControlInv /\ Unassigned
      /\ NoWorker \notin Workers /\ p \in Procs /\ \A q \in Handlers : q = p
  BY KnownParts DEF Procs, OneHandler
<1>2. pc'[p] \in {"submitCheck", "submission", "rejectRead", "rejectWrite", "infoWrite"}
         => task'.executor = req'[p].worker
  <2>1. pc'[p] \in {"submitCheck", "submission", "rejectRead", "rejectWrite", "infoWrite"} =>
           /\ pc[p] \in {"submitCheck", "rejectRead"}
           /\ req'[p].worker = req[p].worker
    BY <1>1, RowArrives, ReviewArrives
  <2>2. pc[p] \in {"submitCheck", "rejectRead"} =>
           task.executor = req[p].worker /\ UNCHANGED task
    BY <1>1, TaskMoves DEF OpenIsAssigned
  <2>3. QED BY <2>1, <2>2
<1>3. pc'[p] \in {"assignCheck", "accept", "recordLock", "recordTx", "guard"}
         => \A w \in Workers : ~Open(w)'
  <2>1. pc'[p] \in {"assignCheck", "accept", "recordLock", "recordTx", "guard"}
           => pc[p] \in {"assignCheck", "accept", "recordLock", "recordTx"}
    BY <1>1, RowArrives
  <2>2. pc[p] \in {"assignCheck", "accept", "recordLock", "recordTx"}
           => \A w \in Workers : ~Open(w)
    BY <1>1 DEF OpenIsAssigned
  <2>3. QED BY <2>1, <2>2, OpenMoves
<1>4. ASSUME pc'[p] = "reopen"
      PROVE  \A w \in Workers : ~Open(w)'
  <2>1. pc[p] = "rejectWrite" /\ task.executor = req[p].worker
    BY <1>1, <1>4, RowArrives DEF OpenIsAssigned
  <2>2. \A w \in Workers : Open(w) => w = req[p].worker
    BY <1>1, <2>1 DEF OpenIsAssigned
  <2>3. verdict' = [verdict EXCEPT ![req[p].worker] = "rejected"]
    BY <1>1, <1>4, <2>1, RejectedNow DEF ControlType
  <2>4. verdict \in [Workers -> Verdicts]
    BY <1>1 DEF WorldType
  <2>5. QED BY <2>2, <2>3, <2>4 DEF Open
<1>5. QED BY <1>1, <1>2, <1>3, <1>4, OpenMoves DEF OpenIsAssigned

(* Where the requests of the handler lead once the funds are paid out.      *)
LEMMA ReleasedMoves ==
    ASSUME Known, ~Faults, Released, AfterRelease,
           NEW p \in Handlers, Steps1(p)
    PROVE  /\ pc'[p] \in ReleasedSteps
           /\ pc'[p] = "claim" => req'[p].kind # "cancel"
<1>1. /\ WorldType /\ ControlType /\ p \in Procs /\ Fits(pc[p], req[p])
  BY KnownParts DEF Procs, ControlInv
<1>2. /\ pc[p] \in ReleasedSteps /\ (pc[p] = "claim" => req[p].kind # "cancel")
      /\ escrow.status = "released" \/ pc[p] = "book"
  BY DEF AfterRelease
<1>3. escrow.status \in {"releasing", "released"} /\ (pc[p] = "book" => req[p].kind = "approve")
  BY KnownParts DEF PaidOut, Released
<1>4. CASE AssignSteps(p)
  BY <1>1, <1>2, <1>3, <1>4, AssignMoves DEF Goes, Ends, ReleasedSteps
<1>5. CASE ReviewSteps(p)
  BY <1>1, <1>2, <1>3, <1>5, ReviewMoves DEF Goes, Ends, ReleasedSteps, Fits
<1>6. CASE CloseSteps(p)
  <2>1. CASE pc[p] = "cancelCheck"
    <3>1. CancelCheck(p)
      BY <1>1, <2>1, ActionAt DEF Accept, ResolveWrite, Claim, SendOk, SendFail
    <3>2. Return(p)
      BY <1>2, <2>1, <3>1 DEF CancelCheck
    <3>3. QED BY <1>1, <3>2, ReturnEffect DEF Ends, ReleasedSteps
  <2>2. QED BY <1>1, <1>2, <1>6, <2>1, CloseMoves DEF Goes, Ends, ReleasedSteps
<1>7. CASE SettleStep(p)
  <2>1. CASE pc[p] = "book"
    <3>1. Book(p)
      BY <1>1, <2>1, VerdictFollows
    <3>2. Goto(p, "verdict") \/ Return(p)
      BY <1>3, <2>1, <3>1 DEF Book
    <3>3. QED BY <1>1, <3>2, GotoEffect, ReturnEffect DEF Ends, ReleasedSteps
  <2>2. QED
    BY <1>1, <1>2, <1>3, <1>7, <2>1, SettleMoves
       DEF Goes, Ends, ReleasedSteps, Fits, SameRequest
<1>8. QED BY <1>4, <1>5, <1>6, <1>7 DEF Steps1

LEMMA AfterwardsHandlerStep ==
    ASSUME Known, ~Faults, OpenIsAssigned, AfterRelease,
           NEW p \in Handlers, Steps1(p)
    PROVE  AfterRelease'
<1>1. /\ WorldType /\ ControlType /\ ControlInv /\ JobsExpire /\ AcceptedIsSettled
      /\ PaidOut /\ ApprovalOf /\ OwnRelease
      /\ p \in Procs /\ \A q \in Handlers : q = p
  BY KnownParts DEF Procs, OneHandler
<1>2. CASE Released
  <2>1. /\ pc[p] \in ReleasedSteps
        /\ escrow.status = "released" \/ pc[p] = "book"
        /\ \A w \in Workers : Open(w) => pc[p] \in {"book", "verdict"} /\ w = req[p].worker
    BY <1>2 DEF AfterRelease
  <2>2. pc[p] = "book" => Book(p) /\ req[p].kind = "approve"
    BY <1>1, <1>2, VerdictFollows DEF PaidOut, Released
  <2>3. escrow'.status = "released"
    <3>1. CASE pc[p] = "book"
      <4>1. escrow' = [escrow EXCEPT !.status = Settled(Operation(p))]
        BY <2>2, <3>1 DEF Book
      <4>2. QED BY <1>1, <2>2, <3>1, <4>1 DEF Settled, Operation, WorldType
    <3>2. CASE pc[p] # "book"
      BY <1>1, <2>1, <3>2, RowEffects
         DEF LeavesRow, Replaces, Takes, Settles, GivesBack, Books, ReleasedSteps
    <3>3. QED BY <3>1, <3>2
  <2>4. ASSUME NEW w \in Workers, Open(w)'
        PROVE  pc'[p] \in {"book", "verdict"} /\ w = req'[p].worker
    <3>1. Open(w) /\ pc[p] \in {"book", "verdict"} /\ w = req[p].worker
      BY <2>1, <2>4, OpenMoves DEF ReleasedSteps
    <3>2. CASE pc[p] = "verdict"
      <4>1. AcceptWork(p)
        BY <1>1, <3>2, VerdictFollows
      <4>2. verdict'[w] = "accepted"
        BY <1>1, <2>4, <3>1, <4>1 DEF AcceptWork, WorldType
      <4>3. QED BY <2>4, <4>2 DEF Open
    <3>3. CASE pc[p] = "book"
      <4>1. req[p].flag = FALSE
        BY <1>1, <2>2, <3>1, <3>3 DEF ApprovalOf, ApprovalSteps, Open
      <4>2. Goto(p, "verdict")
        BY <2>2, <3>3, <4>1 DEF Book
      <4>3. QED BY <1>1, <3>1, <4>2, GotoEffect
    <3>4. QED BY <3>1, <3>2, <3>3
  <2>5. task'.status # "published"
    BY <1>1, <1>2, <2>1, TaskMoves DEF AfterRelease, ReleasedSteps
  <2>6. QED BY <1>1, <1>2, <2>3, <2>4, <2>5, ReleasedMoves DEF AfterRelease
<1>3. CASE ~Released /\ Released'
  <2>1. PICK v \in Workers : ~PaidBy(v) /\ PaidBy(v)'
    BY <1>3 DEF Released
  <2>2. /\ req[p].kind = "approve" /\ pc[p] = "send"
        /\ pc'[p] = "book" /\ req'[p] = req[p]
    BY <1>1, <2>1, ReleaseByApproval DEF Approving
  <2>3. req[p].worker \in Workers /\ verdict[req[p].worker] = "pending"
    BY <1>1, <1>3, <2>2 DEF ApprovalOf, ApprovalSteps, AcceptedIsSettled, Released
  <2>4. task.executor = req[p].worker
    BY <2>3 DEF OpenIsAssigned, Open
  <2>5. \A w \in Workers : Open(w)' => w = req[p].worker
    BY <2>2, <2>4, OpenMoves DEF OpenIsAssigned
  <2>6. task'.status # "published"
    BY <1>1, <2>2, <2>3, <2>4, TaskMoves, KnownParts DEF Unassigned
  <2>7. QED BY <1>1, <2>2, <2>5, <2>6 DEF AfterRelease, ReleasedSteps
<1>4. QED BY <1>2, <1>3 DEF AfterRelease

LEMMA AfterwardsJobStep ==
    ASSUME Known, OpenIsAssigned, AfterRelease, NEW p \in Jobs, Steps1(p)
    PROVE  OpenIsAssigned' /\ AfterRelease'
<1>1. /\ WorldType /\ ControlType /\ ControlInv /\ JobsExpire /\ PaidOut
      /\ p \in Procs /\ p \notin Handlers /\ pc[p] \in JobSteps
      /\ pc[p] # "idle" => req[p].kind = "expire"
  BY JobParts, KnownParts DEF JobsExpire
<1>2. \A q \in Handlers : pc'[q] = pc[q] /\ req'[q] = req[q]
  BY <1>1, JobStep, KnownParts
<1>3. task'.executor = task.executor
  BY <1>1, TaskMoves DEF JobSteps
<1>4. \A w \in Workers : Open(w)' => Open(w)
  BY <1>1, VerdictMoves DEF JobSteps, Open
<1>5. Released' => Released
  BY <1>1, ReleaseByApproval DEF Released, Approving
<1>6. Released => UNCHANGED escrow
  <2>1. Released => escrow.status \in {"releasing", "released"}
    BY <1>1 DEF PaidOut, Released
  <2>2. QED
    BY <1>1, <2>1, RowEffects
       DEF LeavesRow, Replaces, Takes, Settles, GivesBack, Books, JobSteps,
           Claimed, Operation
<1>7. task'.status = "published" => task.status = "published"
  BY <1>1, TaskMoves DEF JobSteps
<1>8. OpenIsAssigned'
  BY <1>2, <1>3, <1>4 DEF OpenIsAssigned
<1>9. AfterRelease'
  BY <1>2, <1>4, <1>5, <1>6, <1>7 DEF AfterRelease
<1>10. QED BY <1>8, <1>9

LEMMA AfterwardsRequest ==
    ASSUME Known, OpenIsAssigned, AfterRelease, NEW p \in Handlers, Request(p)
    PROVE  OpenIsAssigned' /\ AfterRelease'
<1>1. ControlType /\ p \in Procs /\ \A q \in Handlers : q = p
  BY KnownParts DEF Procs, OneHandler
<1>2. UNCHANGED world /\ pc[p] = "idle"
  BY <1>1, RequestMoves, KnownParts
<1>3. /\ pc'[p] \in (ReleasedSteps \ {"book", "verdict", "claim"})
                   \cup {"rejectRead", "infoWrite", "assignCheck"}
      /\ pc'[p] = "assignCheck" => task.status = "published"
  BY <1>1, RequestMoves, KnownParts DEF ReleasedSteps
<1>4. pc'[p] \in {"rejectRead", "infoWrite"} => Open(req'[p].worker)
  BY <1>1, RequestMoves, KnownParts DEF Open
<1>5. pc'[p] = "submitCheck" => task.executor = req'[p].worker
  BY <1>1, RequestMoves, KnownParts
<1>6. pc'[p] \in {"rejectRead", "infoWrite"} => task.executor = req'[p].worker
  BY <1>4 DEF OpenIsAssigned, Open
<1>7. pc'[p] = "assignCheck" => \A w \in Workers : ~Open(w)
  BY <1>3, KnownParts DEF OpenIsAssigned, Unassigned, Open
<1>8. OpenIsAssigned'
  BY <1>1, <1>2, <1>3, <1>5, <1>6, <1>7
     DEF OpenIsAssigned, Open, ReleasedSteps, world
<1>9. Released => \A w \in Workers : ~Open(w)
  BY <1>2 DEF AfterRelease
<1>10. AfterRelease'
  BY <1>1, <1>2, <1>3, <1>4, <1>9 DEF AfterRelease, Open, Released, PaidBy, world
<1>11. QED BY <1>8, <1>10

LEMMA AfterwardsKept ==
    ASSUME Known, ~Faults, OpenIsAssigned, AfterRelease, [Next]_vars
    PROVE  OpenIsAssigned' /\ AfterRelease'
<1>1. /\ WorldType /\ ControlType /\ LifecycleConstants /\ JobsExpire
  BY KnownParts
<1>2. ASSUME NEW p \in Jobs, Overdue(p)
      PROVE  OpenIsAssigned' /\ AfterRelease'
  <2>1. /\ UNCHANGED world
        /\ \A q \in Handlers : pc'[q] = pc[q] /\ req'[q] = req[q]
    BY <1>1, <1>2, OverdueMoves
  <2>2. OpenIsAssigned'
    BY <2>1 DEF OpenIsAssigned, Open, world
  <2>3. AfterRelease'
    BY <2>1 DEF AfterRelease, Released, PaidBy, Open, world
  <2>4. QED BY <2>2, <2>3
<1>3. ASSUME Outside \/ UNCHANGED vars
      PROVE  OpenIsAssigned' /\ AfterRelease'
  <2>1. UNCHANGED <<task, verdict, pc, req>>
    BY <1>3, OutsideStep
  <2>2. OpenIsAssigned'
    BY <2>1 DEF OpenIsAssigned, Open
  <2>3. Released' => Released
    BY <1>1, <1>3
       DEF Outside, LockFunds, Mine, Reconcile, PassDeadline, vars, Released,
           PaidBy, Settled, WorldType
  <2>4. CASE UNCHANGED escrow
    BY <2>1, <2>2, <2>3, <2>4 DEF AfterRelease, Open
  <2>5. CASE Reconcile
    <3>1. /\ escrow.status \in {"releasing", "refunding"}
          /\ \A q \in Handlers : pc[q] # "book"
      BY <2>5 DEF Reconcile, Settling, Procs
    <3>2. Released /\ (\E q \in Handlers : TRUE) => FALSE
      BY <3>1 DEF AfterRelease
    <3>3. AfterRelease'
      BY <2>1, <2>3, <3>2 DEF AfterRelease
    <3>4. QED BY <2>2, <3>3
  <2>6. QED BY <1>3, <2>4, <2>5 DEF Outside, LockFunds, Mine, PassDeadline, vars
<1>4. QED
  BY <1>2, <1>3, NextCases, AfterwardsRequest, OpenHandlerStep,
     AfterwardsHandlerStep, AfterwardsJobStep

-----------------------------------------------------------------------------
(* The invariant as a whole                                                 *)

(* When no process stops and no write fails, a look-up that fails finds no  *)
(* assignment under way that could replace a row that has paid.             *)
Sound == Known /\ (~Faults => OpenIsAssigned /\ AfterRelease)

LEMMA InitSound ==
    ASSUME Init, OneHandler
    PROVE  Sound
BY InitKnown, InitOpen DEF Sound

LEMMA SoundKept ==
    ASSUME Sound, ReadFaults => ~Faults, [Next]_vars
    PROVE  Sound'
<1>1. ReadFaults => AssignUnpaid
  BY DEF Sound, AfterRelease, AssignUnpaid, ReleasedSteps
<1>2. Known'
  BY <1>1, KnownKept DEF Sound
<1>3. ~Faults => OpenIsAssigned' /\ AfterRelease'
  BY AfterwardsKept DEF Sound
<1>4. QED BY <1>2, <1>3 DEF Sound

(* The funds of one task reach one worker, even when the publisher locked   *)
(* them for several: the row is claimed before the funds of the lock it     *)
(* names move, and a row that has paid is never deposited again.  Whatever  *)
(* fails, a second worker is paid only by a release that was sent and not   *)
(* answered.  Stated for one handler and any number of jobs, as long as not *)
(* both look-ups and anything else fail.                                    *)
THEOREM OnePayout ==
    ASSUME OneHandler, ReadFaults => ~Faults
    PROVE  Spec => []SinglePayout
<1>1. Init => Sound
  BY InitSound, OneHandler
<1>2. Sound /\ [Next]_vars => Sound'
  BY SoundKept, ReadFaults => ~Faults
<1>3. Sound => SinglePayout
  BY DEF Sound, Known, PayoutInv, PaidOut, PaidBy, SinglePayout
<1>4. QED BY <1>1, <1>2, <1>3, PTL DEF Spec

(* What a dispute decided stays decided: no lock is released from a refunded*)
(* task, whatever fails, but by a release that was sent before and not      *)
(* answered, under the same hypotheses.                                     *)
THEOREM RefundIsFinal ==
    ASSUME OneHandler, ReadFaults => ~Faults
    PROVE  Spec => RefundedPaysNobody
<1>1. Init => Sound
  BY InitSound, OneHandler
<1>2. Sound /\ [Next]_vars => Sound'
  BY SoundKept, ReadFaults => ~Faults
<1>3. Sound /\ [Next]_vars =>
         (task.status = "refunded" =>
             \A w \in Workers :
                lock[w] = "locked" /\ lock'[w] = "released"
                    => "release" \in lost[w])
  BY RefundedStep, KnownParts DEF Sound, Known
<1>4. QED BY <1>1, <1>2, <1>3, PTL DEF Spec, RefundedPaysNobody

(* update_submission, reject, more-info: a submission that has been paid for*)
(* never reads rejected, for one handler and any number of jobs, as long as *)
(* no call fails between a payment and the verdict that follows it; the     *)
(* look-ups of escrow and payments may fail.                                *)
THEOREM RejectedNotPaid ==
    ASSUME OneHandler, ~Faults
    PROVE  Spec => []RejectedUnpaid
<1>1. Init => Sound /\ ReviewInv
  BY InitSound, InitReview, OneHandler
<1>2. Sound /\ ReviewInv /\ [Next]_vars => Sound' /\ ReviewInv'
  BY SoundKept, ReviewKept, KnownParts, ~Faults DEF Sound, Known
<1>3. ReviewInv => RejectedUnpaid
  BY DEF ReviewInv, ApprovalInv, PaidHasVerdict, ApprovalOf, HandlersApprove,
         ApprovalSteps, RejectedUnpaid
<1>4. QED BY <1>1, <1>2, <1>3, PTL DEF Spec

-----------------------------------------------------------------------------
(* No funds stay locked behind a cancelled or a refunded task.              *)

(* Somebody is settling the lock that the row names.                        *)
Owner == \E p \in Procs : pc[p] = "send" /\ req[p].payee = escrow.payee

(* The task has been called off, and the request that did so is past its    *)
(* claim.                                                                   *)
CalledOff ==
    \/ task.status = "cancelled"
    \/ /\ task.status = "refunded"
       /\ \A p \in Handlers : ~(pc[p] = "claim" /\ req[p].kind = "resolve")
    \/ \E p \in Handlers : pc[p] \in {"recheck", "cancelWrite"}

(* Funds still locked behind a claim, or behind the deposited row of a task *)
(* that was called off, are about to be settled.                            *)
Owned ==
    /\ \/ escrow.status \in {"releasing", "refunding"}
       \/ escrow.status = "deposited" /\ CalledOff
    /\ lock[escrow.payee] = "locked"
    => Owner

(* A row is not replaced after the task was called off.                     *)
ReplacedBefore ==
    \A p \in Handlers :
        pc[p] = "recordLock" => task.status \notin {"cancelled", "refunded"}

LEMMA InitOwned ==
    ASSUME Init
    PROVE  Owned /\ ReplacedBefore
BY DEF Init, Owned, CalledOff, ReplacedBefore, Procs

(* A settlement that is sent settles the lock, or finds it settled.         *)
LEMMA SenderSettles ==
    ASSUME ~Faults, WorldType, ControlType, ControlInv,
           NEW p \in Procs, Steps1(p), pc[p] = "send"
    PROVE  lock'[req[p].payee] # "locked"
<1>1. req[p].payee \in Workers /\ lock \in [Workers -> {"none", "locked", "released", "refunded"}]
  BY DEF ControlInv, Fits, WorldType
<1>2. CASE SendOk(p)
  BY <1>1, <1>2 DEF SendOk, Settled
<1>3. CASE SendFail(p)
  BY <1>3 DEF SendFail
<1>4. ~(Accept(p) \/ CancelCheck(p) \/ ResolveWrite(p) \/ Claim(p))
  BY DEF Accept, CancelCheck, ResolveWrite, Claim
<1>5. QED BY <1>2, <1>3, <1>4, ActionAt

(* How a task comes to be called off.                                       *)
LEMMA CallingOff ==
    ASSUME ~Faults, Known, NEW p \in Handlers, Steps1(p), CalledOff'
    PROVE  CalledOff \/ escrow.status # "deposited" \/ pc[p] \in {"send", "book"} \/ Takes(p)
<1>1. /\ WorldType /\ ControlType /\ ControlInv /\ p \in Procs
      /\ \A q \in Handlers : q = p
  BY KnownParts DEF Procs, OneHandler
<1>2. ASSUME pc'[p] \in {"recheck", "cancelWrite"}
      PROVE  pc[p] \in {"cancelCheck", "claim", "send", "book", "recheck"}
  <2>1. CASE AssignSteps(p)
    BY <1>1, <1>2, <2>1, AssignMoves DEF Goes, Ends
  <2>2. CASE ReviewSteps(p)
    BY <1>1, <1>2, <2>2, ReviewMoves DEF Goes, Ends
  <2>3. CASE CloseSteps(p)
    BY <1>1, <1>2, <2>3, CloseMoves DEF Goes, Ends
  <2>4. CASE SettleStep(p)
    BY <1>1, <1>2, <2>4, SettleMoves DEF Goes, Ends
  <2>5. QED BY <2>1, <2>2, <2>3, <2>4 DEF Steps1
<1>3. CASE pc[p] = "recheck"
  BY <1>3 DEF CalledOff
<1>4. CASE pc[p] = "cancelCheck" /\ pc'[p] = "recheck"
  <2>1. CancelCheck(p)
    BY <1>1, <1>4, ActionAt
       DEF Accept, ResolveWrite, Claim, SendOk, SendFail
  <2>2. escrow.status = "deposited" => Goto(p, "claim")
    BY <2>1 DEF CancelCheck
  <2>3. QED BY <1>1, <1>4, <2>2, GotoEffect
<1>5. CASE pc[p] = "claim"
  <2>1. Claim(p)
    BY <1>1, <1>5, ActionAt
       DEF Accept, ResolveWrite, CancelCheck, SendOk, SendFail
  <2>2. escrow.status = "deposited" => pc'[p] = "send"
    BY <1>1, <2>1 DEF Claim, ControlType
  <2>3. QED
    BY <1>1, <1>5, <2>2, RowEffects
       DEF LeavesRow, Replaces, Settles, GivesBack, Books, Idles
<1>6. CASE pc[p] \notin {"recheck", "cancelCheck", "claim", "send", "book"}
  <2>1. pc'[p] \notin {"recheck", "cancelWrite"}
    BY <1>2, <1>6
  <2>2. task'.status \in {"cancelled", "refunded"}
    BY <1>1, <2>1 DEF CalledOff
  <2>3. CASE task'.status = task.status
    BY <1>1, <1>6, <2>2, <2>3 DEF CalledOff
  <2>4. CASE pc[p] = "cancelWrite"
    BY <2>4 DEF CalledOff
  <2>5. CASE pc[p] = "resolveWrite" /\ task'.status = "refunded"
    <3>1. ResolveWrite(p)
      BY <1>1, <2>5, ActionAt DEF Accept, CancelCheck, Claim, SendOk, SendFail
    <3>2. req[p].kind = "resolve"
      BY <1>1, <2>5 DEF ControlInv, Fits
    <3>3. UNCHANGED task \/ Goto(p, "claim")
      BY <3>1 DEF ResolveWrite
    <3>4. CASE Goto(p, "claim")
      <4>1. pc'[p] = "claim" /\ req'[p].kind = "resolve"
        BY <1>1, <3>2, <3>4, GotoEffect
      <4>2. QED BY <1>1, <2>1, <2>5, <4>1 DEF CalledOff
    <3>5. QED BY <2>3, <3>3, <3>4
  <2>6. \/ task'.status = task.status \/ pc[p] = "cancelWrite"
        \/ pc[p] = "resolveWrite" /\ task'.status = "refunded"
    BY <1>1, <2>2, TaskMoves
  <2>7. QED BY <2>3, <2>4, <2>5, <2>6
<1>7. CASE pc[p] = "cancelCheck" /\ pc'[p] # "recheck"
  <2>1. UNCHANGED task /\ pc'[p] # "cancelWrite"
    <3>1. UNCHANGED task
      BY <1>1, <1>7, TaskMoves
    <3>2. CancelCheck(p)
      BY <1>1, <1>7, ActionAt DEF Accept, ResolveWrite, Claim, SendOk, SendFail
    <3>3. pc'[p] # "cancelWrite"
      BY <1>1, <3>2, GotoEffect, ReturnEffect DEF CancelCheck, Ends
    <3>4. QED BY <3>1, <3>3
  <2>2. QED BY <1>1, <1>7, <2>1 DEF CalledOff
<1>8. QED BY <1>3, <1>4, <1>5, <1>6, <1>7

(* A lock that is still locked was locked before the step.                  *)
LEMMA StillLocked ==
    ASSUME RowNamed, NEW p,
           LeavesRow(p) \/ Settles(p) \/ GivesBack(p) \/ Books(p),
           escrow'.status # "pending", lock'[escrow'.payee] = "locked"
    PROVE  escrow'.payee = escrow.payee /\ lock[escrow.payee] = "locked"
<1>1. escrow'.payee = escrow.payee
  BY DEF LeavesRow, Settles, GivesBack, Books
<1>2. CASE UNCHANGED lock
  BY <1>1, <1>2
<1>3. CASE Settles(p)
  <2>1. escrow.payee \in Workers
    BY <1>3 DEF RowNamed, Settles
  <2>2. QED BY <1>1, <1>3, <2>1 DEF Settles, Settled
<1>4. QED BY <1>2, <1>3 DEF LeavesRow, GivesBack, Books

LEMMA OwnedHandlerStep ==
    ASSUME ~Faults, Known, Owned, ReplacedBefore, NEW p \in Handlers, Steps1(p)
    PROVE  Owned' /\ ReplacedBefore'
<1>1. /\ WorldType /\ ControlType /\ ControlInv /\ p \in Procs
      /\ HandlerSettles /\ RowNamed /\ \A q \in Handlers : q = p
  BY KnownParts DEF Procs, OneHandler
<1>2. Others(p)
  BY <1>1, Effects
<1>3. ReplacedBefore'
  <2>1. ASSUME pc'[p] = "recordLock"
        PROVE  task'.status = "accepted"
    <3>1. pc[p] = "accept"
      BY <1>1, <2>1, RowArrives
    <3>2. Accept(p)
      BY <1>1, <3>1, ActionAt DEF CancelCheck, ResolveWrite, Claim, SendOk, SendFail
    <3>3. QED BY <1>1, <3>2 DEF Accept, WorldType
  <2>2. QED BY <1>1, <2>1 DEF ReplacedBefore
<1>4. ASSUME escrow'.status \in {"releasing", "refunding"}
                \/ (escrow'.status = "deposited" /\ CalledOff'),
             lock'[escrow'.payee] = "locked"
      PROVE  Owner'
  <2>1. CASE Takes(p)
    BY <1>1, <2>1 DEF Takes, Owner
  <2>2. CASE Replaces(p)
    <3>1. UNCHANGED task /\ task.status \notin {"cancelled", "refunded"}
      BY <1>1, <2>2, TaskMoves DEF Replaces, ReplacedBefore
    <3>2. pc'[p] \notin {"recheck", "cancelWrite"}
      <4>1. pc[p] = "recordLock"
        BY <2>2 DEF Replaces
      <4>2. CASE AssignSteps(p)
        BY <1>1, <4>1, <4>2, AssignMoves DEF Goes, Ends
      <4>3. CASE ReviewSteps(p)
        BY <1>1, <4>1, <4>3, ReviewMoves DEF Goes, Ends
      <4>4. CASE CloseSteps(p)
        BY <1>1, <4>1, <4>4, CloseMoves DEF Goes, Ends
      <4>5. CASE SettleStep(p)
        BY <1>1, <4>1, <4>5, SettleMoves DEF Goes, Ends
      <4>6. QED BY <4>2, <4>3, <4>4, <4>5 DEF Steps1
    <3>3. ~CalledOff'
      BY <1>1, <3>1, <3>2 DEF CalledOff
    <3>4. QED BY <1>4, <2>2, <3>3 DEF Replaces
  <2>3. CASE LeavesRow(p) \/ Settles(p) \/ GivesBack(p) \/ Books(p)
    <3>1. /\ escrow'.payee = escrow.payee /\ lock[escrow.payee] = "locked"
      BY <1>1, <1>4, <2>3, StillLocked
    <3>2. pc[p] = "send" => lock'[req[p].payee] # "locked"
      BY <1>1, SenderSettles
    <3>3. pc[p] \in {"send", "book"} => FALSE
      <4>1. pc[p] \in {"send", "book"} => escrow.payee = req[p].payee
        BY <1>1 DEF HandlerSettles, Settling
      <4>2. pc[p] = "book" => lock[req[p].payee] # "locked"
        BY <1>1 DEF HandlerSettles, Settling, Settled
      <4>3. QED BY <1>4, <3>1, <3>2, <4>1, <4>2
    <3>4. LeavesRow(p)
      BY <2>3, <3>3 DEF Settles, GivesBack, Books
    <3>5. ~Takes(p)
      BY <3>4 DEF Takes, LeavesRow, Idles
    <3>6. \/ escrow.status \in {"releasing", "refunding"}
          \/ escrow.status = "deposited" /\ CalledOff
      BY <1>4, <3>3, <3>4, <3>5, CallingOff DEF LeavesRow
    <3>7. PICK q \in Procs : pc[q] = "send" /\ req[q].payee = escrow.payee
      BY <3>1, <3>6 DEF Owned, Owner
    <3>8. q # p
      BY <3>3, <3>7
    <3>9. pc'[q] = pc[q] /\ req'[q] = req[q]
      BY <1>2, <3>7, <3>8 DEF Others
    <3>10. QED BY <3>1, <3>7, <3>9 DEF Owner
  <2>4. QED BY <1>1, <2>1, <2>2, <2>3, RowEffects
<1>5. QED BY <1>3, <1>4 DEF Owned

LEMMA OwnedJobStep ==
    ASSUME ~Faults, Known, Owned, ReplacedBefore, NEW p \in Jobs, Steps1(p)
    PROVE  Owned' /\ ReplacedBefore'
<1>1. /\ WorldType /\ ControlType /\ ControlInv /\ HandlerSettles /\ RowNamed
      /\ p \in Procs /\ pc[p] \in JobSteps
  BY JobParts, KnownParts
<1>2. Others(p) /\ \A q \in Handlers : pc'[q] = pc[q] /\ req'[q] = req[q]
  BY <1>1, Effects, JobStep, KnownParts
<1>3. /\ \/ task'.status = task.status
         \/ task'.status \in {"completed", "expired"}
      /\ CalledOff' => CalledOff
  <2>1. task'.status = task.status \/ task'.status \in {"completed", "expired"}
    BY <1>1, TaskMoves DEF JobSteps
  <2>2. QED BY <1>2, <2>1 DEF CalledOff
<1>4. ReplacedBefore'
  BY <1>2, <1>3 DEF ReplacedBefore
<1>5. ASSUME escrow'.status \in {"releasing", "refunding"}
                \/ (escrow'.status = "deposited" /\ CalledOff'),
             lock'[escrow'.payee] = "locked"
      PROVE  Owner'
  <2>1. CASE Takes(p)
    BY <1>1, <2>1 DEF Takes, Owner
  <2>2. CASE LeavesRow(p) \/ Settles(p) \/ GivesBack(p)
    <3>1. escrow'.payee = escrow.payee /\ lock[escrow.payee] = "locked"
      BY <1>1, <1>5, <2>2, StillLocked
    <3>2. \/ escrow.status \in {"releasing", "refunding"}
          \/ escrow.status = "deposited" /\ CalledOff
      BY <1>3, <1>5, <2>2 DEF LeavesRow, Settles, GivesBack, Claimed
    <3>3. PICK q \in Procs : pc[q] = "send" /\ req[q].payee = escrow.payee
      BY <3>1, <3>2 DEF Owned, Owner
    <3>4. q # p
      BY <1>1, <1>5, <3>1, <3>3, SenderSettles
    <3>5. pc'[q] = pc[q] /\ req'[q] = req[q]
      BY <1>2, <3>3, <3>4 DEF Others
    <3>6. QED BY <3>1, <3>3, <3>5 DEF Owner
  <2>3. ~Replaces(p) /\ ~Books(p)
    BY <1>1 DEF Replaces, Books, JobSteps
  <2>4. QED BY <1>1, <2>1, <2>2, <2>3, RowEffects
<1>6. QED BY <1>4, <1>5 DEF Owned

LEMMA OwnedKept ==
    ASSUME ~Faults, Known, Owned, ReplacedBefore, [Next]_vars
    PROVE  Owned' /\ ReplacedBefore'
<1>1. /\ WorldType /\ ControlType /\ HandlerSettles /\ RowNamed /\ LifecycleConstants
  BY KnownParts
(* A step that leaves the world and those who settle alone.                 *)
<1>2. ASSUME NEW p \in Procs, Others(p), UNCHANGED world, pc[p] = "idle",
             p \in Handlers => pc'[p] \notin {"recheck", "cancelWrite", "recordLock"}
      PROVE  Owned' /\ ReplacedBefore'
  <2>1. \A q \in Procs : q = p \/ (pc'[q] = pc[q] /\ req'[q] = req[q])
    BY <1>2 DEF Others
  <2>2. CalledOff' => CalledOff
    BY <1>2, <2>1 DEF CalledOff, world, Procs
  <2>3. Owner => Owner'
    BY <1>2, <2>1 DEF Owner, world
  <2>4. Owned'
    BY <1>2, <2>2, <2>3 DEF Owned, world
  <2>5. ReplacedBefore'
    BY <1>2, <2>1 DEF ReplacedBefore, world, Procs
  <2>6. QED BY <2>4, <2>5
<1>3. ASSUME NEW p \in Handlers, Request(p)
      PROVE  Owned' /\ ReplacedBefore'
  <2>1. /\ p \in Procs /\ Others(p) /\ UNCHANGED world /\ pc[p] = "idle"
        /\ pc'[p] \notin {"recheck", "cancelWrite", "recordLock"}
    BY <1>1, <1>3, RequestMoves DEF Procs
  <2>2. QED BY <1>2, <2>1
<1>4. ASSUME NEW p \in Jobs, Overdue(p)
      PROVE  Owned' /\ ReplacedBefore'
  <2>1. p \in Procs /\ Others(p) /\ UNCHANGED world /\ p \notin Handlers
    BY <1>1, <1>4, OverdueMoves, KnownParts DEF Procs, LifecycleConstants
  <2>2. pc[p] = "idle"
    BY <1>4 DEF Overdue
  <2>3. QED BY <1>2, <2>1, <2>2
<1>5. ASSUME NEW w \in Workers, LockFunds(w)
      PROVE  Owned' /\ ReplacedBefore'
  <2>1. /\ UNCHANGED <<task, escrow, pc, req>>
        /\ \A v \in Workers : lock'[v] = lock[v] \/ lock[v] = "none"
    BY <1>1, <1>5 DEF LockFunds, WorldType
  <2>2. escrow.status \in {"deposited", "releasing", "refunding"} =>
           lock[escrow.payee] # "none" /\ escrow.payee \in Workers
    BY <1>1 DEF RowNamed
  <2>3. QED BY <2>1, <2>2 DEF Owned, Owner, CalledOff, ReplacedBefore
<1>6. CASE Reconcile
  <2>1. /\ UNCHANGED <<task, lock, pc, req>>
        /\ escrow.status \in {"releasing", "refunding"}
        /\ \A q \in Procs : pc[q] # "send"
        /\ escrow' = [escrow EXCEPT !.status =
                        IF lock[escrow.payee] = "locked" THEN "deposited"
                        ELSE IF @ = "releasing" THEN "released" ELSE "refunded"]
    BY <1>6 DEF Reconcile, Settling
  <2>2. lock[escrow.payee] # "locked"
    BY <2>1 DEF Owned, Owner
  <2>3. escrow'.status \in {"released", "refunded"}
    BY <1>1, <2>1, <2>2 DEF WorldType
  <2>4. QED BY <2>1, <2>3 DEF Owned, ReplacedBefore
<1>7. CASE PassDeadline \/ UNCHANGED vars
  BY <1>7 DEF PassDeadline, vars, Owned, Owner, CalledOff, ReplacedBefore
<1>8. ASSUME NEW w \in Workers, NEW op \in {"release", "refund"}, Mine(w, op)
      PROVE  Owned' /\ ReplacedBefore'
  <2>1. /\ UNCHANGED <<task, escrow, pc, req>>
        /\ \A v \in Workers : lock'[v] = "locked" => lock[v] = "locked"
    BY <1>1, <1>8 DEF Mine, Settled, WorldType
  <2>2. escrow.status # "pending" => escrow.payee \in Workers
    BY <1>1 DEF RowNamed
  <2>3. QED BY <2>1, <2>2 DEF Owned, Owner, CalledOff, ReplacedBefore
<1>9. QED
  BY <1>3, <1>4, <1>5, <1>6, <1>7, <1>8, NextCases, OwnedHandlerStep, OwnedJobStep
     DEF Outside

LEMMA OwnedAlways ==
    ASSUME OneHandler, ~Faults
    PROVE  Spec => []Owned
<1>1. Init => Sound /\ Owned /\ ReplacedBefore
  BY InitSound, InitOwned, OneHandler
<1>2. Sound /\ Owned /\ ReplacedBefore /\ [Next]_vars
         => Sound' /\ Owned' /\ ReplacedBefore'
  BY SoundKept, OwnedKept, ~Faults DEF Sound
<1>3. QED BY <1>1, <1>2, PTL DEF Spec

(* "Cancel a task and handle payment refunds automatically": once all       *)
(* requests have ended, the funds that the row of a cancelled task names are*)
(* not locked, for one handler and any number of jobs, as long as no call   *)
(* fails.                                                                   *)
THEOREM CancelledIsUnlocked ==
    ASSUME OneHandler, ~Faults
    PROVE  Spec => []CancelledUnlocked
<1>1. Owned => CancelledUnlocked
  BY DEF Owned, Owner, CalledOff, CancelledUnlocked, Procs
<1>2. QED BY <1>1, OwnedAlways, OneHandler, ~Faults, PTL

(* resolve_dispute: once all requests have ended, no funds stay locked      *)
(* behind a task that a dispute refunded, under the same hypotheses.        *)
THEOREM RefundedIsUnlocked ==
    ASSUME OneHandler, ~Faults
    PROVE  Spec => []RefundedUnlocked
<1>1. Owned => RefundedUnlocked
  BY DEF Owned, Owner, CalledOff, RefundedUnlocked, Procs
<1>2. QED BY <1>1, OwnedAlways, OneHandler, ~Faults, PTL

-----------------------------------------------------------------------------
(* A completed task keeps its status.                                       *)

(* What completed a task is not undone by the requests that follow: only a  *)
(* dispute, its resolution and a job that listed the task before overwrite  *)
(* the status, for one handler, any number of jobs, and no failed call.     *)
THEOREM CompletionStays ==
    ASSUME OneHandler, ~Faults
    PROVE  Spec => CompletedStays
<1>1. Init => Sound
  BY InitSound, OneHandler
<1>2. Sound /\ [Next]_vars => Sound'
  BY SoundKept, ~Faults
<1>3. ASSUME Known, AfterRelease, [Next]_vars, task.status = "completed"
      PROVE  \/ task'.status = "completed"
             \/ \E p \in Procs : pc[p] \in {"disputeInsert", "resolveWrite"}
             \/ \E j \in Jobs : pc[j] = "expire"
  <2>1. /\ WorldType /\ ControlType /\ LifecycleConstants /\ AcceptedIsSettled
    BY <1>3, KnownParts
  <2>2. Released
    BY <1>3, <2>1 DEF AcceptedIsSettled, Released
  <2>3. ASSUME NEW p \in Handlers, Steps1(p)
        PROVE  task'.status = "completed" \/ pc[p] \in {"disputeInsert", "resolveWrite"}
    <3>1. p \in Procs /\ pc[p] \in ReleasedSteps
      BY <1>3, <2>2 DEF AfterRelease, Procs
    <3>2. QED BY <1>3, <2>1, <2>3, <3>1, TaskMoves DEF ReleasedSteps
  <2>4. ASSUME NEW p \in Jobs, Steps1(p)
        PROVE  task'.status = "completed" \/ pc[p] = "expire"
    <3>1. p \in Procs /\ pc[p] \in JobSteps
      BY <1>3, JobParts, KnownParts
    <3>2. QED BY <1>3, <2>1, <2>4, <3>1, TaskMoves DEF JobSteps
  <2>5. ASSUME NEW p \in Handlers, Request(p)
        PROVE  UNCHANGED task
    BY <2>1, <2>5, RequestMoves DEF Procs, world
  <2>6. QED
    BY <1>3, <2>3, <2>4, <2>5, NextCases, OutsideStep DEF Overdue, Procs
<1>4. Sound /\ [Next]_vars =>
         (task.status = "completed" =>
            \/ task'.status = "completed"
            \/ \E p \in Procs : pc[p] \in {"disputeInsert", "resolveWrite"}
            \/ \E j \in Jobs : pc[j] = "expire")
  BY <1>3, ~Faults DEF Sound
<1>5. QED BY <1>1, <1>2, <1>4, PTL DEF Spec, CompletedStays
=============================================================================
