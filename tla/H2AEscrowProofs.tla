--------------------------- MODULE H2AEscrowProofs ---------------------------
(***************************************************************************)
(* Theorems about H2AEscrow, for any number of workers, authorisations,     *)
(* handlers and jobs.                                                       *)
(***************************************************************************)
EXTENDS H2AEscrow, SequenceTheorems, TLAPS

-----------------------------------------------------------------------------
(* The escrows rows                                                         *)

RowSet == [status : RowStatuses, auth : Auths \cup {NoAuth}, prev : RowStatuses]

(* Rows rewritten in place are as many rows as before.                      *)
LEMMA Rewritten ==
    ASSUME NEW S, NEW s \in Seq(S), NEW f \in [DOMAIN s -> S]
    PROVE  f \in Seq(S) /\ Len(f) = Len(s) /\ DOMAIN f = DOMAIN s
<1>1. Len(s) \in Nat /\ DOMAIN s = 1..Len(s)
  BY LenProperties
<1>2. f \in [1..Len(s) -> S]
  BY <1>1
<1>3. f \in Seq(S)
  BY <1>1, <1>2, SeqDef
<1>4. Len(f) \in Nat /\ DOMAIN f = 1..Len(f)
  BY <1>3, LenProperties
<1>5. Len(f) = Len(s)
  BY <1>1, <1>2, <1>4
<1>6. QED BY <1>1, <1>2, <1>3, <1>5

RowsType == rows \in Seq(RowSet)

LEMMA SetStatusRows ==
    ASSUME RowsType, NEW from, NEW to \in RowStatuses, rows' = SetStatus(from, to)
    PROVE  /\ RowsType' /\ Len(rows') = Len(rows) /\ DOMAIN rows' = DOMAIN rows
           /\ \A i \in DOMAIN rows :
                /\ rows'[i].status = IF rows[i].status \in from
                                     THEN to ELSE rows[i].status
                /\ rows'[i].auth = rows[i].auth
                /\ rows'[i].prev = rows[i].prev
<1>1. \A i \in DOMAIN rows : rows[i] \in RowSet
  BY LenProperties, ElementOfSeq DEF RowsType
<1>2. rows' \in [DOMAIN rows -> RowSet]
  BY <1>1 DEF SetStatus, RowSet
<1>3. RowsType' /\ Len(rows') = Len(rows) /\ DOMAIN rows' = DOMAIN rows
  BY <1>2, Rewritten DEF RowsType
<1>4. QED BY <1>1, <1>3 DEF SetStatus, RowSet

LEMMA RowInSet ==
    ASSUME NEW s \in RowStatuses, NEW a \in Auths \cup {NoAuth}
    PROVE  Row(s, a) \in RowSet
BY DEF Row, RowSet

(* The newest row is one of the rows.                                       *)
LEMMA NewestRow ==
    ASSUME RowsType, Len(rows) >= 1
    PROVE  /\ Len(rows) \in Nat /\ DOMAIN rows = 1..Len(rows)
           /\ Len(rows) \in DOMAIN rows
           /\ \A i \in DOMAIN rows : rows[i] \in RowSet
           /\ Newest \in RowSet
BY LenProperties, ElementOfSeq DEF RowsType, Newest

-----------------------------------------------------------------------------
(* Types                                                                    *)

ControlType == pc \in [Procs -> Steps] /\ req \in [Procs -> Reqs]

WorldType ==
    /\ task \in [status : OpenStatuses \cup ClosedStatuses,
                 executor : Workers \cup {NoWorker}]
    /\ chain \in [Auths -> {"none", "locked", "released", "refunded"}]
    /\ lost \in [Auths -> SUBSET {"release", "refund"}]
    /\ verdict \in [Workers -> Verdicts]
    /\ late \in BOOLEAN

(* A request that assigns names a worker and a signed authorisation, one    *)
(* that submits or reviews a worker.                                        *)
Assigning == {"marker", "accept", "drain", "relay", "lockRow", "insertRow",
              "lockTx", "takeBack"}
ForWorker == {"submitCheck", "submission", "submitted", "complete", "verdict",
              "rejectWrite", "reviseWrite", "resume"}

RequestType ==
    \A p \in Procs :
        /\ pc[p] \in Assigning => req[p].worker \in Workers /\ req[p].auth \in Auths
        /\ pc[p] \in ForWorker => req[p].worker \in Workers
        /\ req[p].kind = "approve" => req[p].worker \in Workers

(* The type invariant, and that there is always a newest row.               *)
Typed == TypeOK /\ RequestType /\ Len(rows) >= 1

LEMMA TypeParts ==
    /\ TypeOK <=> WorldType /\ RowsType /\ ControlType
    /\ TypeOK' <=> WorldType' /\ RowsType' /\ ControlType'
BY DEF TypeOK, WorldType, RowsType, ControlType, RowSet

(* What p leaves alone.                                                     *)
Others(p) == \A q \in Procs \ {p} : pc'[q] = pc[q] /\ req'[q] = req[q]

LEMMA GotoEffect ==
    ASSUME ControlType, NEW p \in Procs, NEW s \in Steps, Goto(p, s)
    PROVE  ControlType' /\ Others(p) /\ pc'[p] = s /\ req' = req
BY DEF ControlType, Goto, Others

LEMMA NoReqType == NoReq \in Reqs
<1>1. 0 \in 0..MaxJobRefunds
  BY H2AConstants DEF H2AConstants
<1>2. QED BY <1>1 DEF NoReq, Reqs, RowStatuses

LEMMA ReturnEffect ==
    ASSUME ControlType, NEW p \in Procs, Return(p)
    PROVE  ControlType' /\ Others(p) /\ pc'[p] = "idle" /\ req'[p] = NoReq
BY NoReqType DEF ControlType, Return, Others, Steps

LEMMA BeginEffect ==
    ASSUME ControlType, H2AConstants, NEW p \in Procs, NEW kind,
           NEW w \in Workers \cup {NoWorker}, NEW a \in Auths \cup {NoAuth},
           NEW s \in Steps, Begin(p, kind, w, a, s)
    PROVE  /\ ControlType' /\ Others(p) /\ pc[p] = "idle" /\ pc'[p] = s
           /\ req'[p].kind = kind /\ req'[p].worker = w /\ req'[p].auth = a
           /\ UNCHANGED world
<1>1. [NoReq EXCEPT !.kind = kind, !.worker = w, !.auth = a] \in Reqs
  BY NoReqType DEF Begin, H2AConstants, NoReq, Reqs
<1>2. QED BY <1>1 DEF ControlType, Begin, Others, NoReq

LEMMA StepNames ==
    {"idle"} \cup Assigning \cup ForWorker
       \cup {"findLock", "claim", "send", "book", "cancelMarker", "cancelFree",
             "closeMarker", "close", "expire"} = Steps
BY DEF Steps, Assigning, ForWorker

-----------------------------------------------------------------------------
(* What the steps do to the rows                                            *)

LEMMA LockRowRows ==
    ASSUME Typed, NEW p \in Procs, LockRow(p)
    PROVE  /\ RowsType' /\ Len(rows') = Len(rows) /\ DOMAIN rows' = DOMAIN rows
           /\ \/ UNCHANGED rows
              \/ \A i \in DOMAIN rows :
                    IF rows[i].status = "pending"
                    THEN rows'[i] = Row("deposited", req[p].auth)
                    ELSE rows'[i] = rows[i]
<1>1. RowsType /\ req[p].auth \in Auths
  BY TypeParts DEF Typed, RequestType, LockRow, Assigning
<1>2. Row("deposited", req[p].auth) \in RowSet
  BY <1>1, RowInSet DEF RowStatuses
<1>3. CASE rows' = [i \in DOMAIN rows |->
                      IF rows[i].status = "pending"
                      THEN Row("deposited", req[p].auth)
                      ELSE rows[i]]
  <2>1. rows' \in [DOMAIN rows -> RowSet]
    BY <1>1, <1>2, <1>3, NewestRow DEF Typed
  <2>2. QED BY <1>1, <1>3, <2>1, Rewritten DEF RowsType
<1>4. CASE UNCHANGED rows
  BY <1>1, <1>4 DEF RowsType
<1>5. QED BY <1>3, <1>4 DEF LockRow

LEMMA InsertRowRows ==
    ASSUME Typed, NEW p \in Procs, InsertRow(p)
    PROVE  /\ RowsType'
           /\ \/ UNCHANGED rows
              \/ /\ Len(rows') = Len(rows) + 1
                 /\ \A i \in DOMAIN rows : rows'[i] = rows[i]
                 /\ \A i \in DOMAIN rows' :
                      i \in DOMAIN rows \/ rows'[i] = Newest'
                 /\ Newest' = Row("deposited", req[p].auth)
<1>1. RowsType /\ req[p].auth \in Auths
  BY TypeParts DEF Typed, RequestType, InsertRow, Assigning
<1>2. Row("deposited", req[p].auth) \in RowSet
  BY <1>1, RowInSet DEF RowStatuses
<1>3. CASE rows' = Append(rows, Row("deposited", req[p].auth))
  <2>1. /\ rows' \in Seq(RowSet) /\ Len(rows') = Len(rows) + 1
        /\ \A i \in 1..Len(rows) : rows'[i] = rows[i]
        /\ rows'[Len(rows) + 1] = Row("deposited", req[p].auth)
    BY <1>1, <1>2, <1>3 DEF RowsType
  <2>2. /\ Len(rows) \in Nat /\ DOMAIN rows = 1..Len(rows)
        /\ DOMAIN rows' = 1..Len(rows')
    BY <1>1, <2>1, LenProperties DEF RowsType
  <2>3. QED BY <2>1, <2>2 DEF RowsType, Newest
<1>4. CASE UNCHANGED rows
  BY <1>1, <1>4 DEF RowsType
<1>5. QED BY <1>3, <1>4 DEF InsertRow

LEMMA ClaimRows ==
    ASSUME Typed, NEW p \in Procs, Claim(p)
    PROVE  /\ RowsType' /\ Len(rows') = Len(rows) /\ DOMAIN rows' = DOMAIN rows
           /\ \/ UNCHANGED rows
              \/ \A i \in DOMAIN rows :
                    IF rows[i].status = Newest.status
                    THEN rows'[i] = [status |-> Claimed(Operation(p)),
                                     auth |-> Newest.auth,
                                     prev |-> Newest.status]
                    ELSE rows'[i] = rows[i]
<1>1. RowsType
  BY TypeParts DEF Typed
<1>2. CASE rows' = [i \in DOMAIN rows |->
                      IF rows[i].status = Newest.status
                      THEN [status |-> Claimed(Operation(p)),
                            auth |-> Newest.auth, prev |-> Newest.status]
                      ELSE rows[i]]
  <2>1. [status |-> Claimed(Operation(p)), auth |-> Newest.auth,
         prev |-> Newest.status] \in RowSet
    BY <1>1, NewestRow DEF Typed, RowSet, Claimed, RowStatuses, Blocked
  <2>2. rows' \in [DOMAIN rows -> RowSet]
    BY <1>1, <1>2, <2>1, NewestRow DEF Typed
  <2>3. QED BY <1>1, <1>2, <2>2, Rewritten DEF RowsType
<1>3. CASE UNCHANGED rows
  BY <1>1, <1>3 DEF RowsType
<1>4. QED BY <1>2, <1>3 DEF Claim

(* Steps that only change the status of rows.                               *)
LEMMA StatusRows ==
    ASSUME Typed, NEW p \in Procs,
           NothingLocked(p) \/ SendFail(p) \/ Book(p) \/ CloseMarker(p)
    PROVE  /\ RowsType' /\ Len(rows') = Len(rows) /\ DOMAIN rows' = DOMAIN rows
           /\ \A i \in DOMAIN rows :
                rows'[i].auth = rows[i].auth /\ rows'[i].prev = rows[i].prev
<1>1. RowsType /\ req[p].seen \in RowStatuses
  BY TypeParts DEF Typed, ControlType, Reqs
<1>2. /\ Settled(Operation(p)) \in RowStatuses
      /\ "cancelled" \in RowStatuses
  BY DEF Settled, RowStatuses, Blocked
<1>3. CASE NothingLocked(p) \/ SendFail(p)
  BY <1>1, <1>3, SetStatusRows DEF NothingLocked, SendFail, GiveBack, RowsType
<1>4. CASE Book(p) \/ CloseMarker(p)
  BY <1>1, <1>2, <1>4, SetStatusRows DEF Book, CloseMarker, RowsType
<1>5. QED BY <1>3, <1>4

LEMMA ReconcileRows ==
    ASSUME Typed, Reconcile
    PROVE  /\ RowsType' /\ Len(rows') = Len(rows) /\ DOMAIN rows' = DOMAIN rows
           /\ \E i \in DOMAIN rows :
                /\ rows[i].status \in {"releasing", "refunding"}
                /\ ServerSigning \/ rows[i].auth = NoAuth
                /\ rows'[i].auth = rows[i].auth /\ rows'[i].prev = rows[i].prev
                /\ rows'[i].status =
                      IF rows[i].auth = NoAuth \/ Locked(rows[i].auth)
                      THEN rows[i].prev
                      ELSE IF rows[i].status = "releasing"
                           THEN "released" ELSE "refunded"
                /\ \A j \in DOMAIN rows \ {i} : rows'[j] = rows[j]
<1>1. RowsType /\ DOMAIN rows = 1..Len(rows) /\ \A i \in DOMAIN rows : rows[i] \in RowSet
  BY TypeParts, NewestRow DEF Typed
<1>2. PICK i \in DOMAIN rows :
        /\ rows[i].status \in {"releasing", "refunding"}
        /\ ServerSigning \/ rows[i].auth = NoAuth
        /\ rows' = [rows EXCEPT ![i].status =
                      IF rows[i].auth = NoAuth \/ Locked(rows[i].auth)
                      THEN rows[i].prev
                      ELSE IF @ = "releasing" THEN "released" ELSE "refunded"]
  BY DEF Reconcile
<1>3. rows' \in [DOMAIN rows -> RowSet]
  BY <1>1, <1>2 DEF RowSet, RowStatuses, Blocked
<1>4. RowsType' /\ Len(rows') = Len(rows) /\ DOMAIN rows' = DOMAIN rows
  BY <1>1, <1>3, Rewritten DEF RowsType
<1>5. QED BY <1>1, <1>2, <1>4 DEF RowSet

-----------------------------------------------------------------------------
(* Where a step takes a process                                             *)

(* The process goes on to one of these steps with the same request.         *)
Moves(p, from, to) ==
    /\ pc[p] \in from
    /\ pc'[p] \in to
    /\ req'[p] = req[p]

Ends(p) == pc'[p] = "idle" /\ req'[p] = NoReq

(* Assignment and submission.                                               *)
LEMMA AssignMoves ==
    ASSUME ControlType, NEW p \in Procs,
           \/ FindMarker(p) \/ Accept(p) \/ Drain(p) \/ Relay(p)
           \/ LockRow(p) \/ InsertRow(p) \/ LockTx(p) \/ TakeBack(p)
           \/ SubmitCheck(p) \/ Submission(p) \/ Submitted(p)
    PROVE  /\ ControlType' /\ Others(p)
           /\ \/ Ends(p)
              \/ Moves(p, {"marker"}, {"accept", "drain"})
              \/ Moves(p, {"accept"}, {"relay"})
              \/ Moves(p, {"relay"}, {"lockRow", "takeBack"})
              \/ Moves(p, {"lockRow"}, {"lockTx", "insertRow", "takeBack"})
              \/ Moves(p, {"insertRow"}, {"lockTx", "takeBack"})
              \/ Moves(p, {"lockTx"}, {"takeBack"})
              \/ Moves(p, {"submitCheck"}, {"submission"})
              \/ Moves(p, {"submission"}, {"submitted"})
<1>1. ASSUME NEW s \in Steps, Goto(p, s)
      PROVE  ControlType' /\ Others(p) /\ Moves(p, {pc[p]}, {s})
  BY <1>1, GotoEffect DEF Moves
<1>2. ASSUME Return(p)
      PROVE  ControlType' /\ Others(p) /\ Ends(p)
  BY <1>2, ReturnEffect DEF Ends
<1>3. Assigning \cup {"submission", "submitted"} \subseteq Steps
  BY StepNames DEF ForWorker
<1>4. CASE FindMarker(p) \/ Accept(p) \/ Drain(p)
  BY <1>1, <1>2, <1>3, <1>4 DEF FindMarker, Accept, Drain, Moves, Assigning
<1>5. CASE Relay(p) \/ LockTx(p) \/ TakeBack(p)
  BY <1>1, <1>2, <1>3, <1>5 DEF Relay, LockTx, TakeBack, Moves, Assigning
<1>6. CASE LockRow(p) \/ InsertRow(p)
  BY <1>1, <1>3, <1>6 DEF LockRow, InsertRow, Moves, Assigning
<1>7. CASE SubmitCheck(p) \/ Submission(p) \/ Submitted(p)
  BY <1>1, <1>2, <1>3, <1>7 DEF SubmitCheck, Submission, Submitted, Moves
<1>8. QED BY <1>4, <1>5, <1>6, <1>7

(* The job tries its refund again.                                          *)
Retries(p) ==
    /\ pc[p] \in {"claim", "send"} /\ pc'[p] = "claim" /\ req[p].kind = "expire"
    /\ req'[p].kind = req[p].kind /\ req'[p].worker = req[p].worker

LEMMA UnsettledMoves ==
    ASSUME ControlType, NEW p \in Procs, pc[p] \in {"claim", "send"}, Unsettled(p)
    PROVE  ControlType' /\ Others(p) /\ (Ends(p) \/ Retries(p))
<1>1. CASE Return(p)
  BY <1>1, ReturnEffect DEF Ends
<1>2. CASE /\ req[p].kind = "expire"
           /\ req[p].tries + 1 < MaxJobRefunds
           /\ pc' = [pc EXCEPT ![p] = "claim"]
           /\ req' = [req EXCEPT ![p].tries = @ + 1]
  <2>1. req[p] \in Reqs /\ req[p].tries \in 0..MaxJobRefunds /\ MaxJobRefunds \in Nat
    BY H2AConstants DEF ControlType, Reqs, H2AConstants
  <2>2. req'[p] = [req[p] EXCEPT !.tries = req[p].tries + 1] /\ pc'[p] = "claim"
    BY <1>2 DEF ControlType
  <2>3. req[p].tries + 1 \in 0..MaxJobRefunds
    BY <1>2, <2>1
  <2>4. /\ req'[p] \in Reqs
        /\ req'[p].kind = req[p].kind /\ req'[p].worker = req[p].worker
    BY <2>1, <2>2, <2>3 DEF Reqs
  <2>5. ControlType' /\ Others(p)
    BY <1>2, <2>2, <2>4 DEF ControlType, Others, Steps
  <2>6. QED BY <1>2, <2>2, <2>4, <2>5 DEF Retries
<1>3. QED BY <1>1, <1>2 DEF Unsettled

(* The settlement.                                                          *)
LEMMA SettleMoves ==
    ASSUME Typed, NEW p \in Procs,
           \/ FindLock(p) \/ Claim(p) \/ SendOk(p) \/ NothingLocked(p)
           \/ SendFail(p) \/ TimedOut(p) \/ Book(p) \/ Expire(p)
    PROVE  /\ ControlType' /\ Others(p)
           /\ \/ Ends(p)
              \/ Moves(p, {"findLock"}, {"claim"}) /\ Found("deposited")
              \/ Moves(p, {"findLock"}, {"close"}) /\ req[p].kind # "approve"
              \/ /\ pc[p] = "claim" /\ pc'[p] = "send"
                 /\ req'[p].kind = req[p].kind /\ req'[p].worker = req[p].worker
                 /\ req'[p].auth = Newest.auth /\ req'[p].seen = Newest.status
                 /\ Newest.status \notin Blocked
                 /\ \A i \in DOMAIN rows :
                       IF rows[i].status = Newest.status
                       THEN rows'[i] = [status |-> Claimed(Operation(p)),
                                        auth |-> Newest.auth,
                                        prev |-> Newest.status]
                       ELSE rows'[i] = rows[i]
              \/ /\ Moves(p, {"claim"}, {"book"}) /\ UNCHANGED rows
                 /\ req[p].kind \notin {"approve", "expire"}
                 /\ Newest.status = "refunded"
              \/ Retries(p)
              \/ /\ Moves(p, {"send"}, {"book"}) /\ req[p].kind # "expire"
                 /\ SendOk(p) \/ NothingLocked(p) \/ TimedOut(p)
              \/ Moves(p, {"book"}, {"complete"}) /\ req[p].kind = "approve"
              \/ Moves(p, {"book"}, {"close"}) /\ req[p].kind # "approve"
              \/ Moves(p, {"expire"}, {"claim"})
<1>0. ControlType /\ RowsType
  BY TypeParts DEF Typed
<1>1. ASSUME NEW s \in Steps, Goto(p, s)
      PROVE  ControlType' /\ Others(p) /\ Moves(p, {pc[p]}, {s})
  BY <1>0, <1>1, GotoEffect DEF Moves
<1>2. ASSUME Return(p)
      PROVE  ControlType' /\ Others(p) /\ Ends(p)
  BY <1>0, <1>2, ReturnEffect DEF Ends
<1>3. {"claim", "close", "book", "complete"} \subseteq Steps
  BY DEF Steps
<1>4. CASE FindLock(p)
  BY <1>1, <1>2, <1>3, <1>4 DEF FindLock, WithoutEscrow, Moves
<1>5. CASE Claim(p)
  <2>1. CASE /\ Newest.status \notin Blocked
             /\ rows' = [i \in DOMAIN rows |->
                           IF rows[i].status = Newest.status
                           THEN [status |-> Claimed(Operation(p)),
                                 auth |-> Newest.auth, prev |-> Newest.status]
                           ELSE rows[i]]
             /\ pc' = [pc EXCEPT ![p] = "send"]
             /\ req' = [req EXCEPT ![p].auth = Newest.auth,
                                   ![p].seen = Newest.status]
    <3>1. Newest.auth \in Auths \cup {NoAuth} /\ Newest.status \in RowStatuses
      BY <1>0, NewestRow DEF Typed, RowSet
    <3>2. "send" \in Steps
      BY DEF Steps
    <3>3. req'[p] = [req[p] EXCEPT !.auth = Newest.auth, !.seen = Newest.status]
      BY <1>0, <2>1 DEF ControlType
    <3>4. /\ req'[p] \in Reqs /\ req'[p].kind = req[p].kind
          /\ req'[p].worker = req[p].worker
          /\ req'[p].auth = Newest.auth /\ req'[p].seen = Newest.status
      BY <1>0, <3>1, <3>3 DEF ControlType, Reqs
    <3>5. ControlType' /\ Others(p) /\ pc'[p] = "send"
      BY <1>0, <2>1, <3>2, <3>4 DEF ControlType, Others
    <3>6. QED BY <1>5, <2>1, <3>4, <3>5 DEF Claim
  <2>2. CASE /\ Newest.status = "refunded" /\ req[p].kind # "approve"
             /\ IF req[p].kind = "expire" THEN Return(p) ELSE Goto(p, "book")
             /\ UNCHANGED rows
    BY <1>1, <1>2, <1>3, <1>5, <2>2 DEF Claim, Moves
  <2>3. CASE Unsettled(p)
    BY <1>0, <1>5, <2>3, UnsettledMoves DEF Claim
  <2>4. QED BY <1>5, <2>1, <2>2, <2>3 DEF Claim
<1>6. CASE SendOk(p) \/ TimedOut(p)
  BY <1>1, <1>2, <1>3, <1>6 DEF SendOk, TimedOut, Moves
<1>7. CASE NothingLocked(p)
  BY <1>1, <1>2, <1>3, <1>7 DEF NothingLocked, Moves
<1>8. CASE SendFail(p)
  BY <1>0, <1>8, UnsettledMoves DEF SendFail
<1>9. CASE Book(p) \/ Expire(p)
  BY <1>1, <1>3, <1>9 DEF Book, Expire, Moves
<1>10. QED BY <1>4, <1>5, <1>6, <1>7, <1>8, <1>9

(* Reviews and cancellations, before and after the settlement.              *)
LEMMA ReviewMoves ==
    ASSUME ControlType, NEW p \in Procs,
           \/ Complete(p) \/ AcceptWork(p) \/ RejectWrite(p)
           \/ ReviseWrite(p) \/ Resume(p) \/ CancelMarker(p)
           \/ CancelFree(p) \/ CloseMarker(p) \/ Close(p) \/ Crash(p)
    PROVE  /\ ControlType' /\ Others(p)
           /\ \/ Ends(p)
              \/ Moves(p, {"complete"}, {"verdict"})
              \/ Moves(p, {"rejectWrite", "cancelMarker"}, {"findLock"})
              \/ Moves(p, {"reviseWrite"}, {"resume"})
              \/ Moves(p, {"cancelMarker"}, {"cancelFree"})
              \/ Moves(p, {"cancelFree"}, {"closeMarker"})
<1>1. ASSUME NEW s \in Steps, Goto(p, s)
      PROVE  ControlType' /\ Others(p) /\ Moves(p, {pc[p]}, {s})
  BY <1>1, GotoEffect DEF Moves
<1>2. ASSUME Return(p)
      PROVE  ControlType' /\ Others(p) /\ Ends(p)
  BY <1>2, ReturnEffect DEF Ends
<1>3. {"verdict", "findLock", "resume", "cancelFree", "closeMarker"} \subseteq Steps
  BY DEF Steps
<1>4. CASE Complete(p) \/ RejectWrite(p) \/ ReviseWrite(p) \/ CancelFree(p)
  BY <1>1, <1>3, <1>4 DEF Complete, RejectWrite, ReviseWrite, CancelFree, Moves
<1>5. CASE CancelMarker(p)
  BY <1>1, <1>3, <1>5 DEF CancelMarker, Moves
<1>6. CASE AcceptWork(p) \/ Resume(p) \/ CloseMarker(p) \/ Close(p) \/ Crash(p)
  BY <1>2, <1>6 DEF AcceptWork, Resume, CloseMarker, Close, Crash
<1>7. QED BY <1>4, <1>5, <1>6

(* Which request begins where.                                              *)
LEMMA RequestMoves ==
    ASSUME ControlType, H2AConstants, NEW p \in Procs, Request(p) \/ Overdue(p)
    PROVE  /\ ControlType' /\ Others(p) /\ UNCHANGED world /\ pc[p] = "idle"
           /\ \/ \E w \in Workers, a \in Auths :
                    /\ task.status = "published" /\ pc'[p] = "marker"
                    /\ req'[p].kind = "assign" /\ req'[p].worker = w
                    /\ req'[p].auth = a
              \/ \E w \in Workers :
                    /\ req'[p].worker = w
                    /\ \/ /\ pc'[p] = "submitCheck" /\ req'[p].kind = "submit"
                          /\ task.executor = w
                          /\ task.status \in {"accepted", "in_progress"}
                       \/ /\ \/ pc'[p] = "findLock" /\ req'[p].kind = "approve"
                             \/ pc'[p] = "rejectWrite" /\ req'[p].kind = "reject"
                             \/ pc'[p] = "reviseWrite" /\ req'[p].kind = "revise"
                          /\ Reviewable(w)
              \/ pc'[p] = "cancelMarker" /\ req'[p].kind = "cancel"
              \/ pc'[p] = "expire" /\ req'[p].kind = "expire"
<1>1. {"marker", "submitCheck", "findLock", "rejectWrite", "reviseWrite",
       "cancelMarker", "expire"} \subseteq Steps
  BY DEF Steps
<1>2. ASSUME NEW w \in Workers, NEW a \in Auths, Assign(p, w, a)
      PROVE  /\ ControlType' /\ Others(p) /\ UNCHANGED world /\ pc[p] = "idle"
             /\ task.status = "published" /\ pc'[p] = "marker"
             /\ req'[p].kind = "assign" /\ req'[p].worker = w
             /\ req'[p].auth = a
  BY <1>1, <1>2, BeginEffect DEF Assign
<1>3. ASSUME NEW w \in Workers,
             Submit(p, w) \/ Approve(p, w) \/ Reject(p, w) \/ Revise(p, w)
      PROVE  /\ ControlType' /\ Others(p) /\ UNCHANGED world /\ pc[p] = "idle"
             /\ req'[p].worker = w
             /\ \/ /\ pc'[p] = "submitCheck" /\ req'[p].kind = "submit"
                   /\ task.executor = w
                   /\ task.status \in {"accepted", "in_progress"}
                \/ /\ \/ pc'[p] = "findLock" /\ req'[p].kind = "approve"
                      \/ pc'[p] = "rejectWrite" /\ req'[p].kind = "reject"
                      \/ pc'[p] = "reviseWrite" /\ req'[p].kind = "revise"
                   /\ Reviewable(w)
  BY <1>1, <1>3, BeginEffect DEF Submit, Approve, Reject, Revise
<1>4. CASE Cancel(p)
  BY <1>1, <1>4, BeginEffect DEF Cancel
<1>5. CASE Overdue(p)
  <2>1. req'[p] = [req[p] EXCEPT !.kind = "expire"] /\ req'[p] \in Reqs
    BY <1>5 DEF Overdue, ControlType, Reqs
  <2>2. ControlType' /\ Others(p)
    BY <1>1, <1>5, <2>1 DEF Overdue, ControlType, Others
  <2>3. QED BY <1>5, <2>1, <2>2 DEF Overdue, ControlType, Reqs
<1>6. QED BY <1>2, <1>3, <1>4, <1>5 DEF Request

-----------------------------------------------------------------------------
(* Every step keeps the types                                               *)

AssignStep(p) ==
    \/ FindMarker(p) \/ Accept(p) \/ Drain(p) \/ Relay(p)
    \/ LockRow(p) \/ InsertRow(p) \/ LockTx(p) \/ TakeBack(p)
    \/ SubmitCheck(p) \/ Submission(p) \/ Submitted(p)

SettleStep(p) ==
    \/ FindLock(p) \/ Claim(p) \/ SendOk(p) \/ NothingLocked(p)
    \/ SendFail(p) \/ TimedOut(p) \/ Book(p) \/ Expire(p)

ReviewStep(p) ==
    \/ Complete(p) \/ AcceptWork(p) \/ RejectWrite(p)
    \/ ReviseWrite(p) \/ Resume(p) \/ CancelMarker(p)
    \/ CancelFree(p) \/ CloseMarker(p) \/ Close(p) \/ Crash(p)

LEMMA StepGroups ==
    ASSUME NEW p \in Procs, Step(p) \/ Crash(p)
    PROVE  AssignStep(p) \/ SettleStep(p) \/ ReviewStep(p)
BY DEF Step, AssignStep, SettleStep, ReviewStep

LEMMA RowsKept ==
    ASSUME Typed, NEW p \in Procs, AssignStep(p) \/ SettleStep(p) \/ ReviewStep(p)
    PROVE  RowsType' /\ Len(rows') >= 1
<1>1. RowsType /\ Len(rows) \in Nat
  BY TypeParts, NewestRow DEF Typed
<1>2. CASE LockRow(p) \/ InsertRow(p) \/ Claim(p)
  <2>1. LockRow(p) => RowsType' /\ Len(rows') = Len(rows)
    BY LockRowRows
  <2>2. InsertRow(p) => RowsType' /\ Len(rows') \in {Len(rows), Len(rows) + 1}
    BY InsertRowRows
  <2>3. Claim(p) => RowsType' /\ Len(rows') = Len(rows)
    BY ClaimRows
  <2>4. QED BY <1>1, <1>2, <2>1, <2>2, <2>3 DEF Typed
<1>3. CASE NothingLocked(p) \/ SendFail(p) \/ Book(p) \/ CloseMarker(p)
  BY <1>3, StatusRows DEF Typed
<1>4. CASE UNCHANGED rows
  BY <1>1, <1>4 DEF Typed, RowsType
<1>5. QED
  BY <1>2, <1>3, <1>4
     DEF AssignStep, SettleStep, ReviewStep, FindMarker, Accept, Drain, Relay,
         LockTx, TakeBack, SubmitCheck, Submission, Submitted, FindLock, SendOk,
         TimedOut, Expire, Complete, AcceptWork, RejectWrite, ReviseWrite, Resume,
         CancelMarker, CancelFree, Close, Crash, world

LEMMA RequestKept ==
    ASSUME Typed, H2AConstants, NEW p \in Procs,
           \/ AssignStep(p) \/ SettleStep(p) \/ ReviewStep(p)
           \/ Request(p) \/ Overdue(p)
    PROVE  ControlType' /\ RequestType' /\ Others(p)
<1>0. ControlType
  BY TypeParts DEF Typed
<1>1. CASE Ends(p) /\ ControlType' /\ Others(p)
  BY <1>1 DEF Ends, Typed, RequestType, Others, NoReq, Assigning, ForWorker
<1>2. CASE AssignStep(p)
  BY <1>0, <1>1, <1>2, AssignMoves
     DEF AssignStep, Moves, Typed, RequestType, Others, Assigning, ForWorker
<1>3. CASE SettleStep(p)
  <2>1. /\ ControlType' /\ Others(p)
        /\ \/ Ends(p)
           \/ /\ req'[p].kind = req[p].kind /\ req'[p].worker = req[p].worker
              /\ pc'[p] \in {"claim", "close", "send", "book", "complete"}
              /\ pc'[p] = "complete" => req[p].kind = "approve"
    BY <1>3, SettleMoves DEF SettleStep, Moves, Retries
  <2>2. QED
    BY <1>1, <2>1 DEF Typed, RequestType, Others, Assigning, ForWorker
<1>4. CASE ReviewStep(p)
  BY <1>0, <1>1, <1>4, ReviewMoves
     DEF ReviewStep, Moves, Typed, RequestType, Others, Assigning, ForWorker
<1>5. CASE Request(p) \/ Overdue(p)
  BY <1>0, <1>5, RequestMoves
     DEF Typed, RequestType, Others, Assigning, ForWorker
<1>6. QED BY <1>2, <1>3, <1>4, <1>5

LEMMA WorldKept ==
    ASSUME Typed, H2AConstants, NEW p \in Procs,
           AssignStep(p) \/ SettleStep(p) \/ ReviewStep(p)
    PROVE  WorldType'
<1>0. WorldType /\ ControlType /\ RequestType
  BY TypeParts DEF Typed
<1>1. CASE \/ Accept(p) \/ Drain(p) \/ TakeBack(p) \/ Submitted(p)
           \/ Complete(p) \/ Resume(p) \/ CancelFree(p) \/ Close(p) \/ Expire(p)
  BY <1>0, <1>1
     DEF Accept, Drain, TakeBack, Submitted, Complete, Resume, CancelFree,
         Close, Expire, AssignTo, CancelTask, WorldType, OpenStatuses,
         ClosedStatuses, RequestType, Assigning
<1>2. CASE Submission(p)
  BY <1>0, <1>2
     DEF Submission, WorldType, OpenStatuses, Verdicts, RequestType, ForWorker
<1>3. CASE AcceptWork(p) \/ RejectWrite(p) \/ ReviseWrite(p)
  BY <1>0, <1>3
     DEF AcceptWork, RejectWrite, ReviseWrite, WorldType, Verdicts, RequestType,
         ForWorker
<1>4. CASE Relay(p)
  BY <1>0, <1>4 DEF Relay, WorldType
<1>5. CASE SendOk(p)
  BY <1>0, <1>5 DEF SendOk, WorldType, Settled
<1>6. CASE SendFail(p)
  <2>1. Operation(p) \in {"release", "refund"}
    BY DEF Operation
  <2>2. QED BY <1>0, <1>6, <2>1 DEF SendFail, WorldType
<1>7. CASE UNCHANGED <<task, chain, lost, verdict, late>>
  BY <1>0, <1>7 DEF WorldType
<1>8. QED
  BY <1>1, <1>2, <1>3, <1>4, <1>5, <1>6, <1>7
     DEF AssignStep, SettleStep, ReviewStep, FindMarker, LockRow, InsertRow,
         LockTx, SubmitCheck, FindLock, Claim, NothingLocked, TimedOut, Book,
         CancelMarker, CloseMarker, Crash, world

LEMMA NextTyped ==
    ASSUME Typed, H2AConstants, [Next]_vars
    PROVE  Typed'
<1>1. ASSUME NEW p \in Procs, Step(p) \/ Crash(p)
      PROVE  Typed'
  BY <1>1, StepGroups, RowsKept, RequestKept, WorldKept, TypeParts DEF Typed
<1>2. ASSUME NEW p \in Procs, Request(p) \/ Overdue(p)
      PROVE  Typed'
  <2>1. ControlType' /\ RequestType' /\ UNCHANGED world
    BY <1>2, RequestKept, RequestMoves, TypeParts DEF Typed
  <2>2. QED BY <2>1, TypeParts DEF Typed, world, WorldType, RowsType
<1>3. CASE Reconcile
  <2>1. RowsType' /\ Len(rows') >= 1
    BY <1>3, ReconcileRows DEF Typed
  <2>2. WorldType' /\ ControlType' /\ RequestType'
    BY <1>3, TypeParts
       DEF Typed, Reconcile, WorldType, ControlType, RequestType
  <2>3. QED BY <2>1, <2>2, TypeParts DEF Typed
<1>4. CASE PassDeadline \/ UNCHANGED vars
  BY <1>4, TypeParts
     DEF Typed, PassDeadline, vars, WorldType, RowsType, ControlType, RequestType
<1>5. ASSUME NEW a \in Auths, NEW op \in {"release", "refund"}, Mine(a, op)
      PROVE  Typed'
  <2>1. WorldType'
    BY <1>5, TypeParts DEF Typed, Mine, WorldType, Settled
  <2>2. QED
    BY <1>5, <2>1, TypeParts DEF Typed, Mine, RowsType, ControlType, RequestType
<1>6. QED BY <1>1, <1>2, <1>3, <1>4, <1>5 DEF Next, Procs

LEMMA InitTyped ==
    ASSUME Init, H2AConstants
    PROVE  Typed
<1>1. Row("pending", NoAuth) \in RowSet
  BY RowInSet DEF RowStatuses
<1>2. RowsType /\ Len(rows) = 1
  BY <1>1 DEF Init, RowsType
<1>3. WorldType
  BY DEF Init, WorldType, OpenStatuses, Verdicts
<1>4. ControlType /\ RequestType
  BY NoReqType DEF Init, ControlType, RequestType, Steps, Assigning, ForWorker, NoReq
<1>5. QED BY <1>2, <1>3, <1>4, TypeParts DEF Typed

(* Every variable keeps its type in every behaviour.                        *)
THEOREM TypeCorrect == Spec => []TypeOK
<1>1. Typed => TypeOK
  BY DEF Typed
<1>2. QED BY <1>1, H2AConstants, InitTyped, NextTyped, PTL DEF Spec

-----------------------------------------------------------------------------
(* Accepted work and a completed task mean that somebody was paid.          *)

LEMMA Signed ==
    ASSUME H2AConstants
    PROVE  NoAuth \notin Auths /\ \A a \in Auths : Receiver(a) \in Workers
BY DEF H2AConstants, NoAuth, Auths, Receiver

(* What happens to the newest row, the one that is settled.                 *)
LEMMA NewestMoves ==
    ASSUME Typed, H2AConstants, NEW p \in Procs,
           AssignStep(p) \/ SettleStep(p) \/ ReviewStep(p)
    PROVE  \/ UNCHANGED rows
           \/ /\ Len(rows') \in {Len(rows), Len(rows) + 1}
              /\ req[p].auth \in Auths /\ Newest' = Row("deposited", req[p].auth)
           \/ Len(rows') = Len(rows) /\ Newest' = Newest
           \/ /\ Len(rows') = Len(rows)
              /\ Newest' = [status |-> Claimed(Operation(p)), auth |-> Newest.auth,
                            prev |-> Newest.status]
           \/ /\ Len(rows') = Len(rows)
              /\ Newest'.auth = Newest.auth /\ Newest'.prev = Newest.prev
              /\ \/ Newest'.status = Newest.status
                 \/ Newest'.status \in {"released", "refunded", "cancelled"}
                 \/ pc[p] = "send" /\ Newest'.status = req[p].seen
<1>1. RowsType /\ Len(rows) \in DOMAIN rows
  BY TypeParts, NewestRow DEF Typed
<1>2. CASE LockRow(p)
  BY <1>1, <1>2, LockRowRows DEF Newest, LockRow, Typed, RequestType, Assigning
<1>3. CASE InsertRow(p)
  BY <1>1, <1>3, InsertRowRows DEF InsertRow, Typed, RequestType, Assigning
<1>4. CASE Claim(p)
  BY <1>1, <1>4, ClaimRows DEF Newest
<1>5. CASE NothingLocked(p) \/ SendFail(p)
  <2>1. req[p].seen \in RowStatuses
    BY TypeParts DEF Typed, ControlType, Reqs
  <2>2. QED
    BY <1>1, <1>5, <2>1, SetStatusRows DEF NothingLocked, SendFail, GiveBack, Newest
<1>6. CASE Book(p) \/ CloseMarker(p)
  <2>1. /\ Settled(Operation(p)) \in {"released", "refunded"}
        /\ {"released", "refunded", "cancelled"} \subseteq RowStatuses
    BY DEF Settled, RowStatuses, Blocked
  <2>2. QED
    BY <1>1, <1>6, <2>1, SetStatusRows DEF Book, CloseMarker, Newest
<1>7. QED
  BY <1>2, <1>3, <1>4, <1>5, <1>6
     DEF AssignStep, SettleStep, ReviewStep, FindMarker, Accept, Drain, Relay,
         LockTx, TakeBack, SubmitCheck, Submission, Submitted, FindLock, SendOk,
         TimedOut, Expire, Complete, AcceptWork, RejectWrite, ReviseWrite, Resume,
         CancelMarker, CancelFree, Close, Crash, world

(* A task whose newest row carries no authorisation has no row in which one *)
(* could be settled: the marker was never a deposit.                        *)
MarkerUnsigned ==
    Newest.auth = NoAuth =>
        /\ Len(rows) = 1
        /\ Newest.status # "deposited" /\ Newest.prev # "deposited"
        /\ \A p \in Procs : pc[p] = "send" => req[p].seen # "deposited"

LEMMA MarkerUnsignedStep ==
    ASSUME Typed, H2AConstants, MarkerUnsigned, NEW p \in Procs,
           AssignStep(p) \/ SettleStep(p) \/ ReviewStep(p)
    PROVE  MarkerUnsigned' /\ (Newest.auth # NoAuth => Newest'.auth # NoAuth)
<1>1. ASSUME Newest'.auth = NoAuth
      PROVE  /\ Newest.auth = NoAuth /\ Len(rows') = 1
             /\ Newest'.status # "deposited" /\ Newest'.prev # "deposited"
  <2>1. ~(req[p].auth \in Auths /\ Newest' = Row("deposited", req[p].auth))
    BY <1>1, Signed DEF Row
  <2>2. CASE UNCHANGED rows \/ Newest' = Newest
    BY <1>1, <2>1, <2>2, NewestMoves DEF MarkerUnsigned, Newest
  <2>3. CASE Newest' = [status |-> Claimed(Operation(p)), auth |-> Newest.auth,
                        prev |-> Newest.status]
    BY <1>1, <2>1, <2>3, NewestMoves DEF MarkerUnsigned, Claimed
  <2>4. CASE /\ Len(rows') = Len(rows)
             /\ Newest'.auth = Newest.auth /\ Newest'.prev = Newest.prev
             /\ \/ Newest'.status = Newest.status
                \/ Newest'.status \in {"released", "refunded", "cancelled"}
                \/ pc[p] = "send" /\ Newest'.status = req[p].seen
    BY <1>1, <2>4 DEF MarkerUnsigned
  <2>5. QED BY <2>1, <2>2, <2>3, <2>4, NewestMoves
<1>2. ASSUME NEW q \in Procs, pc'[q] = "send", Newest.auth = NoAuth
      PROVE  req'[q].seen # "deposited"
  <2>0. ControlType
    BY TypeParts DEF Typed
  <2>1. CASE q = p
    <3>1. SettleStep(p)
      BY <1>2, <2>0, <2>1, AssignMoves, ReviewMoves
         DEF AssignStep, ReviewStep, Moves, Ends
    <3>2. req'[q].seen = Newest.status
      BY <1>2, <2>1, <3>1, SettleMoves DEF SettleStep, Moves, Retries, Ends
    <3>3. QED BY <1>2, <3>2 DEF MarkerUnsigned
  <2>2. CASE q # p
    BY <1>2, <2>2, RequestKept DEF Others, MarkerUnsigned
  <2>3. QED BY <2>1, <2>2
<1>3. QED BY <1>1, <1>2 DEF MarkerUnsigned

LEMMA MarkerUnsignedKept ==
    ASSUME Typed, H2AConstants, MarkerUnsigned, [Next]_vars
    PROVE  MarkerUnsigned' /\ (Newest.auth # NoAuth => Newest'.auth # NoAuth)
<1>1. ASSUME NEW p \in Procs, Step(p) \/ Crash(p)
      PROVE  MarkerUnsigned' /\ (Newest.auth # NoAuth => Newest'.auth # NoAuth)
  BY <1>1, StepGroups, MarkerUnsignedStep
<1>2. ASSUME NEW p \in Procs, Request(p) \/ Overdue(p)
      PROVE  MarkerUnsigned' /\ UNCHANGED Newest
  <2>1. /\ UNCHANGED rows /\ Others(p) /\ pc'[p] # "send"
    BY <1>2, RequestMoves, TypeParts DEF Typed, world
  <2>2. QED BY <2>1 DEF MarkerUnsigned, Others, Newest
<1>3. CASE Reconcile
  <2>1. /\ Len(rows') = Len(rows) /\ Newest'.auth = Newest.auth
        /\ Newest'.prev = Newest.prev /\ UNCHANGED <<pc, req>>
        /\ Newest'.status \in {Newest.status, Newest.prev, "released", "refunded"}
    BY <1>3, ReconcileRows, NewestRow, TypeParts DEF Typed, Newest, Reconcile
  <2>2. QED BY <2>1 DEF MarkerUnsigned
<1>4. CASE PassDeadline \/ UNCHANGED vars
  BY <1>4 DEF PassDeadline, vars, MarkerUnsigned, Newest
<1>5. ASSUME NEW a \in Auths, NEW op \in {"release", "refund"}, Mine(a, op)
      PROVE  MarkerUnsigned' /\ UNCHANGED Newest
  BY <1>5 DEF Mine, MarkerUnsigned, Newest
<1>6. QED BY <1>1, <1>2, <1>3, <1>4, <1>5 DEF Next, Procs

Locking == {"lockRow", "insertRow"}

(* What a row, a claim or a recording names has been locked, and nothing is *)
(* sent for what has not.                                                   *)
RowsUsed ==
    /\ \A i \in DOMAIN rows :
          rows[i].auth \in Auths => chain[rows[i].auth] # "none"
    /\ \A p \in Procs :
          pc[p] = "send" /\ req[p].auth \in Auths => chain[req[p].auth] # "none"
    /\ \A p \in Procs : pc[p] \in Locking => chain[req[p].auth] # "none"

(* Funds in these states have left the escrow, and stay where they are.     *)
Gone == {"released", "refunded"}

SomePaid == \E a \in Auths : chain[a] = "released"

(* Funds that have left the escrow stay where they are.                     *)
LEMMA ChainMoves ==
    ASSUME Typed, H2AConstants, NEW p \in Procs,
           AssignStep(p) \/ SettleStep(p) \/ ReviewStep(p)
    PROVE  /\ \A a \in Auths :
                \/ chain'[a] = chain[a]
                \/ Relay(p) /\ a = req[p].auth /\ chain[a] = "none" /\ chain'[a] = "locked"
                \/ /\ SendOk(p) /\ a = req[p].auth /\ chain[a] = "locked"
                   /\ chain'[a] = Settled(Operation(p))
           /\ \A a \in Auths : chain[a] # "none" => chain'[a] # "none"
           /\ \A a \in Auths : chain[a] \in Gone => chain'[a] = chain[a]
           /\ SomePaid => SomePaid'
<1>1. chain \in [Auths -> {"none", "locked", "released", "refunded"}]
  BY TypeParts DEF Typed, WorldType
<1>2. \A a \in Auths :
        \/ chain'[a] = chain[a]
        \/ Relay(p) /\ a = req[p].auth /\ chain[a] = "none" /\ chain'[a] = "locked"
        \/ /\ SendOk(p) /\ a = req[p].auth /\ chain[a] = "locked"
           /\ chain'[a] = Settled(Operation(p))
  <2>1. CASE Relay(p)
    <3>1. req[p].auth \in Auths
      BY <2>1 DEF Relay, Typed, RequestType, Assigning
    <3>2. QED BY <1>1, <2>1, <3>1 DEF Relay
  <2>2. CASE SendOk(p)
    BY <1>1, <2>2 DEF SendOk
  <2>3. CASE UNCHANGED chain
    BY <2>3
  <2>4. QED
    BY <2>1, <2>2, <2>3
       DEF AssignStep, SettleStep, ReviewStep, FindMarker, Accept, Drain,
           LockRow, InsertRow, LockTx, TakeBack, SubmitCheck, Submission,
           Submitted, FindLock, Claim, NothingLocked, SendFail, TimedOut, Book, Expire,
           Complete, AcceptWork, RejectWrite, ReviseWrite, Resume,
           CancelMarker, CancelFree, CloseMarker, Close, Crash, world
<1>3. QED BY <1>2 DEF SomePaid, Gone, Settled

(* The same of a transaction that was sent before.                          *)
LEMMA MineMoves ==
    ASSUME Typed, NEW a \in Auths, NEW op \in {"release", "refund"}, Mine(a, op)
    PROVE  /\ UNCHANGED <<task, rows, verdict, pc, req>>
           /\ op \in lost[a] /\ Locked(a) /\ chain'[a] = Settled(op)
           /\ \A b \in Auths \ {a} : chain'[b] = chain[b]
           /\ \A b \in Auths : chain[b] # "none" => chain'[b] # "none"
           /\ \A b \in Auths : chain[b] \in Gone => chain'[b] = chain[b]
           /\ SomePaid => SomePaid'
BY TypeParts DEF Typed, WorldType, Mine, Settled, Locked, Gone, SomePaid

(* Where the authorisations of the rows come from.                          *)
LEMMA AuthMoves ==
    ASSUME Typed, H2AConstants, NEW p \in Procs,
           AssignStep(p) \/ SettleStep(p) \/ ReviewStep(p)
    PROVE  \/ \A i \in DOMAIN rows' :
                 i \in DOMAIN rows /\ rows'[i].auth = rows[i].auth
           \/ /\ Claim(p)
              /\ \A i \in DOMAIN rows' : i \in DOMAIN rows
                    /\ rows'[i].auth \in {rows[i].auth, Newest.auth}
           \/ /\ pc[p] \in Locking /\ pc'[p] \notin Locking /\ req[p].auth \in Auths
              /\ \A i \in DOMAIN rows' :
                    \/ i \in DOMAIN rows /\ rows'[i].auth = rows[i].auth
                    \/ rows'[i].auth = req[p].auth
<1>0. RowsType /\ ControlType /\ (pc[p] \in Locking => req[p].auth \in Auths)
  BY TypeParts DEF Typed, RequestType, Locking, Assigning
<1>1. CASE LockRow(p) /\ rows' # rows
  <2>1. pc[p] \in Locking /\ pc'[p] \notin Locking
    BY <1>0, <1>1 DEF LockRow, Goto, Locking, ControlType
  <2>2. /\ DOMAIN rows' = DOMAIN rows
        /\ \A i \in DOMAIN rows :
              rows'[i] = rows[i] \/ rows'[i] = Row("deposited", req[p].auth)
    BY <1>1, LockRowRows
  <2>3. QED BY <1>0, <2>1, <2>2 DEF Row
<1>2. CASE InsertRow(p)
  <2>1. pc[p] \in Locking /\ pc'[p] \notin Locking
    BY <1>0, <1>2 DEF InsertRow, Goto, Locking, ControlType
  <2>2. QED BY <1>0, <1>2, <2>1, InsertRowRows DEF Row
<1>3. CASE Claim(p)
  <2>1. /\ DOMAIN rows' = DOMAIN rows
        /\ \A i \in DOMAIN rows :
              \/ rows'[i] = rows[i]
              \/ rows'[i] = [status |-> Claimed(Operation(p)),
                             auth |-> Newest.auth, prev |-> Newest.status]
    BY <1>3, ClaimRows
  <2>2. QED BY <1>3, <2>1
<1>4. CASE NothingLocked(p) \/ SendFail(p) \/ Book(p) \/ CloseMarker(p)
  BY <1>4, StatusRows
<1>5. CASE UNCHANGED rows
  BY <1>5
<1>6. QED
  BY <1>1, <1>2, <1>3, <1>4, <1>5
     DEF AssignStep, SettleStep, ReviewStep, FindMarker, Accept, Drain, Relay,
         LockRow, LockTx, TakeBack, SubmitCheck, Submission, Submitted, FindLock,
         SendOk, TimedOut, Expire, Complete, AcceptWork, RejectWrite, ReviseWrite, Resume,
         CancelMarker, CancelFree, Close, Crash, world

(* Who is about to settle, or to record a lock, after a step.               *)
LEMMA SendMoves ==
    ASSUME Typed, H2AConstants, NEW p \in Procs,
           AssignStep(p) \/ SettleStep(p) \/ ReviewStep(p)
    PROVE  /\ Others(p)
           /\ pc'[p] = "send" =>
                 /\ pc[p] = "claim" /\ Claim(p) /\ Newest.status \notin Blocked
                 /\ req'[p].kind = req[p].kind
                 /\ req'[p].auth = Newest.auth /\ req'[p].seen = Newest.status
           /\ pc'[p] \in Locking =>
                 /\ req'[p] = req[p]
                 /\ \/ pc[p] \in Locking
                    \/ Relay(p) /\ chain'[req[p].auth] = "locked"
<1>0. ControlType /\ Others(p)
  BY RequestKept, TypeParts DEF Typed
<1>1. CASE AssignStep(p)
  <2>1. pc'[p] \in Locking => pc[p] \in {"relay", "lockRow"} /\ req'[p] = req[p]
    BY <1>0, <1>1, AssignMoves DEF AssignStep, Moves, Ends, Locking
  <2>2. pc[p] = "relay" => Relay(p)
    BY <1>1 DEF AssignStep, FindMarker, Accept, Drain, LockRow, InsertRow, LockTx,
                TakeBack, SubmitCheck, Submission, Submitted
  <2>3. Relay(p) /\ pc'[p] \in Locking => chain'[req[p].auth] = "locked"
    <3>1. Relay(p) => req[p].auth \in Auths
      BY DEF Relay, Typed, RequestType, Assigning
    <3>2. QED
      BY <1>0, <3>1, TypeParts
         DEF Relay, Goto, Locking, ControlType, Typed, WorldType
  <2>4. pc'[p] # "send"
    BY <1>0, <1>1, AssignMoves DEF AssignStep, Moves, Ends
  <2>5. QED BY <1>0, <2>1, <2>2, <2>3, <2>4 DEF Locking
<1>2. CASE ReviewStep(p)
  BY <1>0, <1>2, ReviewMoves DEF ReviewStep, Moves, Ends, Locking
<1>3. CASE SettleStep(p)
  <2>1. pc[p] = "claim" => Claim(p)
    BY <1>3 DEF SettleStep, FindLock, SendOk, NothingLocked, SendFail, TimedOut, Book, Expire
  <2>2. QED BY <1>0, <1>3, <2>1, SettleMoves DEF SettleStep, Moves, Retries, Ends, Locking
<1>4. QED BY <1>1, <1>2, <1>3

LEMMA RowsUsedStep ==
    ASSUME Typed, H2AConstants, RowsUsed, NEW p \in Procs,
           AssignStep(p) \/ SettleStep(p) \/ ReviewStep(p)
    PROVE  RowsUsed'
<1>0. /\ Newest.auth \in Auths => chain[Newest.auth] # "none"
      /\ \A q \in Procs : pc[q] \in Locking => req[q].auth \in Auths
      /\ pc[p] \in Locking => chain[req[p].auth] # "none"
  BY NewestRow, TypeParts
     DEF Typed, RequestType, RowsUsed, Newest, Locking, Assigning
<1>1. ASSUME NEW i \in DOMAIN rows', rows'[i].auth \in Auths
      PROVE  chain'[rows'[i].auth] # "none"
  <2>1. CASE i \in DOMAIN rows /\ rows'[i].auth = rows[i].auth
    BY <1>1, <2>1, ChainMoves DEF RowsUsed
  <2>2. CASE rows'[i].auth = Newest.auth
    BY <1>0, <1>1, <2>2, ChainMoves
  <2>3. CASE pc[p] \in Locking /\ rows'[i].auth = req[p].auth
    BY <1>0, <1>1, <2>3, ChainMoves
  <2>4. QED BY <2>1, <2>2, <2>3, AuthMoves
<1>2. ASSUME NEW q \in Procs, pc'[q] = "send", req'[q].auth \in Auths
      PROVE  chain'[req'[q].auth] # "none"
  <2>1. CASE q = p
    BY <1>0, <1>2, <2>1, SendMoves, ChainMoves
  <2>2. CASE q # p
    BY <1>2, <2>2, SendMoves, ChainMoves DEF Others, RowsUsed
  <2>3. QED BY <2>1, <2>2
<1>3. ASSUME NEW q \in Procs, pc'[q] \in Locking
      PROVE  chain'[req'[q].auth] # "none"
  <2>1. CASE q = p
    BY <1>0, <1>3, <2>1, SendMoves, ChainMoves
  <2>2. CASE q # p
    BY <1>0, <1>3, <2>2, SendMoves, ChainMoves DEF Others, RowsUsed
  <2>3. QED BY <2>1, <2>2
<1>4. QED BY <1>1, <1>2, <1>3 DEF RowsUsed

LEMMA RowsUsedKept ==
    ASSUME Typed, H2AConstants, RowsUsed, [Next]_vars
    PROVE  RowsUsed'
<1>1. ASSUME NEW p \in Procs, Step(p) \/ Crash(p)
      PROVE  RowsUsed'
  BY <1>1, StepGroups, RowsUsedStep
<1>2. ASSUME NEW p \in Procs, Request(p) \/ Overdue(p)
      PROVE  RowsUsed'
  <2>1. Others(p) /\ UNCHANGED world /\ pc'[p] \notin {"send"} \cup Locking
    BY <1>2, RequestMoves, TypeParts DEF Typed, Locking
  <2>2. QED BY <2>1 DEF RowsUsed, Others, world
<1>3. CASE Reconcile
  <2>1. /\ DOMAIN rows' = DOMAIN rows /\ UNCHANGED <<chain, pc, req>>
        /\ \A i \in DOMAIN rows : rows'[i].auth = rows[i].auth
    BY <1>3, ReconcileRows DEF Reconcile
  <2>2. QED BY <2>1 DEF RowsUsed
<1>4. CASE PassDeadline \/ UNCHANGED vars
  BY <1>4 DEF PassDeadline, vars, RowsUsed
<1>5. ASSUME NEW a \in Auths, NEW op \in {"release", "refund"}, Mine(a, op)
      PROVE  RowsUsed'
  <2>1. \A q \in Procs : pc[q] \in Locking => req[q].auth \in Auths
    BY DEF Typed, RequestType, Locking, Assigning
  <2>2. QED BY <1>5, <2>1, MineMoves DEF RowsUsed
<1>6. QED BY <1>1, <1>2, <1>3, <1>4, <1>5 DEF Next, Procs

(* A worker was paid - or, when a release was taken as done because its     *)
(* escrow was found empty, funds were refunded.                             *)
Settles ==
    SomePaid \/ (/\ Faults /\ ServerSigning
                 /\ \E a \in Auths : chain[a] = "refunded")

AcceptedIsSettled ==
    (task.status = "completed" \/ \E w \in Workers : verdict[w] = "accepted")
        => Settles

(* What an approval knows at each step of its way from the look-up to the   *)
(* verdict.                                                                 *)
ApprovalKnows ==
    \A p \in Procs :
        /\ req[p].kind = "approve" =>
            /\ pc[p] = "claim" => Newest.auth # NoAuth
            /\ pc[p] = "send" => req[p].auth # NoAuth
            /\ pc[p] = "book" => Settles
        /\ pc[p] \in {"complete", "verdict"} => Settles
        /\ pc[p] = "expire" => req[p].kind = "expire"

PaidBefore == MarkerUnsigned /\ RowsUsed /\ ApprovalKnows /\ AcceptedIsSettled

LEMMA FoundDeposit ==
    ASSUME Typed, MarkerUnsigned, Found("deposited")
    PROVE  Newest.auth # NoAuth
<1>1. RowsType
  BY TypeParts DEF Typed
<1>2. QED BY <1>1, NewestRow DEF Typed, MarkerUnsigned, Found, Newest

LEMMA ApprovalKnowsStep ==
    ASSUME Typed, H2AConstants, PaidBefore, NEW p \in Procs,
           AssignStep(p) \/ SettleStep(p) \/ ReviewStep(p)
    PROVE  ApprovalKnows'
<1>1. /\ ControlType /\ Others(p)
      /\ Settles => Settles'
      /\ Newest.auth # NoAuth => Newest'.auth # NoAuth
  BY RequestKept, ChainMoves, MarkerUnsignedStep, TypeParts
     DEF Typed, PaidBefore, Settles, Gone
<1>2. ASSUME NEW q \in Procs \ {p}
      PROVE  /\ req'[q].kind = "approve" =>
                 /\ pc'[q] = "claim" => Newest'.auth # NoAuth
                 /\ pc'[q] = "send" => req'[q].auth # NoAuth
                 /\ pc'[q] = "book" => Settles'
             /\ pc'[q] \in {"complete", "verdict"} => Settles'
             /\ pc'[q] = "expire" => req'[q].kind = "expire"
  BY <1>1, <1>2 DEF Others, PaidBefore, ApprovalKnows
<1>3. /\ req'[p].kind = "approve" =>
          /\ pc'[p] = "claim" => Newest'.auth # NoAuth
          /\ pc'[p] = "send" => req'[p].auth # NoAuth
          /\ pc'[p] = "book" => Settles'
      /\ pc'[p] \in {"complete", "verdict"} => Settles'
      /\ pc'[p] = "expire" => req'[p].kind = "expire"
  <2>1. CASE Ends(p)
    BY <2>1 DEF Ends, NoReq
  <2>2. CASE AssignStep(p)
    BY <1>1, <2>1, <2>2, AssignMoves DEF AssignStep, Moves
  <2>3. CASE ReviewStep(p)
    BY <1>1, <2>1, <2>3, ReviewMoves
       DEF ReviewStep, Moves, PaidBefore, ApprovalKnows
  <2>4. CASE SettleStep(p)
    <3>1. (SendOk(p) \/ TimedOut(p)) /\ req[p].kind = "approve" => Settles'
      <4>1. chain \in [Auths -> {"none", "locked", "released", "refunded"}]
        BY TypeParts DEF Typed, WorldType
      <4>2. SendOk(p) /\ req[p].kind = "approve" => SomePaid'
        BY <4>1 DEF SendOk, Operation, Settled, SomePaid
      <4>3. TimedOut(p) => Settles
        <5>1. SUFFICES ASSUME TimedOut(p)
                       PROVE  Settles
          OBVIOUS
        <5>2. /\ req[p].auth \in Auths /\ chain[req[p].auth] # "locked"
              /\ pc[p] = "send" /\ Faults /\ ServerSigning
          BY <5>1 DEF TimedOut, Locked
        <5>3. chain[req[p].auth] \in {"released", "refunded"}
          BY <4>1, <5>2 DEF PaidBefore, RowsUsed
        <5>4. QED BY <5>2, <5>3 DEF Settles, SomePaid
      <4>4. QED BY <1>1, <4>2, <4>3 DEF Settles
    <3>2. ~(NothingLocked(p) /\ req[p].kind = "approve")
      BY DEF NothingLocked, PaidBefore, ApprovalKnows
    <3>3. Found("deposited") => Newest'.auth # NoAuth
      BY <1>1, FoundDeposit DEF PaidBefore
    <3>4. pc[p] = "expire" => req[p].kind # "approve"
      BY DEF PaidBefore, ApprovalKnows
    <3>5. QED
      BY <1>1, <2>1, <2>4, <3>1, <3>2, <3>3, <3>4, SettleMoves
         DEF SettleStep, Moves, Retries, PaidBefore, ApprovalKnows
  <2>5. QED BY <2>2, <2>3, <2>4
<1>4. QED BY <1>2, <1>3 DEF ApprovalKnows

(* What the steps write to the task and to the verdicts.                    *)
LEMMA TaskMoves ==
    ASSUME Typed, NEW p \in Procs,
           AssignStep(p) \/ SettleStep(p) \/ ReviewStep(p)
    PROVE  \/ UNCHANGED task
           \/ pc[p] \in {"accept", "drain"} /\ AssignTo(req[p].worker)
           \/ pc[p] = "takeBack" /\ task' = [status |-> "published", executor |-> NoWorker]
           \/ /\ task'.executor = task.executor
              /\ \/ pc[p] \in {"submission", "submitted"} /\ task'.status = "submitted"
                 \/ pc[p] = "complete" /\ task'.status = "completed"
                 \/ pc[p] = "resume" /\ task'.status = "in_progress"
                 \/ pc[p] \in {"cancelFree", "close"} /\ task'.status = "cancelled"
                 \/ pc[p] = "expire" /\ task'.status = "expired"
<1>0. task \in [status : OpenStatuses \cup ClosedStatuses,
                executor : Workers \cup {NoWorker}]
  BY TypeParts DEF Typed, WorldType
<1>1. CASE Accept(p) \/ Drain(p) \/ TakeBack(p)
  BY <1>1 DEF Accept, Drain, TakeBack
<1>2. CASE Submission(p) \/ Submitted(p)
  BY <1>0, <1>2 DEF Submission, Submitted
<1>3. CASE Complete(p) \/ Resume(p) \/ CancelFree(p) \/ Close(p) \/ Expire(p)
  BY <1>0, <1>3 DEF Complete, Resume, CancelFree, Close, CancelTask, Expire
<1>4. CASE UNCHANGED task
  BY <1>4
<1>5. QED
  BY <1>1, <1>2, <1>3, <1>4
     DEF AssignStep, SettleStep, ReviewStep, FindMarker, Relay, LockRow,
         InsertRow, LockTx, SubmitCheck, FindLock, Claim, SendOk, NothingLocked,
         SendFail, TimedOut, Book, AcceptWork, RejectWrite, ReviseWrite, CancelMarker,
         CloseMarker, Crash, world

LEMMA VerdictMoves ==
    ASSUME Typed, NEW p \in Procs,
           AssignStep(p) \/ SettleStep(p) \/ ReviewStep(p)
    PROVE  \/ UNCHANGED verdict
           \/ /\ req[p].worker \in Workers
              /\ \A w \in Workers \ {req[p].worker} : verdict'[w] = verdict[w]
              /\ \/ pc[p] = "submission" /\ verdict'[req[p].worker] = "pending"
                 \/ pc[p] = "verdict" /\ verdict'[req[p].worker] = "accepted"
                 \/ pc[p] = "rejectWrite" /\ verdict'[req[p].worker] = "rejected"
                 \/ pc[p] = "reviseWrite" /\ verdict'[req[p].worker] = "more_info"
<1>0. verdict \in [Workers -> Verdicts] /\ (pc[p] \in ForWorker => req[p].worker \in Workers)
  BY TypeParts DEF Typed, WorldType, RequestType
<1>1. CASE Submission(p) \/ AcceptWork(p) \/ RejectWrite(p) \/ ReviseWrite(p)
  BY <1>0, <1>1 DEF Submission, AcceptWork, RejectWrite, ReviseWrite, ForWorker
<1>2. CASE UNCHANGED verdict
  BY <1>2
<1>3. QED
  BY <1>1, <1>2
     DEF AssignStep, SettleStep, ReviewStep, FindMarker, Accept, Drain, Relay,
         LockRow, InsertRow, LockTx, TakeBack, SubmitCheck, Submitted, FindLock,
         Claim, SendOk, NothingLocked, SendFail, TimedOut, Book, Expire, Complete, Resume,
         CancelMarker, CancelFree, CloseMarker, Close, Crash, world

LEMMA AcceptedIsSettledStep ==
    ASSUME Typed, H2AConstants, PaidBefore, NEW p \in Procs,
           AssignStep(p) \/ SettleStep(p) \/ ReviewStep(p)
    PROVE  AcceptedIsSettled'
<1>1. Settles => Settles'
  BY ChainMoves DEF Settles, Gone
<1>2. ASSUME task'.status = "completed", task.status # "completed"
      PROVE  pc[p] = "complete"
  BY <1>2, TaskMoves DEF AssignTo
<1>3. ASSUME NEW w \in Workers, verdict'[w] = "accepted", verdict[w] # "accepted"
      PROVE  pc[p] = "verdict"
  BY <1>3, VerdictMoves
<1>4. QED
  BY <1>1, <1>2, <1>3 DEF PaidBefore, ApprovalKnows, AcceptedIsSettled

LEMMA PaidBeforeKept ==
    ASSUME Typed, H2AConstants, PaidBefore, [Next]_vars
    PROVE  PaidBefore'
<1>1. /\ MarkerUnsigned' /\ (Newest.auth # NoAuth => Newest'.auth # NoAuth)
      /\ RowsUsed'
  BY MarkerUnsignedKept, RowsUsedKept DEF PaidBefore
<1>2. ASSUME NEW p \in Procs, Step(p) \/ Crash(p)
      PROVE  PaidBefore'
  BY <1>1, <1>2, StepGroups, ApprovalKnowsStep, AcceptedIsSettledStep DEF PaidBefore
<1>3. ASSUME NEW p \in Procs, Request(p) \/ Overdue(p)
      PROVE  PaidBefore'
  <2>1. /\ Others(p) /\ UNCHANGED world
        /\ pc'[p] \notin {"claim", "send", "book", "complete", "verdict"}
        /\ pc'[p] = "expire" => req'[p].kind = "expire"
    BY <1>3, RequestMoves, TypeParts DEF Typed
  <2>2. QED
    BY <1>1, <2>1 DEF PaidBefore, ApprovalKnows, AcceptedIsSettled, Others, world,
                      Settles, SomePaid
<1>4. CASE Reconcile \/ PassDeadline \/ UNCHANGED vars
  BY <1>1, <1>4 DEF Reconcile, PassDeadline, vars, PaidBefore, ApprovalKnows,
                    AcceptedIsSettled, Settles, SomePaid
<1>5. ASSUME NEW a \in Auths, NEW op \in {"release", "refund"}, Mine(a, op)
      PROVE  PaidBefore'
  <2>1. (Settles => Settles') /\ UNCHANGED <<task, rows, verdict, pc, req>>
    BY <1>5, MineMoves DEF Settles, Gone
  <2>2. QED
    BY <1>1, <2>1 DEF PaidBefore, ApprovalKnows, AcceptedIsSettled, Newest
<1>6. QED BY <1>2, <1>3, <1>4, <1>5 DEF Next, Procs

LEMMA InitPaidBefore ==
    ASSUME Init, H2AConstants
    PROVE  PaidBefore
<1>1. MarkerUnsigned
  BY DEF Init, MarkerUnsigned, Newest, Row
<1>2. ApprovalKnows /\ AcceptedIsSettled
  BY DEF Init, ApprovalKnows, AcceptedIsSettled, NoReq
<1>3. RowsUsed
  <2>1. DOMAIN rows = {1} /\ rows[1] = Row("pending", NoAuth)
    BY DEF Init
  <2>2. QED BY <2>1, Signed DEF Init, RowsUsed, Row, Locking
<1>4. QED BY <1>1, <1>2, <1>3 DEF PaidBefore

(* approve_h2a_submission: the task is completed and the work accepted only *)
(* after locked funds have been released to a worker - with the signing key *)
(* perhaps refunded -, for any number of requests at the same time, with    *)
(* any faults of the database, the facilitator and the processes, also when *)
(* answers are lost and what was sent is carried out later.                 *)
THEOREM AcceptedWorkIsPaid == Spec => []AcceptedIsPaid
<1>1. Init => PaidBefore
  BY InitPaidBefore, H2AConstants
<1>2. PaidBefore => AcceptedIsPaid
  <2>1. SomePaid => \E w \in Workers : PaidTo(w)
    BY Signed, H2AConstants DEF SomePaid, PaidTo
  <2>2. QED
    BY <2>1 DEF PaidBefore, AcceptedIsSettled, Settles, AcceptedIsPaid
<1>3. QED
  BY <1>1, <1>2, H2AConstants, InitTyped, NextTyped, PaidBeforeKept, PTL DEF Spec

-----------------------------------------------------------------------------
(* A closed row tells what became of its funds.                             *)

(* Only the expiration job claims a marker that nobody has signed.          *)
SignedClaim ==
    \A p \in Procs : req[p].kind # "expire" =>
        /\ pc[p] = "claim" => Newest.auth # NoAuth
        /\ pc[p] = "send" => req[p].auth # NoAuth

(* Of a task with one row: what its status says about the funds, ...        *)
Sound(status, auth) == status \notin Blocked /\ (status = "deposited" <=> auth \in Auths)

Told(a, status) == chain[a] \in Gone /\ (~ServerSigning => chain[a] = status)

RowTells ==
    /\ Newest.status \notin Blocked => Sound(Newest.status, Newest.auth)
    /\ Newest.status \in {"releasing", "refunding"} => Sound(Newest.prev, Newest.auth)
    /\ Newest.auth \in Auths /\ Newest.status \in {"released", "refunded"} =>
          Told(Newest.auth, Newest.status)

(* ... and that one process at a time settles it, under its claim.          *)
SettlerAlone ==
    \A p \in Procs :
        /\ pc[p] = "send" =>
              /\ Newest.status = Claimed(Operation(p))
              /\ Newest.auth = req[p].auth /\ Newest.prev = req[p].seen
              /\ \A q \in Procs : pc[q] \in {"send", "book"} => q = p
        /\ pc[p] = "book" =>
              /\ Newest.status \in Blocked /\ Newest.auth \in Auths
              /\ Told(Newest.auth, Settled(Operation(p)))

OneRow == Len(rows) = 1 => RowTells /\ SettlerAlone

(* No step moves funds that have left.                                      *)
GoneStays == \A a \in Auths : chain[a] \in Gone => chain'[a] = chain[a]

LEMMA SignedClaimStep ==
    ASSUME Typed, H2AConstants, MarkerUnsigned, SignedClaim, ApprovalKnows,
           NEW p \in Procs, AssignStep(p) \/ SettleStep(p) \/ ReviewStep(p)
    PROVE  SignedClaim'
<1>1. /\ ControlType /\ Others(p)
      /\ Newest.auth # NoAuth => Newest'.auth # NoAuth
  BY RequestKept, MarkerUnsignedStep, TypeParts DEF Typed
<1>2. ASSUME req'[p].kind # "expire"
      PROVE  /\ pc'[p] = "claim" => Newest'.auth # NoAuth
             /\ pc'[p] = "send" => req'[p].auth # NoAuth
  <2>1. CASE Ends(p) \/ AssignStep(p) \/ ReviewStep(p)
    BY <1>1, <2>1, AssignMoves, ReviewMoves
       DEF AssignStep, ReviewStep, Moves, Ends
  <2>2. CASE SettleStep(p) /\ ~Ends(p)
    <3>1. Found("deposited") => Newest.auth # NoAuth
      BY FoundDeposit
    <3>2. \/ pc'[p] \notin {"claim", "send"}
          \/ pc'[p] = "claim" /\ Found("deposited")
          \/ pc'[p] = "send" /\ pc[p] = "claim"
             /\ req'[p].auth = Newest.auth /\ req[p].kind = req'[p].kind
      <4>1. pc[p] = "expire" => req[p].kind = "expire"
        BY DEF ApprovalKnows
      <4>2. \/ pc'[p] \notin {"claim", "send"}
            \/ pc'[p] = "claim" /\ Found("deposited")
            \/ /\ pc'[p] = "send" /\ pc[p] = "claim"
               /\ req'[p].auth = Newest.auth /\ req[p].kind = req'[p].kind
            \/ req'[p].kind = "expire"
            \/ pc[p] = "expire" /\ req'[p] = req[p]
        <5>1. \/ Moves(p, {"findLock"}, {"claim"}) /\ Found("deposited")
              \/ pc'[p] \notin {"claim", "send"}
              \/ /\ pc'[p] = "send" /\ pc[p] = "claim"
                 /\ req'[p].auth = Newest.auth /\ req[p].kind = req'[p].kind
              \/ Retries(p)
              \/ Moves(p, {"expire"}, {"claim"})
          BY <2>2, SettleMoves DEF SettleStep, Moves
        <5>2. QED BY <5>1 DEF Moves, Retries
      <4>3. QED BY <1>2, <4>1, <4>2
    <3>3. QED BY <1>1, <1>2, <3>1, <3>2 DEF SignedClaim
  <2>3. QED BY <2>1, <2>2
<1>3. QED BY <1>1, <1>2 DEF SignedClaim, Others

LEMMA OneRowQuiet ==
    ASSUME RowTells, SettlerAlone, Newest' = Newest, GoneStays,
           \A q \in Procs : pc'[q] \in {"send", "book"} =>
               pc'[q] = pc[q] /\ req'[q] = req[q]
    PROVE  RowTells' /\ SettlerAlone'
<1>1. \A a \in Auths : chain[a] \in Gone => chain'[a] = chain[a] /\ chain'[a] \in Gone
  BY DEF GoneStays
<1>2. RowTells'
  BY <1>1 DEF RowTells, Sound, Told
<1>3. ASSUME NEW q \in Procs, pc'[q] = "send"
      PROVE  /\ Newest'.status = Claimed(Operation(q)')
             /\ Newest'.auth = req'[q].auth /\ Newest'.prev = req'[q].seen
             /\ \A r \in Procs : pc'[r] \in {"send", "book"} => r = q
  <2>1. pc[q] = "send" /\ req'[q] = req[q]
    BY <1>3
  <2>2. Operation(q)' = Operation(q)
    BY <2>1 DEF Operation
  <2>3. QED BY <1>3, <2>1, <2>2 DEF SettlerAlone
<1>4. ASSUME NEW q \in Procs, pc'[q] = "book"
      PROVE  /\ Newest'.status \in Blocked /\ Newest'.auth \in Auths
             /\ chain'[Newest'.auth] \in Gone
             /\ ~ServerSigning => chain'[Newest'.auth] = Settled(Operation(q)')
  <2>1. pc[q] = "book" /\ req'[q] = req[q]
    BY <1>4
  <2>2. Operation(q)' = Operation(q)
    BY <2>1 DEF Operation
  <2>3. QED BY <1>1, <1>4, <2>1, <2>2 DEF SettlerAlone, Told
<1>5. SettlerAlone'
  BY <1>3, <1>4 DEF SettlerAlone, Told, Claimed, Settled
<1>6. QED BY <1>2, <1>5

(* What the row and the settlers allow each other.                          *)
LEMMA RowFree ==
    ASSUME SettlerAlone
    PROVE  /\ Newest.status \notin {"releasing", "refunding"} =>
                 \A q \in Procs : pc[q] # "send"
           /\ Newest.status \notin Blocked => \A q \in Procs : pc[q] # "book"
<1>1. \A q \in Procs : Claimed(Operation(q)) \in {"releasing", "refunding"}
  BY DEF Claimed
<1>2. QED BY <1>1 DEF SettlerAlone

(* Nobody is settling: what is left to show of the row alone.               *)
LEMMA NobodySettles ==
    ASSUME \A q \in Procs : pc'[q] \notin {"send", "book"}
    PROVE  SettlerAlone'
BY DEF SettlerAlone

LEMMA OneRowLock ==
    ASSUME Typed, H2AConstants, RowTells, SettlerAlone, Len(rows) = 1,
           Len(rows') = 1, NEW p \in Procs, LockRow(p) \/ InsertRow(p)
    PROVE  RowTells' /\ SettlerAlone'
<1>0. /\ ControlType /\ Others(p) /\ DOMAIN rows = {1} /\ Newest = rows[1]
      /\ Newest' = rows'[1] /\ req[p].auth \in Auths
      /\ GoneStays /\ pc'[p] \notin {"send", "book"}
  <2>1. pc[p] \in Locking /\ AssignStep(p) /\ GoneStays
    BY DEF Locking, LockRow, InsertRow, AssignStep, GoneStays
  <2>2. RowsType /\ ControlType /\ req[p].auth \in Auths
    BY <2>1, TypeParts DEF Typed, RequestType, Locking, Assigning
  <2>3. DOMAIN rows = 1..1
    BY NewestRow, <2>2
  <2>4. pc'[p] \notin {"send", "book"} /\ Others(p)
    BY <2>1, <2>2, AssignMoves DEF AssignStep, Moves, Ends
  <2>5. QED BY <2>1, <2>2, <2>3, <2>4 DEF Newest
<1>1. CASE UNCHANGED rows
  BY <1>0, <1>1, OneRowQuiet DEF Others, Newest
<1>2. CASE LockRow(p) /\ rows' # rows
  <2>1. Newest'.status = "deposited" /\ Newest'.auth = req[p].auth
        /\ Newest.status = "pending"
    <3>1. /\ rows'[1] = IF rows[1].status = "pending"
                        THEN Row("deposited", req[p].auth) ELSE rows[1]
          /\ Found("pending")
      BY <1>0, <1>2 DEF LockRow
    <3>2. rows[1].status = "pending"
      BY <1>0, <3>1 DEF Found
    <3>3. QED BY <1>0, <3>1, <3>2 DEF Row
  <2>2. \A q \in Procs : pc'[q] \notin {"send", "book"}
    BY <1>0, <2>1, RowFree DEF Others, Blocked
  <2>3. RowTells'
    BY <1>0, <2>1 DEF RowTells, Sound, Blocked
  <2>4. QED BY <2>2, <2>3, NobodySettles
<1>3. QED
  BY <1>1, <1>2, InsertRowRows

LEMMA OneRowClaim ==
    ASSUME Typed, H2AConstants, SignedClaim, RowTells, SettlerAlone, Len(rows) = 1,
           NEW p \in Procs, Claim(p)
    PROVE  RowTells' /\ SettlerAlone'
<1>0. /\ ControlType /\ Others(p) /\ DOMAIN rows = {1} /\ Newest = rows[1]
      /\ Newest \in RowSet /\ Len(rows') = 1 /\ Newest' = rows'[1]
      /\ UNCHANGED chain /\ GoneStays
  <2>1. SettleStep(p) /\ UNCHANGED chain /\ GoneStays
    BY DEF SettleStep, Claim, GoneStays
  <2>2. RowsType /\ ControlType
    BY TypeParts DEF Typed
  <2>3. DOMAIN rows = 1..1 /\ Newest \in RowSet
    BY NewestRow, <2>2
  <2>4. Len(rows') = 1
    BY ClaimRows
  <2>5. QED BY <2>1, <2>2, <2>3, <2>4, SettleMoves DEF SettleStep, Newest
<1>1. CASE pc'[p] = "send"
  <2>1. /\ req'[p].kind = req[p].kind
        /\ req'[p].auth = Newest.auth /\ req'[p].seen = Newest.status
        /\ Newest.status \notin Blocked
        /\ Newest' = [status |-> Claimed(Operation(p)), auth |-> Newest.auth,
                      prev |-> Newest.status]
    <3>1. /\ req'[p].kind = req[p].kind
          /\ req'[p].auth = Newest.auth /\ req'[p].seen = Newest.status
          /\ Newest.status \notin Blocked
          /\ \A i \in DOMAIN rows :
                IF rows[i].status = Newest.status
                THEN rows'[i] = [status |-> Claimed(Operation(p)),
                                 auth |-> Newest.auth, prev |-> Newest.status]
                ELSE rows'[i] = rows[i]
      BY <1>1, SettleMoves DEF Moves, Ends, Retries, Claim
    <3>2. QED BY <1>0, <3>1
  <2>2. \A q \in Procs \ {p} : pc'[q] \notin {"send", "book"}
    BY <1>0, <2>1, RowFree DEF Others, Blocked
  <2>3. Claimed(Operation(p)) \in {"releasing", "refunding"} /\ Operation(p)' = Operation(p)
    BY <2>1 DEF Claimed, Operation
  <2>4. Sound(Newest.status, Newest.auth)
    BY <2>1 DEF RowTells
  <2>5. RowTells'
    BY <2>1, <2>3, <2>4 DEF RowTells, Sound, Blocked
  <2>6. SettlerAlone'
    BY <1>1, <2>1, <2>2, <2>3 DEF SettlerAlone, Claimed
  <2>7. QED BY <2>5, <2>6
<1>2. CASE pc'[p] = "book"
  <2>1. /\ pc[p] = "claim" /\ req'[p] = req[p] /\ UNCHANGED rows
        /\ req[p].kind \notin {"approve", "expire"} /\ Newest.status = "refunded"
    BY <1>2, SettleMoves DEF Moves, Ends, Retries, Claim
  <2>2. Newest.auth \in Auths
    BY <1>0, <2>1 DEF SignedClaim, RowSet
  <2>3. Told(Newest.auth, "refunded")
    BY <2>1, <2>2 DEF RowTells
  <2>4. Operation(p)' = "refund" /\ Settled("refund") = "refunded"
    BY <2>1 DEF Operation, Settled
  <2>5. \A q \in Procs : pc'[q] # "send"
    BY <1>0, <1>2, <2>1, RowFree DEF Others
  <2>6. Newest' = Newest
    BY <1>0, <2>1
  <2>7. RowTells'
    BY <1>0, <2>6 DEF RowTells, Sound, Told
  <2>8. ASSUME NEW q \in Procs, pc'[q] = "book"
        PROVE  Told(Newest.auth, Settled(Operation(q)'))
    <3>1. CASE q = p
      BY <2>3, <2>4, <3>1
    <3>2. CASE q # p
      <4>1. pc[q] = "book" /\ Operation(q)' = Operation(q)
        BY <1>0, <2>8, <3>2 DEF Others, Operation
      <4>2. QED BY <4>1 DEF SettlerAlone
    <3>3. QED BY <3>1, <3>2
  <2>9. SettlerAlone'
    BY <1>0, <2>1, <2>2, <2>5, <2>6, <2>8 DEF SettlerAlone, Settled, Told, Blocked
  <2>10. QED BY <2>7, <2>9
<1>3. CASE pc'[p] \notin {"send", "book"}
  <2>1. UNCHANGED rows
    <3>1. pc'[p] # "send"
      BY <1>3
    <3>2. QED BY <1>0, <3>1 DEF Claim, ControlType
  <2>2. QED BY <1>0, <1>3, <2>1, OneRowQuiet DEF Others
<1>4. QED BY <1>1, <1>2, <1>3

(* The settler's answer.                                                    *)
LEMMA OneRowSend ==
    ASSUME Typed, H2AConstants, SignedClaim, RowsUsed, RowTells, SettlerAlone,
           Len(rows) = 1, NEW p \in Procs,
           SendOk(p) \/ NothingLocked(p) \/ SendFail(p) \/ TimedOut(p)
    PROVE  RowTells' /\ SettlerAlone'
<1>0. /\ ControlType /\ Others(p) /\ RowsType /\ DOMAIN rows = {1}
      /\ Newest = rows[1] /\ Newest \in RowSet /\ pc[p] = "send" /\ pc'[p] # "send"
      /\ pc'[p] = "book" => req'[p] = req[p] /\ req[p].kind # "expire"
      /\ GoneStays
  <2>1. SettleStep(p) /\ pc[p] = "send"
    BY DEF SettleStep, SendOk, NothingLocked, SendFail, TimedOut
  <2>2. RowsType /\ ControlType /\ GoneStays
    BY <2>1, ChainMoves, TypeParts DEF Typed, GoneStays
  <2>3. DOMAIN rows = 1..1 /\ Newest \in RowSet
    BY NewestRow, <2>2
  <2>4. /\ Others(p)
        /\ \/ Ends(p)
           \/ Retries(p)
           \/ Moves(p, {"send"}, {"book"}) /\ req[p].kind # "expire"
    BY <2>1, SettleMoves DEF SettleStep, Moves, Retries
  <2>5. QED BY <2>1, <2>2, <2>3, <2>4 DEF Moves, Ends, Retries, Newest
<1>1. /\ Newest.status = Claimed(Operation(p)) /\ Newest.auth = req[p].auth
      /\ Newest.prev = req[p].seen /\ Sound(Newest.prev, Newest.auth)
      /\ \A q \in Procs : pc[q] \in {"send", "book"} => q = p
      /\ Claimed(Operation(p)) \in {"releasing", "refunding"}
  <2>1. Claimed(Operation(p)) \in {"releasing", "refunding"}
    BY DEF Claimed
  <2>2. QED BY <1>0, <2>1 DEF SettlerAlone, RowTells
<1>2. \A q \in Procs : pc'[q] \in {"send", "book"} => q = p /\ pc'[p] = "book"
  BY <1>0, <1>1 DEF Others
<1>3. CASE SendOk(p) \/ TimedOut(p)
  <2>1. req[p].auth \in Auths /\ UNCHANGED rows
    BY <1>3 DEF SendOk, TimedOut, world
  <2>2. Newest' = Newest /\ Newest.auth \in Auths
    BY <1>1, <2>1 DEF Newest
  <2>3. /\ chain'[Newest.auth] \in Gone
        /\ ~ServerSigning => chain'[Newest.auth] = Settled(Operation(p))
    <3>1. CASE SendOk(p)
      BY <1>1, <2>1, <3>1, TypeParts DEF SendOk, Typed, WorldType, Settled, Gone
    <3>2. CASE TimedOut(p)
      <4>1. /\ chain[Newest.auth] # "none" /\ chain[Newest.auth] # "locked"
            /\ ServerSigning /\ UNCHANGED chain
        BY <1>0, <1>1, <2>1, <3>2 DEF TimedOut, RowsUsed, Locked, world
      <4>2. QED BY <2>2, <4>1, TypeParts DEF Typed, WorldType, Gone
    <3>3. QED BY <1>3, <3>1, <3>2
  <2>4. RowTells'
    BY <1>1, <2>2 DEF RowTells, Sound, Blocked
  <2>5. SettlerAlone'
    <3>1. pc'[p] = "book" => Operation(p)' = Operation(p)
      BY <1>0 DEF Operation
    <3>2. QED
      BY <1>1, <1>2, <2>2, <2>3, <3>1 DEF SettlerAlone, Settled, Told, Blocked
  <2>6. QED BY <2>4, <2>5
<1>4. CASE NothingLocked(p) \/ SendFail(p)
  <2>1. \/ rows' = SetStatus({Claimed(Operation(p))}, req[p].seen)
        \/ rows' = rows
    BY <1>4 DEF NothingLocked, SendFail, GiveBack
  <2>2. req[p].seen \in RowStatuses
    BY <1>0 DEF ControlType, Reqs
  <2>3. /\ Newest'.status \in {Newest.prev, Newest.status}
        /\ Newest'.auth = Newest.auth /\ Newest'.prev = Newest.prev
    <3>1. CASE rows' = SetStatus({Claimed(Operation(p))}, req[p].seen)
      <4>1. /\ Len(rows') = 1
            /\ rows'[1].status = IF rows[1].status \in {Claimed(Operation(p))}
                                 THEN req[p].seen ELSE rows[1].status
            /\ rows'[1].auth = rows[1].auth /\ rows'[1].prev = rows[1].prev
        <5>1. /\ Len(rows') = Len(rows)
              /\ \A i \in DOMAIN rows :
                   /\ rows'[i].status = IF rows[i].status \in {Claimed(Operation(p))}
                                        THEN req[p].seen ELSE rows[i].status
                   /\ rows'[i].auth = rows[i].auth
                   /\ rows'[i].prev = rows[i].prev
          BY <1>0, <2>2, <3>1, SetStatusRows
        <5>2. QED BY <1>0, <5>1
      <4>2. QED BY <1>0, <1>1, <4>1 DEF Newest
    <3>2. CASE rows' = rows
      BY <3>2 DEF Newest
    <3>3. QED BY <2>1, <3>1, <3>2
  <2>4. RowTells'
    BY <1>1, <2>3 DEF RowTells, Sound, Blocked
  <2>5. pc'[p] # "book"
    <3>1. NothingLocked(p) => req[p].kind = "expire"
      BY <1>0 DEF NothingLocked, SignedClaim
    <3>2. SendFail(p) => pc'[p] # "book"
      BY <1>0, UnsettledMoves DEF SendFail, Ends, Retries
    <3>3. QED BY <1>0, <1>4, <3>1, <3>2
  <2>6. QED BY <1>2, <2>4, <2>5, NobodySettles
<1>5. QED BY <1>3, <1>4

LEMMA OneRowBook ==
    ASSUME Typed, H2AConstants, RowTells, SettlerAlone, Len(rows) = 1,
           NEW p \in Procs, Book(p) \/ CloseMarker(p)
    PROVE  RowTells' /\ SettlerAlone'
<1>0. /\ ControlType /\ Others(p) /\ RowsType /\ DOMAIN rows = {1}
      /\ Newest = rows[1] /\ UNCHANGED chain /\ GoneStays
      /\ pc'[p] \notin {"send", "book"}
  <2>1. SettleStep(p) \/ ReviewStep(p)
    BY DEF SettleStep, ReviewStep
  <2>2. /\ RowsType /\ ControlType /\ pc[p] \in {"book", "closeMarker"}
        /\ UNCHANGED chain /\ GoneStays
    BY TypeParts DEF Typed, Book, CloseMarker, GoneStays
  <2>3. DOMAIN rows = 1..1
    BY NewestRow, <2>2
  <2>4. Others(p) /\ pc'[p] \notin {"send", "book"}
    BY <2>1, <2>2, SettleMoves, ReviewMoves
       DEF SettleStep, ReviewStep, Moves, Ends, Retries
  <2>5. QED BY <2>2, <2>3, <2>4 DEF Newest
<1>1. CASE UNCHANGED rows
  BY <1>0, <1>1, OneRowQuiet DEF Others, Newest
<1>2. CASE pc[p] = "book" /\ rows' = SetStatus(RowStatuses, Settled(Operation(p)))
  <2>1. Settled(Operation(p)) \in {"released", "refunded"}
    BY DEF Settled
  <2>2. Newest.auth \in Auths /\ Told(Newest.auth, Settled(Operation(p)))
    BY <1>2 DEF SettlerAlone
  <2>3. Newest.status \in RowStatuses
    BY <1>0, NewestRow DEF Typed, RowSet
  <2>4. /\ Newest'.status = Settled(Operation(p)) /\ Newest'.auth = Newest.auth
        /\ Newest'.prev = Newest.prev
    BY <1>0, <1>2, <2>1, <2>3, SetStatusRows DEF Newest, RowStatuses, Blocked
  <2>5. RowTells'
    BY <1>0, <2>1, <2>2, <2>4 DEF RowTells, Sound, Blocked, Told
  <2>6. \A q \in Procs : pc'[q] # "send"
    BY <1>0, <1>2 DEF Others, SettlerAlone
  <2>7. ASSUME NEW q \in Procs, pc'[q] = "book"
        PROVE  Told(Newest.auth, Settled(Operation(q)'))
    <3>1. pc[q] = "book" /\ Operation(q)' = Operation(q)
      BY <1>0, <2>7 DEF Others, Operation
    <3>2. QED BY <3>1 DEF SettlerAlone
  <2>8. SettlerAlone'
    BY <1>0, <2>1, <2>2, <2>4, <2>6, <2>7 DEF SettlerAlone, Settled, Told, Blocked
  <2>9. QED BY <2>5, <2>8
<1>3. CASE rows' = SetStatus({"pending"}, "cancelled")
  <2>1. /\ Newest'.auth = Newest.auth /\ Newest'.prev = Newest.prev
        /\ Newest'.status = IF Newest.status = "pending"
                            THEN "cancelled" ELSE Newest.status
    BY <1>0, <1>3, SetStatusRows DEF Newest, RowStatuses
  <2>2. RowTells'
    BY <1>0, <2>1 DEF RowTells, Sound, Blocked, Told
  <2>3. CASE Newest.status = "pending"
    <3>1. \A q \in Procs : pc'[q] \notin {"send", "book"}
      BY <1>0, <2>3, RowFree DEF Others, Blocked
    <3>2. QED BY <2>2, <3>1, NobodySettles
  <2>4. CASE Newest.status # "pending"
    <3>1. ASSUME NEW q \in Procs, pc'[q] \in {"send", "book"}
          PROVE  pc'[q] = pc[q] /\ req'[q] = req[q] /\ Operation(q)' = Operation(q)
      BY <1>0, <3>1 DEF Others, Operation
    <3>2. SettlerAlone'
      BY <1>0, <2>1, <2>4, <3>1 DEF SettlerAlone, Settled, Claimed, Told
    <3>3. QED BY <2>2, <3>2
  <2>5. QED BY <2>3, <2>4
<1>4. QED BY <1>1, <1>2, <1>3 DEF Book, CloseMarker

LEMMA OneRowStep ==
    ASSUME Typed, H2AConstants, SignedClaim, RowsUsed, OneRow,
           NEW p \in Procs, AssignStep(p) \/ SettleStep(p) \/ ReviewStep(p)
    PROVE  OneRow'
<1>0. SUFFICES ASSUME Len(rows') = 1
               PROVE  RowTells' /\ SettlerAlone'
  BY DEF OneRow
<1>1. Len(rows) = 1 /\ RowTells /\ SettlerAlone /\ GoneStays
  <2>1. Len(rows) \in Nat /\ Len(rows) >= 1
    BY NewestRow, TypeParts DEF Typed
  <2>2. rows' = rows \/ Len(rows') \in {Len(rows), Len(rows) + 1}
    BY NewestMoves
  <2>3. QED BY <1>0, <2>1, <2>2, ChainMoves DEF OneRow, GoneStays
<1>2. CASE LockRow(p) \/ InsertRow(p)
  BY <1>0, <1>1, <1>2, OneRowLock
<1>3. CASE Claim(p)
  BY <1>1, <1>3, OneRowClaim
<1>4. CASE SendOk(p) \/ NothingLocked(p) \/ SendFail(p) \/ TimedOut(p)
  BY <1>1, <1>4, OneRowSend
<1>5. CASE Book(p) \/ CloseMarker(p)
  BY <1>1, <1>5, OneRowBook
<1>6. CASE /\ ~(Claim(p) \/ SendOk(p) \/ NothingLocked(p) \/ SendFail(p) \/ TimedOut(p))
           /\ UNCHANGED rows
  <2>1. ControlType /\ Others(p)
    BY RequestKept, TypeParts DEF Typed
  <2>2. pc'[p] \notin {"send", "book"}
    <3>1. AssignStep(p) \/ ReviewStep(p) => pc'[p] # "book"
      BY <2>1, AssignMoves, ReviewMoves DEF AssignStep, ReviewStep, Moves, Ends
    <3>2. SettleStep(p) => FindLock(p) \/ Book(p) \/ Expire(p)
      BY <1>6 DEF SettleStep
    <3>3. FindLock(p) \/ Book(p) \/ Expire(p) => pc'[p] # "book"
      BY <2>1 DEF FindLock, WithoutEscrow, Book, Expire, Goto, Return, ControlType
    <3>4. QED BY <1>6, <3>1, <3>2, <3>3, SendMoves
  <2>3. QED BY <1>1, <1>6, <2>1, <2>2, OneRowQuiet DEF Others, Newest
<1>7. QED
  BY <1>2, <1>3, <1>4, <1>5, <1>6
     DEF AssignStep, SettleStep, ReviewStep, FindMarker, Accept, Drain, Relay,
         LockTx, TakeBack, SubmitCheck, Submission, Submitted, FindLock,
         Expire, Complete, AcceptWork, RejectWrite, ReviseWrite, Resume,
         CancelMarker, CancelFree, Close, Crash, world

LEMMA OneRowReconcile ==
    ASSUME Typed, H2AConstants, RowsUsed, OneRow, Reconcile
    PROVE  OneRow'
<1>0. SUFFICES ASSUME Len(rows') = 1
               PROVE  RowTells' /\ SettlerAlone'
  BY DEF OneRow
<1>1. /\ Len(rows) = 1 /\ RowTells /\ DOMAIN rows = 1..1 /\ UNCHANGED chain
      /\ Newest = rows[1] /\ Newest' = rows'[1] /\ Newest \in RowSet
  BY <1>0, ReconcileRows, NewestRow, TypeParts DEF Typed, OneRow, Newest, Reconcile
<1>2. /\ Newest.status \in {"releasing", "refunding"}
      /\ Newest'.auth = Newest.auth /\ Newest'.prev = Newest.prev
      /\ Newest'.status = IF Newest.auth = NoAuth \/ Locked(Newest.auth)
                          THEN Newest.prev
                          ELSE IF Newest.status = "releasing"
                               THEN "released" ELSE "refunded"
      /\ ServerSigning \/ Newest.auth = NoAuth
  BY <1>1, ReconcileRows
<1>3. Newest.auth \in Auths \cup {NoAuth} /\ NoAuth \notin Auths
  BY <1>1, Signed DEF RowSet
<1>4. Newest.auth \in Auths /\ ~Locked(Newest.auth) => chain[Newest.auth] \in Gone
  BY <1>1, TypeParts DEF Typed, WorldType, RowsUsed, Locked, Gone
<1>5. RowTells'
  BY <1>1, <1>2, <1>3, <1>4 DEF RowTells, Sound, Blocked, Told
<1>6. SettlerAlone'
  BY NobodySettles DEF Reconcile, Settling
<1>7. QED BY <1>5, <1>6

SettledTruly == SignedClaim /\ OneRow

LEMMA SettledTrulyKept ==
    ASSUME Typed, H2AConstants, PaidBefore, SettledTruly, [Next]_vars
    PROVE  SettledTruly'
<1>1. ASSUME NEW p \in Procs, Step(p) \/ Crash(p)
      PROVE  SettledTruly'
  BY <1>1, StepGroups, SignedClaimStep, OneRowStep DEF PaidBefore, SettledTruly
<1>2. ASSUME NEW p \in Procs, Request(p) \/ Overdue(p)
      PROVE  SettledTruly'
  <2>1. /\ Others(p) /\ UNCHANGED world
        /\ pc'[p] \notin {"claim", "send", "book"}
    BY <1>2, RequestMoves, TypeParts DEF Typed
  <2>2. SignedClaim'
    BY <2>1 DEF SettledTruly, SignedClaim, Others, world, Newest
  <2>3. OneRow'
    BY <2>1, OneRowQuiet DEF SettledTruly, OneRow, Others, world, Newest, GoneStays
  <2>4. QED BY <2>2, <2>3 DEF SettledTruly
<1>3. CASE Reconcile
  <2>1. UNCHANGED <<pc, req>> /\ (Newest.auth # NoAuth => Newest'.auth # NoAuth)
    BY <1>3, MarkerUnsignedKept DEF Reconcile, PaidBefore
  <2>2. QED
    BY <1>3, <2>1, OneRowReconcile DEF PaidBefore, SettledTruly, SignedClaim
<1>4. CASE PassDeadline \/ UNCHANGED vars
  <2>1. UNCHANGED <<rows, chain, pc, req>>
    BY <1>4 DEF PassDeadline, vars
  <2>2. SignedClaim'
    BY <2>1 DEF SettledTruly, SignedClaim, Newest
  <2>3. OneRow'
    BY <2>1, OneRowQuiet DEF SettledTruly, OneRow, Newest, GoneStays
  <2>4. QED BY <2>2, <2>3 DEF SettledTruly
<1>5. ASSUME NEW a \in Auths, NEW op \in {"release", "refund"}, Mine(a, op)
      PROVE  SettledTruly'
  <2>1. UNCHANGED <<rows, pc, req>> /\ GoneStays
    BY <1>5, MineMoves DEF GoneStays
  <2>2. SignedClaim'
    BY <2>1 DEF SettledTruly, SignedClaim, Newest
  <2>3. OneRow'
    BY <2>1, OneRowQuiet DEF SettledTruly, OneRow, Newest
  <2>4. QED BY <2>2, <2>3 DEF SettledTruly
<1>6. QED BY <1>1, <1>2, <1>3, <1>4, <1>5 DEF Next, Procs

LEMMA InitSettledTruly ==
    ASSUME Init, H2AConstants
    PROVE  SettledTruly
<1>1. /\ DOMAIN rows = {1} /\ Newest = Row("pending", NoAuth) /\ rows[1] = Newest
      /\ \A p \in Procs : pc[p] = "idle"
  BY DEF Init, Newest
<1>2. SignedClaim
  BY <1>1 DEF SignedClaim
<1>3. RowTells /\ SettlerAlone
  BY <1>1, Signed DEF RowTells, SettlerAlone, Sound, Blocked, Row
<1>4. QED BY <1>2, <1>3 DEF SettledTruly, OneRow

(* refund_trustless_escrow, release_direct_to_worker and the reconciler: as *)
(* long as a task has one row, a row that reads released or refunded names  *)
(* funds that have left the escrow, also after lost answers and after a     *)
(* claim that a stopped process left behind was advanced from what the chain*)
(* said; without the signing key it also tells where they went.  It holds   *)
(* for any number of requests and jobs at the same time, with any faults.   *)
THEOREM ClosedRowIsTrue == Spec => []ClosedRowTrue
<1>1. Init => PaidBefore /\ SettledTruly
  BY InitPaidBefore, InitSettledTruly, H2AConstants
<1>2. Typed /\ SettledTruly => ClosedRowTrue
  <2>1. Len(rows) = 1 => Newest = rows[1]
    BY DEF Newest
  <2>2. QED BY <2>1 DEF SettledTruly, OneRow, RowTells, ClosedRowTrue, Told, Gone
<1>3. QED
  BY <1>1, <1>2, H2AConstants, InitTyped, NextTyped, PaidBeforeKept,
     SettledTrulyKept, PTL DEF Spec

-----------------------------------------------------------------------------
(* A rejected worker is not paid, when one handler serves the task.         *)

OneHandler == \A g, h \in Handlers : g = h

JobSteps == {"idle", "expire", "claim", "send"}

(* A submission or a review of p is the executor's.                         *)
Serving(p) ==
    \/ pc[p] \in {"submitCheck", "submission", "submitted", "rejectWrite",
                  "reviseWrite", "complete", "verdict"}
    \/ req[p].kind = "approve" /\ pc[p] \in {"findLock", "claim", "send", "book"}

Approving == {"findLock", "claim", "send", "book", "complete", "verdict"}

(* Jobs only expire the task, and whatever a handler is at, the verdicts    *)
(* are those it has seen: there are none before somebody is assigned for    *)
(* good, and then only the executor's.                                      *)
JobsExpire ==
    \A p \in Jobs :
        pc[p] \in JobSteps /\ (pc[p] # "idle" => req[p].kind = "expire")

ReviewSound ==
    /\ JobsExpire
    /\ task.status = "published" => \A w \in Workers : verdict[w] = "none"
    /\ \A w \in Workers : verdict[w] # "none" => task.executor = w
    /\ \A p \in Handlers :
        /\ pc[p] # "expire"
        /\ req[p].kind = "approve" => pc[p] \in Approving
        /\ pc[p] \in Assigning => \A w \in Workers : verdict[w] = "none"
        /\ Serving(p) => task.executor = req[p].worker /\ task.status # "published"
        /\ req[p].kind = "approve" /\ pc[p] \in {"findLock", "claim", "send"} =>
              verdict[req[p].worker] \in {"pending", "more_info"}

LEMMA JobMoves ==
    ASSUME Typed, H2AConstants, JobsExpire, NEW p \in Jobs,
           AssignStep(p) \/ SettleStep(p) \/ ReviewStep(p)
    PROVE  /\ Others(p)
           /\ pc'[p] \in JobSteps /\ (pc'[p] # "idle" => req'[p].kind = "expire")
           /\ UNCHANGED verdict
           /\ \/ UNCHANGED task
              \/ task'.executor = task.executor /\ task'.status = "expired"
<1>1. pc[p] \in JobSteps /\ (pc[p] # "idle" => req[p].kind = "expire")
  BY DEF JobsExpire
<1>2. ControlType /\ p \in Procs
  BY TypeParts DEF Typed, Procs
<1>3. UNCHANGED verdict
  BY <1>1, <1>2, VerdictMoves DEF JobSteps
<1>4. Others(p)
  BY <1>2, RequestKept
<1>5. pc'[p] \in JobSteps /\ (pc'[p] # "idle" => req'[p].kind = "expire")
  <2>1. CASE AssignStep(p)
    BY <1>1, <1>2, <2>1, AssignMoves DEF AssignStep, Moves, Ends, JobSteps
  <2>2. CASE ReviewStep(p)
    BY <1>1, <1>2, <2>2, ReviewMoves DEF ReviewStep, Moves, Ends, JobSteps
  <2>3. CASE SettleStep(p)
    <3>1. \/ Ends(p)
          \/ pc'[p] \in {"claim", "send"} /\ req'[p].kind = req[p].kind /\ pc[p] # "idle"
          \/ pc[p] \in {"findLock", "book"}
          \/ req[p].kind # "expire" /\ pc[p] # "idle"
      BY <1>2, <2>3, SettleMoves DEF SettleStep, Moves, Retries
    <3>2. QED BY <1>1, <3>1 DEF Ends, JobSteps
  <2>4. QED BY <2>1, <2>2, <2>3
<1>6. UNCHANGED task \/ (task'.executor = task.executor /\ task'.status = "expired")
  BY <1>1, <1>2, TaskMoves DEF JobSteps
<1>7. QED BY <1>3, <1>4, <1>5, <1>6

(* The same of every job, and what it leaves to the handlers.               *)
LEMMA JobStep ==
    ASSUME Typed, H2AConstants, JobsExpire, NEW p \in Jobs,
           AssignStep(p) \/ SettleStep(p) \/ ReviewStep(p)
    PROVE  /\ JobsExpire'
           /\ \A q \in Handlers : pc'[q] = pc[q] /\ req'[q] = req[q]
<1>1. \A q \in Handlers : q \in Procs \ {p}
  BY DEF Procs, H2AConstants
<1>2. \A q \in Jobs : q \in Procs
  BY DEF Procs
<1>3. QED BY <1>1, <1>2, JobMoves DEF Others, JobsExpire

LEMMA HandlerStep ==
    ASSUME H2AConstants, OneHandler, JobsExpire, NEW p \in Handlers, Others(p)
    PROVE  JobsExpire' /\ \A q \in Handlers : q = p
<1>1. \A q \in Jobs : q \in Procs \ {p}
  BY DEF Procs, H2AConstants
<1>2. QED BY <1>1 DEF Others, JobsExpire, OneHandler

LEMMA ReviewSoundJob ==
    ASSUME Typed, H2AConstants, ReviewSound, NEW p \in Jobs,
           AssignStep(p) \/ SettleStep(p) \/ ReviewStep(p)
    PROVE  ReviewSound'
<1>1. /\ JobsExpire' /\ UNCHANGED verdict /\ task'.executor = task.executor
      /\ task'.status = task.status \/ task'.status = "expired"
      /\ \A q \in Handlers : pc'[q] = pc[q] /\ req'[q] = req[q]
  BY JobMoves, JobStep DEF ReviewSound
<1>2. \A q \in Handlers : Serving(q)' <=> Serving(q)
  BY <1>1 DEF Serving
<1>3. QED BY <1>1, <1>2 DEF ReviewSound

(* Where a handler goes, as far as the review is concerned.                 *)
LEMMA HandlerMoves ==
    ASSUME Typed, H2AConstants, ReviewSound, NEW p \in Handlers,
           AssignStep(p) \/ SettleStep(p) \/ ReviewStep(p)
    PROVE  /\ pc'[p] # "expire"
           /\ req'[p].kind = "approve" => pc'[p] \in Approving
           /\ pc'[p] \in Assigning => pc[p] \in Assigning
           /\ Serving(p)' => Serving(p) /\ req'[p].worker = req[p].worker
           /\ req'[p].kind = "approve" /\ pc'[p] \in {"findLock", "claim", "send"} =>
                 /\ req[p].kind = "approve" /\ pc[p] \in {"findLock", "claim", "send"}
                 /\ req'[p].worker = req[p].worker
<1>1. /\ ControlType /\ p \in Procs /\ pc[p] # "expire"
      /\ req[p].kind = "approve" => pc[p] \in Approving
  BY TypeParts DEF Typed, Procs, ReviewSound
<1>2. CASE Ends(p)
  BY <1>2 DEF Ends, NoReq, Serving, Assigning
<1>3. CASE AssignStep(p)
  BY <1>1, <1>2, <1>3, AssignMoves
     DEF AssignStep, Moves, Serving, Assigning, Approving
<1>4. CASE ReviewStep(p)
  BY <1>1, <1>2, <1>4, ReviewMoves
     DEF ReviewStep, Moves, Serving, Assigning, Approving
<1>5. CASE SettleStep(p)
  BY <1>1, <1>2, <1>5, SettleMoves
     DEF SettleStep, Moves, Retries, Serving, Assigning, Approving
<1>6. QED BY <1>3, <1>4, <1>5

LEMMA ReviewSoundHandler ==
    ASSUME Typed, H2AConstants, OneHandler, ReviewSound, NEW p \in Handlers,
           AssignStep(p) \/ SettleStep(p) \/ ReviewStep(p)
    PROVE  ReviewSound'
<1>1. ControlType /\ p \in Procs /\ Others(p)
  BY RequestKept, TypeParts DEF Typed, Procs
<1>2. JobsExpire' /\ \A q \in Handlers : q = p
  BY <1>1, HandlerStep DEF ReviewSound
<1>3. CASE pc[p] \in Assigning
  <2>1. UNCHANGED verdict /\ \A w \in Workers : verdict[w] = "none"
    BY <1>1, <1>3, VerdictMoves DEF Assigning, ReviewSound
  <2>2. ~Serving(p) /\ ~(pc[p] \in {"findLock", "claim", "send"})
    BY <1>3 DEF Serving, Assigning
  <2>3. QED BY <1>2, <2>1, <2>2, HandlerMoves DEF ReviewSound
<1>4. CASE pc[p] \notin Assigning
  <2>1. /\ task'.executor = task.executor
        /\ task'.status = "published" => task.status = "published"
    BY <1>1, <1>4, TaskMoves DEF Assigning
  <2>2. CASE UNCHANGED verdict
    BY <1>2, <1>4, <2>1, <2>2, HandlerMoves DEF ReviewSound
  <2>3. CASE pc[p] \in {"submission", "verdict", "rejectWrite", "reviseWrite"}
    <3>1. task.executor = req[p].worker /\ task.status # "published"
      BY <2>3 DEF ReviewSound, Serving
    <3>2. \A w \in Workers : verdict'[w] # "none" => w = req[p].worker
      BY <1>1, <3>1, VerdictMoves DEF ReviewSound
    <3>3. QED BY <1>2, <1>4, <2>1, <2>3, <3>1, <3>2, HandlerMoves DEF ReviewSound
  <2>4. QED BY <1>1, <2>2, <2>3, VerdictMoves
<1>5. QED BY <1>3, <1>4

LEMMA ReviewSoundKept ==
    ASSUME Typed, H2AConstants, OneHandler, ReviewSound, [Next]_vars
    PROVE  ReviewSound'
<1>1. ASSUME NEW p \in Procs, Step(p) \/ Crash(p)
      PROVE  ReviewSound'
  BY <1>1, StepGroups, ReviewSoundHandler, ReviewSoundJob DEF Procs
<1>2. ASSUME NEW p \in Handlers, Request(p)
      PROVE  ReviewSound'
  <2>1. p \in Procs /\ ControlType
    BY TypeParts DEF Typed, Procs
  <2>2. /\ Others(p) /\ UNCHANGED world
        /\ \/ /\ task.status = "published" /\ pc'[p] = "marker"
              /\ req'[p].kind = "assign"
           \/ /\ pc'[p] = "submitCheck" /\ req'[p].kind = "submit"
              /\ task.executor = req'[p].worker
              /\ task.status \in {"accepted", "in_progress"}
           \/ /\ \/ pc'[p] = "findLock" /\ req'[p].kind = "approve"
                 \/ pc'[p] = "rejectWrite" /\ req'[p].kind = "reject"
                 \/ pc'[p] = "reviseWrite" /\ req'[p].kind = "revise"
              /\ req'[p].worker \in Workers /\ Reviewable(req'[p].worker)
           \/ pc'[p] = "cancelMarker" /\ req'[p].kind = "cancel"
    <3>1. ASSUME NEW kind, NEW w, NEW a, NEW step, step # "expire",
                 Begin(p, kind, w, a, step)
          PROVE  pc'[p] # "expire"
      BY <2>1, <3>1 DEF Begin, ControlType
    <3>2. pc'[p] # "expire"
      BY <1>2, <3>1 DEF Request, Assign, Submit, Approve, Reject, Revise, Cancel
    <3>3. QED BY <1>2, <2>1, <3>2, RequestMoves
  <2>3. JobsExpire' /\ \A q \in Handlers : q = p
    BY <2>2, HandlerStep DEF ReviewSound
  <2>4. CASE req'[p].worker \in Workers /\ Reviewable(req'[p].worker)
    <3>1. /\ task.executor = req'[p].worker /\ task.status # "published"
          /\ verdict[req'[p].worker] \in {"pending", "more_info"}
      BY <2>4 DEF Reviewable, ReviewSound
    <3>2. QED
      BY <2>2, <2>3, <3>1
         DEF ReviewSound, Serving, Assigning, Approving, world
  <2>5. QED
    BY <2>2, <2>3, <2>4 DEF ReviewSound, Serving, Assigning, Approving, world
<1>3. ASSUME NEW p \in Jobs, Overdue(p)
      PROVE  ReviewSound'
  <2>1. p \in Procs /\ ControlType
    BY TypeParts DEF Typed, Procs
  <2>2. /\ Others(p) /\ UNCHANGED world
        /\ pc'[p] = "expire" /\ req'[p].kind = "expire"
    BY <1>3, <2>1, RequestMoves DEF Overdue, ControlType
  <2>3. /\ \A q \in Handlers : pc'[q] = pc[q] /\ req'[q] = req[q]
        /\ \A q \in Jobs \ {p} : pc'[q] = pc[q] /\ req'[q] = req[q]
    BY <2>2 DEF Others, Procs, H2AConstants
  <2>4. \A q \in Handlers : Serving(q)' <=> Serving(q)
    BY <2>3 DEF Serving
  <2>5. JobsExpire'
    BY <2>2, <2>3 DEF ReviewSound, JobsExpire, JobSteps
  <2>6. QED BY <2>2, <2>3, <2>4, <2>5 DEF ReviewSound, world
<1>4. CASE \/ Reconcile \/ PassDeadline \/ UNCHANGED vars
           \/ \E a \in Auths, op \in {"release", "refund"} : Mine(a, op)
  BY <1>4 DEF Reconcile, PassDeadline, Mine, vars, ReviewSound, JobsExpire, Serving
<1>5. QED BY <1>1, <1>2, <1>3, <1>4 DEF Next

(* reject: once the verdict on a worker's submission is written, no release *)
(* pays that worker but one that was sent before and not answered, whether  *)
(* the refund succeeds, fails or stops half-way, as long as one handler     *)
(* serves the task.                                                         *)
THEOREM RejectedWorkerUnpaid ==
    ASSUME OneHandler
    PROVE  Spec => RejectedNeverPaid
<1>1. Init => ReviewSound
  BY DEF Init, ReviewSound, JobsExpire, JobSteps, Assigning, Approving, Serving,
         NoReq, Procs
<1>2. ASSUME Typed, H2AConstants, ReviewSound, [Next]_vars,
             NEW w \in Workers, verdict[w] = "rejected", PaidTo(w)'
      PROVE  \/ PaidTo(w)
             \/ \E a \in Auths : Receiver(a) = w /\ "release" \in lost[a]
  <2>1. PICK a \in Auths : Receiver(a) = w /\ chain'[a] = "released"
    BY <1>2 DEF PaidTo
  <2>2. SUFFICES ASSUME chain[a] # "released", "release" \notin lost[a]
                 PROVE  FALSE
    BY <2>1 DEF PaidTo
  <2>3. ASSUME NEW b \in Auths, NEW op \in {"release", "refund"}, Mine(b, op)
        PROVE  FALSE
    <3>1. b = a /\ Settled(op) = "released" /\ op \in lost[a]
      BY <1>2, <2>1, <2>2, <2>3, MineMoves
    <3>2. QED BY <2>2, <3>1 DEF Settled
  <2>4. PICK p \in Procs : Step(p) \/ Crash(p)
    BY <1>2, <2>1, <2>2, <2>3, RequestMoves, TypeParts
       DEF Next, Typed, Procs, world, Reconcile, PassDeadline, vars
  <2>5. AssignStep(p) \/ SettleStep(p) \/ ReviewStep(p)
    BY <2>4, StepGroups
  <2>6. SendOk(p) /\ a = req[p].auth /\ Operation(p) = "release"
    BY <1>2, <2>1, <2>2, <2>5, ChainMoves DEF Settled
  <2>7. pc[p] = "send" /\ req[p].kind = "approve"
    BY <2>6 DEF SendOk, Operation
  <2>8. p \in Handlers
    BY <1>2, <2>7 DEF ReviewSound, JobsExpire, Procs
  <2>9. /\ task.executor = req[p].worker
        /\ verdict[req[p].worker] \in {"pending", "more_info"}
    BY <1>2, <2>7, <2>8 DEF ReviewSound, Serving
  <2>10. QED BY <1>2, <2>9 DEF ReviewSound
<1>3. ASSUME Typed, H2AConstants, ReviewSound, [Next]_vars
      PROVE  \A w \in Workers : verdict[w] = "rejected" =>
                (PaidTo(w)' =>
                    \/ PaidTo(w)
                    \/ \E a \in Auths : Receiver(a) = w /\ "release" \in lost[a])
  BY <1>2, <1>3
<1>4. QED
  BY <1>1, <1>3, OneHandler, H2AConstants, InitTyped, NextTyped, ReviewSoundKept, PTL
     DEF Spec, RejectedNeverPaid

-----------------------------------------------------------------------------
(* The worker whose work is accepted is paid, when one handler serves the   *)
(* task and nothing fails.                                                  *)

Used(a) == chain[a] # "none"
Unlocked == {"marker", "accept", "drain", "relay", "takeBack"}

(* A task is locked once: for its executor, and it is not published again.  *)
LockedOnce ==
    \A a \in Auths : Used(a) =>
        /\ \A b \in Auths : Used(b) => b = a
        /\ Receiver(a) = task.executor
        /\ task.status # "published"
        /\ \A p \in Handlers : pc[p] \notin Unlocked

RelayTo ==
    \A p \in Handlers : pc[p] = "relay" =>
        /\ task.executor = req[p].worker
        /\ task.status \in {"accepted", "expired"}

OneLock == LockedOnce /\ RelayTo

(* Where an assignment goes when nothing fails.                             *)
LEMMA CleanAssign ==
    ASSUME Typed, H2AConstants, ~Faults, NEW p \in Procs,
           AssignStep(p) \/ SettleStep(p) \/ ReviewStep(p)
    PROVE  /\ pc'[p] \in Unlocked => pc[p] \in Unlocked
           /\ pc'[p] = "relay" => Accept(p)
           /\ Relay(p) /\ chain' # chain =>
                 /\ pc'[p] = "lockRow" /\ req'[p] = req[p] /\ UNCHANGED task
                 /\ Receiver(req[p].auth) = req[p].worker
<1>0. ControlType
  BY TypeParts DEF Typed
<1>1. CASE SettleStep(p) \/ ReviewStep(p)
  <2>1. pc'[p] \notin Unlocked
    <3>1. CASE SettleStep(p)
      BY <3>1, SettleMoves DEF SettleStep, Moves, Retries, Ends, Unlocked
    <3>2. CASE ReviewStep(p)
      BY <1>0, <3>2, ReviewMoves DEF ReviewStep, Moves, Ends, Unlocked
    <3>3. QED BY <1>1, <3>1, <3>2
  <2>2. ~Relay(p) \/ UNCHANGED chain
    <3>1. pc[p] # "relay"
      BY <1>1
         DEF SettleStep, ReviewStep, FindLock, Claim, SendOk, NothingLocked,
             SendFail, TimedOut, Book, Expire, Complete, AcceptWork, RejectWrite,
             ReviseWrite, Resume, CancelMarker, CancelFree, CloseMarker, Close,
             Crash
    <3>2. QED BY <3>1 DEF Relay
  <2>3. QED BY <2>1, <2>2 DEF Unlocked
<1>2. CASE AssignStep(p)
  <2>1. LockRow(p) \/ InsertRow(p) \/ LockTx(p) => pc'[p] \notin Unlocked
    BY <1>0 DEF LockRow, InsertRow, LockTx, Goto, Return, ControlType, Unlocked
  <2>2. FindMarker(p) \/ Accept(p) \/ Drain(p) \/ Relay(p) \/ TakeBack(p)
          => pc[p] \in Unlocked
    BY DEF FindMarker, Accept, Drain, Relay, TakeBack, Unlocked
  <2>3. SubmitCheck(p) \/ Submission(p) \/ Submitted(p) => pc'[p] \notin Unlocked
    BY <1>0 DEF SubmitCheck, Submission, Submitted, Goto, Return, ControlType,
                Unlocked
  <2>4. FindMarker(p) \/ Drain(p) \/ Relay(p) \/ TakeBack(p) => pc'[p] # "relay"
    BY <1>0 DEF FindMarker, Drain, Relay, TakeBack, Goto, Return, ControlType
  <2>5. Relay(p) /\ chain' # chain =>
           /\ pc'[p] = "lockRow" /\ req'[p] = req[p] /\ UNCHANGED task
           /\ Receiver(req[p].auth) = req[p].worker
    BY <1>0 DEF Relay, Goto, ControlType
  <2>6. QED BY <1>2, <2>1, <2>2, <2>3, <2>4, <2>5 DEF AssignStep, Unlocked
<1>3. QED BY <1>1, <1>2

LEMMA OneLockJob ==
    ASSUME Typed, H2AConstants, ReviewSound, OneLock, NEW p \in Jobs,
           AssignStep(p) \/ SettleStep(p) \/ ReviewStep(p)
    PROVE  OneLock'
<1>1. /\ task'.executor = task.executor
      /\ task'.status = task.status \/ task'.status = "expired"
      /\ \A q \in Handlers : pc'[q] = pc[q] /\ req'[q] = req[q]
      /\ pc[p] \in JobSteps /\ p \in Procs
  BY JobMoves, JobStep DEF ReviewSound, JobsExpire, Procs
<1>2. \A a \in Auths : chain'[a] # "none" => Used(a)
  BY <1>1, ChainMoves DEF Used, Relay, JobSteps
<1>3. LockedOnce'
  BY <1>1, <1>2 DEF OneLock, LockedOnce, Used
<1>4. RelayTo'
  BY <1>1 DEF OneLock, RelayTo
<1>5. QED BY <1>3, <1>4 DEF OneLock

LEMMA OneLockHandler ==
    ASSUME Typed, H2AConstants, OneHandler, ~Faults, ReviewSound, OneLock,
           NEW p \in Handlers, AssignStep(p) \/ SettleStep(p) \/ ReviewStep(p)
    PROVE  OneLock'
<1>0. p \in Procs /\ ControlType /\ \A q \in Handlers : q = p
  BY TypeParts DEF Typed, Procs, OneHandler
<1>1. LockedOnce'
  <2>1. CASE \A a \in Auths : ~Used(a)
    <3>1. SUFFICES ASSUME NEW a \in Auths, chain'[a] # "none"
                   PROVE  /\ \A b \in Auths : chain'[b] # "none" => b = a
                          /\ Receiver(a) = task'.executor
                          /\ task'.status # "published"
                          /\ \A q \in Handlers : pc'[q] \notin Unlocked
      BY DEF LockedOnce, Used
    <3>2. Relay(p) /\ chain' # chain /\ a = req[p].auth
      BY <1>0, <2>1, <3>1, ChainMoves DEF Used
    <3>3. \A b \in Auths : chain'[b] # "none" => b = a
      BY <1>0, <2>1, <3>2, ChainMoves DEF Used
    <3>4. /\ pc'[p] = "lockRow" /\ UNCHANGED task /\ pc[p] = "relay"
          /\ Receiver(a) = req[p].worker
      BY <1>0, <3>2, CleanAssign DEF Relay
    <3>5. QED BY <1>0, <3>3, <3>4 DEF OneLock, RelayTo, Unlocked
  <2>2. CASE \E a \in Auths : Used(a)
    <3>1. pc[p] \notin Unlocked /\ task.status # "published"
      BY <2>2 DEF OneLock, LockedOnce
    <3>2. pc'[p] \notin Unlocked
      BY <1>0, <3>1, CleanAssign
    <3>3. task'.executor = task.executor /\ task'.status # "published"
      BY <1>0, <3>1, TaskMoves DEF Unlocked
    <3>4. \A a \in Auths : chain'[a] # "none" => Used(a)
      BY <1>0, <3>1, ChainMoves DEF Used, Relay, Unlocked
    <3>5. QED BY <1>0, <3>2, <3>3, <3>4 DEF OneLock, LockedOnce, Used
  <2>3. QED BY <2>1, <2>2
<1>2. RelayTo'
  <2>1. pc'[p] = "relay" => Accept(p)
    BY <1>0, CleanAssign
  <2>2. Accept(p) => /\ task' = [status |-> "accepted", executor |-> req[p].worker]
                     /\ req'[p] = req[p]
    BY DEF Accept, AssignTo, Goto
  <2>3. QED BY <1>0, <2>1, <2>2 DEF RelayTo
<1>3. QED BY <1>1, <1>2 DEF OneLock

LEMMA OneLockKept ==
    ASSUME Typed, H2AConstants, OneHandler, ~Faults, ReviewSound, OneLock,
           [Next]_vars
    PROVE  OneLock'
<1>1. ASSUME NEW p \in Procs, Step(p) \/ Crash(p)
      PROVE  OneLock'
  BY <1>1, StepGroups, OneLockHandler, OneLockJob DEF Procs
<1>2. ASSUME NEW p \in Procs, Request(p) \/ Overdue(p)
      PROVE  OneLock'
  <2>1. /\ Others(p) /\ UNCHANGED world /\ pc'[p] # "relay"
        /\ pc'[p] \in Unlocked => task.status = "published"
    BY <1>2, RequestMoves, TypeParts DEF Typed, Unlocked
  <2>2. LockedOnce'
    BY <2>1 DEF OneLock, LockedOnce, Used, Others, Procs, world
  <2>3. RelayTo'
    BY <2>1 DEF OneLock, RelayTo, Others, Procs, world
  <2>4. QED BY <2>2, <2>3 DEF OneLock
<1>3. CASE Reconcile \/ PassDeadline \/ UNCHANGED vars
  BY <1>3 DEF Reconcile, PassDeadline, vars, OneLock, LockedOnce, RelayTo, Used
<1>4. ASSUME NEW a \in Auths, NEW op \in {"release", "refund"}, Mine(a, op)
      PROVE  OneLock'
  <2>1. /\ UNCHANGED <<task, pc, req>> /\ Used(a)
        /\ \A b \in Auths : chain'[b] # "none" => Used(b)
    BY <1>4, MineMoves DEF Used, Locked
  <2>2. QED BY <2>1 DEF OneLock, LockedOnce, RelayTo, Used
<1>5. QED BY <1>1, <1>2, <1>3, <1>4 DEF Next, Procs

LEMMA InitOneLock ==
    ASSUME Init, H2AConstants
    PROVE  OneLock /\ ReviewSound
<1>1. OneLock
  BY DEF Init, OneLock, LockedOnce, RelayTo, Used, Procs
<1>2. ReviewSound
  BY DEF Init, ReviewSound, JobsExpire, JobSteps, Assigning, Approving, Serving,
         NoReq, Procs
<1>3. QED BY <1>1, <1>2

(* approve_h2a_submission pays the newest row, whoever it names, and writes *)
(* the verdict of the worker it was asked for: they are the same worker, as *)
(* long as one handler serves the task and no call, settlement or process   *)
(* fails.                                                                   *)
THEOREM AcceptedWorkerIsPaid ==
    ASSUME OneHandler, ~Faults
    PROVE  Spec => []AcceptedWorkerPaid
<1>1. Init => PaidBefore /\ ReviewSound /\ OneLock
  BY InitPaidBefore, InitOneLock, H2AConstants
<1>2. PaidBefore /\ ReviewSound /\ OneLock => AcceptedWorkerPaid
  <2>1. SUFFICES ASSUME PaidBefore, ReviewSound, OneLock,
                        NEW w \in Workers, verdict[w] = "accepted"
                 PROVE  PaidTo(w)
    BY DEF AcceptedWorkerPaid
  <2>2. PICK a \in Auths : chain[a] = "released"
    BY <2>1, ~Faults DEF PaidBefore, AcceptedIsSettled, Settles, SomePaid
  <2>3. Receiver(a) = task.executor /\ task.executor = w
    BY <2>1, <2>2 DEF ReviewSound, OneLock, LockedOnce, Used
  <2>4. QED BY <2>2, <2>3 DEF PaidTo
<1>3. QED
  BY <1>1, <1>2, OneHandler, ~Faults, H2AConstants, InitTyped, NextTyped,
     PaidBeforeKept, ReviewSoundKept, OneLockKept, PTL DEF Spec

-----------------------------------------------------------------------------
(* Locked funds are known to a row, under the same conditions.              *)

SomeSettled == \E a \in Auths : chain[a] \in {"released", "refunded"}

(* Before anything is settled, no row is closed and every deposit is signed.*)
RowsOpen ==
    ~SomeSettled =>
        /\ \A i \in DOMAIN rows :
              /\ rows[i].status = "deposited" \/ rows[i].prev = "deposited"
                    => rows[i].auth \in Auths
              /\ {rows[i].status, rows[i].prev} \cap {"released", "refunded"} = {}
        /\ \A p \in Procs :
              /\ pc[p] = "send" =>
                    /\ req[p].seen = "deposited" => req[p].auth \in Auths
                    /\ req[p].seen \notin {"released", "refunded"}
              /\ pc[p] # "book"

Recording(a) == \E p \in Procs : pc[p] \in Locking /\ req[p].auth = a
Recorded(a) == \E i \in DOMAIN rows : rows[i].status = "deposited" /\ rows[i].auth = a
BeingSettled(a) == \E p \in Procs : pc[p] = "send" /\ req[p].auth = a

Known == \A a \in Auths : Locked(a) => Recording(a) \/ Recorded(a) \/ BeingSettled(a)

LEMMA SomeSettledStays ==
    ASSUME Typed, H2AConstants, NEW p \in Procs,
           AssignStep(p) \/ SettleStep(p) \/ ReviewStep(p), ~SomeSettled'
    PROVE  ~SomeSettled /\ ~SendOk(p)
<1>1. ~SomeSettled
  BY ChainMoves DEF SomeSettled
<1>2. SendOk(p) => chain'[req[p].auth] \in {"released", "refunded"} /\ req[p].auth \in Auths
  BY TypeParts DEF SendOk, Typed, WorldType, Settled
<1>3. QED BY <1>1, <1>2 DEF SomeSettled

(* Before anything is settled, a claim that is given back was the job's     *)
(* claim of the marker, and no result is written.                           *)
LEMMA NothingSettled ==
    ASSUME Typed, H2AConstants, ~Faults, PaidBefore, SettledTruly, RowsOpen, ~SomeSettled,
           NEW p \in Procs
    PROVE  /\ ~SendFail(p) /\ ~TimedOut(p) /\ ~Book(p)
           /\ NothingLocked(p) =>
                 req[p].seen \notin {"deposited", "released", "refunded"}
           /\ NothingLocked(p) => req[p].kind = "expire"
<1>1. ~SendFail(p)
  <2>1. SUFFICES ASSUME SendFail(p)
                 PROVE  FALSE
    OBVIOUS
  <2>2. pc[p] = "send" /\ req[p].auth \in Auths /\ chain[req[p].auth] # "locked"
    BY <2>1 DEF SendFail
  <2>3. chain[req[p].auth] # "none"
    BY <2>2 DEF PaidBefore, RowsUsed
  <2>4. chain[req[p].auth] \in {"none", "locked", "released", "refunded"}
    BY <2>2, TypeParts DEF Typed, WorldType
  <2>5. QED BY <2>2, <2>3, <2>4 DEF SomeSettled
<1>2. ~Book(p)
  BY DEF Book, RowsOpen
<1>3. NothingLocked(p) => /\ req[p].seen \notin {"deposited", "released", "refunded"}
                          /\ req[p].kind = "expire"
  BY Signed DEF NothingLocked, RowsOpen, SettledTruly, SignedClaim
<1>4. ~TimedOut(p)
  BY DEF TimedOut
<1>5. QED BY <1>1, <1>2, <1>3, <1>4

(* What the steps then do to one row.                                       *)
LEMMA OpenRowMoves ==
    ASSUME Typed, H2AConstants, ~Faults, PaidBefore, SettledTruly, RowsOpen, ~SomeSettled,
           NEW p \in Procs, AssignStep(p) \/ SettleStep(p) \/ ReviewStep(p),
           NEW i \in DOMAIN rows'
    PROVE  \/ i \in DOMAIN rows /\ rows'[i] = rows[i]
           \/ /\ pc[p] \in Locking /\ rows'[i] = Row("deposited", req[p].auth)
              /\ req[p].auth \in Auths
              /\ i \in DOMAIN rows => rows[i].status = "pending"
           \/ /\ i \in DOMAIN rows /\ rows[i].status = Newest.status
              /\ pc'[p] = "send"
              /\ rows'[i] = [status |-> Claimed(Operation(p)),
                             auth |-> Newest.auth, prev |-> Newest.status]
           \/ /\ i \in DOMAIN rows /\ rows[i].status # "deposited"
              /\ rows'[i].status \notin {"deposited", "released", "refunded"}
              /\ rows'[i].auth = rows[i].auth /\ rows'[i].prev = rows[i].prev
<1>0. RowsType /\ ControlType /\ (pc[p] \in Locking => req[p].auth \in Auths)
  BY TypeParts DEF Typed, RequestType, Locking, Assigning
<1>1. CASE LockRow(p)
  <2>1. pc[p] \in Locking
    BY <1>1 DEF LockRow, Locking
  <2>2. /\ DOMAIN rows' = DOMAIN rows
        /\ \/ rows' = rows
           \/ IF rows[i].status = "pending"
              THEN rows'[i] = Row("deposited", req[p].auth) ELSE rows'[i] = rows[i]
    BY <1>1, LockRowRows
  <2>3. QED BY <1>0, <2>1, <2>2
<1>2. CASE InsertRow(p)
  <2>1. pc[p] \in Locking
    BY <1>2 DEF InsertRow, Locking
  <2>2. \/ i \in DOMAIN rows /\ rows'[i] = rows[i]
        \/ i \notin DOMAIN rows /\ rows'[i] = Row("deposited", req[p].auth)
    BY <1>2, InsertRowRows
  <2>3. QED BY <1>0, <2>1, <2>2
<1>3. CASE Claim(p)
  <2>1. \/ UNCHANGED rows
        \/ /\ DOMAIN rows' = DOMAIN rows /\ pc'[p] = "send"
           /\ IF rows[i].status = Newest.status
              THEN rows'[i] = [status |-> Claimed(Operation(p)),
                               auth |-> Newest.auth, prev |-> Newest.status]
              ELSE rows'[i] = rows[i]
    <3>1. UNCHANGED rows \/ pc'[p] = "send"
      BY <1>0, <1>3 DEF Claim, ControlType
    <3>2. QED BY <1>3, <3>1, ClaimRows
  <2>2. QED BY <2>1
<1>4. CASE NothingLocked(p)
  <2>1. /\ rows' = SetStatus({Claimed(Operation(p))}, req[p].seen)
        /\ req[p].seen \in RowStatuses
        /\ req[p].seen \notin {"deposited", "released", "refunded"}
        /\ Claimed(Operation(p)) # "deposited"
    BY <1>0, <1>4, NothingSettled
       DEF NothingLocked, GiveBack, ControlType, Reqs, Claimed
  <2>2. /\ i \in DOMAIN rows /\ rows'[i].auth = rows[i].auth
        /\ rows'[i].prev = rows[i].prev
        /\ rows'[i].status = IF rows[i].status \in {Claimed(Operation(p))}
                             THEN req[p].seen ELSE rows[i].status
        /\ rows'[i] \in RowSet /\ rows[i] \in RowSet
    <3>1. /\ RowsType' /\ DOMAIN rows' = DOMAIN rows /\ i \in DOMAIN rows
          /\ rows'[i].auth = rows[i].auth /\ rows'[i].prev = rows[i].prev
          /\ rows'[i].status = IF rows[i].status \in {Claimed(Operation(p))}
                               THEN req[p].seen ELSE rows[i].status
      <4>1. /\ RowsType' /\ DOMAIN rows' = DOMAIN rows
            /\ \A j \in DOMAIN rows :
                  /\ rows'[j].status = IF rows[j].status \in {Claimed(Operation(p))}
                                       THEN req[p].seen ELSE rows[j].status
                  /\ rows'[j].auth = rows[j].auth
                  /\ rows'[j].prev = rows[j].prev
        BY <1>0, <2>1, SetStatusRows
      <4>2. QED BY <4>1
    <3>2. rows'[i] \in RowSet /\ rows[i] \in RowSet
      BY <1>0, <3>1, ElementOfSeq, LenProperties DEF RowsType
    <3>3. QED BY <3>1, <3>2
  <2>3. CASE rows[i].status \in {Claimed(Operation(p))}
    BY <2>1, <2>2, <2>3
  <2>4. CASE rows[i].status \notin {Claimed(Operation(p))}
    BY <2>2, <2>4 DEF RowSet
  <2>5. QED BY <2>3, <2>4
<1>5. CASE CloseMarker(p)
  <2>1. rows' = SetStatus({"pending"}, "cancelled")
    BY <1>5 DEF CloseMarker
  <2>2. /\ i \in DOMAIN rows /\ rows'[i].auth = rows[i].auth
        /\ rows'[i].prev = rows[i].prev
        /\ rows'[i].status = IF rows[i].status \in {"pending"}
                             THEN "cancelled" ELSE rows[i].status
        /\ rows'[i] \in RowSet /\ rows[i] \in RowSet
    BY <1>0, <2>1, SetStatusRows, ElementOfSeq, LenProperties
       DEF RowsType, RowStatuses
  <2>3. QED BY <2>2 DEF RowSet
<1>6. CASE UNCHANGED rows
  BY <1>6
<1>7. QED
  BY <1>1, <1>2, <1>3, <1>4, <1>5, <1>6, NothingSettled
     DEF AssignStep, SettleStep, ReviewStep, FindMarker, Accept, Drain, Relay,
         LockTx, TakeBack, SubmitCheck, Submission, Submitted, FindLock,
         SendOk, TimedOut, Expire, Complete, AcceptWork, RejectWrite, ReviseWrite, Resume,
         CancelMarker, CancelFree, Close, Crash, world

LEMMA RowsOpenStep ==
    ASSUME Typed, H2AConstants, ~Faults, PaidBefore, SettledTruly, RowsOpen, NEW p \in Procs,
           AssignStep(p) \/ SettleStep(p) \/ ReviewStep(p)
    PROVE  RowsOpen'
<1>0. SUFFICES ASSUME ~SomeSettled'
               PROVE  /\ \A i \in DOMAIN rows' :
                            /\ rows'[i].status = "deposited" \/ rows'[i].prev = "deposited"
                                  => rows'[i].auth \in Auths
                            /\ {rows'[i].status, rows'[i].prev}
                                  \cap {"released", "refunded"} = {}
                      /\ \A q \in Procs :
                            /\ pc'[q] = "send" =>
                                  /\ req'[q].seen = "deposited" => req'[q].auth \in Auths
                                  /\ req'[q].seen \notin {"released", "refunded"}
                            /\ pc'[q] # "book"
  BY DEF RowsOpen
<1>1. ~SomeSettled /\ ~SendOk(p)
  BY <1>0, SomeSettledStays
<1>2. /\ Newest.status = "deposited" => Newest.auth \in Auths
      /\ Newest.status \notin {"released", "refunded"}
  BY <1>1, NewestRow, TypeParts DEF Typed, RowsOpen, Newest
<1>3. ASSUME NEW i \in DOMAIN rows'
      PROVE  /\ rows'[i].status = "deposited" \/ rows'[i].prev = "deposited"
                   => rows'[i].auth \in Auths
             /\ rows'[i].status \notin {"released", "refunded"}
             /\ rows'[i].prev \notin {"released", "refunded"}
  <2>1. CASE i \in DOMAIN rows /\ rows'[i] = rows[i]
    BY <1>1, <2>1 DEF RowsOpen
  <2>2. CASE rows'[i] = Row("deposited", req[p].auth) /\ req[p].auth \in Auths
    BY <2>2 DEF Row
  <2>3. CASE rows'[i] = [status |-> Claimed(Operation(p)),
                         auth |-> Newest.auth, prev |-> Newest.status]
    BY <1>2, <2>3 DEF Claimed
  <2>4. CASE /\ i \in DOMAIN rows
             /\ rows'[i].status \notin {"deposited", "released", "refunded"}
             /\ rows'[i].auth = rows[i].auth /\ rows'[i].prev = rows[i].prev
    BY <1>1, <2>4 DEF RowsOpen
  <2>5. QED BY <1>1, <2>1, <2>2, <2>3, <2>4, OpenRowMoves
<1>4. ASSUME NEW q \in Procs
      PROVE  /\ pc'[q] = "send" =>
                   /\ req'[q].seen = "deposited" => req'[q].auth \in Auths
                   /\ req'[q].seen \notin {"released", "refunded"}
             /\ pc'[q] # "book"
  <2>1. CASE q # p
    BY <1>1, <2>1, SendMoves DEF Others, RowsOpen
  <2>2. CASE q = p
    <3>1. pc'[p] # "book"
      <4>1. ControlType
        BY TypeParts DEF Typed
      <4>2. AssignStep(p) \/ ReviewStep(p) => pc'[p] # "book"
        BY <4>1, AssignMoves, ReviewMoves DEF AssignStep, ReviewStep, Moves, Ends
      <4>3. SettleStep(p) => \/ pc'[p] # "book"
                             \/ Newest.status = "refunded"
                             \/ /\ SendOk(p) \/ NothingLocked(p) \/ TimedOut(p)
                                /\ req[p].kind # "expire"
        BY SettleMoves DEF SettleStep, Moves, Retries, Ends
      <4>4. QED BY <1>1, <1>2, <4>2, <4>3, NothingSettled
    <3>2. QED BY <1>2, <2>2, <3>1, SendMoves
  <2>3. QED BY <2>1, <2>2
<1>5. QED BY <1>3, <1>4

LEMMA KnownStep ==
    ASSUME Typed, H2AConstants, OneHandler, ~Faults, ReviewSound, OneLock,
           PaidBefore, SettledTruly, RowsOpen, Known, NEW p \in Procs,
           AssignStep(p) \/ SettleStep(p) \/ ReviewStep(p),
           NEW a \in Auths, chain'[a] = "locked"
    PROVE  /\ Recording(a)' \/ Recorded(a)' \/ BeingSettled(a)'
           /\ BeingSettled(a) => BeingSettled(a)'
<1>0. /\ ControlType /\ Others(p) /\ RowsType /\ Len(rows) \in DOMAIN rows
      /\ OneLock'
  BY RequestKept, NewestRow, TypeParts, OneLockHandler, OneLockJob DEF Typed, Procs
<1>1. ~SomeSettled' /\ ~SomeSettled /\ ~SendOk(p)
  <2>1. \A b \in Auths : chain'[b] # "none" => b = a
    BY <1>0 DEF OneLock, LockedOnce, Used
  <2>2. ~SomeSettled'
    BY <2>1 DEF SomeSettled
  <2>3. QED BY <2>2, SomeSettledStays
<1>2. ~SendFail(p) /\ ~TimedOut(p) /\ ~Crash(p)
  BY <1>1, NothingSettled DEF Crash
<1>3. BeingSettled(a) => BeingSettled(a)'
  <2>1. SUFFICES ASSUME NEW q \in Procs, pc[q] = "send", req[q].auth = a
                 PROVE  BeingSettled(a)'
    BY DEF BeingSettled
  <2>2. q # p
    <3>1. SUFFICES ASSUME q = p
                   PROVE  FALSE
      OBVIOUS
    <3>2. ~NothingLocked(p)
      BY <2>1, <3>1, Signed DEF NothingLocked
    <3>3. QED
      BY <1>1, <1>2, <2>1, <3>1, <3>2
         DEF AssignStep, SettleStep, ReviewStep, FindMarker, Accept, Drain,
             Relay, LockRow, InsertRow, LockTx, TakeBack, SubmitCheck,
             Submission, Submitted, FindLock, Claim, Book, Expire, Complete,
             AcceptWork, RejectWrite, ReviseWrite, Resume, CancelMarker,
             CancelFree, CloseMarker, Close
  <2>3. QED BY <1>0, <2>1, <2>2 DEF Others, BeingSettled
<1>4. CASE ~Locked(a)
  <2>1. Relay(p) /\ a = req[p].auth /\ chain' # chain
    BY <1>1, <1>4, ChainMoves DEF Locked
  <2>2. Recording(a)'
    BY <2>1, CleanAssign DEF Recording, Locking
  <2>3. QED BY <1>3, <2>2
<1>5. CASE Recording(a)
  <2>1. PICK q \in Procs : pc[q] \in Locking /\ req[q].auth = a
    BY <1>5 DEF Recording
  <2>2. CASE q # p
    BY <1>0, <1>3, <2>1, <2>2 DEF Others, Recording
  <2>3. CASE q = p /\ LockRow(p)
    <3>1. CASE Found("pending") /\ rows' # rows
      <4>1. PICK i \in DOMAIN rows : rows[i].status = "pending"
        BY <3>1 DEF Found
      <4>2. i \in DOMAIN rows' /\ rows'[i] = Row("deposited", a)
        BY <2>1, <2>3, <3>1, <4>1, LockRowRows
      <4>3. Recorded(a)'
        BY <4>2 DEF Recorded, Row
      <4>4. QED BY <1>3, <4>3
    <3>2. CASE pc'[p] = "insertRow" /\ req'[p] = req[p]
      BY <1>3, <2>1, <2>3, <3>2 DEF Recording, Locking
    <3>3. \/ pc'[p] = "insertRow" /\ req'[p] = req[p]
          \/ /\ Found("pending")
             /\ rows' = [i \in DOMAIN rows |->
                           IF rows[i].status = "pending"
                           THEN Row("deposited", req[p].auth) ELSE rows[i]]
      BY <1>0, <2>3 DEF LockRow, Goto, ControlType
    <3>4. ASSUME Found("pending"), rows' = rows,
                 rows' = [i \in DOMAIN rows |->
                           IF rows[i].status = "pending"
                           THEN Row("deposited", req[p].auth) ELSE rows[i]]
          PROVE  FALSE
      <4>1. PICK i \in DOMAIN rows : rows[i].status = "pending"
        BY <3>4 DEF Found
      <4>2. rows[i] = Row("deposited", req[p].auth)
        BY <3>4, <4>1
      <4>3. QED BY <4>1, <4>2 DEF Row
    <3>5. QED BY <3>1, <3>2, <3>3, <3>4
  <2>4. CASE q = p /\ InsertRow(p)
    <3>1. rows' = Append(rows, Row("deposited", req[p].auth))
      BY <2>4 DEF InsertRow
    <3>2. /\ Len(rows) + 1 \in DOMAIN rows'
          /\ rows'[Len(rows) + 1] = Row("deposited", req[p].auth)
      <4>1. Row("deposited", req[p].auth) \in RowSet
        BY <2>1, <2>4, RowInSet
           DEF Typed, RequestType, Locking, Assigning, RowStatuses
      <4>2. QED BY <1>0, <3>1, <4>1, AppendProperties DEF RowsType
    <3>3. Recorded(a)'
      BY <2>1, <2>4, <3>2 DEF Recorded, Row
    <3>4. QED BY <1>3, <3>3
  <2>5. q = p => LockRow(p) \/ InsertRow(p)
    BY <1>2, <2>1
       DEF AssignStep, SettleStep, ReviewStep, FindMarker, Accept, Drain, Relay,
           LockTx, TakeBack, SubmitCheck, Submission, Submitted, FindLock, Claim,
           SendOk, NothingLocked, SendFail, TimedOut, Book, Expire, Complete, AcceptWork,
           RejectWrite, ReviseWrite, Resume, CancelMarker, CancelFree,
           CloseMarker, Close, Locking
  <2>6. QED BY <2>2, <2>3, <2>4, <2>5
<1>6. CASE Recorded(a)
  <2>1. PICK i \in DOMAIN rows : rows[i].status = "deposited" /\ rows[i].auth = a
    BY <1>6 DEF Recorded
  <2>2. i \in DOMAIN rows'
    <3>1. Len(rows') >= Len(rows) /\ Len(rows') \in Nat /\ DOMAIN rows' = 1..Len(rows')
      <4>1. RowsType' /\ Len(rows) \in Nat
        BY <1>0, RowsKept, LenProperties DEF RowsType
      <4>2. rows' = rows \/ Len(rows') \in {Len(rows), Len(rows) + 1}
        BY NewestMoves
      <4>3. QED BY <4>1, <4>2, LenProperties DEF RowsType
    <3>2. Len(rows) \in Nat /\ DOMAIN rows = 1..Len(rows)
      BY <1>0, LenProperties DEF RowsType
    <3>3. QED BY <3>1, <3>2
  <2>3. CASE rows'[i] = rows[i]
    BY <1>3, <2>1, <2>2, <2>3 DEF Recorded
  <2>4. CASE pc'[p] = "send" /\ rows[i].status = Newest.status
    <3>1. Newest.auth \in Auths /\ chain[Newest.auth] # "none"
      BY <1>0, <1>1, <2>1, <2>4 DEF RowsOpen, PaidBefore, RowsUsed, Newest
    <3>2. chain[a] # "none"
      BY <2>1 DEF PaidBefore, RowsUsed
    <3>3. Newest.auth = a
      BY <3>1, <3>2 DEF OneLock, LockedOnce, Used
    <3>4. BeingSettled(a)'
      BY <2>4, <3>3, SendMoves DEF BeingSettled
    <3>5. QED BY <3>4
  <2>5. QED BY <1>1, <2>1, <2>2, <2>3, <2>4, OpenRowMoves
<1>7. QED BY <1>3, <1>4, <1>5, <1>6 DEF Known

LEMMA ReconcileOpen ==
    ASSUME Typed, H2AConstants, PaidBefore, SettledTruly, RowsOpen, Known, Reconcile
    PROVE  RowsOpen' /\ Known'
<1>0. /\ UNCHANGED <<chain, pc, req>> /\ DOMAIN rows' = DOMAIN rows
      /\ \A i \in DOMAIN rows : rows[i] \in RowSet
  BY ReconcileRows, NewestRow, TypeParts DEF Typed, Reconcile
<1>1. PICK i \in DOMAIN rows :
        /\ rows[i].status \in {"releasing", "refunding"}
        /\ rows'[i].auth = rows[i].auth /\ rows'[i].prev = rows[i].prev
        /\ rows'[i].status =
              IF rows[i].auth = NoAuth \/ Locked(rows[i].auth)
              THEN rows[i].prev
              ELSE IF rows[i].status = "releasing" THEN "released" ELSE "refunded"
        /\ \A j \in DOMAIN rows \ {i} : rows'[j] = rows[j]
  BY ReconcileRows
<1>2. ~SomeSettled => rows'[i].status = rows[i].prev
  <2>1. SUFFICES ASSUME ~SomeSettled, rows[i].auth # NoAuth
                 PROVE  Locked(rows[i].auth)
    BY <1>1
  <2>2. rows[i].auth \in Auths
    BY <1>0, <2>1 DEF RowSet
  <2>3. chain[rows[i].auth] # "none"
    BY <2>2 DEF PaidBefore, RowsUsed
  <2>4. chain[rows[i].auth] \in {"none", "locked", "released", "refunded"}
    BY <2>2, TypeParts DEF Typed, WorldType
  <2>5. QED BY <2>1, <2>2, <2>3, <2>4 DEF SomeSettled, Locked
<1>3. SomeSettled' <=> SomeSettled
  BY <1>0 DEF SomeSettled
<1>4. RowsOpen'
  <2>1. CASE SomeSettled
    BY <1>3, <2>1 DEF RowsOpen
  <2>2. CASE ~SomeSettled
    <3>1. ASSUME NEW j \in DOMAIN rows'
          PROVE  /\ rows'[j].status = "deposited" \/ rows'[j].prev = "deposited"
                       => rows'[j].auth \in Auths
                 /\ {rows'[j].status, rows'[j].prev} \cap {"released", "refunded"} = {}
      <4>1. CASE j = i
        BY <1>1, <1>2, <2>2, <4>1 DEF RowsOpen
      <4>2. CASE j # i
        BY <1>0, <1>1, <2>2, <4>2 DEF RowsOpen
      <4>3. QED BY <4>1, <4>2
    <3>2. QED BY <1>0, <1>3, <2>2, <3>1 DEF RowsOpen
  <2>3. QED BY <2>1, <2>2
<1>5. \A a \in Auths : Recorded(a) => Recorded(a)'
  <2>1. \A j \in DOMAIN rows : rows[j].status = "deposited" => rows'[j] = rows[j]
    BY <1>1
  <2>2. QED BY <1>0, <2>1 DEF Recorded
<1>6. Known'
  BY <1>0, <1>5 DEF Known, Locked, Recording, BeingSettled
<1>7. QED BY <1>4, <1>6

LEMMA KnownKept ==
    ASSUME Typed, H2AConstants, OneHandler, ~Faults, ReviewSound, OneLock,
           PaidBefore, SettledTruly, RowsOpen, Known, [Next]_vars
    PROVE  RowsOpen' /\ Known'
<1>1. ASSUME NEW p \in Procs, Step(p) \/ Crash(p)
      PROVE  RowsOpen' /\ Known'
  <2>1. AssignStep(p) \/ SettleStep(p) \/ ReviewStep(p)
    BY <1>1, StepGroups
  <2>2. \A a \in Auths : chain'[a] = "locked" =>
            Recording(a)' \/ Recorded(a)' \/ BeingSettled(a)'
    BY <2>1, KnownStep
  <2>3. QED BY <2>1, <2>2, RowsOpenStep DEF Known, Locked
<1>2. ASSUME NEW p \in Procs, Request(p) \/ Overdue(p)
      PROVE  RowsOpen' /\ Known'
  <2>1. /\ Others(p) /\ UNCHANGED world /\ pc[p] = "idle"
        /\ pc'[p] \notin {"send", "book"}
    BY <1>2, RequestMoves, TypeParts DEF Typed
  <2>2. RowsOpen'
    BY <2>1 DEF RowsOpen, SomeSettled, Others, world
  <2>3. \A a \in Auths :
          (Recording(a) => Recording(a)') /\ (BeingSettled(a) => BeingSettled(a)')
    BY <2>1 DEF Recording, BeingSettled, Others, Locking
  <2>4. Known'
    BY <2>1, <2>3 DEF Known, Recorded, Locked, world
  <2>5. QED BY <2>2, <2>4
<1>3. CASE PassDeadline \/ UNCHANGED vars
  BY <1>3 DEF PassDeadline, vars, RowsOpen, SomeSettled, Known, Locked, Recorded,
              Recording, BeingSettled
<1>4. ASSUME NEW a \in Auths, NEW op \in {"release", "refund"}, Mine(a, op)
      PROVE  RowsOpen' /\ Known'
  <2>1. /\ UNCHANGED <<rows, pc, req>> /\ SomeSettled'
        /\ \A b \in Auths : chain'[b] = "locked" => Locked(b)
    BY <1>4, MineMoves DEF Locked, Settled, SomeSettled
  <2>2. QED
    BY <2>1 DEF RowsOpen, Known, Locked, Recorded, Recording, BeingSettled
<1>5. QED BY <1>1, <1>2, <1>3, <1>4, ReconcileOpen DEF Next, Procs

LEMMA InitKnown ==
    ASSUME Init, H2AConstants
    PROVE  RowsOpen /\ Known
<1>1. DOMAIN rows = {1} /\ rows[1] = Row("pending", NoAuth)
  BY DEF Init
<1>2. RowsOpen
  BY <1>1 DEF Init, RowsOpen, Row
<1>3. Known
  BY DEF Init, Known, Locked
<1>4. QED BY <1>2, <1>3

(* lock_with_fresh_auth: between requests the server knows of every lock    *)
(* that is on the chain, from a row that can be settled, also when the      *)
(* expiration job had claimed the marker while the lock was made.  One      *)
(* handler serves the task, and no call, settlement or process fails;       *)
(* look-ups may.                                                            *)
THEOREM LocksAreKnown ==
    ASSUME OneHandler, ~Faults
    PROVE  Spec => []LockKnown
<1>1. Init => PaidBefore /\ SettledTruly /\ ReviewSound /\ OneLock /\ RowsOpen /\ Known
  BY InitPaidBefore, InitSettledTruly, InitOneLock, InitKnown, H2AConstants
<1>2. Known => LockKnown
  BY DEF Known, LockKnown, Idle, Recording, Recorded, BeingSettled, Locking
<1>3. QED
  BY <1>1, <1>2, OneHandler, ~Faults, H2AConstants, InitTyped, NextTyped,
     PaidBeforeKept, SettledTrulyKept, ReviewSoundKept, OneLockKept, KnownKept, PTL
     DEF Spec

-----------------------------------------------------------------------------
(* A task that is closed leaves nothing in escrow, when look-ups answer too.*)

Cancelling == {"cancelFree", "closeMarker", "close"}

(* Whoever closes a task with one row has found nothing locked, or a job is *)
(* about to return it.                                                      *)
CancelEmpty ==
    /\ Len(rows) = 1
    /\ task.status = "cancelled" \/ \E p \in Handlers : pc[p] \in Cancelling
    => \A a \in Auths : Locked(a) => BeingSettled(a)

LEMMA CancelMoves ==
    ASSUME Typed, H2AConstants, ~ReadFaults, RowsOpen, NEW p \in Procs,
           AssignStep(p) \/ SettleStep(p) \/ ReviewStep(p),
           pc'[p] \in Cancelling, pc[p] \notin Cancelling,
           Len(rows) = 1, ~SomeSettled
    PROVE  pc[p] \notin Locking /\ \A a \in Auths : ~Recorded(a)
<1>0. ControlType /\ DOMAIN rows = 1..1
  BY NewestRow, TypeParts DEF Typed
<1>1. pc[p] # "book"
  BY DEF RowsOpen
<1>2. CASE AssignStep(p)
  BY <1>0, <1>2, AssignMoves DEF AssignStep, Moves, Ends, Cancelling
<1>3. CASE SettleStep(p)
  <2>1. pc[p] = "findLock"
    BY <1>1, <1>3, SettleMoves DEF SettleStep, Moves, Retries, Ends, Cancelling
  <2>2. FindLock(p)
    BY <1>3, <2>1 DEF SettleStep, Claim, SendOk, NothingLocked, SendFail, TimedOut, Book, Expire
  <2>3. \E s \in RowStatuses \ {"deposited"} : Found(s)
    <3>1. ~(Found("deposited") /\ Goto(p, "claim"))
      BY <1>0 DEF Goto, ControlType, Cancelling
    <3>2. QED BY <2>2, <3>1 DEF FindLock
  <2>4. QED BY <1>0, <2>1, <2>3 DEF Found, Recorded, Locking
<1>4. CASE ReviewStep(p)
  <2>1. pc[p] = "cancelMarker"
    BY <1>0, <1>4, ReviewMoves DEF ReviewStep, Moves, Ends, Cancelling
  <2>2. CancelMarker(p)
    BY <1>0, <1>4, <2>1
       DEF ReviewStep, Complete, AcceptWork, RejectWrite, ReviseWrite, Resume,
           CancelFree, CloseMarker, Close, Crash, Return, ControlType, Cancelling
  <2>3. Found("pending")
    <3>1. ~Goto(p, "findLock")
      BY <1>0 DEF Goto, ControlType, Cancelling
    <3>2. QED BY <2>2, <3>1 DEF CancelMarker
  <2>4. QED BY <1>0, <2>1, <2>3 DEF Found, Recorded, Locking
<1>5. QED BY <1>2, <1>3, <1>4

LEMMA CancelEmptyStep ==
    ASSUME Typed, H2AConstants, OneHandler, ~Faults, ~ReadFaults, ReviewSound,
           OneLock, PaidBefore, SettledTruly, RowsOpen, Known, CancelEmpty, NEW p \in Procs,
           AssignStep(p) \/ SettleStep(p) \/ ReviewStep(p)
    PROVE  CancelEmpty'
<1>0. SUFFICES ASSUME Len(rows') = 1,
                      \/ task'.status = "cancelled"
                      \/ \E q \in Handlers : pc'[q] \in Cancelling,
                      NEW a \in Auths, chain'[a] = "locked"
               PROVE  BeingSettled(a)'
  BY DEF CancelEmpty, Locked
<1>1. /\ Others(p) /\ ControlType /\ Len(rows) = 1 /\ ~SomeSettled
  <2>1. Len(rows) \in Nat /\ Len(rows) >= 1
    BY NewestRow, TypeParts DEF Typed
  <2>2. rows' = rows \/ Len(rows') \in {Len(rows), Len(rows) + 1}
    BY NewestMoves
  <2>3. OneLock'
    BY OneLockHandler, OneLockJob DEF Procs
  <2>4. ~SomeSettled'
    BY <1>0, <2>3 DEF OneLock, LockedOnce, Used, SomeSettled
  <2>5. QED
    BY <1>0, <2>1, <2>2, <2>4, RequestKept, SomeSettledStays, TypeParts DEF Typed
<1>2. p \in Jobs => /\ task'.status # "cancelled" \/ task.status = "cancelled"
                    /\ \A q \in Handlers : pc'[q] = pc[q]
                    /\ pc[p] \notin {"relay"} \cup Cancelling
  BY JobMoves, JobStep DEF ReviewSound, JobsExpire, JobSteps, Cancelling
<1>3. p \in Handlers => \A q \in Handlers : q = p
  BY DEF OneHandler
<1>4. SUFFICES BeingSettled(a)
  BY <1>0, KnownStep
<1>5. Locked(a)
  <2>1. SUFFICES ASSUME ~Locked(a)
                 PROVE  FALSE
    OBVIOUS
  <2>2. Relay(p) /\ chain' # chain
    BY <1>0, <2>1, ChainMoves DEF Locked, SendOk
  <2>3. pc'[p] = "lockRow" /\ UNCHANGED task /\ pc[p] = "relay" /\ p \in Handlers
    BY <1>2, <2>2, CleanAssign DEF Relay, Procs
  <2>4. task.status # "cancelled"
    BY <2>3 DEF OneLock, RelayTo
  <2>5. QED BY <1>0, <1>3, <2>3, <2>4 DEF Cancelling
<1>6. CASE task.status = "cancelled" \/ \E q \in Handlers : pc[q] \in Cancelling
  BY <1>1, <1>5, <1>6 DEF CancelEmpty
<1>7. CASE ~(task.status = "cancelled" \/ \E q \in Handlers : pc[q] \in Cancelling)
  <2>1. p \in Handlers
    BY <1>0, <1>2, <1>7 DEF Procs
  <2>2. task'.status # "cancelled"
    BY <1>7, <2>1, TaskMoves DEF AssignTo, Cancelling
  <2>3. pc'[p] \in Cancelling /\ pc[p] \notin Cancelling
    BY <1>0, <1>3, <1>7, <2>1, <2>2
  <2>4. pc[p] \notin Locking /\ ~Recorded(a)
    BY <1>1, <2>3, CancelMoves
  <2>5. ~Recording(a)
    <3>1. \A q \in Jobs : pc[q] \notin Locking
      BY DEF ReviewSound, JobsExpire, JobSteps, Locking
    <3>2. QED BY <1>3, <2>1, <2>4, <3>1 DEF Recording, Procs
  <2>6. QED BY <1>5, <2>4, <2>5 DEF Known
<1>8. QED BY <1>6, <1>7

LEMMA CancelEmptyKept ==
    ASSUME Typed, H2AConstants, OneHandler, ~Faults, ~ReadFaults, ReviewSound,
           OneLock, PaidBefore, SettledTruly, RowsOpen, Known, CancelEmpty, [Next]_vars
    PROVE  CancelEmpty'
<1>1. ASSUME NEW p \in Procs, Step(p) \/ Crash(p)
      PROVE  CancelEmpty'
  BY <1>1, StepGroups, CancelEmptyStep
<1>2. ASSUME NEW p \in Procs, Request(p) \/ Overdue(p)
      PROVE  CancelEmpty'
  <2>1. /\ Others(p) /\ UNCHANGED world /\ pc[p] = "idle"
        /\ pc'[p] \notin Cancelling
    BY <1>2, RequestMoves, TypeParts DEF Typed, Cancelling
  <2>2. \A a \in Auths : BeingSettled(a) => BeingSettled(a)'
    BY <2>1 DEF BeingSettled, Others
  <2>3. (\E q \in Handlers : pc'[q] \in Cancelling)
           => \E q \in Handlers : pc[q] \in Cancelling
    BY <2>1 DEF Others, Procs
  <2>4. QED BY <2>1, <2>2, <2>3 DEF CancelEmpty, world, Locked
<1>3. CASE Reconcile \/ PassDeadline \/ UNCHANGED vars
  <2>1. UNCHANGED <<task, chain, pc, req>> /\ Len(rows') = Len(rows)
    BY <1>3, ReconcileRows DEF Reconcile, PassDeadline, vars
  <2>2. QED BY <2>1 DEF CancelEmpty, Locked, BeingSettled
<1>4. ASSUME NEW a \in Auths, NEW op \in {"release", "refund"}, Mine(a, op)
      PROVE  CancelEmpty'
  <2>1. /\ UNCHANGED <<task, rows, pc, req>>
        /\ \A b \in Auths : chain'[b] = "locked" => Locked(b)
    BY <1>4, MineMoves DEF Locked, Settled
  <2>2. QED BY <2>1 DEF CancelEmpty, Locked, BeingSettled
<1>5. QED BY <1>1, <1>2, <1>3, <1>4 DEF Next, Procs

(* cancel_h2a_task, reject and approve: once all requests have ended, a     *)
(* task that was completed or cancelled and whose lock was recorded in its  *)
(* marker has no funds in escrow.  One handler serves the task, nothing     *)
(* fails, and any number of jobs run.                                       *)
THEOREM ClosedIsEmpty ==
    ASSUME OneHandler, ~Faults, ~ReadFaults
    PROVE  Spec => []ClosedEmpty
<1>1. Init => /\ PaidBefore /\ SettledTruly /\ ReviewSound /\ OneLock
              /\ RowsOpen /\ Known /\ CancelEmpty
  <2>1. Init => CancelEmpty
    BY DEF Init, CancelEmpty, Locked
  <2>2. QED
    BY <2>1, InitPaidBefore, InitSettledTruly, InitOneLock, InitKnown, H2AConstants
<1>2. PaidBefore /\ OneLock /\ CancelEmpty => ClosedEmpty
  <2>1. SUFFICES ASSUME PaidBefore, OneLock, CancelEmpty, Idle, Len(rows) = 1,
                        task.status \in {"completed", "cancelled"},
                        NEW a \in Auths, Locked(a)
                 PROVE  FALSE
    BY DEF ClosedEmpty
  <2>2. CASE task.status = "completed"
    <3>1. PICK b \in Auths : chain[b] = "released"
      BY <2>1, <2>2, ~Faults DEF PaidBefore, AcceptedIsSettled, Settles, SomePaid
    <3>2. QED BY <2>1, <3>1 DEF OneLock, LockedOnce, Used, Locked
  <2>3. CASE task.status = "cancelled"
    BY <2>1, <2>3 DEF CancelEmpty, BeingSettled, Idle
  <2>4. QED BY <2>1, <2>2, <2>3
<1>3. QED
  BY <1>1, <1>2, OneHandler, ~Faults, ~ReadFaults, H2AConstants, InitTyped,
     NextTyped, PaidBeforeKept, SettledTrulyKept, ReviewSoundKept, OneLockKept,
     KnownKept, CancelEmptyKept, PTL
     DEF Spec

=============================================================================
