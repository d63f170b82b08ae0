----------------------- MODULE EscrowSettlementProofs -----------------------
(***************************************************************************)
(* Theorems about EscrowSettlement, for any number of callers and any       *)
(* bounds.                                                                  *)
(***************************************************************************)
EXTENDS EscrowSettlement, TLAPS

-----------------------------------------------------------------------------
(* The control of a caller keeps the types of pc and call.                  *)

ControlType ==
    /\ pc \in [Callers -> Steps]
    /\ call \in [Callers -> Calls]

(* Going to a step changes only where the caller is.                        *)
LEMMA GotoType ==
    ASSUME ControlType, NEW c \in Callers, NEW s \in Steps, Goto(c, s)
    PROVE  ControlType'
BY DEF ControlType, Goto

LEMMA NoCallType == NoCall \in Calls
BY DEF NoCall, Calls, Statuses

(* Returning leaves the caller idle with no local state.                    *)
LEMMA ReturnType ==
    ASSUME ControlType, NEW c \in Callers, Return(c)
    PROVE  ControlType'
BY NoCallType DEF ControlType, Return, Steps

(* A failed attempt either starts over or returns.                          *)
LEMMA FailType ==
    ASSUME ControlType, NEW c \in Callers, Fail(c)
    PROVE  ControlType'
<1>1. CASE Return(c)
  BY <1>1, ReturnType
<1>2. CASE /\ pc' = [pc EXCEPT ![c] = "claimRead"]
           /\ call' = [call EXCEPT ![c] = [NoCall EXCEPT !.kind = "expire",
                                                         !.jobs = call[c].jobs + 1]]
  <2>1. call[c].jobs + 1 \in Nat
    BY DEF ControlType, Calls
  <2>2. [NoCall EXCEPT !.kind = "expire", !.jobs = call[c].jobs + 1] \in Calls
    BY <2>1 DEF NoCall, Calls, Statuses, AllKinds
  <2>3. QED BY <1>2, <2>2 DEF ControlType, Steps
<1>3. QED BY <1>1, <1>2 DEF Fail

LEMMA SettledWithoutClaimType ==
    ASSUME ControlType, NEW c \in Callers, SettledWithoutClaim(c)
    PROVE  ControlType'
<1>1. "mark" \in Steps
  BY DEF Steps
<1>2. QED BY <1>1, ReturnType, GotoType DEF SettledWithoutClaim

LEMMA RefusedType ==
    ASSUME ControlType, NEW c \in Callers, Refused(c)
    PROVE  ControlType'
BY FailType, SettledWithoutClaimType DEF Refused

LEMMA ConfirmedType ==
    ASSUME ControlType, NEW c \in Callers, Confirmed(c)
    PROVE  ControlType'
<1>1. {"record", "disburse", "finish"} \subseteq Steps
  BY DEF Steps
<1>2. QED BY <1>1, ReturnType, GotoType DEF Confirmed

-----------------------------------------------------------------------------
(* The statuses that a claim and a result write are statuses.               *)
LEMMA OpStatus ==
    ASSUME NEW k
    PROVE  /\ Op(k) \in Ops
           /\ Claimed(Op(k)) \in Transitional
           /\ Settled(Op(k)) \in Terminal
           /\ Transitional \subseteq Statuses
           /\ Terminal \subseteq Statuses
BY DEF Op, Ops, Claimed, Settled, Transitional, Terminal, Statuses

RowType ==
    /\ status \in Statuses
    /\ claimPrev \in Statuses
    /\ hasInfo \in BOOLEAN
    /\ aged \in BOOLEAN

WorldType ==
    /\ chain \in {"locked"} \cup Terminal
    /\ mempool \subseteq Ops
    /\ ledger \in Nat
    /\ disbursed \in Nat

ReconType ==
    /\ rpc \in [Reconcilers -> {"idle", "resolve", "write"}]
    /\ view \in [Reconcilers -> Views]

(* The type invariant by parts: the row, the outside world, the callers and *)
(* the reconcilers.                                                         *)
LEMMA TypeParts ==
    /\ TypeOK <=> RowType /\ WorldType /\ ControlType /\ ReconType
    /\ TypeOK' <=> RowType' /\ WorldType' /\ ControlType' /\ ReconType'
BY DEF TypeOK, RowType, books, WorldType, ControlType, ReconType

-----------------------------------------------------------------------------
(* Each action keeps the types.                                             *)

LEMMA FirstSteps ==
    ASSUME NEW k \in Kinds
    PROVE  FirstStep[k] \in {"ledger", "check", "claimRead"}
<1>1. k \in AllKinds
  BY SettlementConstants DEF SettlementConstants
<1>2. QED BY <1>1 DEF AllKinds, FirstStep

LEMMA StartType ==
    ASSUME TypeOK, SettlementConstants, NEW c \in Callers, NEW k \in Kinds,
           Start(c, k)
    PROVE  TypeOK'
<1>1. [NoCall EXCEPT !.kind = k] \in Calls
  BY DEF SettlementConstants, NoCall, Calls, Statuses
<1>2. FirstStep[k] \in Steps
  BY FirstSteps DEF Steps
<1>3. ControlType'
  BY <1>1, <1>2, TypeParts DEF Start, ControlType
<1>4. QED
  BY <1>3, TypeParts DEF Start, row, RowType, books, WorldType, ReconType

(* What one caller does to the row, the outside world and the reconcilers   *)
(* when it only moves on.                                                   *)
LEMMA OnlyControlType ==
    ASSUME TypeOK, ControlType',
           UNCHANGED <<row, chain, mempool, books, rpc, view>>
    PROVE  TypeOK'
BY TypeParts DEF row, books, RowType, WorldType, ReconType

LEMMA LedgerReadType ==
    ASSUME TypeOK, NEW c \in Callers, LedgerRead(c)
    PROVE  TypeOK'
<1>1. "check" \in Steps
  BY DEF Steps
<1>2. QED
  BY <1>1, TypeParts, ReturnType, GotoType, OnlyControlType DEF LedgerRead

LEMMA CheckRowType ==
    ASSUME TypeOK, NEW c \in Callers, CheckRow(c)
    PROVE  TypeOK'
<1>1. "claimRead" \in Steps
  BY DEF Steps
<1>2. QED
  BY <1>1, TypeParts, ReturnType, GotoType, OnlyControlType DEF CheckRow

LEMMA ClaimReadType ==
    ASSUME TypeOK, NEW c \in Callers, ClaimRead(c)
    PROVE  TypeOK'
<1>1. ControlType'
  <2>1. CASE /\ pc' = [pc EXCEPT ![c] = "claimCas"]
             /\ call' = [call EXCEPT ![c].seen = status]
    BY <2>1, TypeParts DEF ControlType, RowType, Calls, Steps
  <2>2. CASE Refused(c) \/ Fail(c)
    BY <2>2, TypeParts, RefusedType, FailType
  <2>3. QED BY <2>1, <2>2 DEF ClaimRead
<1>2. QED BY <1>1, OnlyControlType DEF ClaimRead

LEMMA TakeClaimType ==
    ASSUME TypeOK, NEW c \in Callers, TakeClaim(c)
    PROVE  RowType'
BY OpStatus, TypeParts DEF TakeClaim, RowType, ControlType, Calls, OpOf

LEMMA ClaimCasType ==
    ASSUME TypeOK, NEW c \in Callers, ClaimCas(c)
    PROVE  TypeOK'
<1>1. CASE TakeClaim(c) /\ Goto(c, "rebuild")
  <2>1. "rebuild" \in Steps
    BY DEF Steps
  <2>2. RowType' /\ ControlType'
    BY <1>1, <2>1, TakeClaimType, GotoType, TypeParts
  <2>3. QED BY <2>2, TypeParts DEF ClaimCas, books, WorldType, ReconType
<1>2. CASE LoseClaim(c)
  <2>1. ControlType'
    <3>1. CASE /\ pc' = [pc EXCEPT ![c] = "claimRead"]
               /\ call' = [call EXCEPT ![c].tries = @ + 1]
      BY <3>1, TypeParts DEF ControlType, Calls, Steps
    <3>2. CASE Fail(c)
      BY <3>2, TypeParts, FailType
    <3>3. QED BY <1>2, <3>1, <3>2 DEF LoseClaim
  <2>2. QED BY <1>2, <2>1, OnlyControlType DEF LoseClaim, ClaimCas
<1>3. CASE Fail(c) /\ UNCHANGED row
  BY <1>3, FailType, TypeParts, OnlyControlType DEF ClaimCas
<1>4. CASE TakeClaim(c) /\ Fail(c)
  <2>1. RowType' /\ ControlType'
    BY <1>4, TakeClaimType, FailType, TypeParts
  <2>2. QED BY <2>1, TypeParts DEF ClaimCas, books, WorldType, ReconType
<1>5. QED BY <1>1, <1>2, <1>3, <1>4 DEF ClaimCas

LEMMA RebuildType ==
    ASSUME TypeOK, NEW c \in Callers, Rebuild(c)
    PROVE  TypeOK'
<1>1. "send" \in Steps /\ "rollback" \in Steps
  BY DEF Steps
<1>2. CASE Goto(c, "send")
  BY <1>1, <1>2, TypeParts, GotoType, OnlyControlType DEF Rebuild
<1>3. CASE /\ pc' = [pc EXCEPT ![c] = "rollback"]
           /\ call' = [call EXCEPT ![c].noState = TRUE]
  <2>1. ControlType'
    BY <1>1, <1>3, TypeParts DEF ControlType, Calls
  <2>2. QED BY <2>1, OnlyControlType DEF Rebuild
<1>4. QED BY <1>2, <1>3 DEF Rebuild

LEMMA SendType ==
    ASSUME TypeOK, NEW c \in Callers, NoClient(c) \/ Send(c)
    PROVE  TypeOK'
<1>1. CASE NoClient(c)
  BY <1>1, TypeParts, ReturnType, OnlyControlType DEF NoClient
<1>2. CASE Send(c)
  <2>1. ControlType'
    BY <1>2, TypeParts DEF Send, ControlType, Calls, Steps
  <2>2. WorldType'
    BY <1>2, TypeParts, OpStatus DEF Send, books, WorldType, OpOf
  <2>3. QED BY <1>2, <2>1, <2>2, TypeParts DEF Send, row, RowType, ReconType
<1>3. QED BY <1>1, <1>2

LEMMA ReplyType ==
    ASSUME TypeOK, NEW c \in Callers,
           ReplyOk(c) \/ ReplyRetry(c) \/ ReplyFail(c) \/ QueryChain(c)
    PROVE  TypeOK'
<1>1. {"send", "rollback", "query"} \subseteq Steps
  BY DEF Steps
<1>2. ControlType'
  <2>1. CASE ReplyOk(c)
    BY <2>1, TypeParts, ConfirmedType DEF ReplyOk
  <2>2. CASE ReplyRetry(c)
    BY <1>1, <2>2, TypeParts, GotoType DEF ReplyRetry
  <2>3. CASE ReplyFail(c)
    BY <1>1, <2>3, TypeParts, GotoType DEF ReplyFail
  <2>4. CASE QueryChain(c)
    BY <1>1, <2>4, TypeParts, GotoType, ReturnType, ConfirmedType
       DEF QueryChain
  <2>5. QED BY <2>1, <2>2, <2>3, <2>4
<1>3. QED
  BY <1>2, OnlyControlType DEF ReplyOk, ReplyRetry, ReplyFail, QueryChain

LEMMA RollbackType ==
    ASSUME TypeOK, NEW c \in Callers, Rollback(c)
    PROVE  TypeOK'
<1>1. ControlType'
  BY TypeParts, SettledWithoutClaimType, FailType DEF Rollback
<1>2. RowType'
  <2>1. CASE GiveBack(c)
    BY <2>1, TypeParts DEF GiveBack, RowType, ControlType, Calls
  <2>2. CASE UNCHANGED row
    BY <2>2, TypeParts DEF row, RowType
  <2>3. QED BY <2>1, <2>2 DEF Rollback
<1>3. QED BY <1>1, <1>2, TypeParts DEF Rollback, books, WorldType, ReconType

LEMMA RecordType ==
    ASSUME TypeOK, NEW c \in Callers, Record(c)
    PROVE  TypeOK'
<1>1. "finish" \in Steps
  BY DEF Steps
<1>2. ControlType'
  BY <1>1, TypeParts, GotoType DEF Record
<1>3. WorldType'
  BY TypeParts DEF Record, books, WorldType
<1>4. QED BY <1>2, <1>3, TypeParts DEF Record, row, RowType, ReconType

LEMMA DisburseType ==
    ASSUME TypeOK, NEW c \in Callers, Disburse(c)
    PROVE  TypeOK'
<1>1. "finish" \in Steps
  BY DEF Steps
<1>2. ControlType'
  BY <1>1, TypeParts, GotoType, ReturnType DEF Disburse
<1>3. WorldType'
  BY TypeParts DEF Disburse, books, WorldType
<1>4. QED BY <1>2, <1>3, TypeParts DEF Disburse, row, RowType, ReconType

LEMMA WriteResultType ==
    ASSUME TypeOK, NEW c \in Callers, WriteResult(c)
    PROVE  TypeOK'
<1>1. ControlType'
  BY TypeParts, ReturnType DEF WriteResult
<1>2. RowType'
  BY TypeParts, OpStatus DEF WriteResult, RowType, OpOf
<1>3. QED BY <1>1, <1>2, TypeParts DEF WriteResult, books, WorldType, ReconType

LEMMA WorldStepType ==
    ASSUME TypeOK, Age \/ \E op \in Ops : Mine(op)
    PROVE  TypeOK'
<1>1. CASE Age
  BY <1>1, TypeParts
     DEF Age, RowType, books, WorldType, ControlType, ReconType
<1>2. ASSUME NEW op \in Ops, Mine(op)
      PROVE  TypeOK'
  <2>1. WorldType'
    BY <1>2, TypeParts DEF Mine, books, WorldType, Settled, Terminal
  <2>2. QED
    BY <1>2, <2>1, TypeParts DEF Mine, row, RowType, ControlType, ReconType
<1>3. QED BY <1>1, <1>2

LEMMA ReconStepType ==
    ASSUME TypeOK, NEW r \in Reconcilers,
           \/ ReconRead(r) \/ ReconBlind(r) \/ ReconQuery(r)
           \/ ReconWrite(r) \/ ReconSkip(r)
    PROVE  TypeOK'
<1>1. NoView \in Views
  BY DEF NoView, Views, Transitional, Statuses
<1>2. CASE ReconRead(r)
  BY <1>2, TypeParts
     DEF ReconRead, row, RowType, books, WorldType, ControlType, ReconType, Views
<1>3. CASE ReconQuery(r)
  BY <1>3, TypeParts
     DEF ReconQuery, row, RowType, books, WorldType, ControlType, ReconType, Views
<1>4. CASE ReconSkip(r)
  BY <1>1, <1>4, TypeParts
     DEF ReconSkip, ReconEnd, row, RowType, books, WorldType, ControlType, ReconType
<1>5. CASE ReconBlind(r)
  <2>1. RowType'
    BY <1>5, TypeParts DEF ReconBlind, ReconCas, RowType, ReconType, Views
  <2>2. ReconType'
    BY <1>1, <1>5, TypeParts DEF ReconBlind, ReconEnd, ReconType
  <2>3. QED
    BY <1>5, <2>1, <2>2, TypeParts DEF ReconBlind, books, WorldType, ControlType
<1>6. CASE ReconWrite(r)
  <2>1. RowType'
    BY <1>6, TypeParts
       DEF ReconWrite, ReconCas, RowType, ReconType, Views, Statuses,
           Transitional, Terminal, TransitionalTerminal
  <2>2. ReconType'
    BY <1>1, <1>6, TypeParts DEF ReconWrite, ReconEnd, ReconType
  <2>3. QED
    BY <1>6, <2>1, <2>2, TypeParts DEF ReconWrite, books, WorldType, ControlType
<1>7. QED BY <1>2, <1>3, <1>4, <1>5, <1>6

LEMMA CallerStepType ==
    ASSUME TypeOK, NEW c \in Callers, CallStep(c) \/ Crash(c)
    PROVE  TypeOK'
<1>1. CASE Crash(c)
  BY <1>1, TypeParts, ReturnType, OnlyControlType DEF Crash
<1>2. CASE CallStep(c)
  BY <1>2, LedgerReadType, CheckRowType, ClaimReadType, ClaimCasType,
     RebuildType, SendType, ReplyType, RollbackType, RecordType,
     DisburseType, WriteResultType DEF CallStep
<1>3. QED BY <1>1, <1>2

(* Every variable keeps its type in every behaviour.                        *)
THEOREM TypeCorrect == Spec => []TypeOK
<1>1. Init => TypeOK
  <2>1. NoView \in Views
    BY DEF NoView, Views, Transitional, Statuses
  <2>2. "idle" \in Steps /\ "deposited" \in Statuses
    BY DEF Steps, Statuses
  <2>3. InfoChoices \subseteq BOOLEAN
    BY SettlementConstants DEF SettlementConstants
  <2>4. Init => RowType
    BY <2>2, <2>3 DEF Init, RowType
  <2>5. Init => WorldType
    BY DEF Init, books, WorldType
  <2>6. Init => ControlType
    BY <2>2, NoCallType DEF Init, ControlType
  <2>7. Init => ReconType
    BY <2>1 DEF Init, ReconType
  <2>8. QED BY <2>4, <2>5, <2>6, <2>7, TypeParts
<1>2. TypeOK /\ [Next]_vars => TypeOK'
  <2>1. SUFFICES ASSUME TypeOK, [Next]_vars
                 PROVE  TypeOK'
    OBVIOUS
  <2>2. CASE Next
    BY <2>1, <2>2, SettlementConstants, StartType, CallerStepType,
       WorldStepType, ReconStepType DEF Next
  <2>3. CASE UNCHANGED vars
    BY <2>1, <2>3 DEF vars, row, books, TypeOK
  <2>4. QED BY <2>1, <2>2, <2>3
<1>3. QED BY <1>1, <1>2, PTL DEF Spec

-----------------------------------------------------------------------------
(* What the control operators do, as the invariants below use it.           *)

(* The callers other than c stay where they are.                            *)
Others(c) ==
    \A d \in Callers \ {c} : pc'[d] = pc[d] /\ call'[d] = call[d]

(* Caller c is left without a claim.  If it still writes a result, that is a*)
(* refund, or the row already reads 'released'.                             *)
Away(c) ==
    /\ pc'[c] \in {"idle", "claimRead", "mark"}
    /\ pc'[c] = "mark" => Op(call'[c].kind) = "refund" \/ status = "released"
    /\ call'[c].seen \notin Blocked

(* Statuses to which a claim may be rolled back are not blocked ones.       *)
SeenOpen ==
    /\ \A c \in Callers : call[c].seen \notin Blocked
    /\ claimPrev \notin Blocked
    /\ \A r \in Reconcilers : view[r].prev \notin Blocked

LEMMA GotoEffect ==
    ASSUME ControlType, NEW c \in Callers, NEW s, Goto(c, s)
    PROVE  pc'[c] = s /\ call'[c] = call[c] /\ Others(c)
BY DEF ControlType, Goto, Others

LEMMA ReturnEffect ==
    ASSUME ControlType, NEW c \in Callers, Return(c)
    PROVE  pc'[c] = "idle" /\ Away(c) /\ Others(c)
BY DEF ControlType, Return, Others, Away, NoCall, Blocked, Transitional, Terminal

LEMMA FailEffect ==
    ASSUME ControlType, NEW c \in Callers, Fail(c)
    PROVE  Away(c) /\ Others(c)
<1>1. CASE Return(c)
  BY <1>1, ReturnEffect
<1>2. CASE /\ pc' = [pc EXCEPT ![c] = "claimRead"]
           /\ call' = [call EXCEPT ![c] = [NoCall EXCEPT !.kind = "expire",
                                                         !.jobs = call[c].jobs + 1]]
  BY <1>2 DEF ControlType, Others, Away, NoCall, Blocked, Transitional, Terminal
<1>3. QED BY <1>1, <1>2 DEF Fail

LEMMA SettledWithoutClaimEffect ==
    ASSUME ControlType, SeenOpen, NEW c \in Callers, SettledWithoutClaim(c),
           OpOf(c) = "refund" \/ status = "released"
    PROVE  Away(c) /\ Others(c)
<1>1. CASE Return(c)
  BY <1>1, ReturnEffect
<1>2. CASE Goto(c, "mark")
  BY <1>2, GotoEffect DEF Away, SeenOpen, OpOf
<1>3. QED BY <1>1, <1>2 DEF SettledWithoutClaim

LEMMA RefusedEffect ==
    ASSUME ControlType, SeenOpen, NEW c \in Callers, Refused(c)
    PROVE  Away(c) /\ Others(c)
<1>1. status = Settled(OpOf(c)) => OpOf(c) = "refund" \/ status = "released"
  BY DEF Settled, OpOf, Op
<1>2. QED BY <1>1, FailEffect, SettledWithoutClaimEffect DEF Refused

LEMMA RollbackEffect ==
    ASSUME ControlType, SeenOpen, NEW c \in Callers, Rollback(c)
    PROVE  Away(c) /\ Others(c)
BY FailEffect, SettledWithoutClaimEffect DEF Rollback

(* A confirmed settlement is recorded, finished, or left to the reconciler. *)
LEMMA ConfirmedEffect ==
    ASSUME ControlType, NEW c \in Callers, Confirmed(c)
    PROVE  /\ Others(c)
           /\ \/ pc'[c] \in {"record", "disburse", "finish"} /\ call'[c] = call[c]
              \/ Away(c)
<1>1. CASE Goto(c, "record") \/ Goto(c, "disburse") \/ Goto(c, "finish")
  BY <1>1, GotoEffect
<1>2. CASE Return(c)
  BY <1>2, ReturnEffect
<1>3. QED BY <1>1, <1>2 DEF Confirmed

-----------------------------------------------------------------------------
(* SeenOpen is inductive: a claim remembers only a status it was allowed to *)
(* replace, so giving a claim back never re-creates a blocked status.       *)

SeenType == TypeOK /\ SeenOpen

LEMMA SeenOpenCaller ==
    ASSUME SeenType, NEW c \in Callers, CallStep(c) \/ Crash(c)
    PROVE  SeenOpen'
<1>1. ControlType /\ call \in [Callers -> Calls]
  BY TypeParts DEF SeenType, ControlType
<1>2. UNCHANGED view
  BY DEF CallStep, Crash, LedgerRead, CheckRow, ClaimRead, ClaimCas, Rebuild,
         NoClient, Send, ReplyOk, ReplyRetry, ReplyFail, QueryChain, Rollback,
         Disburse, Record, WriteResult
<1>3. claimPrev' \notin Blocked
  BY DEF SeenType, SeenOpen, row, CallStep, Crash, LedgerRead, CheckRow,
         ClaimRead, ClaimCas, TakeClaim, LoseClaim, Rebuild, NoClient, Send,
         ReplyOk, ReplyRetry, ReplyFail, QueryChain, Rollback, GiveBack,
         Disburse, Record, WriteResult
<1>4. Others(c) /\ call'[c].seen \notin Blocked
  <2>1. CASE LedgerRead(c) \/ CheckRow(c) \/ NoClient(c) \/ WriteResult(c)
             \/ Crash(c)
    BY <1>1, <2>1, GotoEffect, ReturnEffect
       DEF LedgerRead, CheckRow, NoClient, WriteResult, Crash, Away, SeenType,
           SeenOpen
  <2>2. CASE ClaimRead(c)
    <3>1. CASE /\ status \notin Blocked
               /\ pc' = [pc EXCEPT ![c] = "claimCas"]
               /\ call' = [call EXCEPT ![c].seen = status]
      BY <1>1, <3>1 DEF Others, ControlType, Calls
    <3>2. CASE Refused(c) \/ Fail(c)
      BY <1>1, <3>2, RefusedEffect, FailEffect DEF SeenType, Away
    <3>3. QED BY <2>2, <3>1, <3>2 DEF ClaimRead
  <2>3. CASE ClaimCas(c)
    <3>1. CASE Goto(c, "rebuild") \/ Fail(c)
      BY <1>1, <3>1, GotoEffect, FailEffect DEF SeenType, SeenOpen, Away
    <3>2. CASE /\ pc' = [pc EXCEPT ![c] = "claimRead"]
               /\ call' = [call EXCEPT ![c].tries = @ + 1]
      BY <1>1, <3>2 DEF Others, ControlType, Calls, SeenType, SeenOpen
    <3>3. QED BY <2>3, <3>1, <3>2 DEF ClaimCas, LoseClaim
  <2>4. CASE Rebuild(c)
    <3>1. CASE Goto(c, "send")
      BY <1>1, <3>1, GotoEffect DEF SeenType, SeenOpen
    <3>2. CASE /\ pc' = [pc EXCEPT ![c] = "rollback"]
               /\ call' = [call EXCEPT ![c].noState = TRUE]
      BY <1>1, <3>2 DEF Others, ControlType, Calls, SeenType, SeenOpen
    <3>3. QED BY <2>4, <3>1, <3>2 DEF Rebuild
  <2>5. CASE Send(c)
    BY <1>1, <2>5 DEF Send, Others, ControlType, Calls, SeenType, SeenOpen
  <2>6. CASE ReplyOk(c) \/ QueryChain(c)
    BY <1>1, <2>6, ConfirmedEffect, ReturnEffect, GotoEffect
       DEF ReplyOk, QueryChain, SeenType, SeenOpen, Away
  <2>7. CASE ReplyRetry(c) \/ ReplyFail(c) \/ Disburse(c) \/ Record(c)
    BY <1>1, <2>7, GotoEffect, ReturnEffect
       DEF ReplyRetry, ReplyFail, Disburse, Record, SeenType, SeenOpen, Away
  <2>8. CASE Rollback(c)
    BY <1>1, <2>8, RollbackEffect DEF SeenType, Away
  <2>9. QED BY <2>1, <2>2, <2>3, <2>4, <2>5, <2>6, <2>7, <2>8 DEF CallStep
<1>5. QED
  BY <1>2, <1>3, <1>4 DEF SeenOpen, Others, SeenType

LEMMA SeenOpenKept ==
    ASSUME SeenType, [Next]_vars
    PROVE  SeenOpen'
<1>1. ASSUME NEW c \in Callers, NEW k \in Kinds, Start(c, k)
      PROVE  SeenOpen'
  BY <1>1, TypeParts
     DEF SeenType, SeenOpen, Start, row, ControlType, NoCall, Blocked,
         Transitional, Terminal
<1>2. ASSUME NEW r \in Reconcilers,
             \/ ReconRead(r) \/ ReconBlind(r) \/ ReconQuery(r)
             \/ ReconWrite(r) \/ ReconSkip(r)
      PROVE  SeenOpen'
  <2>1. UNCHANGED <<call, claimPrev>>
    BY <1>2 DEF ReconRead, ReconBlind, ReconQuery, ReconWrite, ReconSkip,
                ReconCas, row
  <2>2. view' \in [Reconcilers -> Views] /\ view \in [Reconcilers -> Views]
    BY <1>2, ReconStepType, TypeParts DEF SeenType, ReconType
  <2>3. NoView.prev \notin Blocked
    BY DEF NoView, Blocked, Transitional, Terminal
  <2>4. \A q \in Reconcilers : view'[q].prev \notin Blocked
    BY <1>2, <2>2, <2>3
       DEF SeenType, SeenOpen, ReconRead, ReconBlind, ReconQuery, ReconWrite,
           ReconSkip, ReconEnd, Views
  <2>5. QED BY <2>1, <2>4 DEF SeenType, SeenOpen
<1>3. CASE Age \/ UNCHANGED vars
  BY <1>3 DEF SeenType, SeenOpen, Age, vars, row
<1>4. ASSUME NEW op \in Ops, Mine(op)
      PROVE  SeenOpen'
  BY <1>4 DEF SeenType, SeenOpen, Mine, row
<1>5. QED BY <1>1, <1>2, <1>3, <1>4, SeenOpenCaller DEF Next

-----------------------------------------------------------------------------
(* A row that reads 'released' belongs to an empty escrow.                  *)

(* The steps on which a caller is about to write its result.                *)
Concluding == {"record", "disburse", "finish", "mark"}

(* How a caller comes to be writing 'released': the facilitator answered    *)
(* that the funds went to the worker, the escrow was found empty, or the row*)
(* read 'released' already.                                                 *)
LEMMA FinisherOrigin ==
    ASSUME SeenType, NEW c \in Callers, CallStep(c) \/ Crash(c)
    PROVE  /\ Others(c)
           /\ pc'[c] \in Concluding /\ Op(call'[c].kind) = "release"
                => \/ pc[c] \in {"record", "disburse"} /\ OpOf(c) = "release"
                   \/ chain = "released"
                   \/ ServerSigning /\ chain # "locked"
                   \/ status = "released"
<1>0. ControlType /\ call \in [Callers -> Calls]
  BY TypeParts DEF SeenType, ControlType
<1>1. CASE LedgerRead(c) \/ CheckRow(c) \/ NoClient(c) \/ WriteResult(c)
           \/ Crash(c)
  BY <1>0, <1>1, GotoEffect, ReturnEffect
     DEF LedgerRead, CheckRow, NoClient, WriteResult, Crash, Concluding
<1>2. CASE ClaimRead(c)
  <2>1. CASE /\ pc' = [pc EXCEPT ![c] = "claimCas"]
             /\ call' = [call EXCEPT ![c].seen = status]
    BY <1>0, <2>1 DEF Others, ControlType, Concluding
  <2>2. CASE Refused(c) \/ Fail(c)
    BY <1>0, <2>2, RefusedEffect, FailEffect DEF SeenType, Away, Concluding, Op
  <2>3. QED BY <1>2, <2>1, <2>2 DEF ClaimRead
<1>3. CASE ClaimCas(c)
  <2>1. CASE Goto(c, "rebuild") \/ Fail(c)
    BY <1>0, <2>1, GotoEffect, FailEffect DEF Away, Concluding, Op
  <2>2. CASE /\ pc' = [pc EXCEPT ![c] = "claimRead"]
             /\ call' = [call EXCEPT ![c].tries = @ + 1]
    BY <1>0, <2>2 DEF Others, ControlType, Concluding
  <2>3. QED BY <1>3, <2>1, <2>2 DEF ClaimCas, LoseClaim
<1>4. CASE Rebuild(c)
  <2>1. CASE Goto(c, "send")
    BY <1>0, <2>1, GotoEffect DEF Concluding
  <2>2. CASE /\ pc' = [pc EXCEPT ![c] = "rollback"]
             /\ call' = [call EXCEPT ![c].noState = TRUE]
    BY <1>0, <2>2 DEF Others, ControlType, Concluding
  <2>3. QED BY <1>4, <2>1, <2>2 DEF Rebuild
<1>5. CASE Send(c)
  BY <1>0, <1>5 DEF Send, Others, ControlType, Concluding
<1>6. CASE ReplyOk(c)
  <2>1. Op(call[c].kind) = "release" => chain = "released"
    BY <1>6 DEF ReplyOk, OpOf, Settled
  <2>2. QED BY <1>0, <1>6, <2>1, ConfirmedEffect DEF ReplyOk, Away, Concluding, Op
<1>7. CASE ReplyRetry(c) \/ ReplyFail(c)
  BY <1>0, <1>7, GotoEffect DEF ReplyRetry, ReplyFail, Concluding
<1>8. CASE Record(c) \/ Disburse(c)
  BY <1>0, <1>8, GotoEffect, ReturnEffect DEF Record, Disburse, OpOf, Concluding
<1>9. CASE QueryChain(c)
  BY <1>0, <1>9, ConfirmedEffect, GotoEffect, ReturnEffect
     DEF QueryChain, Concluding
<1>10. CASE Rollback(c)
  BY <1>0, <1>10, RollbackEffect DEF SeenType, Away, Concluding, Op
<1>11. QED
  BY <1>1, <1>2, <1>3, <1>4, <1>5, <1>6, <1>7, <1>8, <1>9, <1>10
     DEF CallStep

(* The only caller's step that writes 'released'.                           *)
LEMMA ReleasedOrigin ==
    ASSUME SeenType, NEW c \in Callers, CallStep(c) \/ Crash(c),
           status' = "released", status # "released"
    PROVE  pc[c] \in {"finish", "mark"} /\ OpOf(c) = "release"
<1>1. CASE WriteResult(c)
  BY <1>1 DEF WriteResult, Settled, OpOf, Op
<1>2. CASE Rollback(c)
  BY <1>2 DEF Rollback, GiveBack, SeenType, SeenOpen, Blocked, Terminal, row
<1>3. CASE ClaimCas(c)
  BY <1>3 DEF ClaimCas, TakeClaim, LoseClaim, Claimed, row
<1>4. CASE UNCHANGED status
  BY <1>4
<1>5. QED
  BY <1>1, <1>2, <1>3, <1>4
     DEF CallStep, Crash, LedgerRead, CheckRow, ClaimRead, Rebuild,
         NoClient, Send, ReplyOk, ReplyRetry, ReplyFail, QueryChain, Disburse, Record,
         row

(* A caller changes neither the chain nor a reconciler.                     *)
LEMMA CallerFrame ==
    ASSUME NEW c \in Callers, CallStep(c) \/ Crash(c)
    PROVE  UNCHANGED <<view, rpc, chain>>
BY DEF CallStep, Crash, LedgerRead, CheckRow, ClaimRead, ClaimCas, Rebuild,
       NoClient, Send, ReplyOk, ReplyRetry, ReplyFail, QueryChain, Rollback,
       Disburse, Record, WriteResult

(* The inductive invariant: whoever is about to write 'released', a caller  *)
(* or a reconciler, knows that the funds have left.                         *)
ReleaseSure ==
    /\ \A c \in Callers :
        pc[c] \in Concluding /\ OpOf(c) = "release" => chain # "locked"
    /\ \A r \in Reconcilers : view[r].empty => chain # "locked"
    /\ ReleasedLeftEscrow

LEMMA ReleaseSureCaller ==
    ASSUME SeenType, ReleaseSure, NEW c \in Callers, CallStep(c) \/ Crash(c)
    PROVE  ReleaseSure'
<1>1. UNCHANGED <<view, chain>>
  BY CallerFrame
<1>2. status' = "released" => chain # "locked"
  BY ReleasedOrigin DEF ReleaseSure, ReleasedLeftEscrow, Concluding
<1>3. /\ Others(c)
      /\ pc'[c] \in Concluding /\ Op(call'[c].kind) = "release"
            => chain # "locked"
  BY FinisherOrigin DEF ReleaseSure, ReleasedLeftEscrow, Concluding
<1>4. QED
  BY <1>1, <1>2, <1>3 DEF ReleaseSure, ReleasedLeftEscrow, Others, OpOf

LEMMA ReleaseSureKept ==
    ASSUME SeenType, ReleaseSure, SettlementConstants, [Next]_vars
    PROVE  ReleaseSure'
<1>1. ASSUME NEW c \in Callers, NEW k \in Kinds, Start(c, k)
      PROVE  ReleaseSure'
  <2>1. FirstStep[k] \in {"ledger", "check", "claimRead"}
    BY FirstSteps
  <2>2. QED
    BY <1>1, <2>1, TypeParts
       DEF SeenType, ControlType, ReleaseSure, ReleasedLeftEscrow, Start, row,
           OpOf, Concluding
<1>2. ASSUME NEW r \in Reconcilers,
             \/ ReconRead(r) \/ ReconBlind(r) \/ ReconQuery(r)
             \/ ReconWrite(r) \/ ReconSkip(r)
      PROVE  ReleaseSure'
  <2>1. UNCHANGED <<call, pc, chain>>
    BY <1>2 DEF ReconRead, ReconBlind, ReconQuery, ReconWrite, ReconSkip
  <2>2. view \in [Reconcilers -> Views] /\ view[r] \in Views
    BY TypeParts DEF SeenType, ReconType
  <2>3. \A q \in Reconcilers : view'[q].empty => chain # "locked"
    BY <1>2, <2>2
       DEF ReleaseSure, ReconRead, ReconBlind, ReconQuery, ReconWrite,
           ReconSkip, ReconEnd, NoView, Views
  <2>4. status' = "released" => chain # "locked"
    <3>1. CASE ReconWrite(r)
      BY <2>2, <3>1
         DEF ReconWrite, ReconCas, SeenType, SeenOpen, ReleaseSure,
             ReleasedLeftEscrow, Blocked, Terminal
    <3>2. CASE ReconBlind(r)
      BY <2>2, <3>2
         DEF ReconBlind, ReconCas, SeenType, SeenOpen, ReleaseSure,
             ReleasedLeftEscrow, Blocked, Terminal
    <3>3. CASE UNCHANGED status
      BY <3>3 DEF ReleaseSure, ReleasedLeftEscrow
    <3>4. QED
      BY <1>2, <3>1, <3>2, <3>3 DEF ReconRead, ReconQuery, ReconSkip, row
  <2>5. QED BY <2>1, <2>3, <2>4 DEF ReleaseSure, ReleasedLeftEscrow, OpOf
<1>3. CASE Age \/ UNCHANGED vars
  BY <1>3 DEF ReleaseSure, ReleasedLeftEscrow, OpOf, Age, vars, row
<1>4. ASSUME NEW op \in Ops, Mine(op)
      PROVE  ReleaseSure'
  <2>1. chain # "locked" => chain' # "locked"
    BY <1>4 DEF Mine
  <2>2. QED
    BY <1>4, <2>1 DEF ReleaseSure, ReleasedLeftEscrow, OpOf, Mine, row
<1>5. QED BY <1>1, <1>2, <1>3, <1>4, ReleaseSureCaller DEF Next

LEMMA SeenOpenInit ==
    ASSUME Init
    PROVE  SeenOpen
BY DEF Init, SeenOpen, NoCall, NoView, Blocked, Transitional, Terminal

(* _resolve_stuck_claim and the callers together: a row never reads         *)
(* 'released' while its funds are still in escrow, whichever database calls *)
(* and answers are lost and however many processes run.                     *)
THEOREM ReleasedRowIsEmpty == Spec => []ReleasedLeftEscrow
<1>1. Init => SeenOpen /\ ReleaseSure
  <2>1. SUFFICES ASSUME Init
                 PROVE  SeenOpen /\ ReleaseSure
    OBVIOUS
  <2>2. ReleaseSure
    BY <2>1 DEF Init, ReleaseSure, ReleasedLeftEscrow, NoView, Concluding
  <2>3. QED BY <2>1, <2>2, SeenOpenInit
<1>2. TypeOK /\ SeenOpen /\ ReleaseSure /\ [Next]_vars => SeenOpen' /\ ReleaseSure'
  BY SettlementConstants, SeenOpenKept, ReleaseSureKept DEF SeenType
<1>3. ReleaseSure => ReleasedLeftEscrow
  BY DEF ReleaseSure
<1>4. QED BY <1>1, <1>2, <1>3, TypeCorrect, PTL DEF Spec

-----------------------------------------------------------------------------
(* One claim at a time, when one reconciler runs.                           *)

(* The inductive invariant.  The row of a live claim is blocked and young,  *)
(* so nothing else claims it and the reconciler does not pick it up; while  *)
(* the reconciler is at work the row stays blocked, so that no caller has   *)
(* a claim that the reconciler's stale reading could undo.                  *)
ClaimGuarded ==
    /\ ClaimExclusive
    /\ \A c \in Callers : Owner(c) => status \in Blocked /\ ~aged
    /\ \A r \in Reconcilers :
        rpc[r] # "idle" => /\ status \in Blocked
                           /\ aged
                           /\ \A c \in Callers : ~Owner(c)

LEMMA ClaimedBlocked ==
    \A k : Claimed(Op(k)) \in Blocked /\ Settled(Op(k)) \in Blocked
BY OpStatus DEF Blocked

(* A caller that neither claims nor rolls back does not come to own.        *)
LEMMA QuietCaller ==
    ASSUME SeenType, ClaimGuarded, NEW c \in Callers, Others(c),
           Owner(c)' => Owner(c),
           status' = status \/ status' \in Blocked,
           UNCHANGED <<aged, rpc>>
    PROVE  ClaimGuarded'
<1>1. \A d \in Callers : Owner(d)' => Owner(d)
  BY DEF Others, Owner
<1>2. ClaimExclusive'
  BY <1>1 DEF ClaimGuarded, ClaimExclusive
<1>3. QED BY <1>1, <1>2 DEF ClaimGuarded

LEMMA AwayNotOwner ==
    ASSUME NEW c \in Callers, Away(c)
    PROVE  ~Owner(c)'
BY DEF Away, Owner, Owning

(* Winning the claim: the row was not blocked, so nobody was settling.      *)
LEMMA TakeClaimGuarded ==
    ASSUME SeenType, ClaimGuarded, NEW c \in Callers, TakeClaim(c), Others(c),
           UNCHANGED rpc
    PROVE  ClaimGuarded'
<1>1. status \notin Blocked
  BY DEF TakeClaim, SeenType, SeenOpen
<1>2. (\A d \in Callers : ~Owner(d)) /\ (\A r \in Reconcilers : rpc[r] = "idle")
  BY <1>1 DEF ClaimGuarded
<1>3. \A d \in Callers : Owner(d)' => d = c
  BY <1>2 DEF Others, Owner
<1>4. status' \in Blocked /\ ~aged'
  BY ClaimedBlocked DEF TakeClaim, OpOf
<1>5. QED BY <1>2, <1>3, <1>4 DEF ClaimGuarded, ClaimExclusive

(* Giving the claim back: the caller was the only owner and stops being one.*)
LEMMA RollbackGuarded ==
    ASSUME SeenType, ClaimGuarded, NEW c \in Callers, Rollback(c)
    PROVE  ClaimGuarded'
<1>1. Away(c) /\ Others(c)
  BY TypeParts, RollbackEffect DEF SeenType
<1>2. Owner(c) /\ ~Owner(c)'
  BY <1>1, AwayNotOwner DEF Rollback, Owner, Owning
<1>3. \A d \in Callers : ~Owner(d)'
  BY <1>1, <1>2 DEF ClaimGuarded, ClaimExclusive, Others, Owner
<1>4. \A r \in Reconcilers : rpc'[r] = "idle"
  BY <1>2 DEF ClaimGuarded, Rollback
<1>5. QED BY <1>3, <1>4 DEF ClaimGuarded, ClaimExclusive

LEMMA ClaimGuardedCaller ==
    ASSUME SeenType, ClaimGuarded, NEW c \in Callers, CallStep(c) \/ Crash(c)
    PROVE  ClaimGuarded'
<1>1. ControlType
  BY TypeParts DEF SeenType
<1>2. CASE ClaimCas(c)
  <2>1. CASE TakeClaim(c) /\ (Goto(c, "rebuild") \/ Fail(c))
    BY <1>1, <1>2, <2>1, GotoEffect, FailEffect, TakeClaimGuarded DEF ClaimCas
  <2>2. CASE LoseClaim(c) \/ (Fail(c) /\ UNCHANGED row)
    <3>1. CASE Fail(c)
      BY <1>1, <1>2, <2>2, <3>1, FailEffect, AwayNotOwner, QuietCaller
         DEF ClaimCas, LoseClaim, row
    <3>2. CASE /\ pc' = [pc EXCEPT ![c] = "claimRead"]
               /\ call' = [call EXCEPT ![c].tries = @ + 1]
      <4>1. Others(c) /\ ~Owner(c)'
        BY <1>1, <3>2 DEF Others, ControlType, Owner, Owning
      <4>2. UNCHANGED <<status, aged, rpc>>
        BY <1>2, <2>2 DEF ClaimCas, LoseClaim, row
      <4>3. QED BY <4>1, <4>2, QuietCaller
    <3>3. QED BY <2>2, <3>1, <3>2 DEF LoseClaim
  <2>3. QED BY <1>2, <2>1, <2>2 DEF ClaimCas
<1>3. CASE Rollback(c)
  BY <1>3, RollbackGuarded
<1>4. CASE ClaimRead(c)
  <2>1. Others(c) /\ ~Owner(c)'
    <3>1. CASE /\ pc' = [pc EXCEPT ![c] = "claimCas"]
               /\ call' = [call EXCEPT ![c].seen = status]
      BY <1>1, <3>1 DEF Others, ControlType, Owner, Owning
    <3>2. CASE Refused(c) \/ Fail(c)
      BY <1>1, <3>2, RefusedEffect, FailEffect, AwayNotOwner DEF SeenType
    <3>3. QED BY <1>4, <3>1, <3>2 DEF ClaimRead
  <2>2. UNCHANGED <<status, aged, rpc>>
    BY <1>4 DEF ClaimRead, row
  <2>3. QED BY <2>1, <2>2, QuietCaller
<1>5. CASE WriteResult(c)
  <2>1. Others(c) /\ ~Owner(c)'
    BY <1>1, <1>5, ReturnEffect, AwayNotOwner DEF WriteResult
  <2>2. status' = status \/ status' \in Blocked
    BY <1>5, ClaimedBlocked DEF WriteResult, OpOf
  <2>3. UNCHANGED <<aged, rpc>>
    BY <1>5 DEF WriteResult
  <2>4. QED BY <2>1, <2>2, <2>3, QuietCaller
<1>6. CASE LedgerRead(c) \/ CheckRow(c) \/ NoClient(c) \/ Crash(c)
  <2>1. Others(c) /\ ~Owner(c)'
    <3>1. CASE Return(c)
      BY <1>1, <3>1, ReturnEffect, AwayNotOwner
    <3>2. CASE Goto(c, "check") \/ Goto(c, "claimRead")
      BY <1>1, <3>2, GotoEffect DEF Owner, Owning
    <3>3. QED
      BY <1>6, <3>1, <3>2 DEF LedgerRead, CheckRow, NoClient, Crash
  <2>2. UNCHANGED <<status, aged, rpc>>
    BY <1>6 DEF LedgerRead, CheckRow, NoClient, Crash, row
  <2>3. QED BY <2>1, <2>2, QuietCaller
<1>7. CASE \/ Rebuild(c) \/ Send(c) \/ ReplyOk(c) \/ ReplyRetry(c)
           \/ ReplyFail(c) \/ QueryChain(c) \/ Disburse(c) \/ Record(c)
  <2>1. Others(c)
    <3>1. CASE Rebuild(c)
      <4>1. CASE Goto(c, "send")
        BY <1>1, <4>1, GotoEffect
      <4>2. CASE /\ pc' = [pc EXCEPT ![c] = "rollback"]
                 /\ call' = [call EXCEPT ![c].noState = TRUE]
        BY <1>1, <4>2 DEF Others, ControlType
      <4>3. QED BY <3>1, <4>1, <4>2 DEF Rebuild
    <3>2. CASE Send(c)
      BY <1>1, <3>2 DEF Send, Others, ControlType
    <3>3. CASE ReplyOk(c) \/ QueryChain(c)
      BY <1>1, <3>3, ConfirmedEffect, GotoEffect, ReturnEffect
         DEF ReplyOk, QueryChain
    <3>4. CASE ReplyRetry(c) \/ ReplyFail(c) \/ Disburse(c) \/ Record(c)
      BY <1>1, <3>4, GotoEffect, ReturnEffect
         DEF ReplyRetry, ReplyFail, Disburse, Record
    <3>5. QED BY <1>7, <3>1, <3>2, <3>3, <3>4
  <2>2. Owner(c)
    BY <1>7 DEF Rebuild, Send, ReplyOk, ReplyRetry, ReplyFail, QueryChain,
                Disburse, Record, Owner, Owning
  <2>3. UNCHANGED <<status, aged, rpc>>
    BY <1>7 DEF Rebuild, Send, ReplyOk, ReplyRetry, ReplyFail, QueryChain,
                Disburse, Record, row
  <2>4. QED BY <2>1, <2>2, <2>3, QuietCaller
<1>8. QED BY <1>2, <1>3, <1>4, <1>5, <1>6, <1>7 DEF CallStep

LEMMA ClaimGuardedKept ==
    ASSUME SeenType, ClaimGuarded, SettlementConstants, [Next]_vars,
           \A r, q \in Reconcilers : r = q
    PROVE  ClaimGuarded'
<1>1. ControlType
  BY TypeParts DEF SeenType
<1>2. ASSUME NEW c \in Callers, NEW k \in Kinds, Start(c, k)
      PROVE  ClaimGuarded'
  <2>1. FirstStep[k] \in {"ledger", "check", "claimRead"}
    BY FirstSteps
  <2>2. Others(c) /\ ~Owner(c)'
    BY <1>1, <1>2, <2>1 DEF ControlType, Start, Others, Owner, Owning
  <2>3. UNCHANGED <<status, aged, rpc>>
    BY <1>2 DEF Start, row
  <2>4. QED BY <2>2, <2>3, QuietCaller
<1>3. ASSUME NEW r \in Reconcilers,
             \/ ReconRead(r) \/ ReconBlind(r) \/ ReconQuery(r)
             \/ ReconWrite(r) \/ ReconSkip(r)
      PROVE  ClaimGuarded'
  <2>1. UNCHANGED <<pc, aged>>
    BY <1>3 DEF ReconRead, ReconBlind, ReconQuery, ReconWrite, ReconSkip,
                ReconCas, row
  <2>2. \A c \in Callers : Owner(c)' <=> Owner(c)
    BY <2>1 DEF Owner
  <2>3. \A c \in Callers : ~Owner(c)
    BY <1>3 DEF ClaimGuarded, ReconRead, ReconBlind, ReconQuery, ReconWrite,
                ReconSkip
  <2>4. rpc \in [Reconcilers -> {"idle", "resolve", "write"}]
    BY TypeParts DEF SeenType, ReconType
  <2>5. CASE ReconRead(r) \/ ReconQuery(r)
    <3>1. status' \in Blocked /\ aged'
      BY <1>3, <2>5 DEF ReconRead, ReconQuery, ClaimGuarded, row, Blocked
    <3>2. QED BY <2>2, <2>3, <3>1 DEF ClaimGuarded, ClaimExclusive
  <2>6. CASE ReconBlind(r) \/ ReconWrite(r) \/ ReconSkip(r)
    <3>1. \A q \in Reconcilers : rpc'[q] = "idle"
      BY <2>4, <2>6 DEF ReconBlind, ReconWrite, ReconSkip, ReconEnd
    <3>2. QED BY <2>2, <2>3, <3>1 DEF ClaimGuarded, ClaimExclusive
  <2>7. QED BY <1>3, <2>5, <2>6
<1>4. CASE Age
  <2>1. \A c \in Callers : ~Owner(c) /\ ~Owner(c)'
    BY <1>4 DEF Age, Owner
  <2>2. status' \in Blocked /\ aged' /\ UNCHANGED rpc
    BY <1>4 DEF Age, Blocked
  <2>3. QED BY <2>1, <2>2 DEF ClaimGuarded, ClaimExclusive
<1>5. ASSUME NEW op \in Ops, Mine(op)
      PROVE  ClaimGuarded'
  BY <1>5 DEF Mine, row, ClaimGuarded, ClaimExclusive, Owner
<1>6. CASE UNCHANGED vars
  BY <1>6 DEF vars, row, ClaimGuarded, ClaimExclusive, Owner
<1>7. QED BY <1>2, <1>3, <1>4, <1>5, <1>6, ClaimGuardedCaller DEF Next

(* _claim_escrow_operation: "exactly one caller wins the claim", and until  *)
(* that caller is done the row refuses all others, for any number of        *)
(* approvals, cancellations, verdicts and job runs, with crashes and failing*)
(* database calls, as long as one process runs the reconciliation loop.     *)
THEOREM OneClaimAtATime ==
    ASSUME \A r, q \in Reconcilers : r = q
    PROVE  Spec => [](ClaimExclusive /\ LiveClaimKept)
<1>1. Init => SeenOpen /\ ClaimGuarded
  <2>1. SUFFICES ASSUME Init
                 PROVE  SeenOpen /\ ClaimGuarded
    OBVIOUS
  <2>2. ClaimGuarded
    BY <2>1 DEF Init, ClaimGuarded, ClaimExclusive, Owner, Owning
  <2>3. QED BY <2>1, <2>2, SeenOpenInit
<1>2. TypeOK /\ SeenOpen /\ ClaimGuarded /\ [Next]_vars
        => SeenOpen' /\ ClaimGuarded'
  BY SettlementConstants, SeenOpenKept, ClaimGuardedKept DEF SeenType
<1>3. ClaimGuarded => ClaimExclusive /\ LiveClaimKept
  BY DEF ClaimGuarded, LiveClaimKept
<1>4. QED BY <1>1, <1>2, <1>3, TypeCorrect, PTL DEF Spec

-----------------------------------------------------------------------------
(* Without the signing key a recorded release is a payment to the worker.   *)

(* The inductive invariant: only the facilitator's answer makes a caller    *)
(* write 'released', and no reconciler gets as far as a write that advances.*)
PaidSure ==
    /\ \A c \in Callers :
        pc[c] \in Concluding /\ OpOf(c) = "release" => chain = "released"
    /\ \A r \in Reconcilers : rpc[r] # "write"
    /\ ReleasedIsPaid

LEMMA PaidSureCaller ==
    ASSUME SeenType, PaidSure, ~ServerSigning,
           NEW c \in Callers, CallStep(c) \/ Crash(c)
    PROVE  PaidSure'
<1>1. UNCHANGED <<rpc, chain>>
  BY CallerFrame
<1>2. status' = "released" => chain = "released"
  BY ReleasedOrigin DEF PaidSure, ReleasedIsPaid, Concluding
<1>3. /\ Others(c)
      /\ pc'[c] \in Concluding /\ Op(call'[c].kind) = "release"
            => chain = "released"
  BY FinisherOrigin DEF PaidSure, ReleasedIsPaid, Concluding
<1>4. QED
  BY <1>1, <1>2, <1>3 DEF PaidSure, ReleasedIsPaid, Others, OpOf

LEMMA PaidSureKept ==
    ASSUME SeenType, PaidSure, ~ServerSigning,
           SettlementConstants, [Next]_vars
    PROVE  PaidSure'
<1>1. ASSUME NEW c \in Callers, NEW k \in Kinds, Start(c, k)
      PROVE  PaidSure'
  <2>1. FirstStep[k] \in {"ledger", "check", "claimRead"}
    BY FirstSteps
  <2>2. QED
    BY <1>1, <2>1, TypeParts
       DEF SeenType, ControlType, PaidSure, ReleasedIsPaid, Start, row, OpOf,
           Concluding
<1>2. ASSUME NEW r \in Reconcilers,
             \/ ReconRead(r) \/ ReconBlind(r) \/ ReconQuery(r)
             \/ ReconWrite(r) \/ ReconSkip(r)
      PROVE  PaidSure'
  <2>1. UNCHANGED <<call, pc, chain>>
    BY <1>2 DEF ReconRead, ReconBlind, ReconQuery, ReconWrite, ReconSkip
  <2>2. view[r] \in Views /\ rpc \in [Reconcilers -> {"idle", "resolve", "write"}]
    BY TypeParts DEF SeenType, ReconType
  <2>3. \A q \in Reconcilers : rpc'[q] # "write"
    BY <1>2, <2>2
       DEF PaidSure, ReconRead, ReconBlind, ReconQuery, ReconWrite, ReconSkip,
           ReconEnd
  <2>4. status' = "released" => chain = "released"
    <3>1. CASE ReconBlind(r)
      BY <2>2, <3>1
         DEF ReconBlind, ReconCas, SeenType, SeenOpen, PaidSure,
             ReleasedIsPaid, Blocked, Terminal
    <3>2. CASE UNCHANGED status
      BY <3>2 DEF PaidSure, ReleasedIsPaid
    <3>3. ~ReconWrite(r)
      BY DEF PaidSure, ReconWrite
    <3>4. QED
      BY <1>2, <3>1, <3>2, <3>3 DEF ReconRead, ReconQuery, ReconSkip, row
  <2>5. QED BY <2>1, <2>3, <2>4 DEF PaidSure, ReleasedIsPaid, OpOf
<1>3. CASE Age \/ UNCHANGED vars
  BY <1>3 DEF PaidSure, ReleasedIsPaid, OpOf, Age, vars, row
<1>4. ASSUME NEW op \in Ops, Mine(op)
      PROVE  PaidSure'
  <2>1. chain = "released" => chain' = "released"
    BY <1>4 DEF Mine
  <2>2. QED
    BY <1>4, <2>1 DEF PaidSure, ReleasedIsPaid, OpOf, Mine, row
<1>5. QED BY <1>1, <1>2, <1>3, <1>4, PaidSureCaller DEF Next

(* release_direct_to_worker in production, where EM_SERVER_SIGNING is off:  *)
(* the row reads 'released' only if the worker was paid, whatever refunds,  *)
(* timeouts, crashes and reconcilers came before.                           *)
THEOREM ReleasedRowIsPaidWithoutKey ==
    ASSUME ~ServerSigning
    PROVE  Spec => []ReleasedIsPaid
<1>1. Init => SeenOpen /\ PaidSure
  <2>1. SUFFICES ASSUME Init
                 PROVE  SeenOpen /\ PaidSure
    OBVIOUS
  <2>2. PaidSure
    BY <2>1 DEF Init, PaidSure, ReleasedIsPaid, Concluding
  <2>3. QED BY <2>1, <2>2, SeenOpenInit
<1>2. TypeOK /\ SeenOpen /\ PaidSure /\ [Next]_vars => SeenOpen' /\ PaidSure'
  BY SettlementConstants, SeenOpenKept, PaidSureKept DEF SeenType
<1>3. PaidSure => ReleasedIsPaid
  BY DEF PaidSure
<1>4. QED BY <1>1, <1>2, <1>3, TypeCorrect, PTL DEF Spec
=============================================================================
