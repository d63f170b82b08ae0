------------------------ MODULE EscrowContractProofs ------------------------
(***************************************************************************)
(* Theorems about what EscrowSettlement promises as a whole: that a payment *)
(* is recorded once, that closed rows belong to empty escrows and stay      *)
(* closed, and that callers, chain and reconciler keep EscrowContract.      *)
(***************************************************************************)
EXTENDS EscrowSettlementProofs

-----------------------------------------------------------------------------
(* Where a step takes a caller                                              *)

(* The steps on which a caller holds nothing and has nothing to write.      *)
Free == {"idle", "ledger", "check", "claimRead", "claimCas"}

(* A caller finds no payment_info, or a row that is closed already.         *)
Stateless == ~hasInfo \/ status \in Terminal \/ DbFaults

(* The caller goes on to one of these steps with the same settlement.       *)
Moves(c, from, to) ==
    /\ pc[c] \in from
    /\ pc'[c] \in to
    /\ call'[c].kind = call[c].kind
    /\ call'[c].noState /\ ~call[c].noState
          => pc[c] = "rebuild" /\ Stateless

(* The caller lets go, and forgets what it knew, or it has yet to claim.    *)
Leaves(c) ==
    /\ pc'[c] \in Free
    /\ call'[c].noState => call[c].noState

LEMMA GotoMoves ==
    ASSUME ControlType, NEW c \in Callers, NEW s, Goto(c, s)
    PROVE  Others(c) /\ Moves(c, {pc[c]}, {s})
BY GotoEffect DEF Moves

LEMMA ReturnLeaves ==
    ASSUME ControlType, NEW c \in Callers, Return(c)
    PROVE  Others(c) /\ Leaves(c)
BY DEF ControlType, Return, Others, Leaves, Free, NoCall

LEMMA FailLeaves ==
    ASSUME ControlType, NEW c \in Callers, Fail(c)
    PROVE  Others(c) /\ Leaves(c)
<1>1. CASE Return(c)
  BY <1>1, ReturnLeaves
<1>2. CASE /\ pc' = [pc EXCEPT ![c] = "claimRead"]
           /\ call' = [call EXCEPT ![c] = [NoCall EXCEPT !.kind = "expire",
                                                         !.jobs = call[c].jobs + 1]]
  BY <1>2 DEF ControlType, Others, Leaves, Free, NoCall
<1>3. QED BY <1>1, <1>2 DEF Fail

LEMMA MarkMoves ==
    ASSUME ControlType, NEW c \in Callers, SettledWithoutClaim(c)
    PROVE  Others(c) /\ (Leaves(c) \/ Moves(c, {pc[c]}, {"mark"}))
BY GotoMoves, ReturnLeaves DEF SettledWithoutClaim

LEMMA ConfirmedMoves ==
    ASSUME ControlType, NEW c \in Callers, Confirmed(c)
    PROVE  /\ Others(c)
           /\ \/ Leaves(c)
              \/ /\ Moves(c, {pc[c]}, {"record", "disburse", "finish"})
                 /\ pc'[c] = "record" => call[c].kind = "settle"
<1>1. CASE call[c].kind = "settle" /\ Goto(c, "record")
  BY <1>1, GotoMoves DEF Moves
<1>2. CASE Goto(c, "disburse") \/ Goto(c, "finish")
  BY <1>2, GotoMoves DEF Moves
<1>3. CASE Return(c)
  BY <1>3, ReturnLeaves
<1>4. QED BY <1>1, <1>2, <1>3 DEF Confirmed

(* Claiming: the ways to a claim, and past it to a late write.              *)
LEMMA ClaimMoves ==
    ASSUME ControlType, NEW c \in Callers,
           \/ LedgerRead(c) \/ CheckRow(c) \/ ClaimRead(c) \/ ClaimCas(c)
           \/ NoClient(c) \/ WriteResult(c) \/ Crash(c)
    PROVE  /\ Others(c)
           /\ \/ Leaves(c)
              \/ Moves(c, {"claimRead"}, {"mark"}) /\ status = Settled(OpOf(c))
              \/ Moves(c, {"claimCas"}, {"rebuild"}) /\ TakeClaim(c)
<1>1. CASE LedgerRead(c) \/ CheckRow(c)
  <2>1. CASE Return(c)
    BY <2>1, ReturnLeaves
  <2>2. CASE Goto(c, "check") \/ Goto(c, "claimRead")
    BY <2>2, GotoMoves, GotoEffect DEF Leaves, Free
  <2>3. QED BY <1>1, <2>1, <2>2 DEF LedgerRead, CheckRow
<1>2. CASE NoClient(c) \/ WriteResult(c) \/ Crash(c)
  BY <1>2, ReturnLeaves DEF NoClient, WriteResult, Crash
<1>3. CASE ClaimRead(c)
  <2>1. CASE /\ pc' = [pc EXCEPT ![c] = "claimCas"]
             /\ call' = [call EXCEPT ![c].seen = status]
    BY <2>1 DEF ControlType, Calls, Others, Leaves, Free
  <2>2. CASE Fail(c)
    BY <2>2, FailLeaves
  <2>3. CASE status = Settled(OpOf(c)) /\ SettledWithoutClaim(c)
    BY <1>3, <2>3, MarkMoves DEF ClaimRead
  <2>4. QED BY <1>3, <2>1, <2>2, <2>3 DEF ClaimRead, Refused
<1>4. CASE ClaimCas(c)
  <2>1. CASE TakeClaim(c) /\ Goto(c, "rebuild")
    BY <1>4, <2>1, GotoMoves DEF ClaimCas
  <2>2. CASE /\ pc' = [pc EXCEPT ![c] = "claimRead"]
             /\ call' = [call EXCEPT ![c].tries = @ + 1]
    BY <2>2 DEF ControlType, Calls, Others, Leaves, Free
  <2>3. CASE Fail(c)
    BY <2>3, FailLeaves
  <2>4. QED BY <1>4, <2>1, <2>2, <2>3 DEF ClaimCas, LoseClaim
<1>5. QED BY <1>1, <1>2, <1>3, <1>4

(* Settling: the ways from a claim to its result.                           *)
LEMMA SettleMoves ==
    ASSUME ControlType, NEW c \in Callers,
           \/ Rebuild(c) \/ Send(c) \/ ReplyOk(c) \/ ReplyRetry(c)
           \/ ReplyFail(c) \/ QueryChain(c) \/ Rollback(c) \/ Disburse(c)
           \/ Record(c)
    PROVE  /\ Others(c)
           /\ \/ Leaves(c)
              \/ Moves(c, {"rollback"}, {"mark"}) /\ call[c].noState
              \/ Moves(c, {"rebuild"}, {"send"}) /\ hasInfo
              \/ Moves(c, {"rebuild"}, {"rollback"})
              \/ Moves(c, {"send"}, {"wait"})
              \/ Moves(c, {"wait"}, {"send", "query", "rollback"})
              \/ /\ Moves(c, {"wait"}, {"record", "disburse", "finish"})
                 /\ chain = Settled(OpOf(c))
                 /\ pc'[c] = "record" => call[c].kind = "settle"
              \/ Moves(c, {"query"}, {"rollback"})
              \/ Moves(c, {"query"}, {"disburse", "finish"}) /\ chain # "locked"
              \/ Moves(c, {"record", "disburse"}, {"finish"})
<1>1. CASE Rebuild(c)
  <2>1. CASE hasInfo /\ Goto(c, "send")
    BY <1>1, <2>1, GotoMoves DEF Rebuild
  <2>2. CASE /\ ~hasInfo \/ status \in Terminal \/ DbFaults
             /\ pc' = [pc EXCEPT ![c] = "rollback"]
             /\ call' = [call EXCEPT ![c].noState = TRUE]
    BY <1>1, <2>2 DEF Rebuild, ControlType, Calls, Others, Moves, Stateless
  <2>3. QED BY <1>1, <2>1, <2>2 DEF Rebuild
<1>2. CASE Send(c)
  BY <1>2 DEF Send, ControlType, Calls, Others, Moves
<1>3. CASE ReplyOk(c)
  BY <1>3, ConfirmedMoves DEF ReplyOk
<1>4. CASE ReplyRetry(c) \/ ReplyFail(c)
  BY <1>4, GotoMoves DEF ReplyRetry, ReplyFail, Moves
<1>5. CASE QueryChain(c)
  <2>1. CASE Goto(c, "rollback")
    BY <1>5, <2>1, GotoMoves DEF QueryChain
  <2>2. CASE Return(c)
    BY <2>2, ReturnLeaves
  <2>3. CASE /\ call[c].kind # "settle" /\ chain # "locked"
             /\ Confirmed(c)
    BY <1>5, <2>3, ConfirmedMoves DEF QueryChain, Moves
  <2>4. QED BY <1>5, <2>1, <2>2, <2>3 DEF QueryChain
<1>6. CASE Rollback(c)
  BY <1>6, MarkMoves, FailLeaves DEF Rollback
<1>7. CASE Disburse(c) \/ Record(c)
  <2>1. CASE Goto(c, "finish")
    BY <1>7, <2>1, GotoMoves DEF Disburse, Record, Moves
  <2>2. CASE Return(c)
    BY <2>2, ReturnLeaves
  <2>3. QED BY <1>7, <2>1, <2>2 DEF Disburse, Record
<1>8. QED BY <1>1, <1>2, <1>3, <1>4, <1>5, <1>6, <1>7

LEMMA CallerOthers ==
    ASSUME ControlType, NEW c \in Callers, CallStep(c) \/ Crash(c)
    PROVE  Others(c)
BY ClaimMoves, SettleMoves DEF CallStep

(* What a caller writes.                                                    *)
LEMMA CallerWrites ==
    ASSUME NEW c \in Callers, CallStep(c) \/ Crash(c)
    PROVE  /\ hasInfo' = hasInfo
           /\ \/ UNCHANGED status
              \/ pc[c] = "claimCas" /\ TakeClaim(c)
              \/ /\ pc[c] = "rollback"
                 /\ status = Claimed(OpOf(c)) /\ status' = call[c].seen
              \/ pc[c] \in {"finish", "mark"} /\ status' = Settled(OpOf(c))
           /\ ledger' = ledger \/ (pc[c] = "record" /\ ledger' = ledger + 1)
           /\ \/ UNCHANGED mempool
              \/ /\ pc[c] = "send" /\ mempool' = mempool \cup {OpOf(c)}
                 /\ UNCHANGED row
<1>1. CASE ClaimCas(c)
  BY <1>1 DEF ClaimCas, TakeClaim, LoseClaim, row, books
<1>2. CASE Rollback(c) \/ WriteResult(c)
  BY <1>2 DEF Rollback, GiveBack, WriteResult, row, books
<1>3. CASE Send(c) \/ Record(c) \/ Disburse(c)
  BY <1>3 DEF Send, Record, Disburse, row, books
<1>4. CASE \/ LedgerRead(c) \/ CheckRow(c) \/ ClaimRead(c) \/ Rebuild(c)
           \/ NoClient(c) \/ ReplyOk(c) \/ ReplyRetry(c) \/ ReplyFail(c)
           \/ QueryChain(c) \/ Crash(c)
  BY <1>4 DEF LedgerRead, CheckRow, ClaimRead, Rebuild, NoClient, ReplyOk,
              ReplyRetry, ReplyFail, QueryChain, Crash, row, books
<1>5. QED BY <1>1, <1>2, <1>3, <1>4 DEF CallStep

-----------------------------------------------------------------------------
(* What a reconciler, the chain and the clock do                            *)

ReconStep(r) ==
    \/ ReconRead(r) \/ ReconBlind(r) \/ ReconQuery(r)
    \/ ReconWrite(r) \/ ReconSkip(r)

(* The status that a reconciler writes back for the claim it has read.      *)
Verdict(r) == IF view[r].empty THEN TransitionalTerminal[view[r].status]
                               ELSE view[r].prev

LEMMA ReconMoves ==
    ASSUME ReconType, NEW r \in Reconcilers, ReconStep(r)
    PROVE  /\ UNCHANGED <<pc, call, chain, mempool, ledger, hasInfo>>
           /\ \A q \in Reconcilers \ {r} : rpc'[q] = rpc[q] /\ view'[q] = view[q]
           /\ \/ rpc'[r] = "resolve" /\ ~view'[r].empty /\ UNCHANGED status
              \/ /\ hasInfo /\ rpc'[r] = "write" /\ UNCHANGED status
                 /\ view'[r].empty = (chain # "locked")
              \/ rpc'[r] = "idle" /\ ~view'[r].empty /\ UNCHANGED status
              \/ /\ rpc'[r] = "idle" /\ ~view'[r].empty /\ status = view[r].status
                 /\ \/ ~hasInfo /\ status' = view[r].prev
                    \/ rpc[r] = "write" /\ status' = Verdict(r)
<1>1. ASSUME ReconEnd(r)
      PROVE  /\ rpc'[r] = "idle" /\ ~view'[r].empty
             /\ \A q \in Reconcilers \ {r} :
                   rpc'[q] = rpc[q] /\ view'[q] = view[q]
  BY <1>1 DEF ReconEnd, ReconType, NoView
<1>2. CASE ReconRead(r)
  BY <1>2 DEF ReconRead, ReconType, row, books
<1>3. CASE ReconQuery(r)
  BY <1>3 DEF ReconQuery, ReconType, Views, row, books
<1>4. CASE ReconBlind(r)
  BY <1>1, <1>4 DEF ReconBlind, ReconCas, books
<1>5. CASE ReconWrite(r)
  BY <1>1, <1>5 DEF ReconWrite, ReconCas, Verdict, books
<1>6. CASE ReconSkip(r)
  BY <1>1, <1>6 DEF ReconSkip, row, books
<1>7. QED BY <1>2, <1>3, <1>4, <1>5, <1>6 DEF ReconStep

(* The steps that move neither a caller nor a reconciler.                   *)
LEMMA StartMoves ==
    ASSUME ControlType, SettlementConstants,
           NEW c \in Callers, NEW k \in Kinds, Start(c, k)
    PROVE  /\ Others(c) /\ Leaves(c)
           /\ UNCHANGED <<row, chain, mempool, books, rpc, view>>
<1>1. FirstStep[k] \in {"ledger", "check", "claimRead"}
  BY FirstSteps
<1>2. QED BY <1>1 DEF ControlType, Start, Others, Leaves, Free, NoCall

(* Once the funds have left, they stay where they are.                      *)
LEMMA ChainFinal ==
    ASSUME [Next]_vars, chain # "locked"
    PROVE  chain' = chain
<1>1. ASSUME NEW c \in Callers, CallStep(c) \/ Crash(c)
      PROVE  chain' = chain
  BY <1>1, CallerFrame
<1>2. ASSUME NEW r \in Reconcilers, ReconStep(r)
      PROVE  chain' = chain
  BY <1>2 DEF ReconStep, ReconRead, ReconBlind, ReconQuery, ReconWrite, ReconSkip
<1>3. QED BY <1>1, <1>2 DEF Next, Start, Mine, Age, vars, ReconStep

-----------------------------------------------------------------------------
(* A closed row belongs to an empty escrow, for any number of reconcilers.  *)

(* The inductive invariant: everybody who is about to close the row, in the *)
(* name of a release or of a refund, knows that the funds have left.        *)
Emptied ==
    /\ hasInfo
    /\ \A c \in Callers :
        pc[c] \in Concluding \/ call[c].noState => chain # "locked"
    /\ \A r \in Reconcilers : view[r].empty => chain # "locked"
    /\ ClosedLeftEscrow

LEMMA EmptiedCaller ==
    ASSUME SeenType, Emptied, ~DbFaults,
           NEW c \in Callers, CallStep(c) \/ Crash(c)
    PROVE  Emptied'
<1>1. ControlType
  BY TypeParts DEF SeenType
<1>2. hasInfo' /\ UNCHANGED <<view, chain>>
  BY CallerWrites, CallerFrame DEF Emptied
<1>3. status' \in Terminal => chain # "locked"
  <2>1. Claimed(OpOf(c)) \notin Terminal /\ call[c].seen \notin Terminal
    BY DEF Claimed, Terminal, SeenType, SeenOpen, Blocked
  <2>2. QED
    BY <2>1, CallerWrites DEF Emptied, ClosedLeftEscrow, TakeClaim, Concluding
<1>4. call'[c].noState => chain # "locked"
  <2>1. Stateless => chain # "locked"
    BY DEF Stateless, Emptied, ClosedLeftEscrow
  <2>2. QED
    BY <1>1, <2>1, ClaimMoves, SettleMoves DEF Emptied, Leaves, Moves, CallStep
<1>5. pc'[c] \in Concluding => chain # "locked"
  <2>1. status = Settled(OpOf(c)) \/ chain = Settled(OpOf(c)) => chain # "locked"
    BY OpStatus DEF Emptied, ClosedLeftEscrow, OpOf, Terminal
  <2>2. CASE \/ LedgerRead(c) \/ CheckRow(c) \/ ClaimRead(c) \/ ClaimCas(c)
             \/ NoClient(c) \/ WriteResult(c) \/ Crash(c)
    BY <1>1, <2>1, <2>2, ClaimMoves DEF Leaves, Moves, Free, Concluding
  <2>3. CASE \/ Rebuild(c) \/ Send(c) \/ ReplyOk(c) \/ ReplyRetry(c)
             \/ ReplyFail(c) \/ QueryChain(c) \/ Rollback(c) \/ Disburse(c)
             \/ Record(c)
    BY <1>1, <2>1, <2>3, SettleMoves
       DEF Leaves, Moves, Free, Concluding, Emptied
  <2>4. QED BY <2>2, <2>3 DEF CallStep
<1>6. Others(c)
  BY <1>1, CallerOthers
<1>7. QED BY <1>2, <1>3, <1>4, <1>5, <1>6 DEF Emptied, ClosedLeftEscrow, Others

LEMMA EmptiedRecon ==
    ASSUME SeenType, Emptied, NEW r \in Reconcilers, ReconStep(r)
    PROVE  Emptied'
<1>1. ReconType /\ view[r].prev \notin Blocked
  BY TypeParts DEF SeenType, SeenOpen
<1>2. UNCHANGED <<pc, call, chain, hasInfo>>
  BY <1>1, ReconMoves
<1>3. \A q \in Reconcilers : view'[q].empty => chain # "locked"
  BY <1>1, ReconMoves DEF Emptied
<1>4. status' \in Terminal => chain # "locked"
  BY <1>1, ReconMoves DEF Emptied, ClosedLeftEscrow, Verdict, Blocked
<1>5. QED BY <1>2, <1>3, <1>4 DEF Emptied, ClosedLeftEscrow

LEMMA EmptiedKept ==
    ASSUME SeenType, Emptied, ~DbFaults, SettlementConstants, [Next]_vars
    PROVE  Emptied'
<1>1. ASSUME NEW c \in Callers, NEW k \in Kinds, Start(c, k)
      PROVE  Emptied'
  <2>1. /\ Others(c) /\ Leaves(c)
        /\ UNCHANGED <<row, chain, mempool, books, rpc, view>>
    BY <1>1, StartMoves, TypeParts DEF SeenType
  <2>2. QED
    BY <2>1 DEF Emptied, ClosedLeftEscrow, Others, Leaves, Free, Concluding, row
<1>2. ASSUME NEW op \in Ops, Mine(op)
      PROVE  Emptied'
  <2>1. chain # "locked" => chain' # "locked"
    BY ChainFinal
  <2>2. QED BY <1>2, <2>1 DEF Mine, Emptied, ClosedLeftEscrow, row
<1>3. CASE Age \/ UNCHANGED vars
  BY <1>3 DEF Age, vars, row, Emptied, ClosedLeftEscrow
<1>4. QED BY <1>1, <1>2, <1>3, EmptiedCaller, EmptiedRecon DEF Next, ReconStep

LEMMA EmptiedInit ==
    ASSUME Init, InfoChoices = {TRUE}
    PROVE  Emptied
BY DEF Init, Emptied, ClosedLeftEscrow, NoCall, NoView, Concluding, Terminal

(* Every path that closes a row, the reconciler's guess from an empty escrow*)
(* and the late writes included: a refund is never reported while the funds *)
(* are still in escrow, as long as rows carry payment_info and the database *)
(* answers, and for any number of callers and reconcilers.                  *)
THEOREM ClosedRowIsEmpty ==
    ASSUME ~DbFaults, InfoChoices = {TRUE}
    PROVE  Spec => []ClosedLeftEscrow
<1>1. Init => SeenOpen /\ Emptied
  BY SeenOpenInit, EmptiedInit
<1>2. TypeOK /\ SeenOpen /\ Emptied /\ [Next]_vars => SeenOpen' /\ Emptied'
  BY SettlementConstants, SeenOpenKept, EmptiedKept DEF SeenType
<1>3. Emptied => ClosedLeftEscrow
  BY DEF Emptied
<1>4. QED BY <1>1, <1>2, <1>3, TypeCorrect, PTL DEF Spec

-----------------------------------------------------------------------------
(* One claim at a time, in its own theorem.                                 *)

(* _claim_escrow_operation and reconcile_stuck_claims: as long as a caller  *)
(* acts on its claim, no rollback, no late write and no reconciler makes the*)
(* row one that others may claim, with any faults and one reconciler.       *)
THEOREM LiveClaimIsKept ==
    ASSUME \A r, q \in Reconcilers : r = q
    PROVE  Spec => []LiveClaimKept
<1>1. ClaimExclusive /\ LiveClaimKept => LiveClaimKept
  OBVIOUS
<1>2. Spec => [](ClaimExclusive /\ LiveClaimKept)
  BY OneClaimAtATime
<1>3. QED BY <1>1, <1>2, PTL

(* An owner was one before, or has just won the claim.                      *)
LEMMA OwnerOrigin ==
    ASSUME ControlType, NEW c \in Callers, CallStep(c) \/ Crash(c), Owner(c)'
    PROVE  /\ call'[c].kind = call[c].kind
           /\ \/ Owner(c)
              \/ pc[c] = "claimCas" /\ pc'[c] = "rebuild" /\ TakeClaim(c)
BY ClaimMoves, SettleMoves DEF CallStep, Leaves, Moves, Free, Owner, Owning

-----------------------------------------------------------------------------
(* A payment is recorded once, when one reconciler runs.                    *)

(* The steps a caller reaches only when the row carries payment_info.       *)
Informed == {"send", "wait", "query", "record", "disburse", "finish"}

(* Once a payment is on record nobody can come to settle again: the row is  *)
(* blocked, its last owner only has to write the result, and a reconciler   *)
(* finds the escrow empty.                                                  *)
SettledForGood ==
    /\ chain = "released"
    /\ status \in Blocked
    /\ hasInfo
    /\ \A c \in Callers : Owner(c) => pc[c] = "finish"
    /\ \A r \in Reconcilers : rpc[r] = "write" => view[r].empty

RecordGuarded ==
    /\ ledger = 0 \/ (ledger = 1 /\ SettledForGood)
    /\ \A c \in Callers :
        /\ pc[c] = "record" => call[c].kind = "settle" /\ chain = "released"
        /\ pc[c] \in Informed => hasInfo

LEMMA RecordGuardedCaller ==
    ASSUME SeenType, ClaimGuarded, RecordGuarded,
           NEW c \in Callers, CallStep(c) \/ Crash(c)
    PROVE  RecordGuarded'
<1>1. ControlType /\ Others(c) /\ UNCHANGED <<rpc, view, chain>> /\ hasInfo' = hasInfo
  BY TypeParts, CallerOthers, CallerFrame, CallerWrites DEF SeenType
<1>2. pc'[c] = "record" => call'[c].kind = "settle" /\ chain = "released"
  <2>1. call[c].kind = "settle" /\ chain = Settled(OpOf(c)) => chain = "released"
    BY DEF Settled, OpOf, Op
  <2>2. QED
    BY <1>1, <2>1, ClaimMoves, SettleMoves DEF CallStep, Leaves, Moves, Free
<1>3. pc'[c] \in Informed => hasInfo
  BY <1>1, ClaimMoves, SettleMoves
     DEF CallStep, Leaves, Moves, Free, Informed, RecordGuarded
<1>4. ledger' = 0 \/ (ledger' = 1 /\ SettledForGood')
  <2>1. CASE pc[c] = "record" /\ ledger' = ledger + 1
    <3>1. Owner(c) /\ hasInfo /\ chain = "released"
      BY <2>1 DEF Owner, Owning, RecordGuarded, Informed
    <3>2. \A d \in Callers \ {c} : ~Owner(d)
      BY <3>1 DEF ClaimGuarded, ClaimExclusive
    <3>3. \A r \in Reconcilers : rpc[r] = "idle"
      BY <3>1 DEF ClaimGuarded
    <3>4. ledger = 0
      BY <2>1, <3>1 DEF RecordGuarded, SettledForGood
    <3>5. status' = status /\ status \in Blocked
      BY <2>1, <3>1, CallerWrites DEF ClaimGuarded
    <3>6. Owner(c)' => pc'[c] = "finish"
      BY <1>1, <2>1, ClaimMoves, SettleMoves
         DEF CallStep, Leaves, Moves, Free, Owner, Owning
    <3>7. \A d \in Callers : Owner(d)' => pc'[d] = "finish"
      BY <1>1, <3>2, <3>6 DEF Others, Owner
    <3>8. QED BY <1>1, <2>1, <3>1, <3>3, <3>4, <3>5, <3>7 DEF SettledForGood
  <2>2. CASE ledger' = ledger /\ ledger = 1
    <3>1. SettledForGood
      BY <2>2 DEF RecordGuarded
    <3>2. ~TakeClaim(c)
      BY <3>1 DEF SettledForGood, TakeClaim, SeenType, SeenOpen
    <3>3. pc[c] # "rollback"
      BY <3>1 DEF SettledForGood, Owner, Owning
    <3>4. status' \in Blocked
      BY <3>1, <3>2, <3>3, CallerWrites, ClaimedBlocked DEF SettledForGood, OpOf
    <3>5. ~Owner(c)'
      BY <1>1, <3>1, <3>2, ClaimMoves, SettleMoves
         DEF CallStep, Leaves, Moves, Free, Owner, Owning, SettledForGood
    <3>6. \A d \in Callers : Owner(d)' => pc'[d] = "finish"
      BY <1>1, <3>1, <3>5 DEF Others, Owner, SettledForGood
    <3>7. QED BY <1>1, <2>2, <3>1, <3>4, <3>6 DEF SettledForGood
  <2>3. QED BY <2>1, <2>2, CallerWrites DEF RecordGuarded
<1>5. QED BY <1>1, <1>2, <1>3, <1>4 DEF RecordGuarded, Others

LEMMA RecordGuardedRecon ==
    ASSUME SeenType, RecordGuarded, NEW r \in Reconcilers, ReconStep(r)
    PROVE  RecordGuarded'
<1>1. ReconType /\ view[r] \in Views
  BY TypeParts DEF SeenType, ReconType
<1>2. UNCHANGED <<pc, call, chain, ledger, hasInfo>>
  BY <1>1, ReconMoves
<1>3. ASSUME SettledForGood
      PROVE  SettledForGood'
  <2>1. rpc[r] = "write" => Verdict(r) \in Terminal
    BY <1>1, <1>3
       DEF SettledForGood, Verdict, Views, Transitional, TransitionalTerminal,
           Terminal
  <2>2. status' \in Blocked
    BY <1>1, <1>3, <2>1, ReconMoves DEF SettledForGood, Blocked
  <2>3. \A q \in Reconcilers : rpc'[q] = "write" => view'[q].empty
    BY <1>1, <1>3, ReconMoves DEF SettledForGood
  <2>4. QED BY <1>2, <1>3, <2>2, <2>3 DEF SettledForGood, Owner
<1>4. QED BY <1>2, <1>3 DEF RecordGuarded

LEMMA RecordGuardedKept ==
    ASSUME SeenType, ClaimGuarded, RecordGuarded, SettlementConstants,
           [Next]_vars
    PROVE  RecordGuarded'
<1>1. ASSUME NEW c \in Callers, NEW k \in Kinds, Start(c, k)
      PROVE  RecordGuarded'
  <2>1. /\ Others(c) /\ Leaves(c)
        /\ UNCHANGED <<row, chain, mempool, books, rpc, view>>
    BY <1>1, StartMoves, TypeParts DEF SeenType
  <2>2. QED
    BY <2>1 DEF RecordGuarded, SettledForGood, Others, Leaves, Free, Informed,
                Owner, Owning, row, books
<1>2. ASSUME NEW op \in Ops, Mine(op)
      PROVE  RecordGuarded'
  <2>1. chain = "released" => chain' = "released"
    BY ChainFinal
  <2>2. QED BY <1>2, <2>1 DEF Mine, RecordGuarded, SettledForGood, Owner, row, books
<1>3. CASE Age \/ UNCHANGED vars
  BY <1>3 DEF Age, vars, row, books, RecordGuarded, SettledForGood, Owner
<1>4. QED
  BY <1>1, <1>2, <1>3, RecordGuardedCaller, RecordGuardedRecon
     DEF Next, ReconStep

(* _settle_submission_payment: however many approvals, verdicts and retries *)
(* settle one submission, a payment is recorded at most once and only after *)
(* the worker was paid, with crashes, lost answers and failing database     *)
(* calls, as long as one process runs the reconciliation loop.              *)
THEOREM PaymentRecordedOnce ==
    ASSUME \A r, q \in Reconcilers : r = q
    PROVE  Spec => []RecordedOnce
<1>1. Init => SeenOpen /\ ClaimGuarded /\ RecordGuarded
  <2>1. SUFFICES ASSUME Init
                 PROVE  SeenOpen /\ ClaimGuarded /\ RecordGuarded
    OBVIOUS
  <2>2. ClaimGuarded
    BY <2>1 DEF Init, ClaimGuarded, ClaimExclusive, Owner, Owning
  <2>3. RecordGuarded
    BY <2>1 DEF Init, RecordGuarded, Informed
  <2>4. QED BY <2>1, <2>2, <2>3, SeenOpenInit
<1>2. TypeOK /\ SeenOpen /\ ClaimGuarded /\ RecordGuarded /\ [Next]_vars
        => SeenOpen' /\ ClaimGuarded' /\ RecordGuarded'
  BY SettlementConstants, SeenOpenKept, ClaimGuardedKept, RecordGuardedKept
     DEF SeenType
<1>3. RecordGuarded => RecordedOnce
  BY DEF RecordGuarded, SettledForGood, RecordedOnce
<1>4. QED BY <1>1, <1>2, <1>3, TypeCorrect, PTL DEF Spec

-----------------------------------------------------------------------------
(* Closed rows stay closed, and the contract, when one reconciler runs.     *)

(* The row names the settlement of the caller that holds the claim, and a   *)
(* caller that writes late writes what the row says already.                *)
RowNamesOwner ==
    /\ \A c \in Callers : Owner(c) => status = Claimed(OpOf(c))
    /\ \A c \in Callers : pc[c] = "mark" => status = Settled(OpOf(c))
    /\ \A c \in Callers : ~call[c].noState

Faithful == ClaimGuarded /\ Emptied /\ RowNamesOwner

LEMMA OpNames ==
    /\ \A a, b \in Ops : Claimed(a) = Claimed(b) => a = b
    /\ \A a, b \in Ops : Claimed(a) # Settled(b)
    /\ \A k : Op(k) \in Ops
BY DEF Ops, Claimed, Settled, Op

(* What a step of a caller may do to a row that others rely on.             *)
LEMMA CallerKeepsRow ==
    ASSUME SeenType, Faithful, NEW c \in Callers, CallStep(c) \/ Crash(c)
    PROVE  /\ status \in Terminal => status' = status
           /\ (\E d \in Callers \ {c} : Owner(d)) => status' = status
           /\ Owner(c)' => status' = Claimed(OpOf(c))
           /\ pc'[c] = "mark" => status' = Settled(OpOf(c))
<1> DEFINE op == OpOf(c)
<1>1. ControlType /\ op \in Ops
  BY TypeParts, OpNames DEF SeenType, OpOf
<1>2. TakeClaim(c) => /\ status \notin Blocked /\ status' = Claimed(op)
                      /\ \A d \in Callers : ~Owner(d)
  BY DEF TakeClaim, SeenType, SeenOpen, Faithful, ClaimGuarded
<1>3. pc[c] = "rollback" => Owner(c) /\ \A d \in Callers \ {c} : ~Owner(d)
  BY DEF Owner, Owning, Faithful, ClaimGuarded, ClaimExclusive
<1>4. pc[c] = "finish" => /\ status = Claimed(op)
                          /\ \A d \in Callers \ {c} : ~Owner(d)
  BY DEF Owner, Owning, Faithful, ClaimGuarded, ClaimExclusive, RowNamesOwner
<1>5. pc[c] = "mark" => status = Settled(op)
  BY DEF Faithful, RowNamesOwner
<1>6. Claimed(op) \notin Terminal /\ Terminal \subseteq Blocked
  BY DEF Claimed, Terminal, Blocked
<1>7. status \in Terminal => status' = status
  BY <1>2, <1>4, <1>5, <1>6, CallerWrites
<1>8. (\E d \in Callers \ {c} : Owner(d)) => status' = status
  BY <1>2, <1>3, <1>4, <1>5, CallerWrites
<1>9. Owner(c)' => status' = Claimed(op)
  <2>1. CASE TakeClaim(c)
    BY <1>2, <2>1
  <2>2. CASE ~TakeClaim(c) /\ Owner(c)'
    <3>1. Owner(c)
      BY <1>1, <2>2, OwnerOrigin
    <3>2. pc[c] \notin {"finish", "mark", "rollback"}
      BY <1>1, <2>2, ClaimMoves, SettleMoves
         DEF CallStep, Leaves, Moves, Free, Owner, Owning
    <3>3. status' = status
      BY <2>2, <3>2, CallerWrites
    <3>4. QED BY <3>1, <3>3 DEF Faithful, RowNamesOwner
  <2>3. QED BY <2>1, <2>2
<1>10. pc'[c] = "mark" => status' = Settled(op)
  <2>1. ASSUME pc'[c] = "mark"
        PROVE  pc[c] = "claimRead" /\ status = Settled(op)
    BY <1>1, <2>1, ClaimMoves, SettleMoves
       DEF CallStep, Leaves, Moves, Free, Faithful, RowNamesOwner
  <2>2. QED BY <2>1, CallerWrites
<1>11. QED BY <1>7, <1>8, <1>9, <1>10

LEMMA RowNamesOwnerCaller ==
    ASSUME SeenType, Faithful, ~DbFaults,
           NEW c \in Callers, CallStep(c) \/ Crash(c)
    PROVE  RowNamesOwner'
<1>1. ControlType /\ Others(c)
  BY TypeParts, CallerOthers DEF SeenType
<1>2. Owner(c)' => status' = Claimed(Op(call'[c].kind))
  BY <1>1, CallerKeepsRow, OwnerOrigin DEF OpOf
<1>3. pc'[c] = "mark" => status' = Settled(Op(call'[c].kind))
  <2>1. pc'[c] = "mark" => call'[c].kind = call[c].kind
    BY <1>1, ClaimMoves, SettleMoves DEF CallStep, Leaves, Moves, Free
  <2>2. QED BY <2>1, CallerKeepsRow DEF OpOf
<1>4. ~call'[c].noState
  <2>1. pc[c] = "rebuild" => ~Stateless
    <3>1. pc[c] = "rebuild" => status \in Transitional
      BY OpStatus DEF Owner, Owning, Faithful, RowNamesOwner, OpOf
    <3>2. QED
      BY <3>1 DEF Stateless, Faithful, Emptied, Transitional, Terminal
  <2>2. QED
    BY <1>1, <2>1, ClaimMoves, SettleMoves
       DEF CallStep, Leaves, Moves, Faithful, RowNamesOwner
<1>5. ASSUME NEW d \in Callers \ {c}
      PROVE  /\ Owner(d)' => status' = Claimed(OpOf(d))
             /\ pc'[d] = "mark" => status' = Settled(OpOf(d))
             /\ call'[d] = call[d]
  <2>1. pc'[d] = pc[d] /\ call'[d] = call[d]
    BY <1>1, <1>5 DEF Others
  <2>2. pc[d] = "mark" => status \in Terminal
    BY <1>5, OpStatus DEF Faithful, RowNamesOwner, OpOf
  <2>3. QED
    BY <1>5, <2>1, <2>2, CallerKeepsRow DEF Owner, Faithful, RowNamesOwner
<1>6. QED
  BY <1>2, <1>3, <1>4, <1>5 DEF RowNamesOwner, OpOf, Faithful

LEMMA RowNamesOwnerKept ==
    ASSUME SeenType, Faithful, ~DbFaults, SettlementConstants, [Next]_vars
    PROVE  RowNamesOwner'
<1>1. ASSUME NEW c \in Callers, NEW k \in Kinds, Start(c, k)
      PROVE  RowNamesOwner'
  <2>1. /\ Others(c) /\ Leaves(c)
        /\ UNCHANGED <<row, chain, mempool, books, rpc, view>>
    BY <1>1, StartMoves, TypeParts DEF SeenType
  <2>2. QED
    BY <2>1 DEF Faithful, RowNamesOwner, Others, Leaves, Free, Owner, Owning,
                OpOf, row
<1>2. ASSUME NEW r \in Reconcilers, ReconStep(r)
      PROVE  RowNamesOwner'
  <2>1. UNCHANGED <<pc, call>> /\ view[r].status \in Transitional
    BY <1>2, ReconMoves, TypeParts DEF SeenType, ReconType, Views
  <2>2. CASE UNCHANGED status
    BY <2>1, <2>2 DEF Faithful, RowNamesOwner, Owner, OpOf
  <2>3. CASE status = view[r].status /\ rpc[r] # "idle"
    <3>1. \A c \in Callers : ~Owner(c)
      BY <2>3 DEF Faithful, ClaimGuarded
    <3>2. \A c \in Callers : pc[c] # "mark"
      BY <2>1, <2>3, OpStatus
         DEF Faithful, RowNamesOwner, OpOf, Transitional, Terminal
    <3>3. QED BY <2>1, <3>1, <3>2 DEF Faithful, RowNamesOwner, Owner
  <2>4. QED
    BY <1>2, <2>2, <2>3
       DEF ReconStep, ReconRead, ReconBlind, ReconQuery, ReconWrite, ReconSkip,
           ReconCas, row
<1>3. CASE Age \/ UNCHANGED vars \/ \E op \in Ops : Mine(op)
  BY <1>3 DEF Age, Mine, vars, row, Faithful, RowNamesOwner, Owner, OpOf
<1>4. QED BY <1>1, <1>2, <1>3, RowNamesOwnerCaller DEF Next, ReconStep

LEMMA FaithfulKept ==
    ASSUME SeenType, Faithful, ~DbFaults, SettlementConstants, [Next]_vars,
           \A r, q \in Reconcilers : r = q
    PROVE  Faithful'
BY ClaimGuardedKept, EmptiedKept, RowNamesOwnerKept DEF Faithful

LEMMA FaithfulInit ==
    ASSUME Init, InfoChoices = {TRUE}
    PROVE  Faithful
<1>1. ClaimGuarded
  BY DEF Init, ClaimGuarded, ClaimExclusive, Owner, Owning
<1>2. RowNamesOwner
  BY DEF Init, RowNamesOwner, NoCall, Owner, Owning
<1>3. QED BY <1>1, <1>2, EmptiedInit DEF Faithful

LEMMA ReconKeepsClosed ==
    ASSUME SeenType, Faithful, NEW r \in Reconcilers, ReconStep(r),
           status' # status
    PROVE  /\ status = view[r].status /\ status \in Transitional
           /\ \/ status' = "deposited"
              \/ chain # "locked" /\ status' \in Terminal
<1>1. ReconType /\ view[r] \in Views /\ view[r].prev \notin Blocked
  BY TypeParts DEF SeenType, SeenOpen, ReconType
<1>2. hasInfo /\ (view[r].empty => chain # "locked")
  BY DEF Faithful, Emptied
<1>3. status = view[r].status /\ status' = Verdict(r)
  BY <1>1, <1>2, ReconMoves
<1>4. view[r].prev = "deposited" /\ view[r].status \in Transitional
  BY <1>1 DEF Views, Statuses, Blocked
<1>5. view[r].empty => Verdict(r) \in Terminal
  BY <1>4 DEF Verdict, Transitional, TransitionalTerminal, Terminal
<1>6. QED BY <1>2, <1>3, <1>4, <1>5 DEF Verdict

LEMMA StepKeepsClosed ==
    ASSUME SeenType, Faithful, SettlementConstants, [Next]_vars,
           status \in Terminal
    PROVE  status' = status
<1>1. ASSUME NEW c \in Callers, CallStep(c) \/ Crash(c)
      PROVE  status' = status
  BY <1>1, CallerKeepsRow
<1>2. ASSUME NEW r \in Reconcilers, ReconStep(r)
      PROVE  status' = status
  BY <1>2, ReconKeepsClosed DEF Transitional, Terminal
<1>3. QED BY <1>1, <1>2 DEF Next, Start, Mine, Age, vars, row, ReconStep

(* Callers and reconciler: once the row reads 'released' or 'refunded' no   *)
(* late write, no rollback and no reconciler changes it, when the database  *)
(* answers and one process runs the reconciliation loop.                    *)
THEOREM ClosedRowIsFinal ==
    ASSUME ~DbFaults, InfoChoices = {TRUE}, \A r, q \in Reconcilers : r = q
    PROVE  Spec => ClosedFinal
<1>1. Init => SeenOpen /\ Faithful
  BY SeenOpenInit, FaithfulInit
<1>2. TypeOK /\ SeenOpen /\ Faithful /\ [Next]_vars => SeenOpen' /\ Faithful'
  BY SettlementConstants, SeenOpenKept, FaithfulKept DEF SeenType
<1>3. TypeOK /\ SeenOpen /\ Faithful /\ [Next]_vars
        => [(status \in Terminal) => (status' = status)]_vars
  BY SettlementConstants, StepKeepsClosed DEF SeenType
<1>4. QED BY <1>1, <1>2, <1>3, TypeCorrect, PTL DEF Spec, ClosedFinal

-----------------------------------------------------------------------------
(* Every step of the settlement is a step of the contract, or none.         *)

LEMMA ContractSteps ==
    ASSUME NEW op \in Ops
    PROVE  /\ /\ status = "deposited" /\ status' = Claimed(op)
              /\ UNCHANGED <<mempool, chain>>
              => Contract!Claim(op)
           /\ /\ status = Claimed(op) /\ mempool' = mempool \cup {op}
              /\ UNCHANGED <<status, chain>>
              => Contract!Ask(op)
           /\ /\ status = Claimed(op) /\ status' = "deposited"
              /\ UNCHANGED <<mempool, chain>>
              => Contract!GiveUp(op)
           /\ /\ status = Claimed(op) /\ status' \in Terminal
              /\ chain \in Terminal /\ UNCHANGED <<mempool, chain>>
              => Contract!Close(op)
           /\ Mine(op) /\ chain \in {"locked"} \cup Terminal
              => Contract!Execute(op)
<1> USE DEF Ops, Claimed, Settled, Terminal
<1>1. /\ status = "deposited" /\ status' = Claimed(op)
      /\ UNCHANGED <<mempool, chain>>
      => Contract!Claim(op)
  BY DEF Contract!Claim
<1>2. /\ status = Claimed(op) /\ mempool' = mempool \cup {op}
      /\ UNCHANGED <<status, chain>>
      => Contract!Ask(op)
  BY DEF Contract!Ask
<1>3. /\ status = Claimed(op) /\ status' = "deposited"
      /\ UNCHANGED <<mempool, chain>>
      => Contract!GiveUp(op)
  BY DEF Contract!GiveUp
<1>4. /\ status = Claimed(op) /\ status' \in Terminal
      /\ chain \in Terminal /\ UNCHANGED <<mempool, chain>>
      => Contract!Close(op)
  BY DEF Contract!Close
<1>5. Mine(op) /\ chain \in {"locked"} \cup Terminal => Contract!Execute(op)
  BY DEF Mine, row, Contract!Execute
<1>6. QED BY <1>1, <1>2, <1>3, <1>4, <1>5

ContractVars ==
    <<CASE status = "releasing" -> "release"
        [] status = "refunding" -> "refund"
        [] status \in Terminal -> "closed"
        [] OTHER -> "open",
      mempool,
      CASE chain = "released" -> "release"
        [] chain = "refunded" -> "refund"
        [] OTHER -> "locked">>

LEMMA ContractCaller ==
    ASSUME SeenType, Faithful, NEW c \in Callers, CallStep(c) \/ Crash(c)
    PROVE  Contract!Next \/ UNCHANGED <<status, mempool, chain>>
<1> DEFINE op == OpOf(c)
<1>1. op \in Ops /\ UNCHANGED chain
  BY OpNames, CallerFrame DEF OpOf
<1>2. CASE mempool' # mempool
  <2>1. pc[c] = "send" /\ mempool' = mempool \cup {op} /\ UNCHANGED status
    BY <1>2, CallerWrites DEF row
  <2>2. status = Claimed(op)
    BY <2>1 DEF Owner, Owning, Faithful, RowNamesOwner
  <2>3. QED BY <1>1, <2>1, <2>2, ContractSteps DEF Contract!Next
<1>3. CASE mempool' = mempool /\ status' # status
  <2>1. call[c].seen = "deposited"
    BY TypeParts
       DEF SeenType, SeenOpen, ControlType, Calls, Statuses, Blocked
  <2>2. CASE TakeClaim(c)
    BY <1>1, <1>3, <2>1, <2>2, ContractSteps DEF TakeClaim, Contract!Next
  <2>3. CASE status = Claimed(op) /\ status' = call[c].seen
    BY <1>1, <1>3, <2>1, <2>3, ContractSteps DEF Contract!Next
  <2>4. CASE pc[c] \in {"finish", "mark"} /\ status' = Settled(op)
    <3>1. pc[c] = "finish"
      BY <1>3, <2>4 DEF Faithful, RowNamesOwner
    <3>2. status = Claimed(op) /\ chain \in Terminal
      BY <3>1, TypeParts
         DEF SeenType, WorldType, Owner, Owning, Concluding, Faithful,
             RowNamesOwner, Emptied
    <3>3. status' \in Terminal
      BY <2>4, OpStatus DEF OpOf
    <3>4. QED BY <1>1, <1>3, <3>2, <3>3, ContractSteps DEF Contract!Next
  <2>5. QED BY <1>3, <2>2, <2>3, <2>4, CallerWrites
<1>4. QED BY <1>1, <1>2, <1>3

LEMMA ContractRecon ==
    ASSUME SeenType, Faithful, NEW r \in Reconcilers, ReconStep(r)
    PROVE  Contract!Next \/ UNCHANGED <<status, mempool, chain>>
<1>1. UNCHANGED <<mempool, chain>> /\ chain \in {"locked"} \cup Terminal
  BY ReconMoves, TypeParts DEF SeenType, WorldType
<1>2. CASE status' # status
  <2>1. /\ status \in Transitional
        /\ \/ status' = "deposited"
           \/ chain # "locked" /\ status' \in Terminal
    BY <1>2, ReconKeepsClosed
  <2>2. PICK op \in Ops : status = Claimed(op)
    BY <2>1 DEF Transitional, Ops, Claimed
  <2>3. QED BY <1>1, <2>1, <2>2, ContractSteps DEF Contract!Next
<1>3. QED BY <1>1, <1>2

LEMMA ContractStep ==
    ASSUME SeenType, Faithful, [Next]_vars
    PROVE  [Contract!Next]_ContractVars
<1>1. ASSUME UNCHANGED <<status, mempool, chain>>
      PROVE  UNCHANGED ContractVars
  BY <1>1 DEF ContractVars
<1>2. ASSUME NEW op \in Ops, Mine(op)
      PROVE  Contract!Next
  BY <1>2, ContractSteps, TypeParts DEF Contract!Next, SeenType, WorldType
<1>3. QED
  BY <1>1, <1>2, ContractCaller, ContractRecon
     DEF Next, Start, Age, vars, row, ReconStep

(* The whole settlement, callers, chain and reconciler together, implements *)
(* EscrowContract: a settlement is sent only under a claim for it, the funds*)
(* move once and only because somebody asked, and the row is closed only    *)
(* when they are gone, for any number of callers and any bounds, when rows  *)
(* carry payment_info, the database answers and one reconciler runs.        *)
THEOREM SettlementImplementsContract ==
    ASSUME ~DbFaults, InfoChoices = {TRUE}, \A r, q \in Reconcilers : r = q
    PROVE  Spec => ContractKept
<1>1. Init => SeenOpen /\ Faithful
  BY SeenOpenInit, FaithfulInit
<1>2. Init => Contract!Init
  BY DEF Init, Contract!Init, Terminal
<1>3. TypeOK /\ SeenOpen /\ Faithful /\ [Next]_vars => SeenOpen' /\ Faithful'
  BY SettlementConstants, SeenOpenKept, FaithfulKept DEF SeenType
<1>4. TypeOK /\ SeenOpen /\ Faithful /\ [Next]_vars => [Contract!Next]_ContractVars
  BY ContractStep DEF SeenType
<1>5. QED
  BY <1>1, <1>2, <1>3, <1>4, TypeCorrect, PTL
     DEF Spec, ContractKept, Contract!Spec, ContractVars
=============================================================================
