-------------------------- MODULE EscrowSettlement --------------------------
(***************************************************************************)
(* Settlement of one task's escrow in direct_release mode.                  *)
(*                                                                          *)
(* Every request handler, background job and reconciler of every server     *)
(* process works on the same escrows row.  A database call is one atomic    *)
(* step and anything may happen between two of them.  The funds themselves  *)
(* move on chain: a handler asks the facilitator over HTTP, and the answer  *)
(* may be late, wrong about the outcome, or never come.                     *)
(*                                                                          *)
(* A caller runs one settlement at a time; what it runs is its kind:        *)
(*   settle        _settle_submission_payment: REST approval, arbiter PASS, *)
(*                 settlement at the deadline                               *)
(*   h2aApprove    approval by a human publisher (api/h2a.py)               *)
(*   cancel        REST cancel, H2A cancel and H2A rejection                *)
(*   arbiterFail   refund on a FAIL verdict of the arbiter                  *)
(*   mcpCancel     the MCP cancel tool                                      *)
(*   mcpApprove    the MCP approval tool: after the release it also pays the*)
(*                 worker from the platform's wallet                        *)
(*   expire        refund by the expiration job, up to MaxJobRefunds times  *)
(* The MCP tools use a client that needs the server's signing key.          *)
(***************************************************************************)
EXTENDS Naturals

CONSTANTS
    Callers,         \* handlers and jobs that may settle concurrently
    Reconcilers,     \* server processes that run the reconciliation loop
    Kinds,           \* the kinds of settlement that callers start
    InfoChoices,     \* whether the row may carry payment_info
    DbFaults,        \* database calls may fail, or fail after taking effect
    ServerSigning,   \* EM_SERVER_SIGNING: without it the chain cannot be asked
    MaxClaimTries,   \* read-then-CAS rounds of one claim (3 in the code)
    MaxSends,        \* HTTP attempts of one facilitator call (3 in the code)
    MaxJobRefunds    \* refund attempts of the expiration job (3 in the code)

AllKinds ==
    {"settle", "h2aApprove", "mcpApprove", "cancel", "arbiterFail", "mcpCancel",
     "expire"}

ASSUME SettlementConstants ==
    /\ Kinds \subseteq AllKinds
    /\ InfoChoices \subseteq BOOLEAN
    /\ DbFaults \in BOOLEAN
    /\ ServerSigning \in BOOLEAN
    /\ MaxClaimTries \in Nat \ {0}
    /\ MaxSends \in Nat \ {0}
    /\ MaxJobRefunds \in Nat \ {0}

VARIABLES
    status,     \* escrows.status
    claimPrev,  \* escrows.metadata.claim_previous_status
    hasInfo,    \* escrows.metadata.payment_info is present
    aged,       \* the claim is older than STUCK_CLAIM_THRESHOLD
    chain,      \* where the funds are: in escrow, with the worker, or returned
    mempool,    \* settlements the facilitator has broadcast, not yet mined
    ledger,     \* number of 'release' rows in the payments table
    disbursed,  \* payments to the worker from the platform's wallet
    pc,         \* the step each caller is at
    call,       \* the local variables of each caller
    rpc,        \* the step each reconciler is at
    view        \* what each reconciler has read

row == <<status, claimPrev, hasInfo, aged>>
books == <<ledger, disbursed>>
vars == <<row, chain, mempool, books, pc, call, rpc, view>>

-----------------------------------------------------------------------------
Ops == {"release", "refund"}

(* The settlement a kind of caller asks for.                                *)
Op(k) == IF k \in {"settle", "h2aApprove", "mcpApprove"} THEN "release"
                                                     ELSE "refund"

(* The status a claim puts on the row, and the one a finished settlement    *)
(* leaves; the second also names where the funds went.                      *)
Claimed(op) == IF op = "release" THEN "releasing" ELSE "refunding"
Settled(op) == IF op = "release" THEN "released" ELSE "refunded"

Transitional == {"releasing", "refunding"}
Terminal == {"released", "refunded"}

(* deposited stands for every status from which the code settles: deposited,*)
(* funded, locked, active and partial_released.                             *)
Statuses == {"deposited"} \cup Transitional \cup Terminal

(* Variant of Blocked without the closed statuses.                          *)
BlockedInFlightOnly == Transitional

(* _BLOCKED_CLAIM_STATUSES                                                  *)
Blocked == Transitional \cup Terminal

(* RELEASABLE_ESCROW_STATUSES and REFUNDABLE_ESCROW_STATUSES                *)
Settleable == {"deposited"}

(* Claim status read by a reconciler -> the terminal status it advances to. *)
TransitionalTerminal == [releasing |-> "released", refunding |-> "refunded"]

-----------------------------------------------------------------------------
Steps == {"idle", "ledger", "check", "claimRead", "claimCas", "rebuild",
          "send", "wait", "query", "rollback", "record", "disburse",
          "finish", "mark"}

(* From winning the claim until the caller writes the result or gives the   *)
(* claim back, the caller believes that it alone is settling.               *)
Owning == {"rebuild", "send", "wait", "query", "rollback", "record",
           "disburse", "finish"}

Calls == [kind : AllKinds \cup {"none"}, seen : Statuses, tries : Nat,
          sends : Nat, jobs : Nat, noState : BOOLEAN]

NoCall == [kind |-> "none", seen |-> "deposited", tries |-> 0, sends |-> 0,
           jobs |-> 0, noState |-> FALSE]

Views == [status : Transitional, prev : Statuses, empty : BOOLEAN]

NoView == [status |-> "releasing", prev |-> "deposited", empty |-> FALSE]

OpOf(c) == Op(call[c].kind)

(* The caller holds the claim on the row.                                   *)
Owner(c) == pc[c] \in Owning

Init ==
    /\ status = "deposited"
    /\ claimPrev = "deposited"
    /\ hasInfo \in InfoChoices
    /\ aged = FALSE
    /\ chain = "locked"
    /\ mempool = {}
    /\ ledger = 0
    /\ disbursed = 0
    /\ pc = [c \in Callers |-> "idle"]
    /\ call = [c \in Callers |-> NoCall]
    /\ rpc = [r \in Reconcilers |-> "idle"]
    /\ view = [r \in Reconcilers |-> NoView]

-----------------------------------------------------------------------------
(* Control of one caller.                                                   *)

Goto(c, step) ==
    /\ pc' = [pc EXCEPT ![c] = step]
    /\ UNCHANGED call

Return(c) ==
    /\ pc' = [pc EXCEPT ![c] = "idle"]
    /\ call' = [call EXCEPT ![c] = NoCall]

(* A failed attempt: the expiration job tries again, the others report it.  *)
Fail(c) ==
    IF call[c].kind = "expire" /\ call[c].jobs + 1 < MaxJobRefunds
    THEN /\ pc' = [pc EXCEPT ![c] = "claimRead"]
         /\ call' = [call EXCEPT ![c] = [NoCall EXCEPT !.kind = "expire",
                                                       !.jobs = call[c].jobs + 1]]
    ELSE Return(c)

(* A settlement reported as successful without a claim being held: the      *)
(* caller writes the result all the same, the expiration job leaves the row.*)
SettledWithoutClaim(c) ==
    IF call[c].kind = "expire" THEN Return(c) ELSE Goto(c, "mark")

FirstStep ==
    [settle |-> "ledger", h2aApprove |-> "check", cancel |-> "check",
     mcpApprove |-> "claimRead", arbiterFail |-> "claimRead",
     mcpCancel |-> "claimRead", expire |-> "claimRead"]

Start(c, k) ==
    /\ pc[c] = "idle"
    /\ pc' = [pc EXCEPT ![c] = FirstStep[k]]
    /\ call' = [call EXCEPT ![c] = [NoCall EXCEPT !.kind = k]]
    /\ UNCHANGED <<row, chain, mempool, books, rpc, view>>

(* _get_existing_submission_payment: a finalised payment, or the event of a *)
(* payment to the worker when there is no row, ends the call.  A look-up    *)
(* that fails is one that found nothing.                                    *)
LedgerRead(c) ==
    /\ pc[c] = "ledger"
    /\ \/ (ledger > 0 \/ disbursed > 0) /\ Return(c)
       \/ (ledger = 0 \/ DbFaults) /\ Goto(c, "check")
    /\ UNCHANGED <<row, chain, mempool, books, rpc, view>>

(* The caller looks at the row before it asks for the settlement.  When the *)
(* lookup fails, settle goes on (the task has an escrow_tx), others stop.   *)
CheckRow(c) ==
    /\ pc[c] = "check"
    /\ \/ status \in Settleable /\ Goto(c, "claimRead")
       \/ status \notin Settleable /\ Return(c)
       \/ DbFaults /\ call[c].kind = "settle" /\ Goto(c, "claimRead")
       \/ DbFaults /\ call[c].kind # "settle" /\ Return(c)
    /\ UNCHANGED <<row, chain, mempool, books, rpc, view>>

-----------------------------------------------------------------------------
(* _claim_escrow_operation                                                  *)

(* A refused claim is a success for a caller that finds its settlement done,*)
(* except for the two approvals that insist on a transaction hash.          *)
Refused(c) ==
    IF status = Settled(OpOf(c)) /\ call[c].kind \notin {"settle", "h2aApprove"}
    THEN SettledWithoutClaim(c)
    ELSE Fail(c)

ClaimRead(c) ==
    /\ pc[c] = "claimRead"
    /\ \/ /\ status \notin Blocked
          /\ pc' = [pc EXCEPT ![c] = "claimCas"]
          /\ call' = [call EXCEPT ![c].seen = status]
       \/ status \in Blocked /\ Refused(c)
       \/ DbFaults /\ Fail(c)
    /\ UNCHANGED <<row, chain, mempool, books, rpc, view>>

(* Variant of TakeClaim whose UPDATE is not pinned to the status read.      *)
TakeClaimUnpinned(c) ==
    /\ status' = Claimed(OpOf(c))
    /\ claimPrev' = call[c].seen
    /\ aged' = FALSE
    /\ UNCHANGED hasInfo

(* UPDATE escrows SET status, metadata WHERE status = the status just read. *)
TakeClaim(c) ==
    /\ status = call[c].seen
    /\ status' = Claimed(OpOf(c))
    /\ claimPrev' = call[c].seen
    /\ aged' = FALSE
    /\ UNCHANGED hasInfo

(* Another writer came between the read and the CAS: read again, or stop    *)
(* after MaxClaimTries rounds.                                              *)
LoseClaim(c) ==
    /\ status # call[c].seen
    /\ IF call[c].tries + 1 < MaxClaimTries
       THEN /\ pc' = [pc EXCEPT ![c] = "claimRead"]
            /\ call' = [call EXCEPT ![c].tries = @ + 1]
       ELSE Fail(c)
    /\ UNCHANGED row

ClaimCas(c) ==
    /\ pc[c] = "claimCas"
    /\ \/ TakeClaim(c) /\ Goto(c, "rebuild")
       \/ LoseClaim(c)
       \/ DbFaults /\ Fail(c) /\ UNCHANGED row
       \/ DbFaults /\ TakeClaim(c) /\ Fail(c)
    /\ UNCHANGED <<chain, mempool, books, rpc, view>>

-----------------------------------------------------------------------------
(* release_direct_to_worker and refund_trustless_escrow, after the claim    *)

(* _reconstruct_fase2_state finds nothing when payment_info is missing, the *)
(* row is terminal, or the read fails.                                      *)
Rebuild(c) ==
    /\ pc[c] = "rebuild"
    /\ \/ hasInfo /\ status \notin Terminal /\ Goto(c, "send")
       \/ /\ ~hasInfo \/ status \in Terminal \/ DbFaults
          /\ pc' = [pc EXCEPT ![c] = "rollback"]
          /\ call' = [call EXCEPT ![c].noState = TRUE]
    /\ UNCHANGED <<row, chain, mempool, books, rpc, view>>

(* _release_fase2 and _refund_fase2 create their signing client only now;   *)
(* without the key that raises, and the error is reported with the claim    *)
(* still held.                                                              *)
NeedsKey(c) == call[c].kind \in {"mcpApprove", "mcpCancel"}

NoClient(c) ==
    /\ pc[c] = "send"
    /\ NeedsKey(c) /\ ~ServerSigning
    /\ Return(c)
    /\ UNCHANGED <<row, chain, mempool, books, rpc, view>>

(* One POST to /settle; it may be lost before the facilitator acts on it.   *)
Send(c) ==
    /\ pc[c] = "send"
    /\ NeedsKey(c) => ServerSigning
    /\ pc' = [pc EXCEPT ![c] = "wait"]
    /\ call' = [call EXCEPT ![c].sends = @ + 1]
    /\ \/ mempool' = mempool \cup {OpOf(c)}
       \/ UNCHANGED mempool
    /\ UNCHANGED <<row, chain, books, rpc, view>>

(* Where a confirmed settlement goes on: settle records a payment, the MCP  *)
(* approval pays the worker once more, the job is done and leaves the row to*)
(* the reconciler.                                                          *)
Confirmed(c) ==
    CASE call[c].kind = "settle" -> Goto(c, "record")
      [] call[c].kind = "mcpApprove" -> Goto(c, "disburse")
      [] call[c].kind = "expire" -> Return(c)
      [] OTHER -> Goto(c, "finish")

(* Variant of ReplyOk that does not look at 'success' in the answer.        *)
ReplyOkUnchecked(c) ==
    /\ pc[c] = "wait"
    /\ Confirmed(c)
    /\ UNCHANGED <<row, chain, mempool, books, rpc, view>>

ReplyOk(c) ==
    /\ pc[c] = "wait"
    /\ chain = Settled(OpOf(c))
    /\ Confirmed(c)
    /\ UNCHANGED <<row, chain, mempool, books, rpc, view>>

(* facilitator_retry: a timeout, a broken connection or a 5xx is retried;   *)
(* the signing client asks once.                                            *)
ReplyRetry(c) ==
    /\ pc[c] = "wait"
    /\ ~NeedsKey(c)
    /\ call[c].sends < MaxSends
    /\ Goto(c, "send")
    /\ UNCHANGED <<row, chain, mempool, books, rpc, view>>

(* The last error: a refusal, a 5xx that carries a transaction, or one more *)
(* timeout.  Only a release, and only if the error text says "timed out",   *)
(* looks at the chain before it gives up.                                   *)
ReplyFail(c) ==
    /\ pc[c] = "wait"
    /\ \/ Goto(c, "rollback")
       \/ OpOf(c) = "release" /\ Goto(c, "query")
    /\ UNCHANGED <<row, chain, mempool, books, rpc, view>>

(* Variants of QueryChain: a missing capturableAmount read as zero, and a   *)
(* stand-in hash that settle records like a transaction hash.               *)
QueryChainMissingIsZero(c) ==
    /\ pc[c] = "query"
    /\ IF call[c].kind = "settle" THEN Return(c) ELSE Goto(c, "finish")
    /\ UNCHANGED <<row, chain, mempool, books, rpc, view>>

QueryChainStandInHash(c) ==
    /\ pc[c] = "query"
    /\ \/ ServerSigning /\ chain # "locked" /\ Confirmed(c)
       \/ Goto(c, "rollback")
    /\ UNCHANGED <<row, chain, mempool, books, rpc, view>>

(* An empty escrow counts as a release.  Its stand-in for a transaction hash*)
(* is none to settle, which stops with the row still claimed.               *)
QueryChain(c) ==
    /\ pc[c] = "query"
    /\ \/ /\ ServerSigning
          /\ chain # "locked"
          /\ IF call[c].kind = "settle" THEN Return(c) ELSE Confirmed(c)
       \/ Goto(c, "rollback")
    /\ UNCHANGED <<row, chain, mempool, books, rpc, view>>

(* _release_claim_rollback: CAS on the claim; an error is logged only.      *)
GiveBack(c) ==
    /\ IF status = Claimed(OpOf(c)) THEN status' = call[c].seen
                                    ELSE UNCHANGED status
    /\ UNCHANGED <<claimPrev, hasInfo, aged>>

Rollback(c) ==
    /\ pc[c] = "rollback"
    /\ \/ GiveBack(c)
       \/ DbFaults /\ UNCHANGED row
    /\ IF OpOf(c) = "refund" /\ call[c].noState THEN SettledWithoutClaim(c)
                                                ELSE Fail(c)
    /\ UNCHANGED <<chain, mempool, books, rpc, view>>

(* disburse_to_worker: the platform signs a payment of the bounty.  Without *)
(* an answer that carries a hash the approval fails, the row still claimed. *)
Disburse(c) ==
    /\ pc[c] = "disburse"
    /\ \/ disbursed' = disbursed + 1 /\ (Goto(c, "finish") \/ Return(c))
       \/ UNCHANGED disbursed /\ Return(c)
    /\ UNCHANGED <<row, chain, mempool, ledger, rpc, view>>

(* The payments row of a settled submission; an error is logged only.       *)
Record(c) ==
    /\ pc[c] = "record"
    /\ \/ ledger' = ledger + 1
       \/ DbFaults /\ UNCHANGED ledger
    /\ Goto(c, "finish")
    /\ UNCHANGED <<row, chain, mempool, disbursed, rpc, view>>

(* UPDATE escrows SET status = released | refunded WHERE task_id = ...      *)
WriteResult(c) ==
    /\ pc[c] \in {"finish", "mark"}
    /\ \/ status' = Settled(OpOf(c))
       \/ DbFaults /\ UNCHANGED status
    /\ Return(c)
    /\ UNCHANGED <<claimPrev, hasInfo, aged, chain, mempool, books, rpc, view>>

CallStep(c) ==
    \/ LedgerRead(c) \/ CheckRow(c) \/ ClaimRead(c) \/ ClaimCas(c)
    \/ Rebuild(c) \/ NoClient(c) \/ Send(c)
    \/ ReplyOk(c) \/ ReplyRetry(c) \/ ReplyFail(c)
    \/ QueryChain(c) \/ Rollback(c) \/ Disburse(c) \/ Record(c) \/ WriteResult(c)

(* The process stops; what it has asked the facilitator goes on.            *)
Crash(c) ==
    /\ pc[c] # "idle"
    /\ Return(c)
    /\ UNCHANGED <<row, chain, mempool, books, rpc, view>>

-----------------------------------------------------------------------------
(* The chain and the clock                                                  *)

(* The escrow contract pays out once; a later transaction reverts.          *)
Mine(op) ==
    /\ op \in mempool
    /\ mempool' = mempool \ {op}
    /\ chain' = IF chain = "locked" THEN Settled(op) ELSE chain
    /\ UNCHANGED <<row, books, pc, call, rpc, view>>

(* Variant of Age with a threshold shorter than a slow call.                *)
AgeTooSoon ==
    /\ status \in Transitional
    /\ ~aged
    /\ aged' = TRUE
    /\ UNCHANGED <<status, claimPrev, hasInfo, chain, mempool, books, pc, call,
                   rpc, view>>

(* A claim reaches the reconciler's threshold (15 minutes) only after the   *)
(* call that made it has ended: a call lasts two minutes at most.           *)
Age ==
    /\ status \in Transitional
    /\ ~aged
    /\ \A c \in Callers : ~Owner(c)
    /\ aged' = TRUE
    /\ UNCHANGED <<status, claimPrev, hasInfo, chain, mempool, books, pc, call,
                   rpc, view>>

-----------------------------------------------------------------------------
(* reconcile_stuck_claims, once per server process                          *)

(* Variants of ReconRead: rows of any status, and stuck releases only.      *)
ReconReadAnyStatus(r) ==
    /\ rpc[r] = "idle"
    /\ rpc' = [rpc EXCEPT ![r] = "resolve"]
    /\ view' = [view EXCEPT ![r] = [status |-> status, prev |-> claimPrev,
                                    empty |-> FALSE]]
    /\ UNCHANGED <<row, chain, mempool, books, pc, call>>

ReconReadReleasesOnly(r) ==
    /\ rpc[r] = "idle"
    /\ status = "releasing"
    /\ aged
    /\ rpc' = [rpc EXCEPT ![r] = "resolve"]
    /\ view' = [view EXCEPT ![r] = [status |-> status, prev |-> claimPrev,
                                    empty |-> FALSE]]
    /\ UNCHANGED <<row, chain, mempool, books, pc, call>>

ReconRead(r) ==
    /\ rpc[r] = "idle"
    /\ status \in Transitional
    /\ aged
    /\ rpc' = [rpc EXCEPT ![r] = "resolve"]
    /\ view' = [view EXCEPT ![r] = [status |-> status, prev |-> claimPrev,
                                    empty |-> FALSE]]
    /\ UNCHANGED <<row, chain, mempool, books, pc, call>>

ReconEnd(r) ==
    /\ rpc' = [rpc EXCEPT ![r] = "idle"]
    /\ view' = [view EXCEPT ![r] = NoView]

(* UPDATE escrows SET status WHERE status = the claim that was read         *)
ReconCas(r, new) ==
    /\ IF status = view[r].status THEN status' = new ELSE UNCHANGED status
    /\ UNCHANGED <<claimPrev, hasInfo, aged>>

(* Without payment_info no settlement can have been sent.                   *)
ReconBlind(r) ==
    /\ rpc[r] = "resolve"
    /\ ~hasInfo
    /\ ReconCas(r, view[r].prev)
    /\ ReconEnd(r)
    /\ UNCHANGED <<chain, mempool, books, pc, call>>

ReconQuery(r) ==
    /\ rpc[r] = "resolve"
    /\ hasInfo
    /\ ServerSigning
    /\ status \notin Terminal
    /\ rpc' = [rpc EXCEPT ![r] = "write"]
    /\ view' = [view EXCEPT ![r].empty = (chain # "locked")]
    /\ UNCHANGED <<row, chain, mempool, books, pc, call>>

(* Variant of ReconWrite that advances every old claim.                     *)
ReconWriteAlwaysAdvance(r) ==
    /\ rpc[r] = "write"
    /\ ReconCas(r, TransitionalTerminal[view[r].status])
    /\ ReconEnd(r)
    /\ UNCHANGED <<chain, mempool, books, pc, call>>

(* Advance the claim when the escrow is empty, roll it back otherwise.      *)
ReconWrite(r) ==
    /\ rpc[r] = "write"
    /\ ReconCas(r, IF view[r].empty THEN TransitionalTerminal[view[r].status]
                                    ELSE view[r].prev)
    /\ ReconEnd(r)
    /\ UNCHANGED <<chain, mempool, books, pc, call>>

(* The chain cannot be asked, a call fails, or the process stops: the claim *)
(* is left to the next cycle.                                               *)
ReconSkip(r) ==
    /\ rpc[r] # "idle"
    /\ ReconEnd(r)
    /\ UNCHANGED <<row, chain, mempool, books, pc, call>>

-----------------------------------------------------------------------------
Next ==
    \/ \E c \in Callers, k \in Kinds : Start(c, k)
    \/ \E c \in Callers : CallStep(c) \/ Crash(c)
    \/ \E op \in Ops : Mine(op)
    \/ Age
    \/ \E r \in Reconcilers : \/ ReconRead(r) \/ ReconBlind(r) \/ ReconQuery(r)
                              \/ ReconWrite(r) \/ ReconSkip(r)

Spec == Init /\ [][Next]_vars

(* A running caller reaches its end unless its process stops.  The clock    *)
(* advances and the reconciliation loop comes round.  Its query and its     *)
(* write may fail in any cycle, but not in every cycle.                     *)
ReconFairness(r) ==
    /\ WF_vars(ReconRead(r))
    /\ SF_vars(ReconBlind(r))
    /\ SF_vars(ReconQuery(r))
    /\ SF_vars(ReconWrite(r))

FairSpec ==
    /\ Spec
    /\ \A c \in Callers : WF_vars(CallStep(c))
    /\ WF_vars(Age)
    /\ \A r \in Reconcilers : ReconFairness(r)

-----------------------------------------------------------------------------
(* Properties                                                               *)

TypeOK ==
    /\ status \in Statuses
    /\ claimPrev \in Statuses
    /\ hasInfo \in BOOLEAN
    /\ aged \in BOOLEAN
    /\ chain \in {"locked"} \cup Terminal
    /\ mempool \subseteq Ops
    /\ ledger \in Nat
    /\ disbursed \in Nat
    /\ pc \in [Callers -> Steps]
    /\ call \in [Callers -> Calls]
    /\ rpc \in [Reconcilers -> {"idle", "resolve", "write"}]
    /\ view \in [Reconcilers -> Views]

(* "exactly one caller wins the claim": of all approvals, cancellations and *)
(* job runs on one escrow, at most one is between its claim and its result. *)
ClaimExclusive ==
    \A c, d \in Callers : Owner(c) /\ Owner(d) => c = d

(* While a caller holds the claim the row refuses every other claim: neither*)
(* a rollback, a reconciler nor a late write of another caller reopens it.  *)
LiveClaimKept ==
    \A c \in Callers : Owner(c) => status \in Blocked

(* A row reads 'released' only after the funds have left the escrow, whether*)
(* the caller or the reconciler wrote it and whichever answers were lost.   *)
ReleasedLeftEscrow ==
    status = "released" => chain # "locked"

(* Without the signing key, as in production, no step guesses from an empty *)
(* escrow that it was a release: a row that reads 'released' paid the worker*)
(* even when two reconcilers run and database calls fail.                   *)
ReleasedIsPaid ==
    status = "released" => chain = "released"

(* Every closed row, refunded ones too, belongs to an empty escrow, when    *)
(* rows carry payment_info and the database answers.                        *)
ClosedLeftEscrow ==
    status \in Terminal => chain # "locked"

(* A submission is recorded as paid at most once, however many approvals and*)
(* retries ran, and only when the worker really was paid.                   *)
RecordedOnce ==
    /\ ledger <= 1
    /\ ledger = 1 => chain = "released"

(* A closed row stays as it is: no late write and no reconciler reopens it  *)
(* or turns a release into a refund.                                        *)
ClosedFinal ==
    [][(status \in Terminal) => (status' = status)]_vars

(* With every row carrying payment_info and every database call answered,   *)
(* callers and reconciler together keep the contract of EscrowContract.     *)
Contract ==
    INSTANCE EscrowContract WITH
        Operations <- Ops,
        phase <- CASE status = "releasing" -> "release"
                   [] status = "refunding" -> "refund"
                   [] status \in Terminal -> "closed"
                   [] OTHER -> "open",
        asked <- mempool,
        funds <- CASE chain = "released" -> "release"
                   [] chain = "refunded" -> "refund"
                   [] OTHER -> "locked"

ContractKept == Contract!Spec

(* A claim stranded by a crash, a lost database answer or a job that never  *)
(* writes its result does not block the escrow forever.                     *)
ClaimResolved ==
    (status \in Transitional) ~> (status \notin Transitional)

(* "Gasless release via facilitator (1-TX, fee split on-chain)": a worker   *)
(* whom the escrow has paid is not paid again from the platform's wallet.   *)
WorkerPaidOnce ==
    chain = "released" => disbursed = 0
=============================================================================
