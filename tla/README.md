# Execution Market: a TLA+ model of the marketplace's core

Execution Market lets an agent (or a human publisher) post a task with a bounty,
a worker apply, be assigned and submit evidence, and a verdict release the
bounty to the worker or return it to the publisher. The bounty sits in an x402r
escrow contract; the server never holds it, and moves it by asking a facilitator
over HTTP to broadcast a transaction.

This directory models that core from its source, `src/mcp_server/` (paths below
are relative to it), checks the models with TLC and proves what matters most
with TLAPS. `PROJECT.json` maps every definition to the lines it stands for.

## 1. Inventory

The backend is one Python program (FastAPI and FastMCP over a Supabase
database) that runs as several processes: two uvicorn workers per container
(`WORKERS=2`) and several containers. Every process serves requests and runs
every background loop. Nothing is shared between processes but the database, the
chain and the facilitator. Handlers are coroutines, the database client is
synchronous: one database call is atomic, and between two of them, or while an
HTTP call is awaited, anything may happen. Row updates are plain `UPDATE ... WHERE
id = ...` unless the code says otherwise; there are no transactions.

| part | state | operations | hard behaviour | what makes it correct |
|---|---|---|---|---|
| Escrow settlement: `integrations/x402/payment_dispatcher.py`, `api/routers/_helpers.py`, `api/h2a.py`, `api/routers/tasks.py` (cancel), `integrations/arbiter/processor.py`, `tools/core_tools.py`, `jobs/task_expiration.py`, `integrations/_http_retry.py` | `escrows` row (status, metadata), `payments` rows, funds on chain, broadcast transactions | claim, rebuild payment info, release or refund, query after a timeout, roll back, record | concurrent settlers, lost and late answers, crashes, failing database calls | one settlement at a time; a row is closed only over an empty escrow; a payment is recorded once; a claim does not block forever |
| Escrow reconciler: `audit/escrow_reconciler.py` | the same row, one loop per process | find old claims, ask the chain, advance or roll back | runs against live callers and against itself | never undoes a live claim; every stranded claim is resolved |
| Escrow lock: `integrations/x402/escrow_lock.py`, assign in `api/routers/tasks.py`, `api/h2a.py` | marker row `pending_assignment`, then `deposited`; a task may have several rows | store signature, lock at assignment, PATCH of metadata | lock against cancellation and expiry; lock on chain and then a failing write | funds locked are known to a row; no lock for a dead task |
| Task and submission lifecycle: `supabase_client.py`, `api/routers/{tasks,submissions,workers}.py` | `tasks`, `submissions`, `applications` | publish, apply, assign, submit, approve, reject, cancel, expire | status read, checks, then an update by id | no transition out of a closed status; a paid task ends completed |
| Auto-payment job: `jobs/auto_payment.py`, retry in `api/admin.py` | `submissions.payment_tx`, `retry_count`, `payments` | fetch the oldest unpaid, pay from the platform's wallet, record, count | no claim; lost answers; a limited query | paid again only after a fault; every payable submission is served |
| Expiration job: `jobs/task_expiration.py` | `tasks`, `escrows` | expire, refund with retries, settle at the deadline | against approvals in flight | refund or settle, not both |
| Arbiter: `integrations/arbiter/*` | dispute and verdict rows | tiers, votes, consensus, escalation | several models vote, some fail | verdict is a function of the votes; every inconclusive case is escalated |
| Disputes: `api/routers/disputes.py` | `disputes` | open, resolve | a trigger moves the task, the refund follows and may fail | nobody is paid from a refunded task; a refunded task holds no funds |
| Reputation: `reputation/*`, `supabase_client.py:914` | score, outbox of side effects | update, enqueue, retry | read-modify-write; retries | no lost update; each effect once |
| Verification: `api/routers/workers.py`, `verification/*`, `lambda/ring1`, `lambda/ring2` | a submission's checks and arbiter verdict, two SQS queues with dead letters | phase A, Ring 1 checks, Ring 2 arbiter | redelivered and duplicated messages, killed Lambdas, failing calls, new evidence in the same row | a result belongs to the evidence; errors fail closed; every result is judged once |
| Webhooks: `webhooks/*` | registrations, deliveries | send, retry, disable | retry schedule | bounded retries, at least once |
| Events, WebSocket, chat: `events/*`, `websocket/*`, `chat/*` | in-process subscriptions | publish, subscribe | fan-out | best effort |
| A2A: `a2a/task_manager.py` | none of its own | map states | - | total mapping |
| Swarm: `swarm/*` | in-memory fleet | lifecycle, budget, scheduling | counters at limits | budget is not exceeded |
| Audit: `audit/lifecycle_validator.py`, `audit/checkpoint_updater.py` | checkpoint columns | validate a transition (log only) | - | states which task transitions are legal |
| Clients, contracts, UIs, infrastructure | - | - | - | - |

The parts interact through rows: a review handler calls the dispatcher, then
writes submission and task; the cancel handler refunds, then writes the task; the
jobs poll tasks and escrows and call the same dispatcher; the reconciler looks
only at escrows and at the chain.

`PROJECT.json` lists each part with its status, and under `hazards` each place
where this code can go wrong in a way a test hardly reaches.

## 2. Modules

| module | what it is |
|---|---|
| `EscrowContract` | what the settlement of one escrow promises: asked for only under a claim, carried out once, closed only when empty, closed for good |
| `EscrowSettlement` | the settlement of one `escrows` row in `direct_release` mode: every kind of caller, the claim, the facilitator, the chain, the reconcilers; its properties |
| `MCEscrowSettlement` | model values and symmetry for TLC |
| `EscrowSettlementProofs` | theorems about `EscrowSettlement`: types, the claim, the released row |
| `EscrowContractProofs` | theorems about `EscrowSettlement` as a whole, and that it implements `EscrowContract` |
| `TaskLifecycle` | one task from assignment to its end, request by request and call by call, with the expiration job; a settlement is taken from `EscrowSettlement` at the level of its contract; its properties |
| `MCTaskLifecycle` | model values and symmetry for TLC |
| `TaskLifecycleProofs` | theorems about `TaskLifecycle` for concurrent requests |
| `TaskSequentialProofs` | lemmas about it for one handler: where a step leads, executor, payout, verdicts |
| `TaskEscrowProofs` | theorems about it for one handler: payouts, the escrow row, closed tasks |
| `H2AEscrow` | a human publisher's escrow task with sign-on-assignment: marker, lock, several rows, review, cancellation, expiration |
| `AutoPayment` | the payment retry job beside repeated approvals and an administrator's retries |
| `VerificationQueue` | the checks of one submission: request handler, Ring 1, Ring 2, and the two queues between them |
| `MCH2AEscrow`, `MCAutoPayment`, `MCVerificationQueue` | model values for TLC |
| `H2AEscrowProofs`, `AutoPaymentProofs`, `VerificationQueueProofs` | theorems about these three modules |

### EscrowSettlement and the code

One row of `escrows`, one deposit on chain, any number of callers and reconcilers.
A caller is one coroutine: its `pc` names the await or database call it is about
to make, `call` holds the locals that survive it. Each database call is one
action; what the code does between two calls belongs to the action that ends
there. `Crash` ends a caller at any step and keeps what it has written.

| model | code |
|---|---|
| `status`, `claimPrev`, `hasInfo`, `aged` | `escrows.status`, `metadata.claim_previous_status`, presence of `metadata.payment_info`, age of the claim against `STUCK_CLAIM_THRESHOLD` |
| `chain`, `mempool` | where the deposit is; transactions the facilitator has broadcast (external, as the dispatcher uses them) |
| `ledger`, `disbursed` | release rows in `payments`; payments from the platform's wallet |
| `Start`, `LedgerRead`, `CheckRow` | what each caller reads before it calls the dispatcher (`_helpers.py:1325-1483`, `tasks.py:2739-2800`, `h2a.py:1540-1600`) |
| `ClaimRead`, `ClaimCas`, `TakeClaim`, `LoseClaim`, `Refused` | `_claim_escrow_operation` and the two blocked-claim results |
| `Rebuild`, `NoClient`, `Send`, `Reply*`, `QueryChain`, `Rollback`, `Disburse` | `release_direct_to_worker`, `refund_trustless_escrow`, `_release_fase2`, `_refund_fase2`, `facilitator_retry`, `_release_claim_rollback` |
| `Record`, `WriteResult` | the payments row and the unconditional `UPDATE escrows SET status` of each caller |
| `Mine`, `Age` | the escrow contract; the clock |
| `Recon*` | `reconcile_stuck_claims`, one loop per process |

`deposited` stands for every status from which the code settles; `partial_released`
only differs in the amount. The facilitator may act on a request and answer
anything, or not answer: `ReplyOk` is possible only when the transaction was
mined (the code believes `success`, and the facilitator answers after the receipt),
`ReplyFail` and `ReplyRetry` always. A claim grows old (`Age`) only when no caller
is in the middle of a settlement: the facilitator's calls are clamped to 30 s and
tried three times, the threshold is 15 minutes. The variants that precede some
definitions (`TakeClaimUnpinned` and the like) are plausible wrong versions, each
used to show that a property depends on the right one. `LedgerRead` goes on when its
look-up fails, as the code does: a failed query reads as no payment
(`_helpers.py:408`), and the claim alone guards the row.

`reconcile_escrows`, the other half of the reconciler, marks zero-amount rows as
`failed`; no funds are behind such a row and it is left out.

### TaskLifecycle and the code

One task in `direct_release` mode, as many submissions as workers. A handler is
one request, a job one expiration loop; `pc` names the database call or await it
is about to make, `req` holds its locals. The first read and the checks on it are
the action that begins a request; every later call is one action.

| model | code |
|---|---|
| `task` | `tasks.status`, `tasks.executor_id`, and whether `tasks.escrow_tx` is a transaction hash (before a lock it holds a payment reference) |
| `escrow`, `lock` | `escrows.status` and the receiver in `payment_info`; the funds on chain for each worker. The publisher locks for a worker (`LockFunds`, external) and sends the transaction with the assignment |
| `verdict`, `latest`, `paid` | `submissions.agent_verdict`, the newest submission, final rows in `payments` |
| `Assign` ... `Guard` | `assign_task_to_worker` and `db.assign_task`: the escrow look-up, the update by id, the record of the lock, the ESCROW GUARD |
| `Submit` ... `Submitted` | `db.submit_work`; the insert also fires the trigger that moves the task |
| `Approve` ... `Complete` | `approve_submission`, `_settle_submission_payment`, `db.update_submission` |
| `Reject` ... `Reopen`, `MoreInfo` ... `Resume` | `reject_submission`, `request_more_info_submission`; a major rejection publishes the task again and clears its executor |
| `dispute`, `Dispute` ... `DisputeVerdict` | `disputes`; `create_dispute`: the check for an open dispute, the insert, whose trigger moves the task, the verdict `disputed` |
| `Resolve`, `ResolveWrite` | `resolve_dispute`: a refund or a split; a refund closes the task by trigger and then claims |
| `Cancel` ... `CancelWrite` | the cancel endpoint and `db.cancel_task`, which reads and checks again |
| `Overdue`, `Deadline`, `Expire` | `jobs/task_expiration.py`: the list of overdue tasks, a submitted task, the update by id |
| `Claim`, `SendOk`, `SendFail`, `Book` | a settlement at contract level: one claim, then the funds move and the row is closed, or the claim is given back |
| `lost`, `Mine` | settlements that were sent and not answered: `SendFail` gives the claim back and leaves them, the chain carries one out at any later time (external) |
| `Reconcile` | with the signing key, a claim whose holder stopped is resolved from the chain: gone means settled as claimed, whatever emptied it |
| `Crash` | a process stops, or a call fails and its error ends the request |

`Settling` keeps `Reconcile` away from a claim in progress: that is what
`LiveClaimKept` and `ClaimExclusive` of `EscrowSettlement` establish. A settlement whose
answer is lost (`payment_dispatcher.py:1977-2110`, `2310-2347`) fails for the request while
its transaction may still be mined: the work can then be rejected, refunded by a dispute
or assigned again before `Mine` pays it, and the properties name that case. A later
settlement of the same lock reverts, and so does what is left in `lost` once a lock is
settled. A release that timed out over an empty escrow is confirmed with the stand-in
`timeout-verified-onchain`: `_helpers.py:1513` finds no transaction hash in it and fails the
request with the row still claimed, which is one of `SendFail`'s outcomes; `h2a.py:1598`
accepts it, which is `TimedOut` of `H2AEscrow`. Asking the chain needs the signing key
(`ServerSigning`); production has none.

`Faults` lets processes stop, writes fail, the facilitator refuse and its answers be lost. `ReadFaults`
lets the look-ups fail whose error the code takes for an empty answer: the
escrow of an assignment, the payments of a submission, and in the expiration job the latest
submission (`task_expiration.py:355`) and its payment (`_helpers.py:1259`). They have a switch of their
own because together with other faults they break more: an assignment goes on over a
released row, and `SinglePayout` no longer holds.

In `Deadline` a submission that is not yet paid makes the job fall through to
expiry: in `direct_release` there is no payment header, which the job counts as a
permanent failure. The job tries its refund `MaxJobRefunds` times, three in the code
(`task_expiration.py:115-172`), and takes a refund by somebody else for its own.
`update_task` never refuses a transition: the validator only logs. The trigger of
migration 013 (a first submission moves the task) is modelled, the one of migration
063 does nothing unless a key is set in `platform_config`, and is left out.

`create_dispute` and the release verdict of `resolve_dispute` read `submissions.status`, which
no migration creates: the first reads NULL from `SELECT *` and refuses nothing,
the second selects the column, gets an error and ends before it writes. Ring 2
no longer opens disputes (`processor.py:188`), `escalate_to_human` is not reached.

Left out: the status `verifying`, the locks signed by the server or relayed for the agent, and the checks of identity, reputation and evidence.

### H2AEscrow and the code

One task in escrow mode. Its publication inserts the marker or deletes the task, so
that `Init` has the task and its marker. `rows` is the sequence of the task's
`escrows` rows: `task_id` is not unique there (migration 015 declares it so in a
`CREATE TABLE IF NOT EXISTS` after migration 002 has created the table), and
`lock_with_fresh_auth` inserts a second row when it finds the marker taken.
A look-up without an order may find any row (`Found`), a claim takes the newest
(`Newest`), an update by id hits all.

| model | code |
|---|---|
| `task`, `verdict`, `late` | as in `TaskLifecycle` |
| `rows`, `chain` | `escrows` rows with the lock in `payment_info`; the funds of each authorisation. `pending` is `pending_assignment` |
| `lost`, `Mine` | as in `TaskLifecycle`: settlements sent and not answered |
| `Assign` ... `TakeBack` | `assign_h2a_worker` and `lock_with_fresh_auth`: the task is accepted first, the lock made, its row updated or inserted; anything that fails publishes the task again |
| `Submit` ... `Submitted` | `db.submit_work` |
| `Approve` ... `AcceptWork`, `Reject` ... `Close`, `Revise` ... `Resume` | the three verdicts of `approve_h2a_submission`; a rejection is written first and then refunds and cancels |
| `Cancel` ... `Close` | `cancel_h2a_task`: free while there is a marker, else by way of a refund |
| `FindLock` ... `Book`, `Reconcile` | look-up and settlement, at contract level as in `TaskLifecycle` |
| `TimedOut` | a release that times out, finds the escrow empty and is taken for confirmed, with the key only |
| `Overdue`, `Expire` | the expiration job, which claims whatever row is newest, the marker too |

An authorisation is used once and names its receiver, as the EIP-3009 nonce does.
An approval that finds no escrow needs signatures which an escrow-mode publisher
does not send, and ends.

### AutoPayment and the code

Submissions that are accepted and unpaid, of tasks without a `direct_release`
escrow; the worker is paid by `settle_task_payment` with a fresh signature from the
platform's wallet, so that only the database stands against a second payment.

| model | code |
|---|---|
| `made`, `funded` | how the task was funded: `metadata.payment_mode`, a stored header, a releasable escrow |
| `tx`, `retries`, `ledger`, `closed` | `submissions.payment_tx` and `retry_count`, a final row in `payments`, a terminal task |
| `Fetch`, `Fetched`, `Eligible`, `Chosen` | `_fetch_orphaned_submissions`: LIMIT first, filters after; a cycle waits for its coroutines |
| `Mode` ... `CountWrite` | `_retry_settlement` and its helpers, `Retry` the administrator's way in |
| `Approve` ... `Fields` | `_settle_submission_payment` for a submission accepted before |
| `paid`, `excuses` | transfers to the worker; faults that touched a submission (history) |

`retry_count` is read and then written: `increment_retry_count`, which the code calls
first, exists in no migration. Writes marked "best effort" in the code are `Try`. A retry
that finds no payment SDK ends without being counted (`auto_payment.py:302`, `388`).

### VerificationQueue and the code

One submission row, through rounds of evidence. A Ring 1 message carries the evidence
it was sent for (`v`) and the result of Phase A; Ring 2 messages carry what only the
arbiter reads, so that they are counted by the receives behind them.

| model | code |
|---|---|
| `row` | `submissions`: the evidence, `auto_check_details.ring1_status`, `auto_check_passed`, `arbiter_verdict`; `of` (history) is the evidence the checks are about |
| `Submit` ... `PublishRing2` | the submit handler of `api/routers/workers.py`: Phase A, then Ring 1 for media, else a status and Ring 2 |
| `Receive` ... `TellRing2` | `lambda/ring1`: idempotency check, mark, checks, write, hand over; `_write_error` for final errors and for whatever was raised |
| `Returned`, `Bury`, `Duplicate`, `Kill` | SQS: redelivery up to `maxReceiveCount`, dead letters, at-least-once delivery; a Lambda that is stopped |
| `Take` ... `PersistError` | `lambda/ring2`: idempotency check and master switch, the arbiter, the verdict or the permanent error |
| `copy`, `AppendRead`, `AppendWrite` | `emit_verification_event` of the Lambdas and of the arbiter when the function of migration 121 fails: all of `auto_check_details` is read and written back, `ring1_status` with it (`ring1/supabase_helper.py:205`, `ring2/supabase_helper.py:248`); the arbiter's helper also writes `auto_check_passed` from the details (`says`) |
| `mishaps` | history: failures that the code logs and goes on from; the properties name those they do not survive |

Submit requests may overlap (`Submits`): once more information was asked for, a second one
runs beside the first's Phase A, and what it finds under way is the mishap `overlap`. An event
appended by the database function changes nothing else in the row and has no action; `Appends`
are the appends that rewrite, with `rewritten` for those that change the row.

The master switch is on: with it off, messages are consumed. The columns of the AI
result and of the hashes and the administrator's requeueing are left out, and so is the
sweep of orphans in `task_expiration.py:483`: it selects `submissions.status`, a column
that no migration creates, so that its query fails and it does nothing.

## 3. Properties and runs

All runs use the constants in their `.cfg`. For settlement, "faults" are failing database calls,
before or after taking effect; crashes and lost answers are always possible.

| run | instance | shows |
|---|---|---|
| `escrow_faults` | 2 callers of any kind, 1 reconciler, faults, rows with and without `payment_info` | `ClaimExclusive`, `LiveClaimKept`, `ReleasedLeftEscrow`, `RecordedOnce`, and under `FairSpec` `ClaimResolved`: every stranded claim is resolved |
| `escrow_clean` | the same without faults, with `payment_info` | `ClosedLeftEscrow`, `ClosedFinal`, and `ContractKept`: the system implements `EscrowContract` |
| `escrow_production` | no signing key, 2 reconcilers, faults | `ReleasedIsPaid` |

The lifecycle's runs. "Sequential" is one request at a time beside the expiration
job; "concurrent" is two requests and the job.

| run | instance | shows |
|---|---|---|
| `lifecycle_sequential` | 2 workers, 1 handler, 1 job, all requests but more information, `Faults`, with the key | `SinglePayout`, `ClosedRowSettled`, `AssignedOnce`, `RefundedPaysNobody` |
| `lifecycle_concurrent` | 1 worker, 2 handlers, 1 job, assignments, submissions, reviews and disputes, `Faults`, `ReadFaults`, with the key | `AcceptedIsPaid` |
| `lifecycle_live` | 2 workers, 1 handler, 1 job, `FairSpec`, `ReadFaults` only | `OverdueClosed`, `RejectedUnpaid`, `CancelledUnlocked`, `RefundedUnlocked`, `CompletedStays` |

The other components' runs.

| run | instance | shows |
|---|---|---|
| `h2a_faults` | 2 workers, 1 authorisation each, 1 handler, 1 job, `Faults`, `ReadFaults`, with the key | `AcceptedIsPaid`, `ClosedRowTrue`, `RejectedNeverPaid` |
| `h2a_live` | 2 workers, 2 authorisations each, 1 handler, 1 job, `FairSpec`, no faults | `AcceptedWorkerPaid`, `LockKnown`, `ClosedEmpty`, `FundsLeave` |
| `auto_payment` | 2 submissions, 1 loop, 1 handler, one process at a time, `FairSpec` | `RecordedIsPaid`, `PaidAgainOnlyAfterFault`, `HeadServed` |
| `verification` | 2 rounds of evidence, 2 Ring 1 messages, 2 receives, 2 Ring 2 Lambdas, 1 rewriting append, 1 fault, `FairSpec` | `CheckOfEvidence`, `FailsClosed`, `VerdictFinal`, `CompleteIsJudged`, `RunEnds` |

The runs below end in a counterexample: a comment or docstring of the repository
says one thing, the code does another (`findings` quotes the line).

| run | the code says | what happens |
|---|---|---|
| `paid_twice` | "1-TX, fee split on-chain" | the MCP approval pays from the escrow and again from the platform's wallet |
| `verification_gives_up` | "Permanent errors: write to DB, return success" | the verdict `error` violates the table's CHECK constraint, the refusal is logged, the message is gone, the row keeps nothing |

**What the conditions of the passing runs leave out.** A property that holds in a
run may fail when the run's constants are changed; each of these was tried, and
can be reproduced by editing the `.cfg`.

- `ReleasedLeftEscrow` survives every fault: the code writes `released` only after a
  confirmed answer or an empty escrow. That the emptying was a release
  (`ReleasedIsPaid`) is certain only when nobody guesses from `capturableAmount`
  (`payment_dispatcher.py:2023`), that is without the key: with it, a release that
  times out after an unacknowledged refund marks the worker as paid.
- `ClosedLeftEscrow` needs `payment_info`: without it a refund reports success and moves
  nothing (`payment_dispatcher.py:2232`).
- `ClosedFinal` needs a database that answers: a claim that took effect and was
  reported as failed lets the reconciler and a second caller meet.
- `ClaimExclusive` and `LiveClaimKept` need a single reconciler: the CAS of
  `escrow_reconciler.py:259` compares the status only, so that a slow loop of a second
  process undoes a newer claim of the same name, though the comment at line 248 says "concurrent progress is
  never clobbered".
- A refund whose answer is lost is carried out, though `payment_dispatcher.py:2336`
  says that it "did NOT happen", and its claim is given back.
- `ClaimResolved` needs the key: without it the MCP tools claim the row and only then fail to
  create their client (`payment_dispatcher.py:3634`), and the reconciler skips what
  it cannot query, although its comment says that without remediation "such rows block all
  retries forever".
- That a payment is recorded at all is not a property: a release confirmed after a
  timeout has no hash, the approval asks for a retry (`_helpers.py:1513`), and
  every retry meets a claimed or closed row.
- `AssignedOnce` excepts the race of two assignments: both read `published` and the later write
  replaces the first worker. Migration 051 means to prevent this with a unique index, but on
  `tasks(id)`, the primary key. The exception is never taken with the run's one handler; the theorem is for any number.
- An unanswered release is carried out whatever happens to the work meanwhile. The claim was given back,
  so that a second worker can be assigned and paid (`SinglePayout`), or the dispute resolved as a
  refund (`RefundedPaysNobody`); both properties except a release in `lost`, and nothing else.
- `ClosedRowSettled` says where the funds went only without the key, as deployed: with it,
  the reconciler takes an escrow that an unanswered refund has emptied for the release of a later claim. The
  run has the key, so that the reconciler runs too, and shows that nothing stays locked; the other half is proved, and
  the run passes with `ServerSigning = FALSE`.
- `RejectedUnpaid` fails with `Faults`: an approval that paid and could not write
  its verdict (`submissions.py:334`) leaves work that can be rejected.
- `CancelledUnlocked` fails with two handlers: the cancellation read the escrow before an
  assignment recorded its lock. With faults the cancellation carries on when its
  refund fails, as the code intends.
- `RefundedUnlocked` fails with `Faults`: the refund of a resolved dispute is attempted once,
  its failure is reported as "pending" (`disputes.py:1079`), and neither the job nor a cancellation
  looks at a refunded task.
- A dispute can be opened on work that was paid, though `disputes.py:550` says "can't
  dispute a settled submission"; resolved as a refund, the completed task then reads
  `refunded` over a released escrow. `CompletedStays` therefore excepts disputes.
- A disputed task whose dispute is split, or is never resolved, keeps its funds locked: the job
  and the cancellation pass over `disputed`, and the worker's work reads `disputed`,
  which approval refuses. `OverdueClosed` therefore accepts `disputed` as an end.
- `CompletedStays` excepts the expiration job, which expires by id a task that was
  completed after it was listed (`task_expiration.py:73`); with two handlers a late
  write of a submission (`supabase_client.py:1250`) also breaks it.
- `OverdueClosed` fails with two handlers and with faults: a task left at `submitted`
  with its latest submission accepted is counted as handled by the job in every
  cycle (`task_expiration.py:447`).
- The accepted worker need not be the one who is paid: after a major rejection
  `tasks.escrow_tx` stays, the guard of `tasks.py:4081` lets a second worker in without
  a lock, and the approval of their work pays the first, though `submissions.py:173`
  says that approval will "settle payment to the worker's wallet".
- The cancellation of an expired task, which `tasks.py:2781` allows ("Allow cancel+refund for
  expired tasks"), refunds it and is then refused by `db.cancel_task` (`supabase_client.py:417`).
- A closed and refunded task can be opened again by a late write of a submission
  or by a request for more information; `OverdueClosed` says that it closes
  again once its deadline has passed.

`AcceptedIsPaid` is what survives every interleaving and every fault of the
lifecycle, lost answers included: each handler settles before it writes, and without a
transaction hash it does not write. `SinglePayout` and
`ClosedRowSettled` hold request by request and not with two at once: a second
assignment replaces the escrow row while a settlement of the first lock is in
flight. Nor does `SinglePayout` hold with `Faults` and `ReadFaults` together: after a payment whose
verdict was not written the work can be rejected, which publishes the task again, and an
escrow look-up that fails lets an assignment replace the row that has paid. `ClosedRowSettled`
does: it speaks of the lock that the row names now.

For `H2AEscrow`:

- With two handlers, two assignments can both lock and both workers be paid; an
  assignment under way locks a task whose marker a cancellation closes "so the task can
  never lock later" (`h2a.py:1961`).
- With faults, a relay whose answer is lost leaves a lock that no row names. A lock whose last write
  fails publishes the task again over a deposited row: the next assignment is
  a legacy one, and the second worker's approval pays the first.
- The expiration job claims the marker as if it were a lock. An assignment that ends
  after the deadline then locks funds behind an expired task, and the cancellation
  refuses expired tasks: `LockKnown` says that a row names the funds, `FundsLeave`
  speaks of open tasks only.
- `ClosedRowTrue` and `ClosedEmpty` speak of tasks with one row. With two, a claim may
  take several and a result is written to all of them. With one row `ClosedRowTrue` holds
  for any handlers, jobs and faults; where the funds went it says without the key only, as `ClosedRowSettled`
  does, and that half is proved; the run passes with `ServerSigning = FALSE` too.
- With the key, a refund whose answer was lost empties the escrow; the approval's release times out, finds
  nothing, returns `timeout-verified-onchain`, and `h2a.py:1598` takes it for a hash: the work reads accepted
  and nobody was paid. `AcceptedIsPaid` excepts this, a refunded lock with the key, and holds
  without exception in production.
- A release that timed out after its broadcast is rolled back; if the publisher then rejects and the
  release is mined, the rejected worker is paid. `RejectedNeverPaid` excepts a release of that lock
  which was sent before and not answered. With two handlers an approval and a rejection can
  overlap, and it fails.
- The docstring of `approve_h2a_submission` says that for a rejection "NO escrow operation happens"
  (`h2a.py:1426`); the code refunds, and `RejectedNeverPaid` relies on it.

For `AutoPayment`:

- With `Overlap`, `PaidAgainOnlyAfterFault` fails without any fault: two loops, or the job
  beside an approval, both read an unpaid submission and both pay. They also lose counts.
- A payment that is made and whose `payment_tx` cannot be written is not counted as
  a retry: as long as the write fails, every cycle pays again.
- `HeadServed` speaks of the head of the queue. Orphans that are out of retries, closed
  or without a header stay in the query's LIMIT; enough of them stop the job.
- The publisher's header is settled first and the worker is paid even if that
  fails (`sdk_client.py:1755`): who pays the platform is not a property here.

For `VerificationQueue`:

- `VerdictFinal` is checked with two Ring 2 Lambdas; Terraform reserves five. Two that both found no verdict in the row
  evaluate a duplicate, and the later overwrites the earlier, though Ring 1 calls
  duplicates "harmless" (`lambda/ring1/handler.py:643`). The property says that this race is all:
  once a verdict is there no evaluation begins, and only one that had begun replaces it.
- A verdict is never reset: new evidence after a revision meets the verdict about the old,
  and Ring 2 skips it.
- `CheckOfEvidence` excepts evidence sent while a message or a request about the old is under way:
  that delivery or request overwrites the cleared checks, and the check of the new is skipped.
- An event that is appended by rewriting puts back the `ring1_status` it read: `complete` of older
  evidence after Phase A has cleared it, or `running` after the run has ended, and no later message
  corrects it. `CheckOfEvidence`, `FailsClosed` and `RunEnds` except a rewrite that changed the row
  (`rewritten`); a rewrite that finds the details as it read them is harmless and not excepted.
- `RunEnds` and `FailsClosed` also except an error that could not be written, which is only
  logged, and a Lambda killed on its last receive; `CompleteIsJudged` excepts the
  best-effort publications, an unreadable master switch and the permanent errors of
  Ring 2. A failed hand-over does not take the idempotency branch that the comment at line 906
  expects: the handler first writes `error` over the result, and the
  redelivery repeats the checks.

**Bounds.** Two callers suffice for every race on one row: a third would have to
hold the claim at once with another, which `ClaimExclusive` excludes and the proof
shows for any number. One reconciler or two, as the question asks. The claim tries
and the sends are the code's own 3, the job's refunds are the code's 3 in `EscrowSettlement`. In the
lifecycle and in `H2AEscrow` `MaxJobRefunds` is 1 or 2 instead: 2 is enough for a refund to be tried again
after one that failed, and 1 leaves the last attempt, which the theorems do not depend on. Counters have no other bound:
`ledger` and `disbursed` stay finite because a settlement happens once per row. In the lifecycle nothing else is counted, so its state
space is finite without bounds: a process returns to `idle` with its locals reset.
One dispute row (`Disputes`) is enough for a
dispute to meet every other request; with none left, opening one ends without effect.
Two workers let a second assignment meet what the first left behind, two handlers
and the job any race of two writers with a third; the concurrent run has one worker,
since `AcceptedIsPaid` does not tell workers apart and the proof covers any number. `AssignedOnce`
with two handlers and two workers was run with assignments, submissions and rejections only, by editing the `.cfg`.
Deadlock is not checked there: a closed and settled task receives no further request, and
without requests the program waits.
In `H2AEscrow` the authorisations are bounded by `MaxSigned` for each worker: one lets a
second worker follow the first, two a worker be chosen again after a failed lock.
`AutoPayment` has `N` = 2 submissions and `Batch` = 1, so that the older orphan
takes the younger one's place, 2 retries instead of 10, one request and one fault
per submission: the limit, a second payment and its excuse are all reached.
`VerificationQueue` has two rounds of evidence and two Ring 1 messages, which are a
round each or a duplicate, two Ring 2 Lambdas and two verdicts, so that a replaced verdict shows; 2 receives
instead of 3, and one fault: any one call may fail, one Lambda be stopped or one event be appended by rewriting,
and the redelivery then finds what that left. With two Lambdas a second fault does not fit the time of a run; with
one Lambda and one verdict the run passes with `MaxFaults = 2`, where the last receive fails too and
messages reach a dead-letter queue. `Results` is `{TRUE}`: a failed result only
makes `FailsClosed` easier. The run has one submit request at a time; it also passes with `Submits = {s1, s2}`, and the theorems
are for any number.
`escrow_faults` has no symmetry, since it checks a liveness property.
Deadlock is not checked in these runs either: a closed task and empty queues wait.

**Fairness.** `FairSpec` assumes weak fairness of a running caller (a coroutine is
scheduled; a crash may still end it), of the clock, and of the loop's read (the loop runs
every `RECONCILE_INTERVAL`). Its query and its writes are strongly fair: each may
fail in any cycle, but not in all of them. Nothing assumes that a message arrives, that
a transaction is mined or that a caller starts.
`FairSpec` of the lifecycle assumes that a request that has begun goes on and that
the expiration loop comes round to an overdue task; not that anybody sends a
request, nor that the publisher locks funds, nor that the reconciler runs. That of
`H2AEscrow` assumes the same, and that the deadline passes. In `AutoPayment` a
coroutine goes on and the loop comes round (`RETRY_INTERVAL`); in `VerificationQueue` a
waiting message is delivered and a Lambda goes on until it ends or is stopped (`MaxFaults`
bounds how often). Nothing is assumed of workers, publishers or administrators.

## 4. Proofs

Every invariant and every action property that a passing run checks is also a
theorem, for every value of the constants that satisfies the module's named
assumption (`SettlementConstants`, `LifecycleConstants`, `H2AConstants`,
`AutoPaymentConstants`, `ConstantsAssumption`): any number of callers, workers, requests,
jobs and messages, any bounds. The hypotheses in the tables below are the conditions of
the runs or weaker: "one handler" is `\A g, h \in Handlers : g = h`, and
so on. They are needed: for each of them TLC finds a counterexample on two workers or
two callers when it is dropped; section 3 explains most of these. Lost answers, late
transactions and rewritten events are in the models, not in the hypotheses.

Each proof has the same shape: an inductive invariant made of named parts,
`Init` establishes it, `[Next]_vars` preserves it, it implies the property. Frame lemmas
come first (`RequestMoves`, `JobMoves`, `Others`, `Ends` and the like: which steps an
action leads from and to, and what it leaves alone), so that the preservation lemmas
open only the actions that can disturb a part. TLC checked every part on a small instance before it was proved.

### Settlement: `EscrowSettlementProofs`, `EscrowContractProofs`

| theorem | states | hypotheses |
|---|---|---|
| `TypeCorrect` | `TypeOK` | |
| `ReleasedRowIsEmpty` | `ReleasedLeftEscrow` | |
| `OneClaimAtATime` | `ClaimExclusive` and `LiveClaimKept` | one reconciler |
| `ReleasedRowIsPaidWithoutKey` | `ReleasedIsPaid` | no signing key |
| `LiveClaimIsKept` | `LiveClaimKept` | one reconciler |
| `PaymentRecordedOnce` | `RecordedOnce` | one reconciler |
| `ClosedRowIsEmpty` | `ClosedLeftEscrow` | the database answers, rows carry `payment_info` |
| `ClosedRowIsFinal` | `ClosedFinal` | the same, and one reconciler |
| `SettlementImplementsContract` | `ContractKept` | the same, and one reconciler |

- `ReleasedLeftEscrow` is not inductive: a caller about to write `released`, and a
  reconciler about to advance a claim, must have seen the funds gone, and a row
  never remembers a closed status as the one to go back to. `ReleaseSure` and
  `SeenOpen` say so; funds never return to the escrow, so what was seen stays true.
- `ClaimExclusive` needs `ClaimGuarded`: the row of a live claim is blocked and
  young, so nothing else claims it and the reconciler does not pick it up; while the
  reconciler is at work the row stays blocked and nobody owns it. The single
  reconciler matters where one has just written: a second could still hold a
  reading of the same claim.
- `ReleasedIsPaid` needs `PaidSure`: whoever is about to write `released` has seen
  the release itself; without the key no step reads `capturableAmount`.
- `ClosedLeftEscrow` needs `Emptied`: everybody who is about to close the row, as a refund
  too, knows that the funds have left. A call that fails can pass for an empty answer
  (`noState`); hence the database that answers.
- `RecordedOnce` needs `RecordGuarded`: once a payment is on record, the row is
  blocked or closed, its last owner only has to write the result, and a reconciler
  finds the escrow empty, so nobody comes to settle again.
- `ClosedFinal` and the refinement need `RowNamesOwner`: the row names the
  operation of the caller that holds its claim, and who writes late writes what the row
  says already. The refinement is shown step by step: each action of a caller, of the
  chain or of the reconciler is a step of `EscrowContract` or leaves its variables alone.

### Task lifecycle: `TaskLifecycleProofs`, `TaskSequentialProofs`, `TaskEscrowProofs`

| theorem | states | hypotheses |
|---|---|---|
| `TypeCorrect` | `TypeOK` | |
| `AcceptedOnlyIfPaid` | `AcceptedIsPaid` | |
| `AssignmentIsExclusive` | `AssignedOnce` | |
| `ClosedRowIsTrue` | `ClosedRowSettled` | one handler |
| `OnePayout` | `SinglePayout` | one handler, `ReadFaults => ~Faults` |
| `RefundIsFinal` | `RefundedPaysNobody` | the same |
| `RejectedNotPaid` | `RejectedUnpaid` | one handler, `~Faults` |
| `CancelledIsUnlocked`, `RefundedIsUnlocked` | `CancelledUnlocked`, `RefundedUnlocked` | the same |
| `CompletionStays` | `CompletedStays` | the same |

"One handler" leaves any number of jobs, and the reconciler, at work beside the
requests. `ReadFaults => ~Faults` says that either kind of failure may occur, but not both.

- `AcceptedIsPaid` speaks of rows; a process that has paid and has not yet written its
  verdict is covered by `ControlInv`: at every step after the payment (`AfterPay`) some
  lock has been released by a call that was answered (`PaidBy`: released, and no release in
  `lost`). A settled lock stays as it is, so what the process saw stays
  true under every other process and under `Mine`. `Fits` says which request can be at which step (only an
  approval reaches `book` with a release), and `PayeeKnown` that a row that can be
  claimed names a worker, which makes the claimed payee one. The lemma `Move` carries
  the control part for all actions that move one process; each action then shows
  only what it does to the rows.
- `AssignedOnce` needs `Unassigned`: a published task has no executor, whoever published it. So an assignment that replaces
  a worker finds a task that is not published, and its request had read that it was
  (`LateAssignment`).
- `SinglePayout` and `RefundedPaysNobody` need `PayoutInv`. `JobsExpire`: jobs never
  approve. `PaidOut`: once a lock is released by an answered call the row names it, reads `releasing` or
  `released`, and no handler is at a step that would replace the row or settle it again.
  `OwnRelease`: the row that is being released is the handler's own claim.
  `ApprovalOpen`: an approval is served while the task is not refunded.
  A look-up that fails is harmless as long as no assignment can be under way after
  the payout (`AssignUnpaid`): without faults the task is never published again
  then, which `AfterRelease` says. What is paid without an answer is the exception of both properties.
- `RejectedUnpaid` needs `ReviewInv`: a paid submission has its verdict or the handler is
  about to write it, and nobody who turns down a submission turns down a paid one.
- `ClosedRowSettled` needs `RowInv`. A lock that was settled stays as it is (`LocksStay`), and an assignment
  names a lock that exists (`FreshLock`). From its claim to its result the handler's row names the
  lock it settles (`HandlerSettles`): only an assignment names another, and the one handler cannot be at both. So what is
  booked is what happened; the reconciler closes only what is not locked (`RowNamed`), and without the key
  it closes nothing.
- `CancelledUnlocked` and `RefundedUnlocked` need `Owned`: funds still locked behind a claim,
  or behind the deposited row of a task that was called off, are about to be settled
  by somebody.
- `CompletedStays` needs `OpenIsAssigned` and `AfterRelease`: once the funds are paid out the
  row refuses assignments, submissions and cancellations, and the verdicts left to
  write are the approval's own.

### Escrow tasks of human publishers: `H2AEscrowProofs`

| theorem | states | hypotheses |
|---|---|---|
| `TypeCorrect` | `TypeOK` | |
| `AcceptedWorkIsPaid` | `AcceptedIsPaid` | |
| `ClosedRowIsTrue` | `ClosedRowTrue` | |
| `RejectedWorkerUnpaid` | `RejectedNeverPaid` | one handler |
| `AcceptedWorkerIsPaid` | `AcceptedWorkerPaid` | one handler, `~Faults` |
| `LocksAreKnown` | `LockKnown` | one handler, `~Faults` |
| `ClosedIsEmpty` | `ClosedEmpty` | one handler, `~Faults`, `~ReadFaults` |

- The first three hold for any requests and jobs at the same time. `AcceptedIsPaid` needs
  `ApprovalKnows`, what an approval has seen at each step (a worker paid or, with the key, an empty escrow
  that a refund has emptied: `Settles`), and `MarkerUnsigned`: a task whose
  newest row carries no authorisation was never deposited, so that an approval does not
  settle a marker.
- `ClosedRowTrue` needs `SettledTruly`. `SignedClaim`: only the job claims an unsigned
  marker. `RowsUsed`: what a row or a claim names was locked. `GoneStays`: settled funds stay
  as they are. `Told` is what a closed row says of them. `RowTells` and `SettlerAlone`: of a task with one row,
  what each status says of the funds, and that one process at a time settles it and knows what it books.
- `RejectedNeverPaid` needs `ReviewSound`: verdicts are only of the executor, there are none
  before somebody is assigned for good, and an approval on its way is of work that waits. A
  step that pays is then either that approval's or `Mine`, which is the exception.
- `AcceptedWorkerPaid` needs `OneLock`: without faults a task is locked once, for its
  executor, and not published again; so the row an approval pays names its worker.
- `LockKnown` needs `RowsOpen` (before anything is settled no row is closed and every
  deposit is signed) and `Known`: every lock is being recorded, is recorded or is being
  settled.
- `ClosedEmpty` needs `CancelEmpty`: whoever closes a task with one row has found nothing
  locked, or a job is about to return it. A cancellation whose look-up fails takes
  that for "no escrow" and closes over a lock.

### Auto-payment: `AutoPaymentProofs`; verification: `VerificationQueueProofs`

| theorem | states | hypotheses |
|---|---|---|
| `TypeCorrect` (both) | `TypeOK` | |
| `RecordedOnlyIfPaid` | `RecordedIsPaid` | |
| `PaidOncePerFault` | `PaidAgainOnlyAfterFault` | (the property speaks of `~Overlap`) |
| `ResultIsOfEvidence` | `CheckOfEvidence` | |
| `ErrorFailsClosed` | `FailsClosed` | |
| `VerdictIsFinal` | `VerdictFinal` | |

- `RecordedIsPaid` needs `PaidBefore`: a process past the transfer has made it.
- `PaidAgainOnlyAfterFault` needs `SoleInv`: payments never exceed the faults by more than
  one, and a submission that has reached this limit is known as paid to the process
  at work, or is on record in both places that a later process looks at (`Balanced`).
- `CheckOfEvidence` needs `MessagesCurrent` and `RequestsCurrent`: a message or a request under way is about the
  evidence in the row, unless they overlapped. `FailsClosed` needs `RunningOwed`: a row marked as running has a
  message that owes it its end, and a row that reads `error` is not passed, unless one of the mishaps
  `Lost` has happened. A rewriting append is a step of its own
  (`Append`), which either leaves the row alone or is noted. `VerdictFinal` is a matter of steps alone: only `Look` leads to `Judging`, with no
  verdict in the row, and only `Persist` writes one.

### Only model-checked

Liveness is out of the prover's reach: `ClaimResolved`, `OverdueClosed`, `FundsLeave`,
`HeadServed`, `CompleteIsJudged` and `RunEnds` rest on TLC alone, on the instances of
section 3. The two runs that end in a counterexample prove nothing but that.

## 5. Not modelled, and the plan

Not modelled in `EscrowSettlement`: the modes `platform_release`, `fase5` and `fase1`,
amounts and fees, partial releases, the lock. Amounts do not decide any branch
of the settlement.

Not modelled of the other components: see their tables above and `components` in
`PROJECT.json`. Scores, fees and image checks are arithmetic and pixels.

Next, in this order:

1. What concurrent handlers still keep, stated and proved: which of the properties for
   one handler survive with several when assignments do not overlap.
2. The pre-authorised locks of `escrow_lock.py` and the PATCH of the metadata, in
   `H2AEscrow`'s terms, with the claim's metadata as a value of its own.
3. The rest of the lifecycle: `verifying`, applications, bounty
   escalation; the transition table of `audit/lifecycle_validator.py` as the abstract
   specification of a task that is served one request at a time.
4. `ReputationOutbox` (side effects and the executor's score), `WebhookDelivery`,
   `ArbiterConsensus` (votes to verdict, a function checked against a reference),
   `PostPatch` (the patched `httpx.post` under two threads), the swarm's budget.
