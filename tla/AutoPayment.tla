----------------------------- MODULE AutoPayment -----------------------------
(***************************************************************************)
(* The payment retry job, and the approvals that run beside it.             *)
(*                                                                          *)
(* A submission that is accepted and has no payment_tx is an orphan.  Every *)
(* process runs a loop that fetches the oldest orphans and settles each in  *)
(* a coroutine of its own: the worker is paid from the platform's wallet    *)
(* with a fresh signature, so that nothing but the database keeps a second  *)
(* attempt from paying again.  An approval that is repeated settles too, and*)
(* an administrator may send one submission through the job's code.         *)
(*                                                                          *)
(* Submissions are numbered by submitted_at.  The tasks are those without a *)
(* direct_release escrow, which EscrowSettlement covers.                    *)
(***************************************************************************)
EXTENDS Naturals, FiniteSets

CONSTANTS
    N,           \* submissions
    Loops,       \* retry loops, one in each server process
    Handlers,    \* requests: approvals and an administrator's retries
    Batch,       \* MAX_BATCH
    MaxRetries,  \* MAX_RETRIES_PER_SUBMISSION
    MaxAsked,    \* bound on the requests that are made
    MaxExcuses,  \* bound on the faults of each submission
    Overlap,     \* two processes may work on the submissions at once
    Fase1        \* the dispatcher's mode is fase1, else fase2

ASSUME AutoPaymentConstants ==
    /\ N \in Nat \ {0}
    /\ Loops \cap Handlers = {}
    /\ Batch \in Nat \ {0}
    /\ MaxRetries \in Nat \ {0}
    /\ MaxAsked \in Nat
    /\ MaxExcuses \in Nat
    /\ Overlap \in BOOLEAN
    /\ Fase1 \in BOOLEAN

VARIABLES
    made,     \* how each submission's task was funded: payment_mode, header
    tx,       \* submissions.payment_tx is set
    retries,  \* submissions.retry_count
    closed,   \* the task is cancelled, expired or failed
    ledger,   \* a final row in payments
    funded,   \* the escrows row is in a releasable status
    paid,     \* transfers from the platform's wallet to the worker
    excuses,  \* lost answers, failed database calls, a missing SDK, stops
    asked,    \* requests made
    pc,       \* the next step of each process for each submission
    seen      \* the retry_count it has read

vars == <<made, tx, retries, closed, ledger, funded, paid, excuses, asked, pc,
          seen>>
rows == <<made, tx, retries, closed, ledger, funded>>

-----------------------------------------------------------------------------
Subs == 1..N
Procs == Loops \cup Handlers

Modes == {"preauth", "fase1", "fase2", "none"}
Retryable == {"preauth", "none"}

(* Only preauth and fase1 publication store a header.                       *)
Made == {m \in [mode : Modes, header : BOOLEAN] :
            m.mode = "fase2" => ~m.header}

JobSteps == {"mode", "mark", "header", "pay", "record", "persist", "count",
             "countWrite"}
ApproveSteps == {"ledger", "gate", "payApproved", "ledgerWrite", "release",
                 "fields"}
Steps == {"idle"} \cup JobSteps \cup ApproveSteps

Orphan(s) == ~tx[s]
Working(p) == \E s \in Subs : pc[p][s] # "idle"

Init ==
    /\ made \in [Subs -> Made]
    /\ tx = [s \in Subs |-> FALSE]
    /\ retries = [s \in Subs |-> 0]
    /\ closed = [s \in Subs |-> FALSE]
    /\ ledger = [s \in Subs |-> FALSE]
    /\ funded \in [Subs -> BOOLEAN]
    /\ paid = [s \in Subs |-> 0]
    /\ excuses = [s \in Subs |-> 0]
    /\ asked = 0
    /\ pc = [p \in Procs |-> [s \in Subs |-> "idle"]]
    /\ seen = [p \in Procs |-> [s \in Subs |-> 0]]

-----------------------------------------------------------------------------
Goto(p, s, step) ==
    /\ pc' = [pc EXCEPT ![p][s] = step]
    /\ UNCHANGED <<asked, seen>>

Return(p, s) ==
    /\ pc' = [pc EXCEPT ![p][s] = "idle"]
    /\ seen' = [seen EXCEPT ![p][s] = 0]
    /\ UNCHANGED asked

(* A fault of the environment that concerns a submission.                   *)
Excuse(s) ==
    /\ excuses[s] < MaxExcuses
    /\ excuses' = [excuses EXCEPT ![s] = @ + 1]

(* A best-effort write: its failure is logged, or not even that.            *)
Try(write, s, unchanged) ==
    \/ write /\ UNCHANGED excuses
    \/ Excuse(s) /\ UNCHANGED unchanged

-----------------------------------------------------------------------------
(* run_auto_payment_loop and _fetch_orphaned_submissions                    *)

(* The query's LIMIT: the oldest 2 * MAX_BATCH orphans, whatever their      *)
(* state; what may be retried is chosen among these.                        *)
Fetched == {s \in Subs : /\ Orphan(s)
                         /\ Cardinality({r \in 1..(s - 1) : Orphan(r)})
                                < 2 * Batch}
Eligible == {s \in Fetched : retries[s] < MaxRetries /\ ~closed[s]}
Chosen == {s \in Eligible :
              Cardinality({r \in Eligible : r < s}) < Batch}

(* A cycle begins when the coroutines of the last one have ended.           *)
Fetch(l) ==
    /\ ~Working(l)
    /\ Overlap \/ \A p \in Procs : ~Working(p)
    /\ Chosen # {}
    /\ pc' = [pc EXCEPT ![l] =
                [s \in Subs |-> IF s \in Chosen THEN "mode" ELSE "idle"]]
    /\ UNCHANGED <<rows, paid, excuses, asked, seen>>

(* retry_submission_payment looks neither at retry_count nor at the task.   *)
Retry(h, s) ==
    /\ ~Working(h)
    /\ Overlap \/ \A p \in Procs : ~Working(p)
    /\ asked < MaxAsked
    /\ Orphan(s)
    /\ asked' = asked + 1
    /\ pc' = [pc EXCEPT ![h][s] = "mode"]
    /\ UNCHANGED <<rows, paid, excuses, seen>>

-----------------------------------------------------------------------------
(* _retry_settlement                                                        *)

(* A mode that cannot be read passes for one that may be retried.           *)
Mode(p, s) ==
    /\ pc[p][s] = "mode"
    /\ \/ /\ Goto(p, s, IF made[s].mode \in Retryable THEN "header" ELSE "mark")
          /\ UNCHANGED excuses
       \/ Excuse(s) /\ Goto(p, s, "header")
    /\ UNCHANGED <<rows, paid>>

(* Variant of Mark that counts the limit down.                              *)
MarkBelowZero(p, s) ==
    /\ pc[p][s] = "mark"
    /\ retries' = [retries EXCEPT ![s] = @ - MaxRetries]
    /\ Return(p, s)
    /\ UNCHANGED <<made, tx, closed, ledger, funded, paid, excuses>>

(* _mark_non_retryable                                                      *)
Mark(p, s) ==
    /\ pc[p][s] = "mark"
    /\ Try(retries' = [retries EXCEPT ![s] = MaxRetries], s, retries)
    /\ Return(p, s)
    /\ UNCHANGED <<made, tx, closed, ledger, funded, paid>>

(* Without a header the submission is skipped and stays as it is.           *)
Header(p, s) ==
    /\ pc[p][s] = "header"
    /\ \/ made[s].header /\ Goto(p, s, "pay") /\ UNCHANGED excuses
       \/ ~made[s].header /\ Return(p, s) /\ UNCHANGED excuses
       \/ Excuse(s) /\ Return(p, s)
    /\ UNCHANGED <<rows, paid>>

Transfer(s) == paid' = [paid EXCEPT ![s] = @ + 1]

(* settle_task_payment.  The publisher's header is settled first, and       *)
(* whether that succeeds does not matter.  Then the worker is paid and, at  *)
(* last, the fee: a timeout, an answer without a hash, or one that is lost  *)
(* reports a failure though the transfer is made.                           *)
Settle(p, s, done, failed) ==
    \/ Transfer(s) /\ done /\ UNCHANGED excuses
    \/ failed /\ UNCHANGED <<paid, excuses>>
    \/ Transfer(s) /\ failed /\ Excuse(s)

(* Variant of Pay that takes the settlement of the publisher's header, or   *)
(* any answer, for the payment.                                             *)
PayUnchecked(p, s) ==
    /\ pc[p][s] = "pay"
    /\ \/ Transfer(s)
       \/ UNCHANGED paid
    /\ Goto(p, s, "record")
    /\ UNCHANGED <<rows, excuses>>

(* Where the SDK is not available, the attempt ends without being counted.  *)
Pay(p, s) ==
    /\ pc[p][s] = "pay"
    /\ \/ Settle(p, s, Goto(p, s, "record"), Goto(p, s, "count"))
       \/ Excuse(s) /\ Return(p, s) /\ UNCHANGED paid
    /\ UNCHANGED rows

RecordTx(s) == tx' = [tx EXCEPT ![s] = TRUE]

(* Variant of Record that leaves payment_tx to the ledger.                  *)
RecordInLedger(p, s) ==
    /\ pc[p][s] = "record"
    /\ Goto(p, s, "persist")
    /\ UNCHANGED <<rows, paid, excuses>>

Record(p, s) ==
    /\ pc[p][s] = "record"
    /\ Try(RecordTx(s), s, tx)
    /\ Goto(p, s, "persist")
    /\ UNCHANGED <<made, retries, closed, ledger, funded, paid>>

RecordPayment(s) == ledger' = [ledger EXCEPT ![s] = TRUE]

(* _persist_payment_record                                                  *)
Persist(p, s) ==
    /\ pc[p][s] = "persist"
    /\ Try(RecordPayment(s), s, ledger)
    /\ Return(p, s)
    /\ UNCHANGED <<made, tx, retries, closed, funded, paid>>

(* _increment_retry_count: no migration defines the function that the code  *)
(* calls first, so that the count is read and then written.                 *)
Count(p, s) ==
    /\ pc[p][s] = "count"
    /\ pc' = [pc EXCEPT ![p][s] = "countWrite"]
    /\ seen' = [seen EXCEPT ![p][s] = retries[s]]
    /\ UNCHANGED <<rows, paid, excuses, asked>>

(* Variant of CountWrite that writes back what was read.                    *)
CountWriteSame(p, s) ==
    /\ pc[p][s] = "countWrite"
    /\ retries' = [retries EXCEPT ![s] = seen[p][s]]
    /\ Return(p, s)
    /\ UNCHANGED <<made, tx, closed, ledger, funded, paid, excuses>>

CountWrite(p, s) ==
    /\ pc[p][s] = "countWrite"
    /\ Try(retries' = [retries EXCEPT ![s] = seen[p][s] + 1], s, retries)
    /\ Return(p, s)
    /\ UNCHANGED <<made, tx, closed, ledger, funded, paid>>

-----------------------------------------------------------------------------
(* _settle_submission_payment, for a submission that is accepted already    *)

Approve(h, s) ==
    /\ ~Working(h)
    /\ Overlap \/ \A p \in Procs : ~Working(p)
    /\ asked < MaxAsked
    /\ asked' = asked + 1
    /\ pc' = [pc EXCEPT ![h][s] = "ledger"]
    /\ UNCHANGED <<rows, paid, excuses, seen>>

Ledger(p, s) ==
    /\ pc[p][s] = "ledger"
    /\ \/ /\ Goto(p, s, IF ledger[s] THEN "fields" ELSE "gate")
          /\ UNCHANGED excuses
       \/ Excuse(s) /\ Goto(p, s, "gate")
    /\ UNCHANGED <<rows, paid>>

(* In fase2 the escrow must be releasable, unless it cannot be read.        *)
Gate(p, s) ==
    /\ pc[p][s] = "gate"
    /\ \/ (Fase1 \/ funded[s]) /\ Goto(p, s, "payApproved") /\ UNCHANGED excuses
       \/ ~Fase1 /\ ~funded[s] /\ Return(p, s) /\ UNCHANGED excuses
       \/ Excuse(s) /\ Goto(p, s, "payApproved")
    /\ UNCHANGED <<rows, paid>>

PayApproved(p, s) ==
    /\ pc[p][s] = "payApproved"
    /\ Settle(p, s, Goto(p, s, "ledgerWrite"), Return(p, s))
    /\ UNCHANGED rows

LedgerWrite(p, s) ==
    /\ pc[p][s] = "ledgerWrite"
    /\ Try(RecordPayment(s), s, ledger)
    /\ Goto(p, s, "release")
    /\ UNCHANGED <<made, tx, retries, closed, funded, paid>>

Release(p, s) ==
    /\ pc[p][s] = "release"
    /\ Try(funded' = [funded EXCEPT ![s] = FALSE], s, funded)
    /\ Goto(p, s, "fields")
    /\ UNCHANGED <<made, tx, retries, closed, ledger, paid>>

(* _record_submission_paid_fields                                           *)
Fields(p, s) ==
    /\ pc[p][s] = "fields"
    /\ Try(RecordTx(s), s, tx)
    /\ Return(p, s)
    /\ UNCHANGED <<made, retries, closed, ledger, funded, paid>>

-----------------------------------------------------------------------------
(* The task is cancelled or expires.                                        *)
CloseTask(s) ==
    /\ ~closed[s]
    /\ closed' = [closed EXCEPT ![s] = TRUE]
    /\ UNCHANGED <<made, tx, retries, ledger, funded, paid, excuses, asked, pc,
                   seen>>

(* The process stops, and with it all that it was settling.                 *)
Crash(p) ==
    /\ Working(p)
    /\ \A s \in Subs : pc[p][s] # "idle" => excuses[s] < MaxExcuses
    /\ excuses' = [s \in Subs |->
                     IF pc[p][s] # "idle" THEN excuses[s] + 1 ELSE excuses[s]]
    /\ pc' = [pc EXCEPT ![p] = [s \in Subs |-> "idle"]]
    /\ seen' = [seen EXCEPT ![p] = [s \in Subs |-> 0]]
    /\ UNCHANGED <<rows, paid, asked>>

Step(p, s) ==
    \/ Mode(p, s) \/ Mark(p, s) \/ Header(p, s)
    \/ Pay(p, s) \/ Record(p, s) \/ Persist(p, s)
    \/ Count(p, s) \/ CountWrite(p, s)
    \/ Ledger(p, s) \/ Gate(p, s) \/ PayApproved(p, s)
    \/ LedgerWrite(p, s) \/ Release(p, s) \/ Fields(p, s)

Next ==
    \/ \E l \in Loops : Fetch(l)
    \/ \E s \in Subs :
          \/ \E h \in Handlers : Retry(h, s) \/ Approve(h, s)
          \/ \E p \in Procs : Step(p, s)
          \/ CloseTask(s)
    \/ \E p \in Procs : Crash(p)

Spec == Init /\ [][Next]_vars

(* A coroutine goes on, and the loop comes round.                           *)
FairSpec ==
    /\ Spec
    /\ \A p \in Procs, s \in Subs : WF_vars(Step(p, s))
    /\ \A l \in Loops : WF_vars(Fetch(l))

-----------------------------------------------------------------------------
TypeOK ==
    /\ made \in [Subs -> Made]
    /\ tx \in [Subs -> BOOLEAN]
    /\ retries \in [Subs -> Nat]
    /\ closed \in [Subs -> BOOLEAN]
    /\ ledger \in [Subs -> BOOLEAN]
    /\ funded \in [Subs -> BOOLEAN]
    /\ paid \in [Subs -> Nat]
    /\ excuses \in [Subs -> 0..MaxExcuses]
    /\ asked \in 0..MaxAsked
    /\ pc \in [Procs -> [Subs -> Steps]]
    /\ seen \in [Procs -> [Subs -> Nat]]

(* A submission that reads as paid, in its own row or in the ledger, has    *)
(* been paid.                                                               *)
RecordedIsPaid == \A s \in Subs : tx[s] \/ ledger[s] => paid[s] > 0

(* As long as one process at a time works on the submissions, a worker is   *)
(* paid once, and once more at most for each lost answer, failed call or    *)
(* stop: neither the job nor a repeated approval pays again by itself.      *)
PaidAgainOnlyAfterFault ==
    ~Overlap => \A s \in Subs : paid[s] <= 1 + excuses[s]

(* Older orphans take the places of a batch, also those that are skipped.   *)
AtHead(s) == Cardinality({r \in 1..(s - 1) : Orphan(r)}) < Batch

(* The job gives no submission up silently and none for ever: an orphan with*)
(* a header that reaches the head of the queue is paid, is out of retries,  *)
(* or its task is closed.                                                   *)
HeadServed ==
    \A s \in Subs :
        (Orphan(s) /\ AtHead(s) /\ made[s].header)
            ~> (tx[s] \/ retries[s] >= MaxRetries \/ closed[s])
=============================================================================
