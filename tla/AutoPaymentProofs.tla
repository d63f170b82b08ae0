-------------------------- MODULE AutoPaymentProofs --------------------------
(***************************************************************************)
(* Theorems about AutoPayment, for any number of submissions, loops and     *)
(* handlers and any bounds.                                                 *)
(***************************************************************************)
EXTENDS AutoPayment, TLAPS

-----------------------------------------------------------------------------
(* Types                                                                    *)

RowType ==
    /\ made \in [Subs -> Made]
    /\ tx \in [Subs -> BOOLEAN]
    /\ retries \in [Subs -> Nat]
    /\ closed \in [Subs -> BOOLEAN]
    /\ ledger \in [Subs -> BOOLEAN]
    /\ funded \in [Subs -> BOOLEAN]
    /\ paid \in [Subs -> Nat]

ControlType ==
    /\ pc \in [Procs -> [Subs -> Steps]]
    /\ seen \in [Procs -> [Subs -> Nat]]
    /\ asked \in 0..MaxAsked

ExcuseType == excuses \in [Subs -> 0..MaxExcuses]

LEMMA TypeParts ==
    /\ TypeOK <=> RowType /\ ControlType /\ ExcuseType
    /\ TypeOK' <=> RowType' /\ ControlType' /\ ExcuseType'
BY DEF TypeOK, RowType, ControlType, ExcuseType

(* Moving a process on, or ending its work on a submission, keeps the types.*)
LEMMA GotoType ==
    ASSUME ControlType, NEW p \in Procs, NEW s \in Subs, NEW step \in Steps,
           Goto(p, s, step)
    PROVE  ControlType'
BY DEF ControlType, Goto

LEMMA ReturnType ==
    ASSUME ControlType, NEW p \in Procs, NEW s \in Subs, Return(p, s)
    PROVE  ControlType'
BY DEF ControlType, Return, Steps

LEMMA ExcuseKeepsType ==
    ASSUME ExcuseType, AutoPaymentConstants, NEW s \in Subs,
           Excuse(s) \/ UNCHANGED excuses
    PROVE  ExcuseType'
BY DEF ExcuseType, Excuse, AutoPaymentConstants

LEMMA StepNames ==
    {"idle", "mode", "mark", "header", "pay", "record", "persist", "count",
     "countWrite", "ledger", "gate", "payApproved", "ledgerWrite", "release",
     "fields"} \subseteq Steps
BY DEF Steps, JobSteps, ApproveSteps

(* A step of a process touches only the submission it works on.             *)
LEMMA StepType ==
    ASSUME TypeOK, AutoPaymentConstants, NEW p \in Procs, NEW s \in Subs,
           Step(p, s)
    PROVE  TypeOK'
<1> USE TypeParts
<1>1. ExcuseType'
  BY ExcuseKeepsType
     DEF Step, Mode, Mark, Header, Pay, Record, Persist, Count, CountWrite,
         Ledger, Gate, PayApproved, LedgerWrite, Release, Fields, Settle, Try
<1>2. ControlType'
  <2>1. CASE Count(p, s)
    BY <2>1, StepNames DEF Count, ControlType, RowType
  <2>2. CASE Pay(p, s) \/ PayApproved(p, s)
    BY <2>2, StepNames, GotoType, ReturnType DEF Pay, PayApproved, Settle
  <2>3. CASE \/ Mode(p, s) \/ Mark(p, s) \/ Header(p, s) \/ Record(p, s)
             \/ Persist(p, s) \/ CountWrite(p, s) \/ Ledger(p, s) \/ Gate(p, s)
             \/ LedgerWrite(p, s) \/ Release(p, s) \/ Fields(p, s)
    BY <2>3, StepNames, GotoType, ReturnType
       DEF Mode, Mark, Header, Record, Persist, CountWrite, Ledger, Gate,
           LedgerWrite, Release, Fields
  <2>4. QED BY <2>1, <2>2, <2>3 DEF Step
<1>3. RowType'
  <2>1. CASE Pay(p, s) \/ PayApproved(p, s)
    BY <2>1 DEF Pay, PayApproved, Settle, Transfer, rows, RowType
  <2>2. CASE Mark(p, s) \/ CountWrite(p, s)
    BY <2>2 DEF Mark, CountWrite, Try, RowType, ControlType, AutoPaymentConstants
  <2>3. CASE \/ Record(p, s) \/ Persist(p, s) \/ LedgerWrite(p, s)
             \/ Release(p, s) \/ Fields(p, s)
    BY <2>3 DEF Record, Persist, LedgerWrite, Release, Fields, Try, RecordTx,
                RecordPayment, RowType
  <2>4. CASE \/ Mode(p, s) \/ Header(p, s) \/ Count(p, s) \/ Ledger(p, s)
             \/ Gate(p, s)
    BY <2>4 DEF Mode, Header, Count, Ledger, Gate, rows, RowType
  <2>5. QED BY <2>1, <2>2, <2>3, <2>4 DEF Step
<1>4. QED BY <1>1, <1>2, <1>3

LEMMA RequestType ==
    ASSUME TypeOK, AutoPaymentConstants,
           \/ \E l \in Loops : Fetch(l)
           \/ \E h \in Handlers, s \in Subs : Retry(h, s) \/ Approve(h, s)
    PROVE  TypeOK'
<1> USE TypeParts
<1>1. RowType' /\ ExcuseType'
  BY DEF Fetch, Retry, Approve, rows, RowType, ExcuseType
<1>2. ControlType'
  <2>1. ASSUME NEW l \in Loops, Fetch(l)
        PROVE  ControlType'
    BY <2>1, StepNames DEF Fetch, ControlType, Procs
  <2>2. ASSUME NEW h \in Handlers, NEW s \in Subs, Retry(h, s) \/ Approve(h, s)
        PROVE  ControlType'
    BY <2>2, StepNames
       DEF Retry, Approve, ControlType, Procs, AutoPaymentConstants
  <2>3. QED BY <2>1, <2>2
<1>3. QED BY <1>1, <1>2

LEMMA EndType ==
    ASSUME TypeOK, AutoPaymentConstants,
           \/ \E s \in Subs : CloseTask(s)
           \/ \E p \in Procs : Crash(p)
    PROVE  TypeOK'
<1> USE TypeParts
<1>1. ASSUME NEW s \in Subs, CloseTask(s)
      PROVE  TypeOK'
  BY <1>1 DEF CloseTask, RowType, ControlType, ExcuseType
<1>2. ASSUME NEW p \in Procs, Crash(p)
      PROVE  TypeOK'
  <2>1. ControlType'
    BY <1>2, StepNames DEF Crash, ControlType
  <2>2. ExcuseType'
    BY <1>2 DEF Crash, ExcuseType, AutoPaymentConstants
  <2>3. QED BY <1>2, <2>1, <2>2 DEF Crash, rows, RowType
<1>3. QED BY <1>1, <1>2

LEMMA NextType ==
    ASSUME TypeOK, AutoPaymentConstants, [Next]_vars
    PROVE  TypeOK'
<1>1. CASE UNCHANGED vars
  BY <1>1 DEF vars, TypeOK
<1>2. CASE Next
  BY <1>2, StepType, RequestType, EndType DEF Next
<1>3. QED BY <1>1, <1>2

(* Every variable keeps its type in every behaviour.                        *)
THEOREM TypeCorrect == Spec => []TypeOK
<1>1. Init => TypeOK
  BY AutoPaymentConstants, StepNames DEF Init, TypeOK, AutoPaymentConstants
<1>2. QED BY <1>1, NextType, AutoPaymentConstants, PTL DEF Spec

-----------------------------------------------------------------------------
(* How a step moves                                                         *)

(* A step moves one process at one submission and leaves the others alone.  *)
LEMMA StepFrame ==
    ASSUME TypeOK, NEW p \in Procs, NEW s \in Subs, Step(p, s)
    PROVE  /\ pc[p][s] # "idle"
           /\ \A q \in Procs, r \in Subs :
                 q # p \/ r # s => pc'[q][r] = pc[q][r]
           /\ \A r \in Subs \ {s} :
                 /\ tx'[r] = tx[r] /\ ledger'[r] = ledger[r]
                 /\ paid'[r] = paid[r] /\ excuses'[r] = excuses[r]
<1> USE DEF TypeOK
<1>1. CASE Pay(p, s) \/ PayApproved(p, s)
  BY <1>1 DEF Pay, PayApproved, Settle, Transfer, Goto, Return, Excuse, rows
<1>2. CASE \/ Mark(p, s) \/ CountWrite(p, s) \/ Record(p, s) \/ Persist(p, s)
           \/ LedgerWrite(p, s) \/ Release(p, s) \/ Fields(p, s)
  BY <1>2 DEF Mark, CountWrite, Record, Persist, LedgerWrite, Release, Fields,
              Try, RecordTx, RecordPayment, Goto, Return, Excuse
<1>3. CASE \/ Mode(p, s) \/ Header(p, s) \/ Count(p, s) \/ Ledger(p, s)
           \/ Gate(p, s)
  BY <1>3 DEF Mode, Header, Count, Ledger, Gate, Goto, Return, Excuse, rows
<1>4. QED BY <1>1, <1>2, <1>3 DEF Step

-----------------------------------------------------------------------------
(* What reads as paid was paid.                                             *)

(* The steps that follow a transfer.                                        *)
AfterPay == {"record", "persist", "ledgerWrite", "release", "fields"}

PaidBefore ==
    \A s \in Subs, p \in Procs : pc[p][s] \in AfterPay => paid[s] > 0

LEMMA StepPaid ==
    ASSUME TypeOK, RecordedIsPaid, PaidBefore,
           NEW p \in Procs, NEW s \in Subs, Step(p, s)
    PROVE  RecordedIsPaid' /\ PaidBefore'
<1>1. /\ paid[s] > 0 => paid'[s] > 0
      /\ tx'[s] \/ ledger'[s] => paid'[s] > 0
      /\ pc'[p][s] \in AfterPay => paid'[s] > 0
  <2> USE DEF TypeOK, RecordedIsPaid, PaidBefore, AfterPay
  <2>1. CASE Pay(p, s) \/ PayApproved(p, s)
    BY <2>1 DEF Pay, PayApproved, Settle, Transfer, Goto, Return, rows
  <2>2. CASE \/ Mark(p, s) \/ CountWrite(p, s) \/ Record(p, s) \/ Persist(p, s)
             \/ LedgerWrite(p, s) \/ Release(p, s) \/ Fields(p, s)
    BY <2>2 DEF Mark, CountWrite, Record, Persist, LedgerWrite, Release, Fields,
                Try, RecordTx, RecordPayment, Goto, Return
  <2>3. CASE \/ Mode(p, s) \/ Header(p, s) \/ Count(p, s) \/ Ledger(p, s)
             \/ Gate(p, s)
    BY <2>3 DEF Mode, Header, Count, Ledger, Gate, Goto, Return, rows
  <2>4. QED BY <2>1, <2>2, <2>3 DEF Step
<1>2. QED BY <1>1, StepFrame DEF RecordedIsPaid, PaidBefore

LEMMA NextPaid ==
    ASSUME TypeOK, RecordedIsPaid, PaidBefore, [Next]_vars
    PROVE  RecordedIsPaid' /\ PaidBefore'
<1>1. CASE UNCHANGED vars
  BY <1>1 DEF vars, RecordedIsPaid, PaidBefore
<1>2. ASSUME NEW l \in Loops, Fetch(l)
      PROVE  RecordedIsPaid' /\ PaidBefore'
  <2>1. UNCHANGED <<tx, ledger, paid>>
    BY <1>2 DEF Fetch, rows
  <2>2. \A p \in Procs, s \in Subs :
           pc'[p][s] \in AfterPay => pc'[p][s] = pc[p][s]
    BY <1>2 DEF Fetch, AfterPay, TypeOK
  <2>3. QED BY <2>1, <2>2 DEF RecordedIsPaid, PaidBefore
<1>3. ASSUME NEW h \in Handlers, NEW s \in Subs, Retry(h, s) \/ Approve(h, s)
      PROVE  RecordedIsPaid' /\ PaidBefore'
  <2>1. UNCHANGED <<tx, ledger, paid>>
    BY <1>3 DEF Retry, Approve, rows
  <2>2. \A p \in Procs, r \in Subs :
           pc'[p][r] \in AfterPay => pc'[p][r] = pc[p][r]
    <3>1. PICK step \in {"mode", "ledger"} : pc' = [pc EXCEPT ![h][s] = step]
      BY <1>3 DEF Retry, Approve
    <3>2. h \in Procs /\ step \notin AfterPay
      BY DEF Procs, AfterPay
    <3>3. QED BY <3>1, <3>2 DEF TypeOK
  <2>3. QED BY <2>1, <2>2 DEF RecordedIsPaid, PaidBefore
<1>4. ASSUME NEW s \in Subs, CloseTask(s)
      PROVE  RecordedIsPaid' /\ PaidBefore'
  BY <1>4 DEF CloseTask, RecordedIsPaid, PaidBefore
<1>5. ASSUME NEW p \in Procs, Crash(p)
      PROVE  RecordedIsPaid' /\ PaidBefore'
  BY <1>5 DEF Crash, rows, RecordedIsPaid, PaidBefore, AfterPay, TypeOK
<1>6. QED BY <1>1, <1>2, <1>3, <1>4, <1>5, StepPaid DEF Next

(* _retry_settlement and _settle_submission_payment: payment_tx and the     *)
(* ledger are written only after a transfer, however many loops, approvals  *)
(* and administrators work on the same submissions, with any faults.        *)
THEOREM RecordedOnlyIfPaid == Spec => []RecordedIsPaid
<1>1. Init => RecordedIsPaid /\ PaidBefore
  BY DEF Init, RecordedIsPaid, PaidBefore, AfterPay
<1>2. QED BY <1>1, NextPaid, TypeCorrect, PTL DEF Spec

-----------------------------------------------------------------------------
(* Paid again only after a fault, when one process works at a time.         *)

OneWorker == \A p, q \in Procs : Working(p) /\ Working(q) => p = q

(* What stands between a submission and one more payment: a transfer that   *)
(* no fault excuses is known to the process at work, or is on record in both*)
(* places that a later process looks at.                                    *)
Balanced(s, step) ==
    /\ step \in {"mode", "header", "pay"} => ~tx[s]
    /\ \/ paid[s] <= excuses[s]
       \/ step \in {"record", "ledgerWrite"}
       \/ step = "persist" /\ tx[s]
       \/ step \in {"release", "fields"} /\ ledger[s]
       \/ /\ step \in {"idle", "mark", "count", "countWrite", "ledger"}
          /\ tx[s] /\ ledger[s]

(* No process but p works on s.                                             *)
Quiet(p, s) == \A q \in Procs \ {p} : pc[q][s] = "idle"

SoleInv ==
    /\ OneWorker
    /\ \A s \in Subs : paid[s] <= excuses[s] + 1
    /\ \A s \in Subs, p \in Procs : Quiet(p, s) => Balanced(s, pc[p][s])

LEMMA WorkerQuiet ==
    ASSUME OneWorker, NEW p \in Procs, NEW s \in Subs, pc[p][s] # "idle"
    PROVE  Quiet(p, s)
BY DEF OneWorker, Working, Quiet

LEMMA StepBalanced ==
    ASSUME TypeOK, AutoPaymentConstants, SoleInv,
           NEW p \in Procs, NEW s \in Subs, Step(p, s)
    PROVE  paid'[s] <= excuses'[s] + 1 /\ Balanced(s, pc[p][s])'
<1>1. Balanced(s, pc[p][s]) /\ paid[s] <= excuses[s] + 1
  BY StepFrame, WorkerQuiet DEF SoleInv
<1>2. paid[s] \in Nat /\ excuses[s] \in Nat /\ paid'[s] \in Nat /\ excuses'[s] \in Nat
  BY StepType DEF TypeOK, AutoPaymentConstants
<1> USE <1>1, <1>2 DEF TypeOK, Balanced
<1>3. CASE Pay(p, s) \/ PayApproved(p, s)
  BY <1>3 DEF Pay, PayApproved, Settle, Transfer, Excuse, Goto, Return, rows
<1>4. CASE Record(p, s) \/ Persist(p, s)
  BY <1>4 DEF Record, Persist, Try, RecordTx, RecordPayment, Excuse, Goto, Return
<1>5. CASE LedgerWrite(p, s) \/ Release(p, s) \/ Fields(p, s)
  BY <1>5 DEF LedgerWrite, Release, Fields, Try, RecordTx, RecordPayment,
              Excuse, Goto, Return
<1>6. CASE Mark(p, s) \/ CountWrite(p, s)
  BY <1>6 DEF Mark, CountWrite, Try, Excuse, Goto, Return
<1>7. CASE Mode(p, s) \/ Header(p, s) \/ Count(p, s)
  BY <1>7 DEF Mode, Header, Count, Excuse, Goto, Return, rows
<1>8. CASE Ledger(p, s) \/ Gate(p, s)
  BY <1>8 DEF Ledger, Gate, Excuse, Goto, Return, rows
<1>9. QED BY <1>3, <1>4, <1>5, <1>6, <1>7, <1>8 DEF Step

LEMMA StepSole ==
    ASSUME TypeOK, AutoPaymentConstants, SoleInv,
           NEW p \in Procs, NEW s \in Subs, Step(p, s)
    PROVE  SoleInv'
<1>1. /\ Working(p)
      /\ \A q \in Procs \ {p} : \A r \in Subs :
            pc[q][r] = "idle" /\ pc'[q][r] = "idle"
  BY StepFrame DEF SoleInv, OneWorker, Working
<1>2. OneWorker'
  BY <1>1 DEF OneWorker, Working
<1>3. \A r \in Subs : paid'[r] <= excuses'[r] + 1
  BY StepFrame, StepBalanced DEF SoleInv
<1>4. ASSUME NEW r \in Subs, NEW q \in Procs, Quiet(q, r)'
      PROVE  Balanced(r, pc[q][r])'
  <2>1. CASE r = s
    <3>1. pc'[q][r] = pc'[p][r]
      BY <1>1, <1>4 DEF Quiet
    <3>2. QED BY <2>1, <3>1, StepBalanced
  <2>2. CASE r # s
    <3>1. \A o \in Procs : pc'[o][r] = pc[o][r]
      BY <2>2, StepFrame
    <3>2. Balanced(r, pc[q][r])
      BY <1>4, <3>1 DEF Quiet, SoleInv
    <3>3. /\ tx'[r] = tx[r] /\ ledger'[r] = ledger[r]
          /\ paid'[r] = paid[r] /\ excuses'[r] = excuses[r]
      BY <2>2, StepFrame
    <3>4. QED BY <3>1, <3>2, <3>3 DEF Balanced
  <2>3. QED BY <2>1, <2>2
<1>5. QED BY <1>2, <1>3, <1>4 DEF SoleInv

(* Work begins on submissions that nobody works on.                         *)
LEMMA BeginSole ==
    ASSUME TypeOK, SoleInv, ~Overlap,
           \/ \E l \in Loops : Fetch(l)
           \/ \E h \in Handlers, s \in Subs : Retry(h, s) \/ Approve(h, s)
    PROVE  SoleInv'
<1>1. \A p \in Procs, s \in Subs : pc[p][s] = "idle"
  BY DEF Fetch, Retry, Approve, Working
<1>2. \A s \in Subs, p \in Procs : Balanced(s, "idle")
  BY <1>1 DEF SoleInv, Quiet
<1>3. UNCHANGED <<tx, ledger, paid, excuses>>
  BY DEF Fetch, Retry, Approve, rows
<1>4. PICK p \in Procs : \A q \in Procs \ {p}, s \in Subs : pc'[q][s] = "idle"
  BY <1>1 DEF Fetch, Retry, Approve, Procs, TypeOK
<1>5. \A q \in Procs, s \in Subs :
         \/ pc'[q][s] \in {"idle", "ledger"}
         \/ pc'[q][s] = "mode" /\ ~tx[s]
  <2>1. ASSUME NEW l \in Loops, Fetch(l)
        PROVE  \A q \in Procs, s \in Subs :
                  pc'[q][s] = "idle" \/ (pc'[q][s] = "mode" /\ ~tx[s])
    <3>1. \A s \in Chosen : ~tx[s]
      BY DEF Chosen, Eligible, Fetched, Orphan
    <3>2. QED BY <1>1, <2>1, <3>1 DEF Fetch, Procs, TypeOK
  <2>2. ASSUME NEW h \in Handlers, NEW s \in Subs, Retry(h, s) \/ Approve(h, s)
        PROVE  \A q \in Procs, r \in Subs :
                  \/ pc'[q][r] \in {"idle", "ledger"}
                  \/ pc'[q][r] = "mode" /\ ~tx[r]
    BY <1>1, <2>2 DEF Retry, Approve, Procs, TypeOK, Orphan
  <2>3. QED BY <2>1, <2>2
<1>6. \A q \in Procs, s \in Subs : Balanced(s, pc[q][s])'
  BY <1>2, <1>3, <1>5 DEF Balanced
<1>7. OneWorker'
  BY <1>4 DEF OneWorker, Working
<1>8. QED BY <1>3, <1>6, <1>7 DEF SoleInv

LEMMA CrashSole ==
    ASSUME TypeOK, AutoPaymentConstants, SoleInv, NEW p \in Procs, Crash(p)
    PROVE  SoleInv'
<1>1. /\ \A s \in Subs : pc'[p][s] = "idle"
      /\ \A q \in Procs \ {p}, s \in Subs : pc'[q][s] = pc[q][s]
  BY DEF Crash, TypeOK
<1>2. OneWorker'
  BY <1>1 DEF SoleInv, OneWorker, Working
<1>3. UNCHANGED <<tx, ledger, paid>>
  BY DEF Crash, rows
<1>4. ASSUME NEW s \in Subs
      PROVE  /\ paid'[s] <= excuses'[s] + 1
             /\ \A q \in Procs : Quiet(q, s)' => Balanced(s, pc[q][s])'
  <2>1. /\ paid[s] \in Nat /\ excuses[s] \in Nat
        /\ paid[s] <= excuses[s] + 1
    BY DEF TypeOK, AutoPaymentConstants, SoleInv
  <2>2. CASE pc[p][s] # "idle"
    <3>1. excuses'[s] = excuses[s] + 1
      BY <2>2 DEF Crash
    <3>2. \A q \in Procs : pc'[q][s] = "idle"
      BY <1>1, <2>2, WorkerQuiet DEF SoleInv, Quiet
    <3>3. QED BY <1>3, <2>1, <3>1, <3>2 DEF Balanced
  <2>3. CASE pc[p][s] = "idle"
    <3>1. excuses'[s] = excuses[s] /\ \A q \in Procs : pc'[q][s] = pc[q][s]
      BY <1>1, <2>3 DEF Crash
    <3>2. QED BY <1>3, <2>1, <3>1 DEF SoleInv, Quiet, Balanced
  <2>4. QED BY <2>2, <2>3
<1>5. QED BY <1>2, <1>4 DEF SoleInv

LEMMA NextSole ==
    ASSUME TypeOK, AutoPaymentConstants, SoleInv, ~Overlap, [Next]_vars
    PROVE  SoleInv'
<1>1. CASE UNCHANGED vars \/ \E s \in Subs : CloseTask(s)
  <2>1. UNCHANGED <<tx, ledger, paid, excuses, pc>>
    BY <1>1 DEF vars, CloseTask
  <2>2. QED BY <2>1 DEF SoleInv, OneWorker, Working, Quiet, Balanced
<1>2. QED BY <1>1, BeginSole, StepSole, CrashSole DEF Next

(* The job and the approvals: as long as one process at a time works on the *)
(* submissions, a worker is paid once, and once more at most for each lost  *)
(* answer, failed call or stop, for any number of submissions and requests. *)
THEOREM PaidOncePerFault == Spec => []PaidAgainOnlyAfterFault
<1>1. CASE Overlap
  <2>1. PaidAgainOnlyAfterFault
    BY <1>1 DEF PaidAgainOnlyAfterFault
  <2>2. QED BY <2>1, PTL
<1>2. CASE ~Overlap
  <2>1. Init => SoleInv
    <3>1. SUFFICES ASSUME Init
                   PROVE  SoleInv
      OBVIOUS
    <3>2. \A s \in Subs : paid[s] = 0 /\ excuses[s] = 0 /\ ~tx[s]
      BY <3>1 DEF Init
    <3>3. \A p \in Procs, s \in Subs : pc[p][s] = "idle"
      BY <3>1 DEF Init
    <3>4. QED BY <3>2, <3>3 DEF SoleInv, OneWorker, Working, Balanced
  <2>2. TypeOK /\ SoleInv /\ [Next]_vars => SoleInv'
    BY <1>2, AutoPaymentConstants, NextSole
  <2>3. TypeOK /\ SoleInv => PaidAgainOnlyAfterFault
    BY DEF SoleInv, PaidAgainOnlyAfterFault, TypeOK
  <2>4. QED BY <2>1, <2>2, <2>3, TypeCorrect, PTL DEF Spec
<1>3. QED BY <1>1, <1>2
=============================================================================
