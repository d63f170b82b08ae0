----------------------- MODULE VerificationQueueProofs -----------------------
(***************************************************************************)
(* Theorems about VerificationQueue, for any number of submit requests, of  *)
(* Ring 1 messages, Ring 2 Lambdas and rewriting appends at once, and of    *)
(* versions of the evidence, receives and failures.                         *)
(***************************************************************************)
EXTENDS VerificationQueue, TLAPS

-----------------------------------------------------------------------------
(* Types                                                                    *)

JobSet == [at : {"unsent", "queued", "read", "mark", "run", "write", "publish",
                 "error", "tell", "done", "dead"},
           v : 0..MaxEvidence, tries : 0..MaxReceives, phaseA : BOOLEAN,
           retry : BOOLEAN]
JudgeSet == [at : {"idle", "read", "judge", "failed", "persist", "report"},
             tries : 0..MaxReceives, decision : Admitted]
RowSet == [evidence : 0..MaxEvidence, ring1 : Ring1Statuses, passed : BOOLEAN,
           says : BOOLEAN, of : 0..MaxEvidence, verdict : Admitted]
ApiSet == [at : {"idle", "check", "skip", "publish", "publish2"},
           v : 0..MaxEvidence, media : BOOLEAN, phaseA : BOOLEAN]
CopySet == [held : BOOLEAN, ring1 : Ring1Statuses, of : 0..MaxEvidence,
            says : BOOLEAN, column : BOOLEAN]

(* A waiting message has a receive left, and one that is worked on has been *)
(* received.                                                                *)
ReceiptsCounted ==
    /\ \A d \in Deliveries : job[d].at = "queued" => job[d].tries < MaxReceives
    /\ \A a \in Arbiters : judge[a].at # "idle" => judge[a].tries >= 1

Typed == TypeOK /\ ReceiptsCounted

(* The part that a step of the submit request or of a Lambda of one of the  *)
(* rings touches.                                                           *)
Ring1Type == /\ job \in [Deliveries -> JobSet]
             /\ \A d \in Deliveries :
                    job[d].at = "queued" => job[d].tries < MaxReceives
Ring2Type == /\ judge \in [Arbiters -> JudgeSet]
             /\ \A a \in Arbiters : judge[a].at # "idle" => judge[a].tries >= 1
ApiType == api \in [Submits -> ApiSet]
CopyType == copy \in [Appends -> CopySet]
QueueType == queue2 \in [0..(MaxReceives - 1) -> Nat]
RestType == /\ dead \subseteq {"ring1", "ring2"}
            /\ faults \in 0..MaxFaults
            /\ mishaps \subseteq Mishaps

LEMMA TypedParts ==
    /\ Typed <=> /\ row \in RowSet /\ ApiType /\ Ring1Type /\ Ring2Type
                 /\ QueueType /\ CopyType /\ RestType
    /\ Typed' <=> /\ row' \in RowSet /\ ApiType' /\ Ring1Type' /\ Ring2Type'
                  /\ QueueType' /\ CopyType' /\ RestType'
BY DEF Typed, TypeOK, ReceiptsCounted, RowSet, ApiSet, JobSet, JudgeSet, CopySet,
       ApiType, Ring1Type, Ring2Type, QueueType, CopyType, RestType

LEMMA DetailsType ==
    ASSUME row \in RowSet, NEW s \in Ring1Statuses, NEW b \in BOOLEAN,
           NEW c \in BOOLEAN, NEW v \in 0..MaxEvidence
    PROVE  /\ Details(s, b, c, v) \in RowSet
           /\ Details(s, b, c, v).ring1 = s /\ Details(s, b, c, v).passed = b
           /\ Details(s, b, c, v).of = v
           /\ Details(s, b, c, v).evidence = row.evidence
           /\ Details(s, b, c, v).verdict = row.verdict
BY DEF Details, RowSet

LEMMA CheckedType ==
    ASSUME row \in RowSet, NEW s \in Ring1Statuses, NEW b \in BOOLEAN,
           NEW v \in 0..MaxEvidence
    PROVE  /\ Checked(s, b, v) \in RowSet
           /\ Checked(s, b, v).ring1 = s /\ Checked(s, b, v).passed = b
           /\ Checked(s, b, v).of = v
           /\ Checked(s, b, v).evidence = row.evidence
           /\ Checked(s, b, v).verdict = row.verdict
BY DetailsType DEF Checked

LEMMA ErroredType ==
    ASSUME row \in RowSet, NEW d \in Deliveries, job[d] \in JobSet
    PROVE  /\ Errored(d) \in RowSet
           /\ Errored(d).ring1 = "error" /\ Errored(d).passed = FALSE
           /\ Errored(d).of = job[d].v
           /\ Errored(d).evidence = row.evidence
           /\ Errored(d).verdict = row.verdict
<1>1. /\ "error" \in Ring1Statuses /\ FALSE \in BOOLEAN
      /\ job[d].phaseA \in BOOLEAN /\ job[d].v \in 0..MaxEvidence
  BY DEF Ring1Statuses, JobSet
<1> DEFINE says == job[d].phaseA  v == job[d].v
<1>2. Errored(d) = Details("error", FALSE, says, v)
  BY DEF Errored
<1> HIDE DEF says, v
<1>3. says \in BOOLEAN /\ v \in 0..MaxEvidence /\ v = job[d].v
  BY <1>1 DEF says, v
<1>4. QED BY <1>1, <1>2, <1>3 DEF Details, RowSet

LEMMA NoMessageType ==
    ASSUME ConstantsAssumption
    PROVE  /\ NoMessage \in JobSet
           /\ \A end \in {"done", "dead"} : Gone(end) \in JobSet /\ Gone(end).at = end
<1>1. 0 \in 0..MaxEvidence /\ 0 \in 0..MaxReceives
  BY DEF ConstantsAssumption
<1>2. NoMessage \in JobSet
  BY <1>1 DEF NoMessage, JobSet
<1>3. ASSUME NEW end \in {"done", "dead"}
      PROVE  Gone(end) \in JobSet /\ Gone(end).at = end
  BY <1>2, <1>3 DEF Gone, JobSet
<1>4. QED BY <1>2, <1>3

LEMMA NewMessageType ==
    ASSUME ConstantsAssumption, NEW v \in 0..MaxEvidence, NEW b \in BOOLEAN
    PROVE  LET m == [NoMessage EXCEPT !.at = "queued", !.v = v, !.phaseA = b]
           IN  m \in JobSet /\ m.at = "queued" /\ m.tries < MaxReceives
<1>1. NoMessage \in JobSet /\ NoMessage.tries = 0 /\ 0 < MaxReceives
  BY NoMessageType DEF NoMessage, ConstantsAssumption
<1>2. ASSUME NEW m \in JobSet, NEW x \in BOOLEAN
      PROVE  [m EXCEPT !.at = "queued", !.v = v, !.phaseA = x] \in JobSet
  BY <1>2 DEF JobSet
<1>3. ASSUME NEW m \in JobSet, NEW x \in BOOLEAN
      PROVE  /\ [m EXCEPT !.at = "queued", !.v = v, !.phaseA = x].at = "queued"
             /\ [m EXCEPT !.at = "queued", !.v = v, !.phaseA = x].tries = m.tries
  BY <1>3 DEF JobSet
<1>4. QED BY <1>1, <1>2, <1>3

LEMMA ReturnedType ==
    ASSUME ConstantsAssumption, NEW m \in JobSet
    PROVE  /\ Returned(m) \in JobSet
           /\ Returned(m).at \in {"queued", "dead"}
           /\ Returned(m).at = "queued" =>
                 Returned(m).tries < MaxReceives /\ Returned(m).v = m.v
           /\ Returned(m).at = "dead" <=> m.tries = MaxReceives
<1>1. CASE m.tries = MaxReceives
  <2>1. Returned(m) = Gone("dead")
    BY <1>1 DEF Returned
  <2>2. QED BY <1>1, <2>1, NoMessageType
<1>2. CASE m.tries # MaxReceives
  <2>1. Returned(m) = [m EXCEPT !.at = "queued", !.retry = FALSE]
    BY <1>2 DEF Returned
  <2>2. m.tries \in 0..MaxReceives /\ MaxReceives \in Nat
    BY DEF JobSet, ConstantsAssumption
  <2>3. m.tries < MaxReceives
    BY <1>2, <2>2
  <2>4. /\ Returned(m) \in JobSet /\ Returned(m).at = "queued"
        /\ Returned(m).tries = m.tries /\ Returned(m).v = m.v
    BY <2>1 DEF JobSet
  <2>5. QED BY <1>2, <2>3, <2>4
<1>3. QED BY <1>1, <1>2

(* A failure that is only logged leaves the types alone.                    *)
LEMMA FaultType ==
    ASSUME ConstantsAssumption, faults \in 0..MaxFaults, Fault
    PROVE  faults' \in 0..MaxFaults
BY DEF Fault, ConstantsAssumption

LEMMA NoteType ==
    ASSUME mishaps \subseteq Mishaps, NEW m \in Mishaps, Note(m)
    PROVE  mishaps' \subseteq Mishaps /\ m \in mishaps' /\ mishaps \subseteq mishaps'
BY DEF Note

-----------------------------------------------------------------------------
(* What a step does to the messages of Ring 1.  Only d changes, or a message*)
(* is put into a free place.                                                *)

LEMMA PutEffect ==
    ASSUME job \in [Deliveries -> JobSet], NEW m \in JobSet, Put(m)
    PROVE  \E d \in Deliveries :
              /\ job[d].at = "unsent" /\ job'[d] = m
              /\ job' \in [Deliveries -> JobSet]
              /\ \A e \in Deliveries \ {d} : job'[e] = job[e]
BY DEF Put

LEMMA GotoEffect ==
    ASSUME job \in [Deliveries -> JobSet], NEW d \in Deliveries,
           NEW s \in {"read", "mark", "run", "write", "publish", "error", "tell"},
           Goto(d, s)
    PROVE  /\ job' \in [Deliveries -> JobSet]
           /\ job'[d].at = s /\ job'[d].v = job[d].v /\ job'[d].tries = job[d].tries
           /\ \A e \in Deliveries \ {d} : job'[e] = job[e]
BY DEF Goto, JobSet

LEMMA RaiseEffect ==
    ASSUME job \in [Deliveries -> JobSet], NEW d \in Deliveries, Raise(d)
    PROVE  /\ job' \in [Deliveries -> JobSet]
           /\ job'[d].at = "error" /\ job'[d].v = job[d].v
           /\ job'[d].tries = job[d].tries
           /\ \A e \in Deliveries \ {d} : job'[e] = job[e]
BY DEF Raise, JobSet

-----------------------------------------------------------------------------
(* What the steps of the submit request and of the two Lambdas do.          *)

Lambda1(d) == Ring1(d) \/ Kill(d) \/ Duplicate(d)
Lambda2(a) == Ring2(a) \/ Kill2(a)

(* Nobody else works on message d; it goes on with the evidence it is about *)
(* or ends.                                                                 *)
Works(d) ==
    /\ ~Settled(d)
    /\ \A e \in Deliveries \ {d} : job'[e] = job[e]
    /\ Settled(d)' \/ job'[d].v = job[d].v

(* Message m is put into a free place.                                      *)
Arrives(m) ==
    \E d \in Deliveries :
        /\ job[d].at = "unsent" /\ job'[d] = m
        /\ \A e \in Deliveries \ {d} : job'[e] = job[e]

LEMMA Lambda1Job ==
    ASSUME Typed, ConstantsAssumption, NEW d \in Deliveries, Lambda1(d)
    PROVE  /\ Ring1Type'
           /\ \/ Works(d)
              \/ /\ job[d].at = "queued" /\ Arrives(job[d])
                 /\ UNCHANGED <<row, mishaps>>
<1>1. /\ job \in [Deliveries -> JobSet] /\ Ring1Type
      /\ job[d] \in JobSet
  BY TypedParts DEF Ring1Type
<1>2. ASSUME NEW s \in {"read", "mark", "run", "write", "publish", "error", "tell"},
             Goto(d, s), ~Settled(d)
      PROVE  Ring1Type' /\ Works(d)
  BY <1>1, <1>2, GotoEffect DEF Ring1Type, Works
<1>3. ASSUME Raise(d), ~Settled(d)
      PROVE  Ring1Type' /\ Works(d)
  BY <1>1, <1>3, RaiseEffect DEF Ring1Type, Works
<1>4. ASSUME job' = [job EXCEPT ![d] = Returned(@)], ~Settled(d)
      PROVE  Ring1Type' /\ Works(d)
  <2>1. /\ Returned(job[d]) \in JobSet
        /\ Returned(job[d]).at \in {"queued", "dead"}
        /\ Returned(job[d]).at = "queued" =>
              Returned(job[d]).tries < MaxReceives /\ Returned(job[d]).v = job[d].v
    BY <1>1, ReturnedType
  <2>2. /\ job' \in [Deliveries -> JobSet] /\ job'[d] = Returned(job[d])
        /\ \A e \in Deliveries \ {d} : job'[e] = job[e]
    BY <1>1, <1>4, <2>1
  <2>3. QED BY <1>1, <1>4, <2>1, <2>2 DEF Ring1Type, Works, Settled
<1>5. ASSUME job' = [job EXCEPT ![d] = Gone("done")], ~Settled(d)
      PROVE  Ring1Type' /\ Works(d)
  <2>1. Gone("done") \in JobSet /\ Gone("done").at = "done"
    BY NoMessageType
  <2>2. /\ job' \in [Deliveries -> JobSet] /\ job'[d] = Gone("done")
        /\ \A e \in Deliveries \ {d} : job'[e] = job[e]
    BY <1>1, <1>5, <2>1
  <2>3. QED BY <1>1, <1>5, <2>1, <2>2 DEF Ring1Type, Works, Settled
<1>6. CASE Receive(d)
  <2>1. /\ job[d].at = "queued" /\ job[d].tries \in 0..MaxReceives
        /\ job[d].tries < MaxReceives /\ MaxReceives \in Nat
    BY <1>1, <1>6 DEF Receive, Ring1Type, JobSet, ConstantsAssumption
  <2>2. job[d].tries + 1 \in 0..MaxReceives
    BY <2>1
  <2>3. job'[d] = [job[d] EXCEPT !.at = "read", !.tries = @ + 1]
    BY <1>1, <1>6 DEF Receive
  <2>4. job'[d] \in JobSet /\ job'[d].at = "read" /\ job'[d].v = job[d].v
    BY <1>1, <2>2, <2>3 DEF JobSet
  <2>5. /\ job' \in [Deliveries -> JobSet]
        /\ \A e \in Deliveries \ {d} : job'[e] = job[e]
    BY <1>1, <1>6, <2>4 DEF Receive
  <2>6. QED BY <1>1, <2>1, <2>4, <2>5 DEF Ring1Type, Works, Settled
<1>7. CASE ReadRow(d) \/ MarkRunning(d) \/ RunChecks(d) \/ WriteResult(d)
  BY <1>2, <1>3, <1>7 DEF ReadRow, MarkRunning, RunChecks, WriteResult, Settled
<1>8. CASE HandOver(d) \/ WriteError(d)
  BY <1>2, <1>3, <1>5, <1>8 DEF HandOver, WriteError, Settled
<1>9. CASE TellRing2(d) \/ Kill(d)
  BY <1>4, <1>5, <1>9 DEF TellRing2, Kill, Settled
<1>10. CASE Duplicate(d)
  <2>1. job[d].at = "queued" /\ Put(job[d]) /\ UNCHANGED <<row, mishaps>>
    BY <1>10 DEF Duplicate
  <2>2. PICK e \in Deliveries :
            /\ job[e].at = "unsent" /\ job'[e] = job[d]
            /\ job' \in [Deliveries -> JobSet]
            /\ \A f \in Deliveries \ {e} : job'[f] = job[f]
    BY <1>1, <2>1, PutEffect
  <2>3. QED BY <1>1, <2>1, <2>2 DEF Ring1Type, Arrives
<1>11. QED BY <1>6, <1>7, <1>8, <1>9, <1>10 DEF Lambda1, Ring1

(* What Ring 1 writes to the row.                                           *)
LEMMA Lambda1Row ==
    ASSUME Typed, ConstantsAssumption, NEW d \in Deliveries, Lambda1(d)
    PROVE  /\ row' \in RowSet
           /\ \/ UNCHANGED row
              \/ /\ row'.evidence = row.evidence /\ row'.verdict = row.verdict
                 /\ row'.of = job[d].v
                 /\ \/ row'.ring1 = "running" /\ MarkRunning(d)
                    \/ row'.ring1 = "complete" /\ WriteResult(d)
                    \/ row'.ring1 = "error" /\ row'.passed = FALSE
<1>1. /\ row \in RowSet /\ job[d] \in JobSet
      /\ job[d].v \in 0..MaxEvidence /\ job[d].phaseA \in BOOLEAN
      /\ {"running", "complete", "error"} \subseteq Ring1Statuses
      /\ Results \subseteq BOOLEAN
  BY TypedParts DEF Ring1Type, JobSet, Ring1Statuses, ConstantsAssumption
<1>2. CASE MarkRunning(d)
  BY <1>1, <1>2, CheckedType DEF MarkRunning
<1>3. CASE WriteResult(d)
  BY <1>1, <1>3, CheckedType DEF WriteResult, Complete
<1>4. CASE WriteError(d)
  <2>1. /\ Errored(d) \in RowSet
        /\ Errored(d).ring1 = "error" /\ Errored(d).passed = FALSE
        /\ Errored(d).of = job[d].v
        /\ Errored(d).evidence = row.evidence
        /\ Errored(d).verdict = row.verdict
    BY <1>1, ErroredType
  <2>2. row' = Errored(d) \/ UNCHANGED row
    BY <1>4 DEF WriteError
  <2>3. QED BY <1>1, <2>1, <2>2
<1>5. CASE UNCHANGED row
  BY <1>1, <1>5
<1>6. QED
  BY <1>2, <1>3, <1>4, <1>5
     DEF Lambda1, Ring1, Receive, ReadRow, RunChecks, HandOver, TellRing2, Kill,
         Duplicate

LEMMA Enqueue2Type ==
    ASSUME QueueType, ConstantsAssumption, Enqueue2 \/ UNCHANGED queue2
    PROVE  QueueType'
<1>1. 0 \in 0..(MaxReceives - 1)
  BY DEF ConstantsAssumption
<1>2. QED BY <1>1 DEF Enqueue2, QueueType

LEMMA Lambda1Rest ==
    ASSUME Typed, ConstantsAssumption, NEW d \in Deliveries, Lambda1(d)
    PROVE  /\ UNCHANGED <<api, judge, copy>> /\ QueueType' /\ RestType'
           /\ mishaps \subseteq mishaps'
<1>1. QueueType /\ RestType
  BY TypedParts
<1>2. {"error_unwritten", "unsent", "killed"} \subseteq Mishaps
  BY DEF Mishaps
<1>3. UNCHANGED <<api, judge, copy>> /\ QueueType'
  BY <1>1, Enqueue2Type
     DEF Lambda1, Ring1, Receive, ReadRow, MarkRunning, RunChecks, WriteResult,
         HandOver, WriteError, TellRing2, Kill, Duplicate, QueueType
<1>4. faults' \in 0..MaxFaults
  BY <1>1, FaultType
     DEF Lambda1, Ring1, Receive, ReadRow, MarkRunning, RunChecks, WriteResult,
         HandOver, WriteError, TellRing2, Kill, Duplicate, RestType
<1>5. mishaps' \subseteq Mishaps /\ mishaps \subseteq mishaps'
  BY <1>1, <1>2, NoteType
     DEF Lambda1, Ring1, Receive, ReadRow, MarkRunning, RunChecks, WriteResult,
         HandOver, WriteError, TellRing2, Kill, Duplicate, RestType
<1>6. dead' \subseteq {"ring1", "ring2"}
  BY <1>1
     DEF Lambda1, Ring1, Receive, ReadRow, MarkRunning, RunChecks, WriteResult,
         HandOver, WriteError, TellRing2, Kill, Duplicate, Bury, RestType
<1>7. QED BY <1>3, <1>4, <1>5, <1>6 DEF RestType
(* What Ring 2 does.  Only a verdict reaches the row.                       *)
LEMMA Retry2Type ==
    ASSUME Typed, ConstantsAssumption, NEW a \in Arbiters, judge[a].at # "idle",
           Retry2(a)
    PROVE  Ring2Type' /\ QueueType' /\ dead' \subseteq {"ring1", "ring2"}
<1>1. /\ Ring2Type /\ QueueType /\ RestType /\ MaxReceives \in Nat \ {0}
      /\ judge[a].tries \in 1..MaxReceives
  BY TypedParts DEF Ring2Type, JudgeSet, ConstantsAssumption
<1>2. Free \in JudgeSet /\ Free.at = "idle"
  BY <1>1 DEF Free, JudgeSet, Admitted
<1>3. Ring2Type'
  BY <1>1, <1>2 DEF Retry2, Release, Ring2Type
<1>4. QueueType'
  BY <1>1 DEF Retry2, QueueType
<1>5. QED BY <1>1, <1>3, <1>4 DEF Retry2, Bury, RestType

LEMMA Lambda2Moves ==
    ASSUME Typed, ConstantsAssumption, NEW a \in Arbiters, Lambda2(a)
    PROVE  /\ Ring2Type' /\ QueueType' /\ RestType'
           /\ UNCHANGED <<api, job, copy>> /\ mishaps \subseteq mishaps'
           /\ \A b \in Arbiters \ {a} : judge'[b] = judge[b]
           /\ row' \in RowSet
           /\ \/ UNCHANGED row
              \/ /\ Persist(a)
                 /\ row' = [row EXCEPT !.verdict = judge[a].decision]
<1>1. /\ Ring2Type /\ QueueType /\ RestType /\ MaxReceives \in Nat \ {0}
      /\ row \in RowSet /\ judge[a] \in JudgeSet
  BY TypedParts DEF Ring2Type, ConstantsAssumption
<1>2. Free \in JudgeSet /\ Free.at = "idle" /\ Free.decision = "none"
  BY <1>1 DEF Free, JudgeSet, Admitted
<1>3. Ring2Type' /\ QueueType'
  <2>1. CASE Take(a)
    <3>1. PICK n \in 0..(MaxReceives - 1) :
              /\ queue2[n] > 0 /\ queue2' = [queue2 EXCEPT ![n] = @ - 1]
              /\ judge' = [judge EXCEPT ![a] = [Free EXCEPT !.at = "read", !.tries = n + 1]]
      BY <1>1, <2>1 DEF Take, QueueType
    <3>2. queue2[n] - 1 \in Nat /\ n + 1 \in 0..MaxReceives /\ n + 1 >= 1
      BY <1>1, <3>1 DEF QueueType
    <3>3. /\ [Free EXCEPT !.at = "read", !.tries = n + 1] \in JudgeSet
          /\ [Free EXCEPT !.at = "read", !.tries = n + 1].tries = n + 1
      BY <1>2, <3>2 DEF JudgeSet, Free
    <3>4. Ring2Type'
      BY <1>1, <3>1, <3>2, <3>3 DEF Ring2Type
    <3>5. QED BY <1>1, <3>1, <3>2, <3>4 DEF QueueType
  <2>2. CASE Look(a)
    <3>1. ASSUME NEW s \in {"judge", "failed"}, judge[a].at = "read",
                 judge' = [judge EXCEPT ![a].at = s]
          PROVE  Ring2Type'
      <4>1. judge'[a] = [judge[a] EXCEPT !.at = s]
        BY <1>1, <3>1 DEF Ring2Type
      <4>2. /\ judge'[a] \in JudgeSet /\ judge'[a].at # "idle"
            /\ judge'[a].tries = judge[a].tries
        BY <1>1, <4>1 DEF JudgeSet
      <4>3. QED BY <1>1, <3>1, <4>2 DEF Ring2Type
    <3>2. Release(a) => Ring2Type'
      BY <1>1, <1>2 DEF Release, Ring2Type
    <3>3. UNCHANGED queue2
      BY <2>2 DEF Look
    <3>4. QED BY <1>1, <2>2, <3>1, <3>2, <3>3 DEF Look, QueueType
  <2>3. CASE Decide(a)
    <3>1. ASSUME NEW s \in {"persist", "failed"}, NEW v \in Admitted, judge[a].at = "judge",
                 \/ judge' = [judge EXCEPT ![a].at = s, ![a].decision = v]
                 \/ judge' = [judge EXCEPT ![a].at = s]
          PROVE  Ring2Type'
      <4>1. judge'[a] \in {[judge[a] EXCEPT !.at = s, !.decision = v],
                           [judge[a] EXCEPT !.at = s]}
        BY <1>1, <3>1 DEF Ring2Type
      <4>2. /\ judge'[a] \in JudgeSet /\ judge'[a].at # "idle"
            /\ judge'[a].tries = judge[a].tries
        BY <1>1, <4>1 DEF JudgeSet
      <4>3. QED BY <1>1, <3>1, <4>2 DEF Ring2Type
    <3>2. UNCHANGED queue2 /\ Verdicts \subseteq Admitted /\ "none" \in Admitted
      BY <2>3 DEF Decide, Admitted
    <3>3. QED BY <1>1, <2>3, <3>1, <3>2 DEF Decide, QueueType
  <2>4. ASSUME Retry2(a), judge[a].at # "idle"
        PROVE  Ring2Type' /\ QueueType'
    BY <2>4, Retry2Type
  <2>5. ASSUME Release(a), UNCHANGED queue2
        PROVE  Ring2Type' /\ QueueType'
    BY <1>1, <1>2, <2>5 DEF Release, Ring2Type, QueueType
  <2>6. CASE Report(a) \/ PersistError(a) \/ Kill2(a)
    BY <2>4, <2>5, <2>6 DEF Report, PersistError, Kill2
  <2>7. CASE Persist(a)
    <3>1. ASSUME judge' = [judge EXCEPT ![a].at = "report", ![a].decision = "none"],
                 judge[a].at = "persist"
          PROVE  Ring2Type'
      <4>1. judge'[a] = [judge[a] EXCEPT !.at = "report", !.decision = "none"]
        BY <1>1, <3>1 DEF Ring2Type
      <4>2. /\ judge'[a] \in JudgeSet /\ judge'[a].at # "idle"
            /\ judge'[a].tries = judge[a].tries
        BY <1>1, <4>1 DEF JudgeSet, Admitted
      <4>3. QED BY <1>1, <3>1, <4>2 DEF Ring2Type
    <3>2. QED BY <1>1, <2>4, <2>7, <3>1 DEF Persist, QueueType
  <2>8. QED BY <2>1, <2>2, <2>3, <2>6, <2>7 DEF Lambda2, Ring2
<1>4. RestType' /\ mishaps \subseteq mishaps'
  <2>1. {"switch_unread", "gave_up"} \subseteq Mishaps
    BY DEF Mishaps
  <2>2. faults' \in 0..MaxFaults
    BY <1>1, FaultType
       DEF Lambda2, Ring2, Take, Look, Decide, Persist, Report, PersistError, Kill2, RestType
  <2>3. mishaps' \subseteq Mishaps /\ mishaps \subseteq mishaps'
    BY <1>1, <2>1, NoteType
       DEF Lambda2, Ring2, Take, Look, Decide, Persist, Report, PersistError, Kill2, RestType
  <2>4. dead' \subseteq {"ring1", "ring2"}
    BY <1>1
       DEF Lambda2, Ring2, Take, Look, Decide, Persist, Report, PersistError, Kill2,
           Retry2, Bury, RestType
  <2>5. QED BY <2>2, <2>3, <2>4 DEF RestType
<1>5. \A b \in Arbiters \ {a} : judge'[b] = judge[b]
  BY <1>1
     DEF Lambda2, Ring2, Take, Look, Decide, Persist, Report, PersistError, Kill2,
         Retry2, Release, Ring2Type
<1>6. UNCHANGED <<api, job, copy>>
  BY DEF Lambda2, Ring2, Take, Look, Decide, Persist, Report, PersistError, Kill2
<1>7. /\ row' \in RowSet
      /\ \/ UNCHANGED row
         \/ Persist(a) /\ row' = [row EXCEPT !.verdict = judge[a].decision]
  <2>1. /\ judge[a].decision \in Admitted
        /\ Store(judge[a].decision) = [row EXCEPT !.verdict = judge[a].decision]
        /\ Store(judge[a].decision) \in RowSet
    BY <1>1 DEF JudgeSet, Store, RowSet
  <2>2. Store("error") = row
    BY DEF Store, Admitted, ConstantsAssumption
  <2>3. CASE Persist(a)
    <3>1. row' = Store(judge[a].decision) \/ UNCHANGED row
      BY <2>3 DEF Persist
    <3>2. QED BY <1>1, <2>1, <2>3, <3>1
  <2>4. CASE UNCHANGED row
    BY <1>1, <2>4
  <2>5. QED
    BY <2>2, <2>3, <2>4 DEF Lambda2, Ring2, Take, Look, Decide, Report, PersistError, Kill2
<1>8. QED BY <1>3, <1>4, <1>5, <1>6, <1>7

(* A submit request: what it sends to Ring 1 is about the evidence it has   *)
(* brought, and it leaves no Ring 1 result of older evidence in the row     *)
(* unless the write fails.                                                  *)
Request(s) ==
    \/ Submit(s) \/ PhaseA(s) \/ SkipRing1(s) \/ PublishRing1(s)
    \/ PublishRing2(s) \/ ApiCrash(s)

(* The request goes on with the same evidence or ends.                      *)
GoesOn(s) == api'[s].at # "idle" => api[s].at # "idle" /\ api'[s].v = api[s].v

Message(v, b) == [NoMessage EXCEPT !.at = "queued", !.v = v, !.phaseA = b]

LEMMA RequestMoves ==
    ASSUME Typed, ConstantsAssumption, NEW s \in Submits, Request(s)
    PROVE  /\ row' \in RowSet /\ ApiType' /\ Ring1Type'
           /\ QueueType' /\ RestType' /\ UNCHANGED <<judge, copy>>
           /\ mishaps \subseteq mishaps' /\ row'.verdict = row.verdict
           /\ \A t \in Submits \ {s} : api'[t] = api[t]
           /\ \/ /\ UNCHANGED job /\ GoesOn(s)
                 /\ row'.evidence = row.evidence
                 /\ \/ /\ api[s].at # "check" \/ "check_unwritten" \in mishaps'
                       /\ UNCHANGED row
                    \/ row'.ring1 \in {"none", "skipped_no_media"}
              \/ /\ UNCHANGED job
                 /\ api'[s].at = "check" /\ api'[s].v = row'.evidence
                 /\ row'.ring1 = row.ring1 /\ row'.passed = row.passed
                 /\ ~Underway(s) \/ "overlap" \in mishaps'
              \/ /\ UNCHANGED row /\ api[s].at = "publish" /\ GoesOn(s)
                 /\ \E b \in BOOLEAN : Arrives(Message(api[s].v, b))
<1>1. /\ row \in RowSet /\ ApiType /\ Ring1Type /\ QueueType /\ RestType
      /\ api \in [Submits -> ApiSet] /\ api[s] \in ApiSet
      /\ {"none", "skipped_no_media"} \subseteq Ring1Statuses
      /\ {"overlap", "check_unwritten", "unsent"} \subseteq Mishaps
      /\ MaxEvidence \in Nat /\ MaxReceives \in Nat \ {0} /\ Results \subseteq BOOLEAN
      /\ mishaps \subseteq Mishaps /\ faults \in 0..MaxFaults
      /\ dead \subseteq {"ring1", "ring2"}
  BY TypedParts DEF Ring1Statuses, Mishaps, ConstantsAssumption, RestType, ApiType
<1>2. Idle \in ApiSet /\ Idle.at = "idle"
  BY <1>1 DEF Idle, ApiSet
<1>3. CASE Submit(s)
  <2>1. row.evidence + 1 \in 0..MaxEvidence
    BY <1>1, <1>3 DEF Submit, RowSet
  <2>2. /\ row' \in RowSet /\ row'.ring1 = row.ring1 /\ row'.passed = row.passed
        /\ row'.verdict = row.verdict /\ row'.evidence = row.evidence + 1
    <3>1. row' = [row EXCEPT !.evidence = row.evidence + 1]
      BY <1>3 DEF Submit
    <3>2. QED BY <1>1, <2>1, <3>1 DEF RowSet
  <2>3. /\ ApiType' /\ api'[s].at = "check" /\ api'[s].v = row'.evidence
        /\ \A t \in Submits \ {s} : api'[t] = api[t]
    <3>1. PICK media \in BOOLEAN, phaseA \in Results :
              api' = [api EXCEPT ![s] = [at |-> "check", v |-> row.evidence + 1,
                                         media |-> media, phaseA |-> phaseA]]
      BY <1>3 DEF Submit
    <3>2. [at |-> "check", v |-> row.evidence + 1, media |-> media,
           phaseA |-> phaseA] \in ApiSet
      BY <1>1, <2>1 DEF ApiSet
    <3>3. QED BY <1>1, <2>2, <3>1, <3>2 DEF ApiType
  <2>4. /\ mishaps' \subseteq Mishaps /\ mishaps \subseteq mishaps'
        /\ ~Underway(s) \/ "overlap" \in mishaps'
    BY <1>1, <1>3, NoteType DEF Submit
  <2>5. UNCHANGED <<job, queue2, judge, copy, dead, faults>>
    BY <1>3 DEF Submit
  <2>6. Ring1Type' /\ QueueType' /\ RestType'
    BY <1>1, <2>4, <2>5 DEF Ring1Type, QueueType, RestType
  <2>7. QED BY <2>2, <2>3, <2>4, <2>5, <2>6
<1>4. CASE PhaseA(s) \/ SkipRing1(s)
  <2>1. /\ api[s].phaseA \in BOOLEAN /\ api[s].v \in 0..MaxEvidence
        /\ UNCHANGED <<job, queue2, judge, copy, dead>>
    BY <1>1, <1>4 DEF PhaseA, SkipRing1, ApiSet
  <2>2. /\ ApiType' /\ GoesOn(s) /\ \A t \in Submits \ {s} : api'[t] = api[t]
    <3>1. PICK at \in {"publish", "skip", "publish2"} : api' = [api EXCEPT ![s].at = at]
      BY <1>4 DEF PhaseA, SkipRing1
    <3>2. api'[s] = [api[s] EXCEPT !.at = at]
      BY <1>1, <3>1
    <3>3. api'[s] \in ApiSet /\ api'[s].v = api[s].v
      BY <1>1, <3>2 DEF ApiSet
    <3>4. api[s].at # "idle"
      BY <1>4 DEF PhaseA, SkipRing1
    <3>5. QED BY <1>1, <3>1, <3>3, <3>4 DEF ApiType, GoesOn
  <2>3. \/ \E st \in {"none", "skipped_no_media"} :
             /\ row' = Checked(st, api[s].phaseA, api[s].v)
             /\ UNCHANGED <<faults, mishaps>>
        \/ Fault /\ Note("check_unwritten") /\ UNCHANGED row
    BY <1>4 DEF PhaseA, SkipRing1
  <2>4. /\ row' \in RowSet /\ row'.evidence = row.evidence
        /\ row'.verdict = row.verdict
        /\ \/ UNCHANGED row /\ Fault /\ Note("check_unwritten")
           \/ /\ row'.ring1 \in {"none", "skipped_no_media"}
              /\ UNCHANGED <<faults, mishaps>>
    BY <1>1, <2>1, <2>3, CheckedType
  <2>5. /\ mishaps' \subseteq Mishaps /\ mishaps \subseteq mishaps'
        /\ faults' \in 0..MaxFaults
        /\ UNCHANGED row => "check_unwritten" \in mishaps' \/ row.ring1 \in {"none", "skipped_no_media"}
    BY <1>1, <2>4, NoteType, FaultType
  <2>6. Ring1Type' /\ QueueType' /\ RestType'
    BY <1>1, <2>1, <2>5 DEF Ring1Type, QueueType, RestType
  <2>7. QED BY <2>1, <2>2, <2>4, <2>5, <2>6
<1>5. ASSUME Answered(s)
      PROVE  ApiType' /\ GoesOn(s) /\ \A t \in Submits \ {s} : api'[t] = api[t]
  BY <1>1, <1>2, <1>5 DEF Answered, ApiType, GoesOn
<1>6. CASE PublishRing1(s)
  <2>1. /\ api[s].at = "publish" /\ Answered(s)
        /\ UNCHANGED <<row, queue2, judge, copy, dead>>
        /\ \/ /\ Put(Message(api[s].v, api[s].phaseA))
              /\ UNCHANGED <<faults, mishaps>>
           \/ Fault /\ Note("unsent") /\ UNCHANGED job
    BY <1>6 DEF PublishRing1, Message
  <2>2. QueueType' /\ RestType' /\ mishaps \subseteq mishaps'
    BY <1>1, <2>1, NoteType, FaultType DEF QueueType, RestType
  <2>3. CASE UNCHANGED job
    BY <1>1, <1>5, <2>1, <2>2, <2>3 DEF Ring1Type
  <2>4. CASE Put(Message(api[s].v, api[s].phaseA))
    <3> DEFINE m == Message(api[s].v, api[s].phaseA)
    <3>1. api[s].v \in 0..MaxEvidence /\ api[s].phaseA \in BOOLEAN
      BY <1>1 DEF ApiSet
    <3>2. m \in JobSet /\ m.at = "queued" /\ m.tries < MaxReceives
      BY <1>1, <3>1, NewMessageType DEF Message
    <3> HIDE DEF m
    <3>3. job \in [Deliveries -> JobSet]
      BY <1>1 DEF Ring1Type
    <3>4. Put(m)
      BY <2>4 DEF m
    <3>5. PICK d \in Deliveries :
              /\ job[d].at = "unsent" /\ job'[d] = m
              /\ job' \in [Deliveries -> JobSet]
              /\ \A e \in Deliveries \ {d} : job'[e] = job[e]
      BY <3>2, <3>3, <3>4, PutEffect
    <3>6. Ring1Type'
      BY <1>1, <3>2, <3>5 DEF Ring1Type
    <3>7. Arrives(m)
      BY <3>5 DEF Arrives
    <3>8. \E b \in BOOLEAN : Arrives(Message(api[s].v, b))
      BY <3>1, <3>7 DEF m
    <3>9. QED BY <1>1, <1>5, <2>1, <2>2, <3>6, <3>8
  <2>5. QED BY <2>1, <2>3, <2>4
<1>7. CASE PublishRing2(s) \/ ApiCrash(s)
  <2>1. /\ Answered(s) /\ UNCHANGED <<row, job, judge, copy, dead>>
        /\ Enqueue2 \/ UNCHANGED queue2
    BY <1>7 DEF PublishRing2, ApiCrash
  <2>2. /\ mishaps' \subseteq Mishaps /\ mishaps \subseteq mishaps'
        /\ api[s].at # "check" \/ "check_unwritten" \in mishaps'
    BY <1>1, <1>7, NoteType DEF PublishRing2, ApiCrash
  <2>3. faults' \in 0..MaxFaults
    BY <1>1, <1>7, FaultType DEF PublishRing2, ApiCrash
  <2>4. Ring1Type' /\ QueueType' /\ RestType'
    <3>1. QueueType'
      BY <1>1, <2>1, Enqueue2Type
    <3>2. Ring1Type' /\ RestType'
      BY <1>1, <2>1, <2>2, <2>3 DEF Ring1Type, RestType
    <3>3. QED BY <3>1, <3>2
  <2>5. QED BY <1>1, <1>5, <2>1, <2>2, <2>4
<1>8. QED BY <1>3, <1>4, <1>6, <1>7 DEF Request

(* An append that reads and rewrites: a row that it has changed is noted.   *)
Append(e) == AppendRead(e) \/ AppendWrite(e)

LEMMA AppendMoves ==
    ASSUME Typed, ConstantsAssumption, NEW e \in Appends, Append(e)
    PROVE  /\ row' \in RowSet /\ CopyType' /\ RestType'
           /\ UNCHANGED <<api, job, queue2, judge>>
           /\ mishaps \subseteq mishaps'
           /\ row'.evidence = row.evidence /\ row'.verdict = row.verdict
           /\ UNCHANGED row \/ "rewritten" \in mishaps'
<1>1. /\ row \in RowSet /\ copy \in [Appends -> CopySet] /\ copy[e] \in CopySet
      /\ RestType /\ mishaps \subseteq Mishaps /\ faults \in 0..MaxFaults
      /\ "rewritten" \in Mishaps /\ 0 \in 0..MaxEvidence
  BY TypedParts DEF CopyType, RestType, Mishaps, ConstantsAssumption
<1>2. CASE AppendRead(e)
  <2>1. PICK column \in BOOLEAN :
            copy' = [copy EXCEPT ![e] = [held |-> TRUE, ring1 |-> row.ring1, of |-> row.of,
                                         says |-> row.says, column |-> column]]
    BY <1>2 DEF AppendRead
  <2>2. CopyType'
    BY <1>1, <2>1 DEF CopyType, CopySet, RowSet
  <2>3. faults' \in 0..MaxFaults
    BY <1>1, <1>2, FaultType DEF AppendRead
  <2>4. QED BY <1>1, <1>2, <2>2, <2>3 DEF AppendRead, RestType
<1>3. CASE AppendWrite(e)
  <2>1. /\ copy[e].ring1 \in Ring1Statuses /\ copy[e].says \in BOOLEAN
        /\ copy[e].of \in 0..MaxEvidence /\ row.passed \in BOOLEAN
    BY <1>1 DEF CopySet, RowSet
  <2>2. /\ Rewritten(e) \in RowSet /\ Rewritten(e).evidence = row.evidence
        /\ Rewritten(e).verdict = row.verdict
    BY <1>1, <2>1, DetailsType DEF Rewritten
  <2>3. NoCopy \in CopySet
    BY <1>1 DEF NoCopy, CopySet, Ring1Statuses
  <2>4. CopyType'
    BY <1>1, <1>3, <2>3 DEF AppendWrite, CopyType
  <2>5. /\ mishaps' \subseteq Mishaps /\ mishaps \subseteq mishaps'
        /\ UNCHANGED row \/ "rewritten" \in mishaps'
    BY <1>1, <1>3, NoteType DEF AppendWrite
  <2>6. QED BY <1>1, <1>3, <2>2, <2>4, <2>5 DEF AppendWrite, RestType
<1>4. QED BY <1>2, <1>3 DEF Append

LEMMA NextTyped ==
    ASSUME Typed, ConstantsAssumption, [Next]_vars
    PROVE  Typed'
<1>1. ASSUME NEW s \in Submits, Request(s)
      PROVE  Typed'
  BY <1>1, RequestMoves, TypedParts DEF Ring2Type, CopyType
<1>2. ASSUME NEW d \in Deliveries, Lambda1(d)
      PROVE  Typed'
  <2>1. row' \in RowSet
    BY <1>2, Lambda1Row
  <2>2. Ring1Type'
    BY <1>2, Lambda1Job
  <2>3. UNCHANGED <<api, judge, copy>> /\ QueueType' /\ RestType'
    BY <1>2, Lambda1Rest
  <2>4. QED BY <2>1, <2>2, <2>3, TypedParts DEF Ring2Type, ApiType, CopyType
<1>3. ASSUME NEW a \in Arbiters, Lambda2(a)
      PROVE  Typed'
  BY <1>3, Lambda2Moves, TypedParts DEF Ring1Type, ApiType, CopyType
<1>4. ASSUME NEW e \in Appends, Append(e)
      PROVE  Typed'
  BY <1>4, AppendMoves, TypedParts DEF ApiType, Ring1Type, Ring2Type, QueueType
<1>5. CASE UNCHANGED vars
  BY <1>5, TypedParts
     DEF vars, ApiType, Ring1Type, Ring2Type, QueueType, CopyType, RestType
<1>6. QED
  BY <1>1, <1>2, <1>3, <1>4, <1>5 DEF Next, Request, Lambda1, Lambda2, Append

LEMMA InitTyped ==
    ASSUME Init, ConstantsAssumption
    PROVE  Typed
<1>1. /\ MaxReceives \in Nat \ {0} /\ MaxEvidence \in Nat /\ MaxFaults \in Nat
      /\ 0 \in 0..MaxEvidence /\ 0 \in 0..MaxReceives
  BY DEF ConstantsAssumption
<1>2. row \in RowSet /\ ApiType /\ CopyType
  BY <1>1 DEF Init, RowSet, ApiType, ApiSet, Idle, CopyType, CopySet, NoCopy,
              Ring1Statuses, Admitted
<1>3. Ring1Type
  <2>1. NoMessage \in JobSet /\ NoMessage.at = "unsent"
    BY NoMessageType DEF NoMessage
  <2>2. QED BY <2>1 DEF Init, Ring1Type
<1>4. Ring2Type
  <2>1. Free \in JudgeSet /\ Free.at = "idle"
    BY <1>1 DEF Free, JudgeSet, Admitted
  <2>2. QED BY <2>1 DEF Init, Ring2Type
<1>5. QueueType /\ RestType
  BY <1>1 DEF Init, QueueType, RestType
<1>6. QED BY <1>2, <1>3, <1>4, <1>5, TypedParts

(* The types of the submission row, the messages and the Lambdas: in        *)
(* particular no message is received more often than the queue redelivers   *)
(* it, and the row holds only verdicts that the database admits.            *)
THEOREM TypeCorrect == Spec => []TypeOK
BY ConstantsAssumption, InitTyped, NextTyped, PTL DEF Spec, Typed
-----------------------------------------------------------------------------
(* A Ring 1 result is about the evidence in the row.                        *)

(* A message or a request under way is about the evidence in the row, too:  *)
(* the result it will bring is.                                             *)
MessagesCurrent ==
    \A d \in Deliveries :
        ~Settled(d) => job[d].v = row.evidence \/ "overlap" \in mishaps

RequestsCurrent ==
    \A s \in Submits :
        api[s].at # "idle" => api[s].v = row.evidence \/ "overlap" \in mishaps

EvidenceInv == MessagesCurrent /\ RequestsCurrent /\ CheckOfEvidence

LEMMA EvidenceInvKept ==
    ASSUME Typed, ConstantsAssumption, EvidenceInv, [Next]_vars
    PROVE  EvidenceInv'
<1>1. ASSUME NEW s \in Submits, Request(s)
      PROVE  EvidenceInv'
  <2>1. /\ mishaps \subseteq mishaps'
        /\ \A t \in Submits \ {s} : api'[t] = api[t]
    BY <1>1, RequestMoves
  <2>2. CASE /\ UNCHANGED job /\ GoesOn(s)
             /\ row'.evidence = row.evidence
             /\ \/ /\ api[s].at # "check" \/ "check_unwritten" \in mishaps'
                   /\ UNCHANGED row
                \/ row'.ring1 \in {"none", "skipped_no_media"}
    <3>1. MessagesCurrent'
      BY <2>1, <2>2 DEF EvidenceInv, MessagesCurrent, Settled
    <3>2. RequestsCurrent'
      BY <2>1, <2>2 DEF EvidenceInv, RequestsCurrent, GoesOn
    <3>3. CheckOfEvidence'
      BY <2>1, <2>2 DEF EvidenceInv, CheckOfEvidence
    <3>4. QED BY <3>1, <3>2, <3>3 DEF EvidenceInv
  <2>3. CASE /\ UNCHANGED job
             /\ api'[s].at = "check" /\ api'[s].v = row'.evidence
             /\ row'.ring1 = row.ring1 /\ row'.passed = row.passed
             /\ ~Underway(s) \/ "overlap" \in mishaps'
    <3>1. MessagesCurrent'
      BY <2>1, <2>3 DEF EvidenceInv, MessagesCurrent, Underway, Settled
    <3>2. RequestsCurrent'
      BY <2>1, <2>3 DEF EvidenceInv, RequestsCurrent, Underway
    <3>3. CheckOfEvidence'
      BY <2>3 DEF CheckOfEvidence
    <3>4. QED BY <3>1, <3>2, <3>3 DEF EvidenceInv
  <2>4. CASE /\ UNCHANGED row /\ api[s].at = "publish" /\ GoesOn(s)
             /\ \E b \in BOOLEAN : Arrives(Message(api[s].v, b))
    <3>1. PICK b \in BOOLEAN : Arrives(Message(api[s].v, b))
      BY <2>4
    <3>2. /\ Message(api[s].v, b).v = api[s].v
          /\ api[s].v = row.evidence \/ "overlap" \in mishaps
      BY <2>4 DEF Message, NoMessage, EvidenceInv, RequestsCurrent
    <3>3. MessagesCurrent'
      BY <2>1, <2>4, <3>1, <3>2 DEF EvidenceInv, MessagesCurrent, Arrives, Settled
    <3>4. RequestsCurrent'
      BY <2>1, <2>4 DEF EvidenceInv, RequestsCurrent, GoesOn
    <3>5. CheckOfEvidence'
      BY <2>1, <2>4 DEF EvidenceInv, CheckOfEvidence
    <3>6. QED BY <3>3, <3>4, <3>5 DEF EvidenceInv
  <2>5. QED BY <1>1, <2>2, <2>3, <2>4, RequestMoves
<1>2. ASSUME NEW d \in Deliveries, Lambda1(d)
      PROVE  EvidenceInv'
  <2>1. UNCHANGED api /\ mishaps \subseteq mishaps'
    BY <1>2, Lambda1Rest
  <2>2. row'.evidence = row.evidence
    BY <1>2, Lambda1Row
  <2>3. MessagesCurrent'
    <3>1. CASE Works(d)
      BY <2>1, <2>2, <3>1 DEF Works, EvidenceInv, MessagesCurrent, Settled
    <3>2. CASE job[d].at = "queued" /\ Arrives(job[d])
      <4>1. job[d].v = row.evidence \/ "overlap" \in mishaps
        BY <3>2 DEF EvidenceInv, MessagesCurrent, Settled
      <4>2. QED
        BY <2>1, <2>2, <3>2, <4>1
           DEF Arrives, EvidenceInv, MessagesCurrent, Settled
    <3>3. QED BY <1>2, <3>1, <3>2, Lambda1Job
  <2>4. CheckOfEvidence'
    <3>1. CASE UNCHANGED row
      BY <2>1, <3>1 DEF EvidenceInv, CheckOfEvidence
    <3>2. CASE WriteResult(d) /\ row'.of = job[d].v
      <4>1. ~Settled(d)
        BY <3>2 DEF WriteResult, Settled
      <4>2. QED
        BY <2>1, <2>2, <3>2, <4>1 DEF EvidenceInv, MessagesCurrent, CheckOfEvidence
    <3>3. CASE row'.ring1 \in {"running", "error"}
      BY <3>3 DEF CheckOfEvidence
    <3>4. QED BY <1>2, <3>1, <3>2, <3>3, Lambda1Row
  <2>5. RequestsCurrent'
    BY <2>1, <2>2 DEF EvidenceInv, RequestsCurrent
  <2>6. QED BY <2>3, <2>4, <2>5 DEF EvidenceInv
<1>3. ASSUME NEW a \in Arbiters, Lambda2(a)
      PROVE  EvidenceInv'
  <2>1. /\ UNCHANGED <<api, job>> /\ mishaps \subseteq mishaps'
        /\ row'.evidence = row.evidence /\ row'.ring1 = row.ring1
        /\ row'.of = row.of
    BY <1>3, Lambda2Moves, TypedParts DEF RowSet
  <2>2. QED
    BY <2>1
       DEF EvidenceInv, MessagesCurrent, RequestsCurrent, CheckOfEvidence, Settled
<1>4. ASSUME NEW e \in Appends, Append(e)
      PROVE  EvidenceInv'
  <2>1. /\ UNCHANGED <<api, job>> /\ mishaps \subseteq mishaps'
        /\ row'.evidence = row.evidence
        /\ UNCHANGED row \/ "rewritten" \in mishaps'
    BY <1>4, AppendMoves
  <2>2. QED
    BY <2>1
       DEF EvidenceInv, MessagesCurrent, RequestsCurrent, CheckOfEvidence, Settled
<1>5. CASE UNCHANGED vars
  BY <1>5
     DEF vars, EvidenceInv, MessagesCurrent, RequestsCurrent, CheckOfEvidence, Settled
<1>6. QED
  BY <1>1, <1>2, <1>3, <1>4, <1>5 DEF Next, Request, Lambda1, Lambda2, Append

(* The Ring 1 result in the row is about the evidence in the row, for any   *)
(* number of requests, messages, receives and failures, unless new evidence *)
(* came while a message or a request about the old was under way, the       *)
(* request failed to clear the row, or an appended event rewrote it.        *)
THEOREM ResultIsOfEvidence == Spec => []CheckOfEvidence
<1>1. Init => EvidenceInv
  BY DEF Init, EvidenceInv, MessagesCurrent, RequestsCurrent, CheckOfEvidence,
         Settled, NoMessage, Idle
<1>2. EvidenceInv => CheckOfEvidence
  BY DEF EvidenceInv
<1>3. QED
  BY <1>1, <1>2, ConstantsAssumption, InitTyped, NextTyped, EvidenceInvKept, PTL
     DEF Spec

-----------------------------------------------------------------------------
(* A pipeline error leaves no row that says passed.                         *)

Lost == {"error_unwritten", "killed", "rewritten"}

(* The message still has to write how the check of the row ended.           *)
Owes(d) == job[d].at \in {"queued", "read", "mark", "run", "write", "error"}

(* A row marked as running has a message that will take the mark away, and  *)
(* an error is never written with a result that passed; a rewritten row is  *)
(* excepted.                                                                *)
RunningOwed ==
    /\ row.ring1 = "running" =>
          (\E d \in Deliveries : Owes(d)) \/ mishaps \cap Lost # {}
    /\ row.ring1 = "error" => row.passed = FALSE \/ "rewritten" \in mishaps

(* How a message that owes the row its end stops owing it.                  *)
LEMMA DebtPaid ==
    ASSUME Typed, ConstantsAssumption, NEW d \in Deliveries, Lambda1(d), Owes(d)
    PROVE  \/ Owes(d)'
           \/ row.ring1 = "complete" /\ UNCHANGED row
           \/ row'.ring1 \in {"complete", "error"}
           \/ mishaps' \cap Lost # {}
<1>1. /\ job \in [Deliveries -> JobSet] /\ row \in RowSet /\ mishaps \subseteq Mishaps
      /\ job[d] \in JobSet /\ Lost \subseteq Mishaps
      /\ job[d].v \in 0..MaxEvidence /\ {"complete", "error"} \subseteq Ring1Statuses
  BY TypedParts DEF Ring1Type, RestType, JobSet, Lost, Mishaps, Ring1Statuses
<1>2. CASE Receive(d)
  BY <1>1, <1>2 DEF Receive, Owes, JobSet
<1>3. CASE ReadRow(d)
  BY <1>1, <1>3, GotoEffect, RaiseEffect DEF ReadRow, Owes
<1>4. CASE MarkRunning(d) \/ RunChecks(d)
  BY <1>1, <1>4, GotoEffect DEF MarkRunning, RunChecks, Owes
<1>5. CASE WriteResult(d)
  <2>1. CASE Raise(d)
    BY <1>1, <2>1, RaiseEffect DEF Owes
  <2>2. CASE Complete(d)
    <3>1. \A b \in Results : Checked("complete", b, job[d].v).ring1 = "complete"
      BY <1>1, CheckedType DEF ConstantsAssumption
    <3>2. QED BY <2>2, <3>1 DEF Complete
  <2>3. QED BY <1>5, <2>1, <2>2 DEF WriteResult
<1>6. CASE WriteError(d)
  <2>1. CASE row' = Errored(d)
    BY <1>1, <2>1, ErroredType
  <2>2. CASE Note("error_unwritten")
    BY <2>2 DEF Note, Lost
  <2>3. QED BY <1>6, <2>1, <2>2 DEF WriteError
<1>7. CASE Kill(d)
  <2>1. Returned(job[d]).at = "queued" \/ job[d].tries = MaxReceives
    BY <1>1, ReturnedType
  <2>2. job'[d] = Returned(job[d])
    BY <1>1, <1>7, ReturnedType DEF Kill
  <2>3. job[d].tries = MaxReceives => "killed" \in mishaps'
    BY <1>7 DEF Kill, Note
  <2>4. QED BY <2>1, <2>2, <2>3 DEF Owes, Lost
<1>8. CASE Duplicate(d)
  <2>1. /\ job[d].at = "queued"
        /\ \E e \in Deliveries : job[e].at = "unsent" /\ job' = [job EXCEPT ![e] = job[d]]
    BY <1>8 DEF Duplicate, Put
  <2>2. QED BY <1>1, <2>1 DEF Owes
<1>9. CASE HandOver(d) \/ TellRing2(d)
  BY <1>9 DEF HandOver, TellRing2, Owes
<1>10. QED
  BY <1>2, <1>3, <1>4, <1>5, <1>6, <1>7, <1>8, <1>9 DEF Lambda1, Ring1

LEMMA RunningOwedKept ==
    ASSUME Typed, ConstantsAssumption, RunningOwed, [Next]_vars
    PROVE  RunningOwed'
<1>1. ASSUME NEW s \in Submits, Request(s)
      PROVE  RunningOwed'
  <2>1. mishaps \subseteq mishaps'
    BY <1>1, RequestMoves
  <2>2. \A d \in Deliveries : Owes(d) => Owes(d)'
    BY <1>1, RequestMoves DEF Owes, Arrives
  <2>3. \/ row'.ring1 \in {"none", "skipped_no_media"}
        \/ row'.ring1 = row.ring1 /\ row'.passed = row.passed
    BY <1>1, RequestMoves
  <2>4. QED BY <2>1, <2>2, <2>3 DEF RunningOwed
<1>2. ASSUME NEW d \in Deliveries, Lambda1(d)
      PROVE  RunningOwed'
  <2>1. mishaps \subseteq mishaps'
    BY <1>2, Lambda1Rest
  <2>2. \A e \in Deliveries \ {d} : Owes(e) => Owes(e)'
    BY <1>2, Lambda1Job DEF Works, Arrives, Owes
  <2>3. row'.ring1 = "error" => row'.passed = FALSE \/ "rewritten" \in mishaps'
    BY <1>2, <2>1, Lambda1Row DEF RunningOwed
  <2>4. ASSUME row'.ring1 = "running"
        PROVE  (\E e \in Deliveries : Owes(e)') \/ mishaps' \cap Lost # {}
    <3>1. CASE MarkRunning(d)
      <4>1. job \in [Deliveries -> JobSet]
        BY TypedParts DEF Ring1Type
      <4>2. Owes(d)'
        BY <3>1, <4>1, GotoEffect DEF MarkRunning, Owes
      <4>3. QED BY <4>2
    <3>2. CASE UNCHANGED row
      <4>1. CASE mishaps \cap Lost # {}
        BY <2>1, <4>1
      <4>2. CASE \E e \in Deliveries : Owes(e)
        BY <1>2, <2>2, <2>4, <3>2, <4>2, DebtPaid
      <4>3. QED BY <2>4, <3>2, <4>1, <4>2 DEF RunningOwed
    <3>3. QED BY <1>2, <2>4, <3>1, <3>2, Lambda1Row
  <2>5. QED BY <2>3, <2>4 DEF RunningOwed
<1>3. ASSUME NEW a \in Arbiters, Lambda2(a)
      PROVE  RunningOwed'
  <2>1. /\ UNCHANGED job /\ mishaps \subseteq mishaps'
        /\ row'.ring1 = row.ring1 /\ row'.passed = row.passed
    BY <1>3, Lambda2Moves, TypedParts DEF RowSet
  <2>2. QED BY <2>1 DEF RunningOwed, Owes
<1>4. ASSUME NEW e \in Appends, Append(e)
      PROVE  RunningOwed'
  <2>1. /\ UNCHANGED job /\ mishaps \subseteq mishaps'
        /\ UNCHANGED row \/ "rewritten" \in mishaps'
    BY <1>4, AppendMoves
  <2>2. QED BY <2>1 DEF RunningOwed, Owes, Lost
<1>5. CASE UNCHANGED vars
  BY <1>5 DEF vars, RunningOwed, Owes
<1>6. QED
  BY <1>1, <1>2, <1>3, <1>4, <1>5 DEF Next, Request, Lambda1, Lambda2, Append

(* C-42: when no message is under way, a row that says passed has a Ring 1  *)
(* result or never had Ring 1 run, for any number of requests, messages,    *)
(* receives and failures, unless the error itself could not be written, the *)
(* Lambda was killed on its last receive, or an appended event rewrote it.  *)
THEOREM ErrorFailsClosed == Spec => []FailsClosed
<1>1. Init => RunningOwed
  BY DEF Init, RunningOwed
<1>2. Typed /\ RunningOwed => FailsClosed
  <2>1. SUFFICES ASSUME Typed, RunningOwed, \A d \in Deliveries : Settled(d), row.passed
                 PROVE  \/ row.ring1 \in {"none", "skipped_no_media", "complete"}
                        \/ mishaps \cap {"error_unwritten", "killed", "rewritten"} # {}
    BY DEF FailsClosed
  <2>2. \A d \in Deliveries : ~Owes(d)
    BY <2>1 DEF Settled, Owes
  <2>3. row.ring1 = "error" => mishaps \cap Lost # {}
    BY <2>1 DEF RunningOwed, Lost
  <2>4. row.ring1 = "running" => mishaps \cap Lost # {}
    BY <2>1, <2>2 DEF RunningOwed
  <2>5. row.ring1 \in Ring1Statuses
    BY <2>1, TypedParts DEF RowSet
  <2>6. QED BY <2>3, <2>4, <2>5 DEF Ring1Statuses, Lost
<1>3. QED
  BY <1>1, <1>2, ConstantsAssumption, InitTyped, NextTyped, RunningOwedKept, PTL
     DEF Spec

-----------------------------------------------------------------------------
(* A verdict stays, but for the evaluations that were under way.            *)

LEMMA VerdictStep ==
    ASSUME Typed, ConstantsAssumption, [Next]_vars, row.verdict # "none"
    PROVE  /\ Judging' \subseteq Judging
           /\ row'.verdict # row.verdict => Judging # {}
<1>1. CASE UNCHANGED judge /\ row'.verdict = row.verdict
  BY <1>1 DEF Judging
<1>2. ASSUME NEW s \in Submits, Request(s)
      PROVE  UNCHANGED judge /\ row'.verdict = row.verdict
  BY <1>2, RequestMoves
<1>3. ASSUME NEW d \in Deliveries, Lambda1(d)
      PROVE  UNCHANGED judge /\ row'.verdict = row.verdict
  BY <1>3, Lambda1Rest, Lambda1Row
<1>4. ASSUME NEW e \in Appends, Append(e)
      PROVE  UNCHANGED judge /\ row'.verdict = row.verdict
  BY <1>4, AppendMoves
<1>5. ASSUME NEW a \in Arbiters, Lambda2(a)
      PROVE  /\ Judging' \subseteq Judging
             /\ row'.verdict # row.verdict => Judging # {}
  <2>1. /\ judge \in [Arbiters -> JudgeSet] /\ judge[a] \in JudgeSet
        /\ \A b \in Arbiters \ {a} : judge'[b] = judge[b]
    BY <1>5, Lambda2Moves, TypedParts DEF Ring2Type
  <2>2. CASE Persist(a)
    <3>1. a \in Judging
      BY <2>2 DEF Persist, Judging
    <3>2. QED BY <2>1, <3>1 DEF Judging
  <2>3. CASE UNCHANGED row
    <3>1. judge'[a].at \in {"judge", "persist"} => a \in Judging
      <4>1. CASE Take(a)
        BY <2>1, <4>1 DEF Take, Free
      <4>2. CASE Look(a)
        BY <2>1, <4>2 DEF Look, Release, Free, JudgeSet
      <4>3. CASE Decide(a)
        BY <2>1, <4>3 DEF Decide, Judging
      <4>4. CASE Persist(a)
        BY <4>4 DEF Persist, Judging
      <4>5. CASE Report(a) \/ PersistError(a) \/ Kill2(a)
        BY <2>1, <4>5 DEF Report, PersistError, Kill2, Retry2, Release, Free
      <4>6. QED BY <1>5, <4>1, <4>2, <4>3, <4>4, <4>5 DEF Lambda2, Ring2
    <3>2. QED BY <2>1, <2>3, <3>1 DEF Judging
  <2>4. QED BY <1>5, <2>2, <2>3, Lambda2Moves
<1>6. CASE UNCHANGED vars
  BY <1>1, <1>6 DEF vars
<1>7. QED
  BY <1>1, <1>2, <1>3, <1>4, <1>5, <1>6 DEF Next, Request, Lambda1, Lambda2, Append

(* Ring 2 takes a duplicate message for done, for any number of messages,   *)
(* Lambdas and failures: a row with a verdict is not evaluated again, and   *)
(* only an evaluation that began before can still replace the verdict.      *)
THEOREM VerdictIsFinal == Spec => VerdictFinal
<1>1. Typed /\ [Next]_vars =>
         [row.verdict # "none" =>
             /\ Judging' \subseteq Judging
             /\ row'.verdict # row.verdict => Judging # {}]_vars
  BY VerdictStep, ConstantsAssumption
<1>2. QED
  BY <1>1, ConstantsAssumption, InitTyped, NextTyped, PTL DEF Spec, VerdictFinal
=============================================================================
