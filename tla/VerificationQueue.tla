------------------------- MODULE VerificationQueue -------------------------
(***************************************************************************)
(* Evidence verification of one submission after the worker has sent it:   *)
(* the request handler that runs Phase A and publishes a message           *)
(* (api/routers/workers.py), the Ring 1 Lambda that runs the photo checks  *)
(* (lambda/ring1), and the Ring 2 Lambda that asks the arbiter             *)
(* (lambda/ring2), joined by two SQS queues that redeliver a message up to *)
(* MaxReceives times before it goes to a dead-letter queue.                *)
(*                                                                         *)
(* The submission row outlives a round of review: a revision updates the   *)
(* evidence in place, so messages about the old evidence and the new       *)
(* result meet in one row. Every call to the database, to the queue or to  *)
(* the arbiter is a step of its own and may fail; what a failure that the  *)
(* code only logs leaves behind is remembered in the history variable      *)
(* mishaps, so that a property can name exactly what it does not survive.  *)
(* The Lambdas also append to a log of events inside auto_check_details;   *)
(* where the database function for that fails, they write back the whole   *)
(* column as they have read it.                                            *)
(***************************************************************************)
EXTENDS Naturals, FiniteSets

CONSTANTS
    Submits,      \* submit requests that may be in progress at once
    Arbiters,     \* Ring 2 Lambda instances that may run at once
    Appends,      \* events that may be appended by reading and rewriting
    MaxMessages,  \* bound: Ring 1 messages, copies made by the queue included
    MaxEvidence,  \* bound: versions of the evidence the worker sends
    MaxReceives,  \* receives before a message is dead-lettered
    Verdicts,     \* decisions of the arbiter, all admitted by the database
    Results,      \* results of Phase A and of the photo checks: passed or not
    MaxFaults     \* bound: calls that fail and Lambdas that are killed

ASSUME ConstantsAssumption ==
    /\ MaxEvidence \in Nat \ {0} /\ MaxReceives \in Nat \ {0}
    /\ MaxMessages \in Nat \ {0} /\ MaxFaults \in Nat
    /\ Results \subseteq BOOLEAN
    /\ "none" \notin Verdicts /\ "error" \notin Verdicts

VARIABLES
    row,      \* the submission row
    api,      \* the submit requests in progress
    job,      \* Ring 1 messages and the Lambda that works on each
    queue2,   \* Ring 2 messages waiting, by the receives they have behind them
    judge,    \* the Ring 2 Lambdas
    copy,     \* auto_check_details as an append has read it
    dead,     \* queues whose dead-letter queue holds a message
    faults,   \* failures left
    mishaps   \* history: failures the code logged and went on from

vars == <<row, api, job, queue2, judge, copy, dead, faults, mishaps>>

Deliveries == 1..MaxMessages
Ring1Statuses == {"none", "skipped_no_media", "running", "complete", "error"}
Admitted == Verdicts \cup {"none"}
Mishaps == {"overlap", "check_unwritten", "error_unwritten", "killed", "unsent", "switch_unread",
            "gave_up", "rewritten"}

NoMessage == [at |-> "unsent", v |-> 0, tries |-> 0, phaseA |-> FALSE, retry |-> FALSE]
Gone(end) == [NoMessage EXCEPT !.at = end]
Settled(d) == job[d].at \in {"unsent", "done", "dead"}
Free == [at |-> "idle", tries |-> 0, decision |-> "none"]
Idle == [at |-> "idle", v |-> 0, media |-> FALSE, phaseA |-> FALSE]
NoCopy == [held |-> FALSE, ring1 |-> "none", of |-> 0, says |-> FALSE, column |-> FALSE]

Init ==
    /\ row = [evidence |-> 0, ring1 |-> "none", passed |-> FALSE, says |-> FALSE, of |-> 0,
              verdict |-> "none"]
    /\ api = [s \in Submits |-> Idle]
    /\ job = [d \in Deliveries |-> NoMessage]
    /\ queue2 = [n \in 0..(MaxReceives - 1) |-> 0]
    /\ judge = [a \in Arbiters |-> Free]
    /\ copy = [e \in Appends |-> NoCopy]
    /\ dead = {}
    /\ faults = MaxFaults
    /\ mishaps = {}

Fault == faults > 0 /\ faults' = faults - 1
Note(m) == mishaps' = mishaps \cup {m}

\* An update of auto_check_passed and auto_check_details: the details hold the
\* status of Ring 1 and, as passed, what they themselves say of the evidence v.
Details(status, passed, says, v) ==
    [row EXCEPT !.ring1 = status, !.passed = passed, !.says = says, !.of = v]
Checked(status, passed, v) == Details(status, passed, passed, v)

(***************************************************************************)
(* The submit request.                                                     *)
(***************************************************************************)

\* submit_work inserts the row of this worker and task, or updates it when the
\* publisher has asked for more information, which may be at any time, also
\* while an earlier request still checks; what Ring 1 and Ring 2 wrote stays
\* in the row.
Underway(s) ==
    \/ \E d \in Deliveries : ~Settled(d)
    \/ \E t \in Submits \ {s} : api[t].at # "idle"

Submit(s) ==
    /\ api[s].at = "idle" /\ row.evidence < MaxEvidence
    /\ row' = [row EXCEPT !.evidence = @ + 1]
    /\ \E media \in BOOLEAN, phaseA \in Results :
          api' = [api EXCEPT ![s] = [at |-> "check", v |-> row.evidence + 1, media |-> media,
                                     phaseA |-> phaseA]]
    /\ IF Underway(s) THEN Note("overlap") ELSE UNCHANGED mishaps
    /\ UNCHANGED <<job, queue2, judge, copy, dead, faults>>

Answered(s) == api' = [api EXCEPT ![s] = Idle]

\* Variant of PhaseA that keeps the status of the older check.
PhaseAKeepsStatus(s) ==
    /\ api[s].at = "check"
    /\ api' = [api EXCEPT ![s].at = IF api[s].media THEN "publish" ELSE "skip"]
    /\ row' = [row EXCEPT !.passed = api[s].phaseA]
    /\ UNCHANGED <<job, queue2, judge, copy, dead, faults, mishaps>>

\* Phase A is written with no Ring 1 status, which lets Ring 1 run again;
\* a failed write is only logged.
PhaseA(s) ==
    /\ api[s].at = "check"
    /\ api' = [api EXCEPT ![s].at = IF api[s].media THEN "publish" ELSE "skip"]
    /\ \/ row' = Checked("none", api[s].phaseA, api[s].v) /\ UNCHANGED <<faults, mishaps>>
       \/ Fault /\ Note("check_unwritten") /\ UNCHANGED row
    /\ UNCHANGED <<job, queue2, judge, copy, dead>>

SkipRing1(s) ==
    /\ api[s].at = "skip"
    /\ api' = [api EXCEPT ![s].at = "publish2"]
    /\ \/ row' = Checked("skipped_no_media", api[s].phaseA, api[s].v)
          /\ UNCHANGED <<faults, mishaps>>
       \/ Fault /\ Note("check_unwritten") /\ UNCHANGED row
    /\ UNCHANGED <<job, queue2, judge, copy, dead>>

\* The queue: a new message takes the first free place.
Put(m) ==
    \E d \in Deliveries :
        /\ job[d].at = "unsent" /\ \A e \in 1..(d - 1) : job[e].at # "unsent"
        /\ job' = [job EXCEPT ![d] = m]

\* publish_ring1 and publish_ring2: a failure is logged and the request
\* answers as if the checks were under way.
PublishRing1(s) ==
    /\ api[s].at = "publish"
    /\ Answered(s)
    /\ \/ /\ Put([NoMessage EXCEPT !.at = "queued", !.v = api[s].v, !.phaseA = api[s].phaseA])
          /\ UNCHANGED <<faults, mishaps>>
       \/ Fault /\ Note("unsent") /\ UNCHANGED job
    /\ UNCHANGED <<row, queue2, judge, copy, dead>>

Enqueue2 == queue2' = [queue2 EXCEPT ![0] = @ + 1]

PublishRing2(s) ==
    /\ api[s].at = "publish2"
    /\ Answered(s)
    /\ \/ Enqueue2 /\ UNCHANGED <<faults, mishaps>>
       \/ Fault /\ Note("unsent") /\ UNCHANGED queue2
    /\ UNCHANGED <<row, job, judge, copy, dead>>

\* The server stops before the request has published.
ApiCrash(s) ==
    /\ api[s].at # "idle"
    /\ Fault /\ Note("check_unwritten")
    /\ Answered(s)
    /\ UNCHANGED <<row, job, queue2, judge, copy, dead>>

(***************************************************************************)
(* Ring 1: lambda_handler and _process_submission.                         *)
(***************************************************************************)

Goto(d, at) == job' = [job EXCEPT ![d].at = at]
Raise(d) == job' = [job EXCEPT ![d].at = "error", ![d].retry = TRUE]

\* Variant of Returned for a message that is deleted when it is received.
ReturnedNever(m) == Gone("done")

\* A message that was not deleted: back in its queue, or dead-lettered.
Returned(m) == IF m.tries = MaxReceives THEN Gone("dead")
               ELSE [m EXCEPT !.at = "queued", !.retry = FALSE]
Bury(q, tries) == dead' = dead \cup (IF tries = MaxReceives THEN {q} ELSE {})

\* The queue delivers at least once: a message may be there twice.
Duplicate(d) ==
    /\ job[d].at = "queued"
    /\ Put(job[d])
    /\ UNCHANGED <<row, api, queue2, judge, copy, dead, faults, mishaps>>

Receive(d) ==
    /\ job[d].at = "queued"
    /\ job' = [job EXCEPT ![d].at = "read", ![d].tries = @ + 1]
    /\ UNCHANGED <<row, api, queue2, judge, copy, dead, faults, mishaps>>

\* The idempotency check: a complete row is not checked again, its result is
\* published again. A failed read raises.
ReadRow(d) ==
    /\ job[d].at = "read"
    /\ \/ Goto(d, IF row.ring1 = "complete" THEN "publish" ELSE "mark") /\ UNCHANGED faults
       \/ Fault /\ Raise(d)
    /\ UNCHANGED <<row, api, queue2, judge, copy, dead, mishaps>>

\* Marking the row as running is best effort.
MarkRunning(d) ==
    /\ job[d].at = "mark"
    /\ Goto(d, "run")
    /\ \/ row' = Checked("running", job[d].phaseA, job[d].v) /\ UNCHANGED faults
       \/ Fault /\ UNCHANGED row
    /\ UNCHANGED <<api, queue2, judge, copy, dead, mishaps>>

\* The checks: either no image or no check succeeds and the error is final,
\* or there is a result to write.
RunChecks(d) ==
    /\ job[d].at = "run"
    /\ Goto(d, "error") \/ Goto(d, "write")
    /\ UNCHANGED <<row, api, queue2, judge, copy, dead, faults, mishaps>>

\* A call that raises may have taken effect all the same.
Complete(d) == \E passed \in Results : row' = Checked("complete", passed, job[d].v)

WriteResult(d) ==
    /\ job[d].at = "write"
    /\ \/ Complete(d) /\ Goto(d, "publish") /\ UNCHANGED faults
       \/ Fault /\ Raise(d) /\ (Complete(d) \/ UNCHANGED row)
    /\ UNCHANGED <<api, queue2, judge, copy, dead, mishaps>>

\* Variant of HandOver that logs a failure and ends.
HandOverBestEffort(d) ==
    /\ job[d].at = "publish"
    /\ job' = [job EXCEPT ![d] = Gone("done")]
    /\ \/ Enqueue2 /\ UNCHANGED faults
       \/ Fault /\ UNCHANGED queue2
    /\ UNCHANGED <<row, api, judge, copy, dead, mishaps>>

\* Handing over to Ring 2 after a result is not best effort: a failure raises.
HandOver(d) ==
    /\ job[d].at = "publish"
    /\ \/ Enqueue2 /\ job' = [job EXCEPT ![d] = Gone("done")] /\ UNCHANGED faults
       \/ Fault /\ Raise(d) /\ (Enqueue2 \/ UNCHANGED queue2)
    /\ UNCHANGED <<row, api, judge, copy, dead, mishaps>>

\* The column fails closed, the details keep what Phase A said.
Errored(d) == Details("error", FALSE, job[d].phaseA, job[d].v)

\* Variant of WriteError that keeps the result of Phase A.
WriteErrorOpen(d) ==
    /\ job[d].at = "error"
    /\ Goto(d, "tell")
    /\ row' = Checked("error", job[d].phaseA, job[d].v)
    /\ UNCHANGED <<api, queue2, judge, copy, dead, faults, mishaps>>

\* _write_error, for a final error and for whatever was raised: the row
\* fails closed, then Ring 2 is told; both are best effort.
WriteError(d) ==
    /\ job[d].at = "error"
    /\ Goto(d, "tell")
    /\ \/ row' = Errored(d) /\ UNCHANGED <<faults, mishaps>>
       \/ Fault /\ Note("error_unwritten") /\ UNCHANGED row
    /\ UNCHANGED <<api, queue2, judge, copy, dead>>

TellRing2(d) ==
    /\ job[d].at = "tell"
    /\ \/ Enqueue2 /\ UNCHANGED <<faults, mishaps>>
       \/ Fault /\ Note("unsent") /\ UNCHANGED queue2
    /\ IF job[d].retry
         THEN job' = [job EXCEPT ![d] = Returned(@)] /\ Bury("ring1", job[d].tries)
         ELSE job' = [job EXCEPT ![d] = Gone("done")] /\ UNCHANGED dead
    /\ UNCHANGED <<row, api, judge, copy>>

\* The Lambda is killed or runs into its time limit.
Kill(d) ==
    /\ job[d].at \notin {"unsent", "queued", "done", "dead"}
    /\ Fault
    /\ job' = [job EXCEPT ![d] = Returned(@)]
    /\ Bury("ring1", job[d].tries)
    /\ IF job[d].tries = MaxReceives THEN Note("killed") ELSE UNCHANGED mishaps
    /\ UNCHANGED <<row, api, queue2, judge, copy>>

(***************************************************************************)
(* Ring 2: lambda_handler and _process_record.                             *)
(***************************************************************************)

Release(a) == judge' = [judge EXCEPT ![a] = Free]

Take(a) ==
    /\ judge[a].at = "idle"
    /\ \E n \in DOMAIN queue2 :
          /\ queue2[n] > 0
          /\ queue2' = [queue2 EXCEPT ![n] = @ - 1]
          /\ judge' = [judge EXCEPT ![a] = [Free EXCEPT !.at = "read", !.tries = n + 1]]
    /\ UNCHANGED <<row, api, job, copy, dead, faults, mishaps>>

\* Variant of Look with no idempotency check.
LookAnyRow(a) ==
    /\ judge[a].at = "read"
    /\ judge' = [judge EXCEPT ![a].at = "judge"]
    /\ UNCHANGED <<row, api, job, queue2, copy, dead, faults, mishaps>>

\* A row with a verdict is skipped. A failed read is taken for a permanent
\* error; the master switch, when it cannot be read, counts as off.
Look(a) ==
    /\ judge[a].at = "read"
    /\ \/ row.verdict # "none" /\ Release(a) /\ UNCHANGED <<faults, mishaps>>
       \/ /\ row.verdict = "none"
          /\ judge' = [judge EXCEPT ![a].at = "judge"]
          /\ UNCHANGED <<faults, mishaps>>
       \/ row.verdict = "none" /\ Fault /\ Note("switch_unread") /\ Release(a)
       \/ Fault /\ judge' = [judge EXCEPT ![a].at = "failed"] /\ UNCHANGED mishaps
    /\ UNCHANGED <<row, api, job, queue2, copy, dead>>

\* ArbiterService.evaluate: a decision, or an exception.
Decide(a) ==
    /\ judge[a].at = "judge"
    /\ \/ \E v \in Verdicts :
             judge' = [judge EXCEPT ![a].at = "persist", ![a].decision = v]
          /\ UNCHANGED faults
       \/ Fault /\ judge' = [judge EXCEPT ![a].at = "failed"]
    /\ UNCHANGED <<row, api, job, queue2, copy, dead, mishaps>>

\* Variant of Store for a column without the constraint.
StoreAny(verdict) == [row EXCEPT !.verdict = verdict]

\* The database takes only the verdicts its CHECK constraint lists.
Store(verdict) ==
    IF verdict \in Admitted THEN [row EXCEPT !.verdict = verdict] ELSE row

Retry2(a) ==
    /\ Release(a)
    /\ Bury("ring2", judge[a].tries)
    /\ queue2' = IF judge[a].tries = MaxReceives THEN queue2
                 ELSE [queue2 EXCEPT ![judge[a].tries] = @ + 1]

\* The verdict is written whatever the row holds by now; a failed write
\* leaves the message to be delivered again.
Persist(a) ==
    /\ judge[a].at = "persist"
    /\ LET stored == Store(judge[a].decision)
       IN  \/ /\ row' = stored
              /\ judge' = [judge EXCEPT ![a].at = "report", ![a].decision = "none"]
              /\ UNCHANGED <<queue2, dead, faults>>
           \/ Fault /\ Retry2(a) /\ row' \in {row, stored}
    /\ UNCHANGED <<api, job, copy, mishaps>>

\* What is left is to append the last events.
Report(a) ==
    /\ judge[a].at = "report"
    /\ Release(a)
    /\ UNCHANGED <<row, api, job, queue2, copy, dead, faults, mishaps>>

\* A permanent error is written as a verdict of its own and the message ends.
PersistError(a) ==
    /\ judge[a].at = "failed"
    /\ row' = Store("error")
    /\ Note("gave_up") /\ Release(a)
    /\ UNCHANGED <<api, job, queue2, copy, dead, faults>>

Kill2(a) ==
    /\ judge[a].at # "idle"
    /\ Fault /\ Retry2(a)
    /\ UNCHANGED <<row, api, job, copy, mishaps>>

(***************************************************************************)
(* emit_verification_event of the Lambdas and of the arbiter.              *)
(***************************************************************************)

\* The database function fails and the append reads the row instead. Ring 1
\* appends while it checks and before it hands over, Ring 2 until it has
\* reported; the arbiter's own helper writes the other column too.
AppendRead(e) ==
    /\ ~copy[e].held /\ Fault
    /\ \E column \in BOOLEAN :
          /\ IF column THEN \E a \in Arbiters : judge[a].at = "judge"
             ELSE \/ \E d \in Deliveries : job[d].at \in {"run", "publish"}
                  \/ \E a \in Arbiters : judge[a].at # "idle"
          /\ copy' = [copy EXCEPT ![e] = [held |-> TRUE, ring1 |-> row.ring1, of |-> row.of,
                                          says |-> row.says, column |-> column]]
    /\ UNCHANGED <<row, api, job, queue2, judge, dead, mishaps>>

\* All of auto_check_details is written back, however late, or the write fails.
Rewritten(e) ==
    Details(copy[e].ring1, IF copy[e].column THEN copy[e].says ELSE row.passed,
            copy[e].says, copy[e].of)

AppendWrite(e) ==
    /\ copy[e].held
    /\ copy' = [copy EXCEPT ![e] = NoCopy]
    /\ \/ row' = Rewritten(e)
       \/ UNCHANGED row
    /\ IF row' # row THEN Note("rewritten") ELSE UNCHANGED mishaps
    /\ UNCHANGED <<api, job, queue2, judge, dead, faults>>

----------------------------------------------------------------------------
Ring1(d) ==
    \/ Receive(d) \/ ReadRow(d) \/ MarkRunning(d) \/ RunChecks(d)
    \/ WriteResult(d) \/ HandOver(d) \/ WriteError(d) \/ TellRing2(d)

Ring2(a) ==
    \/ Take(a) \/ Look(a) \/ Decide(a) \/ Persist(a) \/ Report(a) \/ PersistError(a)

Next ==
    \/ \E s \in Submits : Submit(s) \/ PhaseA(s) \/ SkipRing1(s) \/ PublishRing1(s)
                          \/ PublishRing2(s) \/ ApiCrash(s)
    \/ \E d \in Deliveries : Ring1(d) \/ Kill(d) \/ Duplicate(d)
    \/ \E a \in Arbiters : Ring2(a) \/ Kill2(a)
    \/ \E e \in Appends : AppendRead(e) \/ AppendWrite(e)

Spec == Init /\ [][Next]_vars

\* The queues go on delivering: a waiting message is received and the Lambda
\* that received it goes on. Nothing is assumed of the worker, the publisher
\* or the server.
Fairness ==
    /\ \A d \in Deliveries : WF_vars(Ring1(d))
    /\ \A a \in Arbiters : WF_vars(Ring2(a))

FairSpec == Spec /\ Fairness

----------------------------------------------------------------------------
TypeOK ==
    /\ row \in [evidence : 0..MaxEvidence, ring1 : Ring1Statuses, passed : BOOLEAN,
                says : BOOLEAN, of : 0..MaxEvidence, verdict : Admitted]
    /\ api \in [Submits ->
                  [at : {"idle", "check", "skip", "publish", "publish2"}, v : 0..MaxEvidence,
                   media : BOOLEAN, phaseA : BOOLEAN]]
    /\ job \in [Deliveries ->
                  [at : {"unsent", "queued", "read", "mark", "run", "write", "publish",
                         "error", "tell", "done", "dead"},
                   v : 0..MaxEvidence, tries : 0..MaxReceives, phaseA : BOOLEAN, retry : BOOLEAN]]
    /\ queue2 \in [0..(MaxReceives - 1) -> Nat]
    /\ judge \in [Arbiters ->
                    [at : {"idle", "read", "judge", "failed", "persist", "report"},
                     tries : 0..MaxReceives, decision : Admitted]]
    /\ copy \in [Appends ->
                   [held : BOOLEAN, ring1 : Ring1Statuses, of : 0..MaxEvidence, says : BOOLEAN,
                    column : BOOLEAN]]
    /\ dead \subseteq {"ring1", "ring2"}
    /\ faults \in 0..MaxFaults
    /\ mishaps \subseteq Mishaps

\* What the row says Ring 1 found is about the evidence the row holds, once
\* the submit request has cleared the older result. The idempotency check of
\* Ring 1 reads only a status, so it relies on Phase A to reset it: the
\* exceptions are evidence sent while a message or a request about the older
\* is under way, a reset that was not written, and an event that was appended
\* by rewriting details that had changed.
CheckOfEvidence ==
    row.ring1 = "complete" =>
        \/ row.of = row.evidence
        \/ \E s \in Submits : api[s].at = "check"
        \/ mishaps \cap {"overlap", "check_unwritten", "rewritten"} # {}

\* A pipeline error never leaves the row marked as passed (C-42): once no
\* message is under way, a row that says passed has a Ring 1 result or never
\* had Ring 1 run, unless the error itself could not be written, the Lambda
\* was killed on its last receive, or an appended event rewrote the row.
FailsClosed ==
    (\A d \in Deliveries : Settled(d)) /\ row.passed =>
        \/ row.ring1 \in {"none", "skipped_no_media", "complete"}
        \/ mishaps \cap {"error_unwritten", "killed", "rewritten"} # {}

\* The evaluations whose decision may still be written.
Judging == {a \in Arbiters : judge[a].at \in {"judge", "persist"}}

\* Ring 2 takes a duplicate message for done: however many Lambdas run, a row
\* with a verdict is not evaluated again, and only an evaluation that began
\* before the verdict was there can still replace it.
VerdictFinal ==
    [][row.verdict # "none" =>
          Judging' \subseteq Judging /\ (row'.verdict # row.verdict => Judging # {})]_vars

\* A Ring 1 result reaches the arbiter however the hand-over fails (C-07,
\* C-14): a verdict follows, or a message is in a dead-letter queue where an
\* operator finds it, unless the best-effort call after an error failed too or
\* the arbiter gave up.
CompleteIsJudged ==
    row.ring1 = "complete" ~>
        row.verdict # "none" \/ dead # {} \/ mishaps \cap {"unsent", "switch_unread", "gave_up"} # {}

\* The row does not stay running for ever (C-08), unless the error could not
\* be written, the Lambda was killed on its last receive, or an appended event
\* rewrote the row.
RunEnds ==
    row.ring1 = "running" ~>
        row.ring1 # "running" \/ mishaps \cap {"error_unwritten", "killed", "rewritten"} # {}

\* What the error path of Ring 2 promises: a message it took off the queue
\* for good has left a verdict, or an error in its place, in the row.
GivenUpIsRecorded ==
    (\A a \in Arbiters : judge[a].at = "idle") /\ "gave_up" \in mishaps => row.verdict # "none"
=============================================================================
