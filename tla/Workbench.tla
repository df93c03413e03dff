------------------------------ MODULE Workbench ------------------------------
(***************************************************************************)
(* The durable job ledger of `allie workbench` (src/src/workbench.rs): one *)
(* job directory whose job.json and events.jsonl are shared, with no lock, *)
(* by the processes an operator starts: `workbench start` and `workbench   *)
(* resume` run the pipeline in the foreground and checkpoint after every   *)
(* step, `workbench cancel` rewrites the ledger from another terminal.     *)
(*                                                                         *)
(* Every write of job.json is three accesses to the directory: append an   *)
(* event, read the ledger that is there, rename a merged packet over it    *)
(* (write_workbench_job).  The model interleaves the processes between     *)
(* those accesses and lets any process die between any two of them.        *)
(***************************************************************************)
EXTENDS Naturals, Sequences

CONSTANTS
    Starters,    \* processes that run `workbench start`, once each
    Resumers,    \* processes that run `workbench resume`, once each
    Cancellers,  \* processes that run `workbench cancel`, once each
    Steps,       \* the pipeline's step ids, in order
    RunStep,     \* the step whose infrastructure failure ends the job
    NoJob        \* job.json does not exist

ASSUME ProcessAssumption ==
    /\ Starters \cap Resumers = {}
    /\ Starters \cap Cancellers = {}
    /\ Resumers \cap Cancellers = {}

ASSUME StepsAssumption ==
    /\ Steps \in Seq(STRING)
    /\ Steps # <<>>
    /\ RunStep \in STRING

Runners == Starters \cup Resumers
Procs   == Runners \cup Cancellers

VARIABLES
    job,      \* the content of job.json
    events,   \* events.jsonl: how many lines of each lifecycle event it holds
    claimed,  \* events.jsonl exists
    at,       \* where each process is
    io,       \* how far its current write of the ledger has come
    mem,      \* the job packet each process holds
    seen,     \* the packet its current write found in job.json
    pos,      \* the index of the step each runner is at
    ending,   \* the status a runner will hand to workbench_finish
    receipt   \* what each process reported when it returned, and its generation

vars == <<job, events, claimed, at, io, mem, seen, pos, ending, receipt>>

disk == <<job, events, claimed>>

----------------------------------------------------------------------------
(* Job packets *)

StepStatuses == {"running", "completed", "blocked", "failed"}
JobStatuses  == StepStatuses \cup {"cancelled"}

StepIds      == {Steps[i] : i \in DOMAIN Steps}

StepRecord == [id : StepIds, status : StepStatuses]

(* WorkbenchJobPacket, without what no transition reads: paths, clocks,    *)
(* runtime policy, warnings, and the pointers and artifacts that repeat    *)
(* `steps`.  `resumable` is TRUE in every packet the code writes.          *)
Packet == [status   : JobStatuses,
           current  : StepIds \cup {"queued", "cancelled", "finished"},
           cancel   : BOOLEAN,      \* cancel_requested
           finished : BOOLEAN,      \* finished_at is set
           resumes  : Nat,          \* resume_count
           steps    : Seq(StepRecord)]

ASSUME NoJobAssumption == NoJob \notin Packet

EventNames == {"job_started", "job_resumed", "job_cancel_requested",
               "job_cancelled", "job_finished"}

NewJob ==
    [status |-> "running", current |-> "queued", cancel |-> FALSE,
     finished |-> FALSE, resumes |-> 0, steps |-> <<>>]

(* Two slips of a resume: it keeps the generation, or the finish time.     *)
ResumeSameGeneration(j) ==
    [j EXCEPT !.status = "running", !.current = "queued", !.finished = FALSE,
              !.cancel = FALSE]

ResumeKeepsFinishTime(j) ==
    [j EXCEPT !.status = "running", !.current = "queued",
              !.cancel = FALSE, !.resumes = @ + 1]

(* reset_workbench_job_for_resume                                          *)
ResetForResume(j) ==
    [j EXCEPT !.status = "running", !.current = "queued", !.finished = FALSE,
              !.cancel = FALSE, !.resumes = @ + 1]

CancelRequested(j) == j # NoJob /\ (j.cancel \/ j.status = "cancelled")

StepStarted(j, step) ==
    [j EXCEPT !.status = "running", !.current = step,
              !.steps = Append(@, [id |-> step, status |-> "running"])]

(* A slip: the step's first record, which may be an older generation's.    *)
IsFirstOf(records, step, i) ==
    /\ records[i].id = step
    /\ \A k \in DOMAIN records : records[k].id = step => i <= k

(* The last record of a step: the code searches the records backwards.     *)
IsLastOf(records, step, i) ==
    /\ records[i].id = step
    /\ \A k \in DOMAIN records : records[k].id = step => k <= i

StepEnded(j, step, status) ==
    [j EXCEPT !.steps =
        [i \in DOMAIN j.steps |->
            IF IsLastOf(j.steps, step, i)
            THEN [j.steps[i] EXCEPT !.status = status]
            ELSE j.steps[i]]]

(* workbench_finish on the packet in memory: a cancellation overrides the  *)
(* status the pipeline came to.                                            *)
Finished(j, status, cancelled) ==
    [j EXCEPT !.status   = IF cancelled THEN "cancelled" ELSE status,
              !.current  = IF cancelled THEN "cancelled" ELSE "finished",
              !.finished = TRUE,
              !.cancel   = @ \/ cancelled]

(* A slip: a write that trusts its own packet.                             *)
MergedBlindly(new, old) == new

(* write_workbench_job: what is renamed over job.json when the packet `new`*)
(* is written after the ledger was read as `old`.                          *)
Merged(new, old) ==
    IF old = NoJob \/ old.resumes # new.resumes
    THEN new
    ELSE LET kept == [new EXCEPT !.cancel = @ \/ old.cancel]
         IN  IF old.status = "cancelled" /\ new.status # "cancelled"
             THEN [kept EXCEPT !.status   = old.status,
                               !.current  = old.current,
                               !.finished = old.finished]
             ELSE kept

----------------------------------------------------------------------------
(* Control points *)

Writing == {"open", "start", "complete", "finish", "cancel"}
Points  == Writing \cup {"idle", "claim", "before", "started", "body",
                         "closing", "done", "dead"}
Stages  == {"none", "append", "read", "rename"}

TypeOK ==
    /\ job \in Packet \cup {NoJob}
    /\ events \in [EventNames -> Nat]
    /\ claimed \in BOOLEAN
    /\ at \in [Procs -> Points]
    /\ io \in [Procs -> Stages]
    /\ mem \in [Procs -> Packet]
    /\ seen \in [Procs -> Packet \cup {NoJob}]
    /\ pos \in [Procs -> 1 .. Len(Steps)]
    /\ ending \in [Procs -> JobStatuses \cup {"none"}]
    /\ receipt \in [Procs -> [status : JobStatuses \cup {"none"}, resumes : Nat]]

Init ==
    /\ job = NoJob
    /\ events = [e \in EventNames |-> 0]
    /\ claimed = FALSE
    /\ at = [p \in Procs |-> "idle"]
    /\ io = [p \in Procs |-> "none"]
    /\ mem = [p \in Procs |-> NewJob]
    /\ seen = [p \in Procs |-> NoJob]
    /\ pos = [p \in Procs |-> 1]
    /\ ending = [p \in Procs |-> "none"]
    /\ receipt = [p \in Procs |-> [status |-> "none", resumes |-> 0]]

Live(p) == at[p] \notin {"idle", "done", "dead"}

(* A process that ends takes its memory with it.                           *)
Forget(p) ==
    /\ mem' = [mem EXCEPT ![p] = NewJob]
    /\ seen' = [seen EXCEPT ![p] = NoJob]
    /\ pos' = [pos EXCEPT ![p] = 1]
    /\ ending' = [ending EXCEPT ![p] = "none"]

Go(p, point, stage) ==
    /\ at' = [at EXCEPT ![p] = point]
    /\ io' = [io EXCEPT ![p] = stage]

----------------------------------------------------------------------------
(* workbench start, workbench resume: before the pipeline *)

(* ensure_new_workbench_dir finds no durable state.  A start that finds    *)
(* some is refused and changes nothing.                                    *)
StartAccepted(p) ==
    /\ at[p] = "idle"
    /\ job = NoJob
    /\ ~claimed
    /\ Go(p, "claim", "none")
    /\ UNCHANGED <<disk, mem, seen, pos, ending, receipt>>

(* write_string truncates whatever events.jsonl holds by now; then the     *)
(* manifest is loaded and validated, and on an error the process returns.  *)
CreateEventLog(p) ==
    /\ at[p] = "claim"
    /\ events' = [e \in EventNames |-> 0]
    /\ claimed' = TRUE
    /\ \/ Go(p, "open", "append")
       \/ Go(p, "dead", "none")
    /\ UNCHANGED <<job, mem, seen, pos, ending, receipt>>

(* run_workbench_resume.  The manifest loads, too; a resume that finds no  *)
(* ledger, or a manifest that does not load, returns and changes nothing.  *)
ResumeRead(p) ==
    /\ at[p] = "idle"
    /\ job # NoJob
    /\ mem' = [mem EXCEPT ![p] = ResetForResume(job)]
    /\ Go(p, "open", "append")
    /\ UNCHANGED <<disk, seen, pos, ending, receipt>>

----------------------------------------------------------------------------
(* One write of the ledger: append, read, rename *)

(* The step_started and step_completed lines are left out of `events`: the *)
(* two writes of a step begin with their read.                             *)
EventOf(p) ==
    CASE at[p] = "open" /\ p \in Starters -> "job_started"
      [] at[p] = "open" /\ p \in Resumers -> "job_resumed"
      [] at[p] = "cancel"                 -> "job_cancel_requested"
      [] OTHER -> IF mem[p].status = "cancelled" THEN "job_cancelled"
                                                 ELSE "job_finished"

AppendEvent(p) ==
    /\ io[p] = "append"
    /\ events' = [events EXCEPT ![EventOf(p)] = @ + 1]
    /\ claimed' = TRUE
    /\ io' = [io EXCEPT ![p] = "read"]
    /\ UNCHANGED <<job, at, mem, seen, pos, ending, receipt>>

ReadLedger(p) ==
    /\ io[p] = "read"
    /\ seen' = [seen EXCEPT ![p] = job]
    /\ io' = [io EXCEPT ![p] = "rename"]
    /\ UNCHANGED <<disk, at, mem, pos, ending, receipt>>

(* A slip: the end of the pipeline is seen one step late.                  *)
IsPastLastStep(p) == pos[p] > Len(Steps)

IsLastStep(p) == pos[p] = Len(Steps)

(* Where a process goes once its write is on disk.  The checkpoint after a *)
(* step is followed at once by the one before the next step, or by the     *)
(* look of workbench_finish: each pair is one look here.                   *)
AfterWrite(p) ==
    CASE at[p] = "open"     -> "before"
      [] at[p] = "start"    -> "started"
      [] at[p] = "complete" -> IF ending[p] = "failed" \/ IsLastStep(p)
                               THEN "closing" ELSE "before"
      [] OTHER              -> "done"

RenameLedger(p) ==
    /\ io[p] = "rename"
    /\ job' = Merged(mem[p], seen[p])
    /\ Go(p, AfterWrite(p), "none")
    /\ IF AfterWrite(p) = "done"
       THEN /\ receipt' = [receipt EXCEPT ![p] = [status  |-> mem[p].status,
                                                 resumes |-> mem[p].resumes]]
            /\ Forget(p)
       ELSE /\ seen' = [seen EXCEPT ![p] = NoJob]
            /\ pos' = [pos EXCEPT ![p] = IF /\ at[p] = "complete"
                                            /\ AfterWrite(p) = "before"
                                         THEN @ + 1 ELSE @]
            /\ UNCHANGED <<mem, ending, receipt>>
    /\ UNCHANGED <<events, claimed>>

----------------------------------------------------------------------------
(* The pipeline under workbench_pipeline_checkpoint *)

(* A slip: the job is closed without a line in the event log.              *)
FinishUnlogged(p, status, cancelled) ==
    /\ mem' = [mem EXCEPT ![p] = Finished(@, status, cancelled)]
    /\ Go(p, "finish", "read")
    /\ UNCHANGED <<disk, seen, pos, ending, receipt>>

(* workbench_finish once its status is known: the packet in memory takes   *)
(* the status, and its write begins with the event.                        *)
BeginFinish(p, status, cancelled) ==
    /\ mem' = [mem EXCEPT ![p] = Finished(@, status, cancelled)]
    /\ Go(p, "finish", "append")
    /\ UNCHANGED <<disk, seen, pos, ending, receipt>>

(* workbench_cancel_checkpoint finds a cancellation.                       *)
CheckpointCancels(p) ==
    /\ at[p] \in {"before", "started"}
    /\ CancelRequested(job)
    /\ BeginFinish(p, "cancelled", TRUE)

(* The checkpoint before a step passes: workbench_step_start.              *)
BeginStep(p) ==
    /\ at[p] = "before"
    /\ ~CancelRequested(job)
    /\ mem' = [mem EXCEPT ![p] = StepStarted(@, Steps[pos[p]])]
    /\ Go(p, "start", "read")
    /\ UNCHANGED <<disk, seen, pos, ending, receipt>>

(* The checkpoint after the step's record is written passes.               *)
EnterBody(p) ==
    /\ at[p] = "started"
    /\ ~CancelRequested(job)
    /\ Go(p, "body", "none")
    /\ UNCHANGED <<disk, mem, seen, pos, ending, receipt>>

(* status_for_exit_class of the receipt: only the run and the release      *)
(* steps have one other than success, and run_release never reports an     *)
(* infrastructure failure.                                                 *)
BodyStatuses(p) ==
    {"completed"}
        \cup (IF Steps[pos[p]] = RunStep THEN {"blocked", "failed"} ELSE {})
        \cup (IF IsLastStep(p) THEN {"blocked"} ELSE {})

(* What a step's record leads to: a failed run ends the job, the release   *)
(* step's status is the job's.                                             *)
EndingAfter(p, status) ==
    IF status = "failed" THEN "failed"
    ELSE IF IsLastStep(p) THEN status
    ELSE ending[p]

StepReturns(p) ==
    /\ at[p] = "body"
    /\ \E status \in BodyStatuses(p) :
          /\ mem' = [mem EXCEPT ![p] = StepEnded(@, Steps[pos[p]], status)]
          /\ ending' = [ending EXCEPT ![p] = EndingAfter(p, status)]
    /\ Go(p, "complete", "read")
    /\ UNCHANGED <<disk, seen, pos, receipt>>

(* The step returns an error: workbench_step_error.                        *)
StepErrors(p) ==
    /\ at[p] = "body"
    /\ mem' = [mem EXCEPT ![p] = StepEnded(@, Steps[pos[p]], "failed")]
    /\ ending' = [ending EXCEPT ![p] = "failed"]
    /\ Go(p, "complete", "read")
    /\ UNCHANGED <<disk, seen, pos, receipt>>

(* workbench_finish: the last look at the ledger before it is closed.      *)
Close(p) ==
    /\ at[p] = "closing"
    /\ BeginFinish(p, ending[p], CancelRequested(job))

----------------------------------------------------------------------------
(* workbench cancel *)

CancelRead(p) ==
    /\ at[p] = "idle"
    /\ job # NoJob
    /\ mem' = [mem EXCEPT ![p] = [job EXCEPT !.status  = "cancelled",
                                             !.current = "cancelled",
                                             !.cancel  = TRUE]]
    /\ Go(p, "cancel", "append")
    /\ UNCHANGED <<disk, seen, pos, ending, receipt>>

----------------------------------------------------------------------------

(* A crash, a kill, or an I/O error of any access: the process is gone and *)
(* the directory stays as it is.                                           *)
Die(p) ==
    /\ Live(p)
    /\ Go(p, "dead", "none")
    /\ Forget(p)
    /\ UNCHANGED <<disk, receipt>>

Write(p) == AppendEvent(p) \/ ReadLedger(p) \/ RenameLedger(p)

Pipeline(p) ==
    \/ CheckpointCancels(p)
    \/ BeginStep(p)
    \/ EnterBody(p)
    \/ StepReturns(p)
    \/ StepErrors(p)
    \/ Close(p)

(* A process that has been started goes on by itself.                      *)
Advance(p) ==
    \/ CreateEventLog(p)
    \/ Write(p)
    \/ Pipeline(p)

Next ==
    \/ \E p \in Starters : StartAccepted(p)
    \/ \E p \in Resumers : ResumeRead(p)
    \/ \E p \in Cancellers : CancelRead(p)
    \/ \E p \in Procs : Advance(p)
    \/ \E p \in Procs : Die(p)

Spec == Init /\ [][Next]_vars

(* The operator decides when to start a process; once started it runs: its *)
(* steps are bounded by the worker and agent timeouts.                     *)
FairSpec == Spec /\ \A p \in Procs : WF_vars(Advance(p))
----------------------------------------------------------------------------
(* Properties *)

(* The event log is ahead of the ledger: whatever job.json says happened   *)
(* has its line in events.jsonl, a crash between the two included, because *)
(* every transition appends before it writes.  (For one `start`: a second  *)
(* one that looks before the first writes truncates the log.)              *)
LogAheadOfLedger ==
    job # NoJob =>
        /\ events["job_started"] > 0
        /\ job.resumes <= events["job_resumed"]
        /\ job.status \in {"completed", "blocked", "failed"} =>
               events["job_finished"] > 0
        /\ job.status = "cancelled" =>
               events["job_cancel_requested"] + events["job_cancelled"] > 0

(* A packet whose last records are every step, in pipeline order, each     *)
(* ended without an infrastructure failure.                                *)
AllStepsRecorded(j) ==
    /\ Len(j.steps) >= Len(Steps)
    /\ \A i \in DOMAIN Steps :
          LET record == j.steps[Len(j.steps) - Len(Steps) + i]
          IN  /\ record.id = Steps[i]
              /\ record.status \in {"completed", "blocked"}

(* A job that job.json calls completed or blocked went through every step  *)
(* of the pipeline in its last generation, whoever wrote the ledger in     *)
(* between: a cancellation, an error, an infrastructure failure of the run *)
(* step or a crash never leaves one of those two statuses behind.          *)
ClosedJobIsWhole ==
    job # NoJob /\ job.status \in {"completed", "blocked"} =>
        job.finished /\ AllStepsRecorded(job)

(* finished_at is never left on a ledger that says the job is running: a   *)
(* resume clears it, and a merge takes it together with the status.        *)
RunningIsUnfinished ==
    job # NoJob /\ job.status = "running" => ~job.finished

(* What `workbench start|resume` reported when it returned is what the     *)
(* ledger of its generation says, unless a cancellation came in after the  *)
(* runner last looked: nothing else turns one final status into another.   *)
ReceiptStands ==
    \A p \in Runners :
        job # NoJob /\ at[p] = "done" /\ job.resumes = receipt[p].resumes =>
            job.status \in {receipt[p].status, "cancelled"}

(* No write in flight was merged from an older ledger than the one there.  *)
NoStaleWriter == \A p \in Procs : io[p] = "rename" => seen[p] = job

(* A cancellation that every write in flight has read is never lost: only  *)
(* a resume, or a write of another generation, takes it off the ledger.    *)
CancelSurvivesFreshWrites ==
    [][job # NoJob /\ CancelRequested(job) /\ NoStaleWriter =>
          CancelRequested(job') \/ job'.resumes # job.resumes]_job

(* A cancellation on disk that no write in flight will overwrite stops the *)
(* runner, whatever step it is in: it returns (or dies) and the job stays  *)
(* cancelled, before and after.                                            *)
CancelStopsTheRunner ==
    (CancelRequested(job) /\ NoStaleWriter) ~>
        [](CancelRequested(job) /\ \A p \in Runners : ~Live(p))
=============================================================================
