---------------------------- MODULE WorkbenchProofs ----------------------------
(***************************************************************************)
(* Theorems about the job ledger, for every set of processes and every     *)
(* pipeline.                                                               *)
(***************************************************************************)
EXTENDS Workbench, SequenceTheorems, TLAPS

----------------------------------------------------------------------------
(* What the operations on packets return. *)

LEMMA NewJobType == NewJob \in Packet
<1>1. <<>> \in Seq(StepRecord)
  OBVIOUS
<1>2. QED
  BY <1>1 DEF NewJob, Packet, JobStatuses, StepStatuses

LEMMA ResetType ==
    ASSUME NEW j \in Packet
    PROVE  /\ ResetForResume(j) \in Packet
           /\ ResetForResume(j).resumes = j.resumes + 1
           /\ ~ResetForResume(j).finished
<1>1. j.resumes + 1 \in Nat
  BY DEF Packet
<1> DEFINE n == j.resumes + 1
<1>2. ResetForResume(j) =
        [j EXCEPT !.status = "running", !.current = "queued",
                  !.finished = FALSE, !.cancel = FALSE, !.resumes = n]
  BY DEF ResetForResume
<1> HIDE DEF n
<1>3. [j EXCEPT !.status = "running", !.current = "queued",
                !.finished = FALSE, !.cancel = FALSE, !.resumes = n] \in Packet
  BY <1>1 DEF n, Packet, JobStatuses, StepStatuses
<1>4. QED
  BY <1>2, <1>3 DEF n, Packet

LEMMA CancelType ==
    ASSUME NEW j \in Packet
    PROVE  [j EXCEPT !.status = "cancelled", !.current = "cancelled",
                     !.cancel = TRUE] \in Packet
BY DEF Packet, JobStatuses

LEMMA StepStartedType ==
    ASSUME NEW j \in Packet, NEW step \in StepIds
    PROVE  StepStarted(j, step) \in Packet
<1>1. j.steps \in Seq(StepRecord)
  BY DEF Packet
<1>2. [id |-> step, status |-> "running"] \in StepRecord
  BY DEF StepRecord, StepStatuses
<1>3. Append(j.steps, [id |-> step, status |-> "running"]) \in Seq(StepRecord)
  BY <1>1, <1>2, AppendProperties
<1>4. QED
  BY <1>3 DEF StepStarted, Packet, JobStatuses, StepStatuses

LEMMA StepEndedType ==
    ASSUME NEW j \in Packet, NEW step, NEW status \in StepStatuses
    PROVE  StepEnded(j, step, status) \in Packet
<1> DEFINE records == [i \in DOMAIN j.steps |->
                         IF IsLastOf(j.steps, step, i)
                         THEN [j.steps[i] EXCEPT !.status = status]
                         ELSE j.steps[i]]
<1>1. j.steps \in Seq(StepRecord)
  BY DEF Packet
<1>2. PICK n \in Nat : j.steps \in [1 .. n -> StepRecord]
  BY <1>1, SeqDef
<1>3. DOMAIN j.steps = 1 .. n
  BY <1>2
<1>4. \A i \in 1 .. n : j.steps[i] \in StepRecord
  BY <1>2
<1>5. \A i \in 1 .. n : [j.steps[i] EXCEPT !.status = status] \in StepRecord
  BY <1>4 DEF StepRecord
<1>6. records \in [1 .. n -> StepRecord]
  BY <1>3, <1>4, <1>5
<1>7. records \in Seq(StepRecord)
  BY <1>2, <1>6, SeqDef
<1>8. StepEnded(j, step, status) = [j EXCEPT !.steps = records]
  BY DEF StepEnded
<1> HIDE DEF records
<1>9. QED
  BY <1>7, <1>8 DEF Packet

LEMMA FinishedType ==
    ASSUME NEW j \in Packet, NEW status \in JobStatuses, NEW cancelled \in BOOLEAN
    PROVE  Finished(j, status, cancelled) \in Packet
BY DEF Finished, Packet, JobStatuses, StepStatuses

LEMMA MergedType ==
    ASSUME NEW new \in Packet, NEW old \in Packet \cup {NoJob}
    PROVE  Merged(new, old) \in Packet
<1>1. CASE old = NoJob \/ old.resumes # new.resumes
  BY <1>1 DEF Merged
<1>2. CASE ~(old = NoJob \/ old.resumes # new.resumes)
  <2>1. old \in Packet
    BY <1>2
  <2>2. QED
    BY <1>2, <2>1 DEF Merged, Packet, JobStatuses, StepStatuses
<1>3. QED
  BY <1>1, <1>2

LEMMA CancelRequestedType ==
    ASSUME NEW j \in Packet \cup {NoJob} PROVE CancelRequested(j) \in BOOLEAN
BY DEF CancelRequested, Packet

(* There is a first step, and every position names one.                    *)
LEMMA StepPositions ==
    /\ Len(Steps) \in Nat \ {0}
    /\ 1 \in 1 .. Len(Steps)
    /\ \A i \in 1 .. Len(Steps) : Steps[i] \in StepIds
<1>1. Steps \in Seq(STRING) /\ Steps # <<>>
  BY StepsAssumption
<1>2. Len(Steps) \in Nat \ {0} /\ DOMAIN Steps = 1 .. Len(Steps)
  BY <1>1, EmptySeq, LenProperties
<1>3. QED
  BY <1>2 DEF StepIds

----------------------------------------------------------------------------
(* Type correctness. *)

LEMMA GoType ==
    ASSUME TypeOK, NEW p \in Procs, NEW point \in Points, NEW stage \in Stages,
           Go(p, point, stage)
    PROVE  at' \in [Procs -> Points] /\ io' \in [Procs -> Stages]
BY DEF TypeOK, Go

LEMMA ForgetType ==
    ASSUME TypeOK, NEW p \in Procs, Forget(p)
    PROVE  /\ mem' \in [Procs -> Packet]
           /\ seen' \in [Procs -> Packet \cup {NoJob}]
           /\ pos' \in [Procs -> 1 .. Len(Steps)]
           /\ ending' \in [Procs -> JobStatuses \cup {"none"}]
BY NewJobType, StepPositions DEF TypeOK, Forget

LEMMA BeginFinishType ==
    ASSUME TypeOK, NEW p \in Procs, NEW status \in JobStatuses,
           NEW cancelled \in BOOLEAN, BeginFinish(p, status, cancelled)
    PROVE  TypeOK'
<1>1. mem[p] \in Packet
  BY DEF TypeOK
<1>2. mem' \in [Procs -> Packet]
  BY <1>1, FinishedType DEF BeginFinish, TypeOK
<1>3. at' \in [Procs -> Points] /\ io' \in [Procs -> Stages]
  BY GoType DEF BeginFinish, Points, Writing, Stages
<1>4. QED
  BY <1>2, <1>3 DEF BeginFinish, TypeOK, disk

(* What types alone do not say: a runner that has come to the end of the   *)
(* pipeline has a status to close the job with.                            *)
EndingKnown ==
    \A p \in Procs :
        at[p] = "closing" \/ (at[p] = "complete" /\ IsLastStep(p)) =>
            ending[p] \in {"completed", "blocked", "failed"}

LEMMA InitType == Init => TypeOK /\ EndingKnown
<1> SUFFICES ASSUME Init PROVE TypeOK /\ EndingKnown
  OBVIOUS
<1>1. at \in [Procs -> Points] /\ io \in [Procs -> Stages]
  BY DEF Init, Points, Stages
<1>2. mem \in [Procs -> Packet] /\ seen \in [Procs -> Packet \cup {NoJob}]
  BY NewJobType DEF Init
<1>3. pos \in [Procs -> 1 .. Len(Steps)]
  BY StepPositions DEF Init
<1>4. [status |-> "none", resumes |-> 0]
        \in [status : JobStatuses \cup {"none"}, resumes : Nat]
  OBVIOUS
<1>5. receipt \in [Procs -> [status : JobStatuses \cup {"none"}, resumes : Nat]]
  BY <1>4 DEF Init
<1>6. EndingKnown
  BY DEF Init, EndingKnown
<1>7. QED
  BY <1>1, <1>2, <1>3, <1>5, <1>6 DEF Init, TypeOK

(* Every step of every process keeps the types: one step of the proof for  *)
(* each action.                                                            *)
LEMMA NextType == TypeOK /\ EndingKnown /\ [Next]_vars => TypeOK'
<1> SUFFICES ASSUME TypeOK, EndingKnown, [Next]_vars PROVE TypeOK'
  OBVIOUS
<1> USE DEF disk
<1>1. ASSUME NEW p \in Starters, StartAccepted(p) PROVE TypeOK'
  <2>1. p \in Procs /\ "claim" \in Points /\ "none" \in Stages
    BY DEF Procs, Runners, Points, Stages
  <2>2. at' \in [Procs -> Points] /\ io' \in [Procs -> Stages]
    BY <1>1, <2>1, GoType DEF StartAccepted
  <2>3. QED
    BY <1>1, <2>2 DEF StartAccepted, TypeOK
<1>2. ASSUME NEW p \in Resumers, ResumeRead(p) PROVE TypeOK'
  <2>1. p \in Procs /\ "open" \in Points /\ "append" \in Stages
    BY DEF Procs, Runners, Points, Writing, Stages
  <2>2. at' \in [Procs -> Points] /\ io' \in [Procs -> Stages]
    BY <1>2, <2>1, GoType DEF ResumeRead
  <2>3. job \in Packet
    BY <1>2 DEF ResumeRead, TypeOK
  <2>4. mem' \in [Procs -> Packet]
    BY <1>2, <2>3, ResetType DEF ResumeRead, TypeOK
  <2>5. QED
    BY <1>2, <2>2, <2>4 DEF ResumeRead, TypeOK
<1>3. ASSUME NEW p \in Cancellers, CancelRead(p) PROVE TypeOK'
  <2>1. p \in Procs /\ "cancel" \in Points /\ "append" \in Stages
    BY DEF Procs, Points, Writing, Stages
  <2>2. at' \in [Procs -> Points] /\ io' \in [Procs -> Stages]
    BY <1>3, <2>1, GoType DEF CancelRead
  <2>3. job \in Packet
    BY <1>3 DEF CancelRead, TypeOK
  <2>4. mem' \in [Procs -> Packet]
    BY <1>3, <2>3, CancelType DEF CancelRead, TypeOK
  <2>5. QED
    BY <1>3, <2>2, <2>4 DEF CancelRead, TypeOK
<1>4. ASSUME NEW p \in Procs, CreateEventLog(p) PROVE TypeOK'
  <2>1. at' \in [Procs -> Points] /\ io' \in [Procs -> Stages]
    BY <1>4, GoType DEF CreateEventLog, Points, Writing, Stages
  <2>2. events' \in [EventNames -> Nat] /\ claimed' \in BOOLEAN
    BY <1>4 DEF CreateEventLog
  <2>3. QED
    BY <1>4, <2>1, <2>2 DEF CreateEventLog, TypeOK
<1>5. ASSUME NEW p \in Procs, AppendEvent(p) PROVE TypeOK'
  <2>1. events' \in [EventNames -> Nat]
    <3> DEFINE e == EventOf(p)
    <3>1. e \in EventNames
      BY DEF EventOf, EventNames
    <3>2. events' = [events EXCEPT ![e] = events[e] + 1]
      BY <1>5 DEF AppendEvent
    <3> HIDE DEF e
    <3>3. events \in [EventNames -> Nat] /\ events[e] + 1 \in Nat
      BY <3>1 DEF TypeOK
    <3>4. QED
      BY <3>2, <3>3
  <2>2. io' \in [Procs -> Stages]
    BY <1>5 DEF AppendEvent, TypeOK, Stages
  <2>3. QED
    BY <1>5, <2>1, <2>2 DEF AppendEvent, TypeOK
<1>6. ASSUME NEW p \in Procs, ReadLedger(p) PROVE TypeOK'
  <2>1. io' \in [Procs -> Stages]
    BY <1>6 DEF ReadLedger, TypeOK, Stages
  <2>2. seen' \in [Procs -> Packet \cup {NoJob}]
    BY <1>6 DEF ReadLedger, TypeOK
  <2>3. QED
    BY <1>6, <2>1, <2>2 DEF ReadLedger, TypeOK
<1>7. ASSUME NEW p \in Procs, RenameLedger(p) PROVE TypeOK'
  <2>1. mem[p] \in Packet /\ seen[p] \in Packet \cup {NoJob}
    BY DEF TypeOK
  <2>2. job' \in Packet
    BY <1>7, <2>1, MergedType DEF RenameLedger
  <2>3. AfterWrite(p) \in Points
    BY DEF AfterWrite, Points
  <2>4. at' \in [Procs -> Points] /\ io' \in [Procs -> Stages]
    BY <1>7, <2>3, GoType DEF RenameLedger, Stages
  <2>5. CASE AfterWrite(p) = "done"
    <3>1. [status |-> mem[p].status, resumes |-> mem[p].resumes]
            \in [status : JobStatuses \cup {"none"}, resumes : Nat]
      BY <2>1 DEF Packet
    <3>2. receipt' \in [Procs -> [status : JobStatuses \cup {"none"}, resumes : Nat]]
      BY <1>7, <2>5, <3>1 DEF RenameLedger, TypeOK
    <3>3. Forget(p)
      BY <1>7, <2>5 DEF RenameLedger
    <3>4. QED
      BY <1>7, <2>2, <2>4, <3>2, <3>3, ForgetType DEF RenameLedger, TypeOK
  <2>6. CASE AfterWrite(p) # "done"
    <3>1. /\ seen' = [seen EXCEPT ![p] = NoJob]
          /\ pos' = [pos EXCEPT ![p] = IF /\ at[p] = "complete"
                                          /\ AfterWrite(p) = "before"
                                       THEN @ + 1 ELSE @]
          /\ UNCHANGED <<mem, ending, receipt>>
      BY <1>7, <2>6 DEF RenameLedger
    <3>2. at[p] = "complete" /\ AfterWrite(p) = "before" => pos[p] # Len(Steps)
      BY DEF AfterWrite, IsLastStep
    <3>3. pos[p] \in 1 .. Len(Steps) /\ Len(Steps) \in Nat
      BY StepPositions DEF TypeOK
    <3>4. at[p] = "complete" /\ AfterWrite(p) = "before" =>
              pos[p] + 1 \in 1 .. Len(Steps)
      BY <3>2, <3>3
    <3>5. pos' \in [Procs -> 1 .. Len(Steps)]
      BY <3>1, <3>3, <3>4 DEF TypeOK
    <3>6. seen' \in [Procs -> Packet \cup {NoJob}]
      BY <3>1 DEF TypeOK
    <3>7. QED
      BY <1>7, <2>2, <2>4, <3>1, <3>5, <3>6 DEF RenameLedger, TypeOK
  <2>7. QED
    BY <2>5, <2>6
<1>8. ASSUME NEW p \in Procs, CheckpointCancels(p) PROVE TypeOK'
  BY <1>8, BeginFinishType DEF CheckpointCancels, JobStatuses
<1>9. ASSUME NEW p \in Procs, BeginStep(p) PROVE TypeOK'
  <2>1. at' \in [Procs -> Points] /\ io' \in [Procs -> Stages]
    BY <1>9, GoType DEF BeginStep, Points, Writing, Stages
  <2>2. mem[p] \in Packet /\ Steps[pos[p]] \in StepIds
    BY StepPositions DEF TypeOK
  <2>3. mem' \in [Procs -> Packet]
    BY <1>9, <2>2, StepStartedType DEF BeginStep, TypeOK
  <2>4. QED
    BY <1>9, <2>1, <2>3 DEF BeginStep, TypeOK
<1>10. ASSUME NEW p \in Procs, EnterBody(p) PROVE TypeOK'
  <2>1. at' \in [Procs -> Points] /\ io' \in [Procs -> Stages]
    BY <1>10, GoType DEF EnterBody, Points, Stages
  <2>2. QED
    BY <1>10, <2>1 DEF EnterBody, TypeOK
<1>11. ASSUME NEW p \in Procs, StepReturns(p) PROVE TypeOK'
  <2>1. PICK status \in BodyStatuses(p) :
          /\ mem' = [mem EXCEPT ![p] = StepEnded(@, Steps[pos[p]], status)]
          /\ ending' = [ending EXCEPT ![p] = EndingAfter(p, status)]
    BY <1>11 DEF StepReturns
  <2>2. status \in StepStatuses
    BY <2>1 DEF BodyStatuses, StepStatuses
  <2>3. ending[p] \in JobStatuses \cup {"none"}
    BY DEF TypeOK
  <2>4. EndingAfter(p, status) \in JobStatuses \cup {"none"}
    BY <2>2, <2>3 DEF EndingAfter, JobStatuses, StepStatuses
  <2>5. mem[p] \in Packet
    BY DEF TypeOK
  <2>6. mem' \in [Procs -> Packet]
    BY <2>1, <2>2, <2>5, StepEndedType DEF TypeOK
  <2>7. at' \in [Procs -> Points] /\ io' \in [Procs -> Stages]
    BY <1>11, GoType DEF StepReturns, Points, Writing, Stages
  <2>8. ending' \in [Procs -> JobStatuses \cup {"none"}]
    BY <2>1, <2>4 DEF TypeOK
  <2>9. QED
    BY <1>11, <2>6, <2>7, <2>8 DEF StepReturns, TypeOK
<1>12. ASSUME NEW p \in Procs, StepErrors(p) PROVE TypeOK'
  <2>1. mem[p] \in Packet /\ "failed" \in StepStatuses
    BY DEF TypeOK, StepStatuses
  <2>2. mem' \in [Procs -> Packet]
    BY <1>12, <2>1, StepEndedType DEF StepErrors, TypeOK
  <2>3. at' \in [Procs -> Points] /\ io' \in [Procs -> Stages]
    BY <1>12, GoType DEF StepErrors, Points, Writing, Stages
  <2>4. ending' \in [Procs -> JobStatuses \cup {"none"}]
    BY <1>12, <2>1 DEF StepErrors, TypeOK, JobStatuses
  <2>5. QED
    BY <1>12, <2>2, <2>3, <2>4 DEF StepErrors, TypeOK
<1>13. ASSUME NEW p \in Procs, Close(p) PROVE TypeOK'
  <2>1. ending[p] \in JobStatuses
    BY <1>13 DEF Close, EndingKnown, JobStatuses, StepStatuses
  <2>2. CancelRequested(job) \in BOOLEAN
    BY CancelRequestedType DEF TypeOK
  <2>3. QED
    BY <1>13, <2>1, <2>2, BeginFinishType DEF Close
<1>14. ASSUME NEW p \in Procs, Die(p) PROVE TypeOK'
  <2>1. at' \in [Procs -> Points] /\ io' \in [Procs -> Stages]
    BY <1>14, GoType DEF Die, Points, Stages
  <2>2. QED
    BY <1>14, <2>1, ForgetType DEF Die, TypeOK
<1>15. CASE UNCHANGED vars
  BY <1>15 DEF vars, TypeOK
<1>16. QED
  BY <1>1, <1>2, <1>3, <1>4, <1>5, <1>6, <1>7, <1>8, <1>9, <1>10, <1>11,
     <1>12, <1>13, <1>14, <1>15 DEF Next, Advance, Write, Pipeline

LEMMA NextEnding == TypeOK /\ EndingKnown /\ [Next]_vars => EndingKnown'
<1> SUFFICES ASSUME TypeOK, EndingKnown, [Next]_vars PROVE EndingKnown'
  OBVIOUS
<1> USE DEF Go, EndingKnown, IsLastStep
<1>1. ASSUME NEW p \in Starters, StartAccepted(p) PROVE EndingKnown'
  BY <1>1 DEF StartAccepted, TypeOK
<1>2. ASSUME NEW p \in Resumers, ResumeRead(p) PROVE EndingKnown'
  BY <1>2 DEF ResumeRead, TypeOK
<1>3. ASSUME NEW p \in Cancellers, CancelRead(p) PROVE EndingKnown'
  BY <1>3 DEF CancelRead, TypeOK
<1>4. ASSUME NEW p \in Procs, CreateEventLog(p) PROVE EndingKnown'
  BY <1>4 DEF CreateEventLog, TypeOK
<1>5. ASSUME NEW p \in Procs, AppendEvent(p) PROVE EndingKnown'
  BY <1>5 DEF AppendEvent
<1>6. ASSUME NEW p \in Procs, ReadLedger(p) PROVE EndingKnown'
  BY <1>6 DEF ReadLedger
<1>7. ASSUME NEW p \in Procs, RenameLedger(p) PROVE EndingKnown'
  <2> SUFFICES ASSUME NEW q \in Procs,
                      at'[q] = "closing" \/ (at'[q] = "complete" /\ pos'[q] = Len(Steps))
               PROVE  ending'[q] \in {"completed", "blocked", "failed"}
    OBVIOUS
  <2>1. at' = [at EXCEPT ![p] = AfterWrite(p)] /\ at \in [Procs -> Points]
    BY <1>7 DEF RenameLedger, TypeOK
  <2>2. CASE q # p
    <3>1. at'[q] = at[q] /\ pos'[q] = pos[q] /\ ending'[q] = ending[q]
      BY <1>7, <2>1, <2>2 DEF RenameLedger, Forget, TypeOK
    <3>2. QED
      BY <3>1
  <2>3. CASE q = p
    <3>1. AfterWrite(p) = "closing"
      BY <2>1, <2>3 DEF AfterWrite
    <3>2. at[p] = "complete" /\ (ending[p] = "failed" \/ IsLastStep(p))
      BY <3>1 DEF AfterWrite
    <3>3. ending'[p] = ending[p]
      BY <1>7, <3>1 DEF RenameLedger
    <3>4. QED
      BY <2>3, <3>2, <3>3
  <2>4. QED
    BY <2>2, <2>3
<1>8. ASSUME NEW p \in Procs, CheckpointCancels(p) PROVE EndingKnown'
  BY <1>8 DEF CheckpointCancels, BeginFinish, TypeOK
<1>9. ASSUME NEW p \in Procs, BeginStep(p) PROVE EndingKnown'
  BY <1>9 DEF BeginStep, TypeOK
<1>10. ASSUME NEW p \in Procs, EnterBody(p) PROVE EndingKnown'
  BY <1>10 DEF EnterBody, TypeOK
<1>11. ASSUME NEW p \in Procs, StepReturns(p) PROVE EndingKnown'
  <2>1. PICK status \in BodyStatuses(p) :
          ending' = [ending EXCEPT ![p] = EndingAfter(p, status)]
    BY <1>11 DEF StepReturns
  <2>2. status \in {"completed", "blocked", "failed"}
    BY <2>1 DEF BodyStatuses
  <2>3. pos[p] = Len(Steps) =>
            EndingAfter(p, status) \in {"completed", "blocked", "failed"}
    BY <2>2 DEF EndingAfter
  <2>4. QED
    BY <1>11, <2>1, <2>3 DEF StepReturns, TypeOK
<1>12. ASSUME NEW p \in Procs, StepErrors(p) PROVE EndingKnown'
  BY <1>12 DEF StepErrors, TypeOK
<1>13. ASSUME NEW p \in Procs, Close(p) PROVE EndingKnown'
  BY <1>13 DEF Close, BeginFinish, TypeOK
<1>14. ASSUME NEW p \in Procs, Die(p) PROVE EndingKnown'
  BY <1>14 DEF Die, Forget, TypeOK
<1>15. CASE UNCHANGED vars
  BY <1>15 DEF vars
<1>16. QED
  BY <1>1, <1>2, <1>3, <1>4, <1>5, <1>6, <1>7, <1>8, <1>9, <1>10, <1>11,
     <1>12, <1>13, <1>14, <1>15 DEF Next, Advance, Write, Pipeline

(* Every variable of the ledger keeps its type, whatever processes run and *)
(* whatever the pipeline.                                                  *)
THEOREM TypeCorrect == Spec => []TypeOK
<1>1. Spec => [](TypeOK /\ EndingKnown)
  BY InitType, NextType, NextEnding, PTL DEF Spec
<1>2. QED
  BY <1>1, PTL

----------------------------------------------------------------------------
(* No write in flight was merged from an old ledger: no cancel is lost.    *)

LEMMA MergeKeepsCancel ==
    ASSUME NEW new \in Packet, NEW old \in Packet, CancelRequested(old)
    PROVE  CancelRequested(Merged(new, old)) \/ Merged(new, old).resumes # old.resumes
<1> USE NoJobAssumption, MergedType
<1>1. CASE old = NoJob \/ old.resumes # new.resumes
  BY <1>1 DEF Merged, CancelRequested
<1>2. CASE old # NoJob /\ old.resumes = new.resumes
  <2> Merged(new, old) # NoJob
    OBVIOUS
  <2>1. CASE old.status = "cancelled" /\ new.status # "cancelled"
    BY <1>2, <2>1 DEF Merged, CancelRequested, Packet
  <2>2. CASE ~(old.status = "cancelled" /\ new.status # "cancelled")
    BY <1>2, <2>2 DEF Merged, CancelRequested, Packet
  <2>3. QED
    BY <2>1, <2>2
<1>3. QED
  BY <1>1, <1>2

(* For every set of processes: a cancellation that every write in flight   *)
(* has read is only taken off the ledger by a change of generation.        *)
THEOREM CancelIsKept == Spec => CancelSurvivesFreshWrites
<1> DEFINE Keeps == job # NoJob /\ CancelRequested(job) /\ NoStaleWriter =>
                      CancelRequested(job') \/ job'.resumes # job.resumes
<1>1. TypeOK /\ [Next]_vars => [Keeps]_job
  <2> SUFFICES ASSUME TypeOK, [Next]_vars, job' # job, job # NoJob,
                      CancelRequested(job), NoStaleWriter
               PROVE  CancelRequested(job') \/ job'.resumes # job.resumes
    OBVIOUS
  <2>1. PICK p \in Procs : RenameLedger(p)
    BY DEF Next, Advance, Write, Pipeline, vars, disk, StartAccepted,
       ResumeRead, CancelRead, CreateEventLog, AppendEvent, ReadLedger,
       CheckpointCancels, BeginStep, EnterBody, StepReturns, StepErrors,
       Close, BeginFinish, Die
  <2>2. seen[p] = job /\ job' = Merged(mem[p], job)
    BY <2>1 DEF RenameLedger, NoStaleWriter
  <2>3. mem[p] \in Packet /\ job \in Packet
    BY DEF TypeOK
  <2>4. QED
    BY <2>2, <2>3, MergeKeepsCancel
<1>2. QED
  BY <1>1, TypeCorrect, PTL DEF Spec, CancelSurvivesFreshWrites

----------------------------------------------------------------------------
(* A running job has no finish time. *)

(* What makes it inductive: the packet a runner carries through the        *)
(* pipeline has none, and the one it closes the job with, like a           *)
(* canceller's, is not of a running job; a merge only ever adds a          *)
(* cancellation to either.                                                 *)
CarriedUnfinished ==
    \A p \in Procs :
        IF at[p] \in {"finish", "cancel"}
        THEN mem[p].status # "running"
        ELSE ~mem[p].finished

UnfinishedInv == RunningIsUnfinished /\ CarriedUnfinished

LEMMA MergeKeepsUnfinished ==
    ASSUME NEW new \in Packet, NEW old \in Packet \cup {NoJob},
           new.status = "running" => ~new.finished
    PROVE  Merged(new, old).status = "running" => ~Merged(new, old).finished
BY DEF Merged, Packet

LEMMA BeginFinishUnfinished ==
    ASSUME TypeOK, UnfinishedInv, NEW p \in Procs, NEW cancelled \in BOOLEAN,
           NEW status \in {"completed", "blocked", "failed", "cancelled"},
           BeginFinish(p, status, cancelled)
    PROVE  UnfinishedInv'
<1>1. mem[p] \in Packet
  BY DEF TypeOK
<1>2. Finished(mem[p], status, cancelled).status # "running"
  BY <1>1 DEF Finished, Packet
<1>3. /\ mem' = [mem EXCEPT ![p] = Finished(mem[p], status, cancelled)]
      /\ at' = [at EXCEPT ![p] = "finish"]
      /\ job' = job
  BY DEF BeginFinish, Go, disk
<1>4. QED
  BY <1>2, <1>3 DEF UnfinishedInv, CarriedUnfinished, RunningIsUnfinished, TypeOK

LEMMA NextUnfinished ==
    TypeOK /\ EndingKnown /\ UnfinishedInv /\ [Next]_vars => UnfinishedInv'
<1> SUFFICES ASSUME TypeOK, EndingKnown, UnfinishedInv, [Next]_vars
             PROVE  UnfinishedInv'
  OBVIOUS
<1> USE DEF UnfinishedInv, RunningIsUnfinished, CarriedUnfinished, Go, disk
<1>1. ASSUME NEW p \in Starters, StartAccepted(p) PROVE UnfinishedInv'
  BY <1>1 DEF StartAccepted, TypeOK
<1>2. ASSUME NEW p \in Resumers, ResumeRead(p) PROVE UnfinishedInv'
  <2>1. job \in Packet
    BY <1>2 DEF ResumeRead, TypeOK
  <2>2. ~ResetForResume(job).finished
    BY <2>1, ResetType
  <2>3. QED
    BY <1>2, <2>2 DEF ResumeRead, TypeOK
<1>3. ASSUME NEW p \in Cancellers, CancelRead(p) PROVE UnfinishedInv'
  <2>1. job \in Packet
    BY <1>3 DEF CancelRead, TypeOK
  <2>2. [job EXCEPT !.status = "cancelled", !.current = "cancelled",
                    !.cancel = TRUE].status = "cancelled"
    BY <2>1 DEF Packet
  <2>3. QED
    BY <1>3, <2>2 DEF CancelRead, TypeOK
<1>4. ASSUME NEW p \in Procs, CreateEventLog(p) PROVE UnfinishedInv'
  BY <1>4 DEF CreateEventLog, TypeOK
<1>5. ASSUME NEW p \in Procs, AppendEvent(p) PROVE UnfinishedInv'
  BY <1>5 DEF AppendEvent
<1>6. ASSUME NEW p \in Procs, ReadLedger(p) PROVE UnfinishedInv'
  BY <1>6 DEF ReadLedger
<1>7. ASSUME NEW p \in Procs, RenameLedger(p) PROVE UnfinishedInv'
  <2>1. mem[p] \in Packet /\ seen[p] \in Packet \cup {NoJob}
    BY DEF TypeOK
  <2>2. job' = Merged(mem[p], seen[p])
    BY <1>7 DEF RenameLedger
  <2>3. RunningIsUnfinished'
    BY <2>1, <2>2, MergeKeepsUnfinished
  <2>4. CarriedUnfinished'
    <3>1. CASE AfterWrite(p) = "done"
      <4>1. mem' = [mem EXCEPT ![p] = NewJob] /\ at' = [at EXCEPT ![p] = "done"]
        BY <1>7, <3>1 DEF RenameLedger, Forget
      <4>2. ~NewJob.finished
        BY DEF NewJob
      <4>3. QED
        <5> SUFFICES ASSUME NEW q \in Procs
                     PROVE  IF at'[q] \in {"finish", "cancel"}
                            THEN mem'[q].status # "running"
                            ELSE ~mem'[q].finished
          OBVIOUS
        <5>1. CASE q = p
          BY <4>1, <4>2, <5>1 DEF TypeOK
        <5>2. CASE q # p
          BY <4>1, <5>2 DEF TypeOK
        <5>3. QED
          BY <5>1, <5>2
    <3>2. CASE AfterWrite(p) # "done"
      <4>1. mem' = mem /\ at' = [at EXCEPT ![p] = AfterWrite(p)]
        BY <1>7, <3>2 DEF RenameLedger
      <4>2. /\ at[p] \notin {"finish", "cancel"}
            /\ AfterWrite(p) \notin {"finish", "cancel"}
        BY <3>2 DEF AfterWrite
      <4>3. QED
        BY <4>1, <4>2 DEF TypeOK
    <3>3. QED
      BY <3>1, <3>2
  <2>5. QED
    BY <2>3, <2>4
<1>8. ASSUME NEW p \in Procs, CheckpointCancels(p) PROVE UnfinishedInv'
  BY <1>8, BeginFinishUnfinished DEF CheckpointCancels
<1>9. ASSUME NEW p \in Procs, BeginStep(p) PROVE UnfinishedInv'
  <2>1. ~mem[p].finished /\ mem[p] \in Packet
    BY <1>9 DEF BeginStep, TypeOK
  <2>2. ~StepStarted(mem[p], Steps[pos[p]]).finished
    BY <2>1 DEF StepStarted, Packet
  <2>3. QED
    BY <1>9, <2>2 DEF BeginStep, TypeOK
<1>10. ASSUME NEW p \in Procs, EnterBody(p) PROVE UnfinishedInv'
  BY <1>10 DEF EnterBody, TypeOK
<1>11. ASSUME NEW p \in Procs, StepReturns(p) PROVE UnfinishedInv'
  <2>1. PICK status \in BodyStatuses(p) :
          mem' = [mem EXCEPT ![p] = StepEnded(mem[p], Steps[pos[p]], status)]
    BY <1>11 DEF StepReturns
  <2>2. ~mem[p].finished /\ mem[p] \in Packet
    BY <1>11 DEF StepReturns, TypeOK
  <2>3. ~StepEnded(mem[p], Steps[pos[p]], status).finished
    BY <2>2 DEF StepEnded, Packet
  <2>4. QED
    BY <1>11, <2>1, <2>3 DEF StepReturns, TypeOK
<1>12. ASSUME NEW p \in Procs, StepErrors(p) PROVE UnfinishedInv'
  <2>1. ~mem[p].finished /\ mem[p] \in Packet
    BY <1>12 DEF StepErrors, TypeOK
  <2>2. ~StepEnded(mem[p], Steps[pos[p]], "failed").finished
    BY <2>1 DEF StepEnded, Packet
  <2>3. QED
    BY <1>12, <2>2 DEF StepErrors, TypeOK
<1>13. ASSUME NEW p \in Procs, Close(p) PROVE UnfinishedInv'
  <2>1. ending[p] \in {"completed", "blocked", "failed"}
    BY <1>13 DEF Close, EndingKnown
  <2>2. CancelRequested(job) \in BOOLEAN
    BY CancelRequestedType DEF TypeOK
  <2>3. QED
    BY <1>13, <2>1, <2>2, BeginFinishUnfinished DEF Close
<1>14. ASSUME NEW p \in Procs, Die(p) PROVE UnfinishedInv'
  <2>1. ~NewJob.finished
    BY DEF NewJob
  <2>2. QED
    BY <1>14, <2>1 DEF Die, Forget, TypeOK
<1>15. CASE UNCHANGED vars
  BY <1>15 DEF vars
<1>16. QED
  BY <1>1, <1>2, <1>3, <1>4, <1>5, <1>6, <1>7, <1>8, <1>9, <1>10, <1>11,
     <1>12, <1>13, <1>14, <1>15 DEF Next, Advance, Write, Pipeline

(* For every set of processes: whoever wrote the ledger last, a job it     *)
(* calls running has no finish time.                                       *)
THEOREM RunningStaysUnfinished == Spec => []RunningIsUnfinished
<1>1. Init => UnfinishedInv
  BY DEF Init, UnfinishedInv, RunningIsUnfinished, CarriedUnfinished, NewJob
<1>2. Spec => [](TypeOK /\ EndingKnown)
  BY InitType, NextType, NextEnding, PTL DEF Spec
<1>3. Spec => []UnfinishedInv
  BY <1>1, <1>2, NextUnfinished, PTL DEF Spec
<1>4. QED
  BY <1>3, PTL DEF UnfinishedInv

----------------------------------------------------------------------------
(* One process at a time: what a step of p does not touch. *)

Moves(p) ==
    \/ p \in Starters /\ StartAccepted(p)
    \/ p \in Resumers /\ ResumeRead(p)
    \/ p \in Cancellers /\ CancelRead(p)
    \/ Advance(p)
    \/ Die(p)

LEMMA SomeoneMoves == Next => \E p \in Procs : Moves(p)
BY DEF Next, Moves, Procs, Runners

LEMMA OthersStay ==
    ASSUME TypeOK, NEW p \in Procs, Moves(p), NEW q \in Procs \ {p}
    PROVE  /\ at'[q] = at[q] /\ io'[q] = io[q] /\ mem'[q] = mem[q]
           /\ seen'[q] = seen[q] /\ pos'[q] = pos[q] /\ ending'[q] = ending[q]
           /\ receipt'[q] = receipt[q]
<1> USE DEF Go, TypeOK
<1>1. CASE StartAccepted(p) \/ ResumeRead(p) \/ CancelRead(p)
  BY <1>1 DEF StartAccepted, ResumeRead, CancelRead
<1>2. CASE CreateEventLog(p) \/ AppendEvent(p) \/ ReadLedger(p)
  BY <1>2 DEF CreateEventLog, AppendEvent, ReadLedger
<1>3. CASE RenameLedger(p)
  BY <1>3 DEF RenameLedger, Forget
<1>4. CASE CheckpointCancels(p) \/ Close(p)
  BY <1>4 DEF CheckpointCancels, Close, BeginFinish
<1>5. CASE BeginStep(p) \/ EnterBody(p)
  BY <1>5 DEF BeginStep, EnterBody
<1>6. CASE StepReturns(p) \/ StepErrors(p)
  BY <1>6 DEF StepReturns, StepErrors
<1>7. CASE Die(p)
  BY <1>7 DEF Die, Forget
<1> QED  BY <1>1, <1>2, <1>3, <1>4, <1>5, <1>6, <1>7 DEF Moves, Advance, Write, Pipeline

----------------------------------------------------------------------------
(* Where a process is, and what it holds there. *)

Ended(status) == status \in {"completed", "blocked"}

(* The last k records are the first k steps, each ended without a failure. *)
Recorded(j, k) ==
    /\ Len(j.steps) >= k
    /\ \A i \in 1 .. k :
          LET record == j.steps[Len(j.steps) - k + i]
          IN  record.id = Steps[i] /\ Ended(record.status)

(* They are, but the last of them has only been entered.                   *)
Entered(j, k) ==
    /\ Len(j.steps) >= k
    /\ \A i \in 1 .. k :
          LET record == j.steps[Len(j.steps) - k + i]
          IN  record.id = Steps[i] /\ (i < k => Ended(record.status))

Whole(j) == Ended(j.status) => j.finished /\ AllStepsRecorded(j)

(* The writes and the roles by place: a canceller only writes its          *)
(* cancellation, and only the last write of a runner is not of a running   *)
(* job.                                                                    *)
Placed(p) ==
    /\ io[p] # "none" => at[p] \in Writing
    /\ io[p] = "append" => at[p] \in {"open", "finish", "cancel"}
    /\ p \in Cancellers => at[p] \in {"idle", "cancel", "done", "dead"}
    /\ p \in Runners => at[p] # "cancel"
    /\ at[p] = "claim" => p \in Starters
    /\ at[p] \in {"idle", "claim", "done", "dead"} => mem[p] = NewJob /\ pos[p] = 1
    /\ at[p] \in {"idle", "claim", "done", "dead"} => seen[p] = NoJob
    /\ at[p] = "open" => pos[p] = 1 /\ (p \in Starters => mem[p] = NewJob)
    /\ at[p] = "cancel" => mem[p].status = "cancelled"
    /\ at[p] = "finish" =>
          mem[p].status \in {"completed", "blocked", "failed", "cancelled"}
    /\ at[p] \notin {"finish", "cancel"} => mem[p].status = "running"

(* The records of the steps that a runner has gone through.                *)
Tracked(p) ==
    /\ at[p] = "before" => Recorded(mem[p], pos[p] - 1)
    /\ at[p] \in {"start", "started", "body"} => Entered(mem[p], pos[p])
    /\ at[p] = "complete" => ending[p] = "failed" \/ Recorded(mem[p], pos[p])
    /\ at[p] = "closing" => ending[p] = "failed" \/ Recorded(mem[p], Len(Steps))
    /\ at[p] = "finish" => Whole(mem[p])

LEMMA StepStartedEnters ==
    ASSUME NEW j \in Packet, NEW k \in 1 .. Len(Steps), Recorded(j, k - 1)
    PROVE  Entered(StepStarted(j, Steps[k]), k)
<1> DEFINE record == [id |-> Steps[k], status |-> "running"]
           started == StepStarted(j, Steps[k])
           n == Len(j.steps)
<1>1. j.steps \in Seq(StepRecord) /\ n \in Nat /\ k \in Nat /\ Len(Steps) \in Nat
  BY StepPositions DEF Packet
<1>2. record \in StepRecord
  BY StepPositions DEF StepRecord, StepStatuses
<1>3. started.steps = Append(j.steps, record)
  BY DEF StepStarted, Packet
<1>4. /\ Len(started.steps) = n + 1 /\ started.steps[n + 1] = record
      /\ \A i \in 1 .. n : started.steps[i] = j.steps[i]
  BY <1>1, <1>2, <1>3, AppendProperties
<1> HIDE DEF started
<1>5. n >= k - 1
  BY DEF Recorded
<1>6. ASSUME NEW i \in 1 .. k
      PROVE  /\ started.steps[Len(started.steps) - k + i].id = Steps[i]
             /\ i < k => Ended(started.steps[Len(started.steps) - k + i].status)
  <2>1. CASE i = k
    BY <1>1, <1>4, <2>1
  <2>2. CASE i < k
    <3>1. /\ i \in 1 .. (k - 1) /\ n + 1 - k + i = n - (k - 1) + i
          /\ n + 1 - k + i \in 1 .. n
      BY <1>1, <1>5, <2>2
    <3>2. started.steps[Len(started.steps) - k + i] = j.steps[n - (k - 1) + i]
      BY <1>4, <3>1
    <3> QED  BY <3>1, <3>2 DEF Recorded
  <2> QED  BY <1>1, <2>1, <2>2
<1>7. Len(started.steps) >= k
  BY <1>1, <1>4, <1>5
<1>8. Entered(started, k)
  BY <1>6, <1>7 DEF Entered
<1> QED  BY <1>8 DEF started

(* A step's end is written to the record that it entered last.             *)
LEMMA StepEndedRecords ==
    ASSUME NEW j \in Packet, NEW k \in 1 .. Len(Steps), Entered(j, k),
           NEW status, Ended(status)
    PROVE  Recorded(StepEnded(j, Steps[k], status), k)
<1> DEFINE n == Len(j.steps)
           ended == StepEnded(j, Steps[k], status)
<1>1. /\ j.steps \in Seq(StepRecord) /\ n \in Nat /\ k \in Nat \ {0} /\ n >= k
      /\ DOMAIN j.steps = 1 .. n
  BY StepPositions DEF Packet, Entered
<1>2. j.steps[n].id = Steps[k]
  <2>1. n - k + k = n /\ k \in 1 .. k
    BY <1>1
  <2> QED  BY <2>1 DEF Entered
<1>3. ended.steps = [i \in 1 .. n |-> IF IsLastOf(j.steps, Steps[k], i)
                                      THEN [j.steps[i] EXCEPT !.status = status]
                                      ELSE j.steps[i]]
  BY <1>1 DEF StepEnded, Packet
<1>4. \A i \in 1 .. n : IsLastOf(j.steps, Steps[k], i) <=> i = n
  BY <1>1, <1>2 DEF IsLastOf
<1>5. Len(ended.steps) = n
  <2>1. DOMAIN ended.steps = 1 .. n
    BY <1>3
  <2>2. ended \in Packet
    BY StepEndedType DEF Ended, StepStatuses
  <2>3. ended.steps \in Seq(StepRecord)
    BY <2>2 DEF Packet
  <2> HIDE DEF ended
  <2>4. Len(ended.steps) \in Nat /\ DOMAIN ended.steps = 1 .. Len(ended.steps)
    BY <2>3, LenProperties
  <2> QED  BY <1>1, <2>1, <2>4
<1>6. /\ ended.steps[n] = [j.steps[n] EXCEPT !.status = status]
      /\ \A i \in 1 .. n : i # n => ended.steps[i] = j.steps[i]
  BY <1>1, <1>3, <1>4
<1>7. j.steps[n] \in StepRecord
  BY <1>1
<1>8. ended.steps[n].id = Steps[k] /\ ended.steps[n].status = status
  BY <1>2, <1>6, <1>7 DEF StepRecord
<1> HIDE DEF ended
<1>9. ASSUME NEW i \in 1 .. k
      PROVE  /\ ended.steps[n - k + i].id = Steps[i]
             /\ Ended(ended.steps[n - k + i].status)
  <2>1. CASE i = k
    <3>1. n - k + i = n
      BY <1>1, <2>1
    <3> QED  BY <1>8, <2>1, <3>1
  <2>2. CASE i < k
    <3>1. n - k + i \in 1 .. n /\ n - k + i # n
      <4> HIDE DEF n
      <4> QED  BY <1>1, <2>2
    <3>2. ended.steps[n - k + i] = j.steps[n - k + i]
      BY <1>6, <3>1
    <3> QED  BY <2>2, <3>2 DEF Entered
  <2> QED  BY <1>1, <2>1, <2>2
<1>10. Recorded(ended, k)
  BY <1>1, <1>5, <1>9 DEF Recorded
<1> QED  BY <1>10 DEF ended

LEMMA AllRecorded ==
    ASSUME NEW j, Recorded(j, Len(Steps)) PROVE AllStepsRecorded(j)
<1>1. DOMAIN Steps = 1 .. Len(Steps)
  BY StepsAssumption
<1> QED  BY <1>1 DEF Recorded, AllStepsRecorded, Ended

LEMMA PlacedStep ==
    ASSUME TypeOK, EndingKnown, NEW p \in Procs, Placed(p), Moves(p)
    PROVE  Placed(p)'
<1> USE DEF Go, Placed, disk
<1>1. /\ at \in [Procs -> Points] /\ io \in [Procs -> Stages] /\ mem \in [Procs -> Packet]
      /\ seen \in [Procs -> Packet \cup {NoJob}] /\ pos \in [Procs -> 1 .. Len(Steps)]
      /\ mem[p] \in Packet
  BY DEF TypeOK
<1>2. NewJob.status = "running"
  BY DEF NewJob
<1>3. CASE p \in Starters /\ StartAccepted(p)
  BY <1>1, <1>3, ProcessAssumption DEF StartAccepted, Runners, Writing
<1>4. CASE p \in Resumers /\ ResumeRead(p)
  <2>1. job \in Packet /\ mem' = [mem EXCEPT ![p] = ResetForResume(job)]
    BY <1>4 DEF ResumeRead, TypeOK
  <2>2. mem'[p].status = "running"
    BY <1>1, <2>1 DEF ResetForResume, Packet
  <2> QED  BY <1>1, <1>4, <2>2, ProcessAssumption DEF ResumeRead, Runners, Writing
<1>5. CASE p \in Cancellers /\ CancelRead(p)
  <2>1. job \in Packet
    BY <1>5 DEF CancelRead, TypeOK
  <2>2. mem'[p].status = "cancelled"
    BY <1>1, <1>5, <2>1 DEF CancelRead, Packet
  <2> QED  BY <1>1, <1>5, <2>2, ProcessAssumption DEF CancelRead, Runners, Writing
<1>6. CASE CreateEventLog(p)
  BY <1>1, <1>2, <1>6, ProcessAssumption DEF CreateEventLog, Writing, Runners
<1>7. CASE AppendEvent(p) \/ ReadLedger(p)
  BY <1>1, <1>7 DEF AppendEvent, ReadLedger, Writing
<1>8. CASE RenameLedger(p)
  <2>1. at' = [at EXCEPT ![p] = AfterWrite(p)] /\ io' = [io EXCEPT ![p] = "none"]
    BY <1>8 DEF RenameLedger
  <2>2. CASE AfterWrite(p) = "done"
    BY <1>1, <1>2, <1>8, <2>1, <2>2, StepPositions DEF RenameLedger, Forget
  <2>3. CASE AfterWrite(p) # "done"
    <3>1. /\ mem'[p] = mem[p] /\ at[p] \in {"open", "start", "complete"}
          /\ at'[p] \in {"before", "started", "closing"} /\ io'[p] = "none"
      BY <1>1, <1>8, <2>1, <2>3 DEF RenameLedger, AfterWrite
    <3> QED  BY <3>1
  <2> QED  BY <2>2, <2>3
<1>9. CASE CheckpointCancels(p) \/ Close(p)
  <2>1. PICK status \in {"completed", "blocked", "failed", "cancelled"},
             cancelled \in BOOLEAN : BeginFinish(p, status, cancelled)
    <3>1. CancelRequested(job) \in BOOLEAN
      BY CancelRequestedType DEF TypeOK
    <3> QED  BY <1>9, <3>1 DEF CheckpointCancels, Close, EndingKnown
  <2>2. mem'[p].status \in {"completed", "blocked", "failed", "cancelled"}
    BY <1>1, <2>1 DEF BeginFinish, Finished, Packet
  <2>3. p \notin Cancellers
    BY <1>9 DEF CheckpointCancels, Close
  <2> QED  BY <1>1, <2>1, <2>2, <2>3 DEF BeginFinish, Writing
<1>10. CASE BeginStep(p)
  <2>1. mem'[p].status = "running"
    BY <1>1, <1>10 DEF BeginStep, StepStarted, Packet
  <2>2. at'[p] = "start" /\ io'[p] = "read" /\ p \notin Cancellers
    BY <1>1, <1>10 DEF BeginStep
  <2> QED  BY <2>1, <2>2 DEF Writing
<1>11. CASE EnterBody(p)
  BY <1>1, <1>11 DEF EnterBody, Writing
<1>12. CASE StepReturns(p) \/ StepErrors(p)
  <2>1. mem[p].status = "running" /\ p \notin Cancellers
        /\ at'[p] = "complete" /\ io'[p] = "read"
    BY <1>1, <1>12 DEF StepReturns, StepErrors
  <2>2. mem'[p].status = mem[p].status
    BY <1>1, <1>12 DEF StepReturns, StepErrors, StepEnded, Packet
  <2> QED  BY <2>1, <2>2 DEF Writing
<1>13. CASE Die(p)
  BY <1>1, <1>2, <1>13, StepPositions DEF Die, Forget
<1> QED  BY <1>3, <1>4, <1>5, <1>6, <1>7, <1>8, <1>9, <1>10, <1>11, <1>12, <1>13
         DEF Moves, Advance, Write, Pipeline

LEMMA TrackedStep ==
    ASSUME TypeOK, EndingKnown, NEW p \in Procs, Placed(p), Tracked(p), Moves(p)
    PROVE  Tracked(p)'
<1> USE DEF Go, Tracked, disk
<1>1. /\ at \in [Procs -> Points] /\ io \in [Procs -> Stages] /\ mem \in [Procs -> Packet]
      /\ pos \in [Procs -> 1 .. Len(Steps)] /\ Len(Steps) \in Nat \ {0}
      /\ ending \in [Procs -> JobStatuses \cup {"none"}]
      /\ mem[p] \in Packet /\ pos[p] \in 1 .. Len(Steps)
  BY StepPositions DEF TypeOK
<1>2. CASE StartAccepted(p) \/ ResumeRead(p) \/ CancelRead(p) \/ CreateEventLog(p)
  BY <1>1, <1>2 DEF StartAccepted, ResumeRead, CancelRead, CreateEventLog
<1>3. CASE AppendEvent(p) \/ ReadLedger(p)
  BY <1>1, <1>3 DEF AppendEvent, ReadLedger
<1>4. CASE RenameLedger(p)
  <2>1. at' = [at EXCEPT ![p] = AfterWrite(p)] /\ io[p] = "rename"
    BY <1>4 DEF RenameLedger
  <2>2. CASE AfterWrite(p) = "done"
    BY <1>1, <2>1, <2>2
  <2>3. CASE AfterWrite(p) # "done"
    <3>1. /\ UNCHANGED <<mem, ending>> /\ at'[p] = AfterWrite(p)
          /\ pos'[p] = IF at[p] = "complete" /\ AfterWrite(p) = "before"
                       THEN pos[p] + 1 ELSE pos[p]
      BY <1>1, <1>4, <2>1, <2>3 DEF RenameLedger
    <3>2. CASE at[p] = "open"
      <4>1. pos[p] - 1 = 0 /\ pos'[p] = pos[p] /\ at'[p] = "before"
        BY <3>1, <3>2 DEF Placed, AfterWrite
      <4>2. Recorded(mem[p], 0)
        <5>1. mem[p].steps \in Seq(StepRecord)
          BY <1>1 DEF Packet
        <5> QED  BY <5>1 DEF Recorded
      <4> QED  BY <3>1, <4>1, <4>2
    <3>3. CASE at[p] = "start"
      BY <3>1, <3>3 DEF AfterWrite
    <3>4. CASE at[p] = "complete"
      <4>1. CASE at'[p] = "before"
        <5>1. ending[p] # "failed" /\ pos'[p] - 1 = pos[p]
          BY <1>1, <3>1, <3>4, <4>1 DEF AfterWrite
        <5> QED  BY <3>1, <3>4, <4>1, <5>1
      <4>2. CASE at'[p] # "before"
        <5>1. at'[p] = "closing" /\ pos'[p] = pos[p]
              /\ (ending[p] = "failed" \/ pos[p] = Len(Steps))
          BY <3>1, <3>4, <4>2 DEF AfterWrite, IsLastStep
        <5> QED  BY <3>1, <3>4, <5>1
      <4> QED  BY <4>1, <4>2
    <3> QED  BY <2>3, <3>2, <3>3, <3>4 DEF AfterWrite
  <2> QED  BY <2>2, <2>3
<1>5. CASE CheckpointCancels(p)
  <2>1. at'[p] = "finish" /\ mem'[p].status = "cancelled"
    BY <1>1, <1>5 DEF CheckpointCancels, BeginFinish, Finished, Packet
  <2> QED  BY <2>1 DEF Whole, Ended
<1>6. CASE Close(p)
  <2>1. /\ at'[p] = "finish" /\ ending[p] \in {"completed", "blocked", "failed"}
        /\ mem'[p] = Finished(mem[p], ending[p], CancelRequested(job))
        /\ at[p] = "closing"
    BY <1>1, <1>6 DEF Close, BeginFinish, EndingKnown
  <2>2. Whole(mem'[p])
    <3> SUFFICES ASSUME Ended(mem'[p].status)
                 PROVE  mem'[p].finished /\ AllStepsRecorded(mem'[p])
      BY DEF Whole
    <3>1. ending[p] # "failed" /\ mem'[p].finished /\ mem'[p].steps = mem[p].steps
      BY <1>1, <2>1 DEF Finished, Ended, Packet
    <3>2. Recorded(mem[p], Len(Steps))
      BY <2>1, <3>1
    <3>3. Recorded(mem'[p], Len(Steps))
      BY <3>1, <3>2 DEF Recorded
    <3> QED  BY <3>1, <3>3, AllRecorded
  <2> QED  BY <2>1, <2>2
<1>7. CASE BeginStep(p)
  <2>1. /\ at[p] = "before" /\ at'[p] = "start" /\ pos' = pos
        /\ mem'[p] = StepStarted(mem[p], Steps[pos[p]])
    BY <1>1, <1>7 DEF BeginStep
  <2>2. Entered(mem'[p], pos[p])
    BY <1>1, <2>1, StepStartedEnters
  <2> QED  BY <2>1, <2>2
<1>8. CASE EnterBody(p)
  BY <1>1, <1>8 DEF EnterBody
<1>9. CASE StepReturns(p)
  <2>1. PICK status \in BodyStatuses(p) :
           /\ mem' = [mem EXCEPT ![p] = StepEnded(@, Steps[pos[p]], status)]
           /\ ending' = [ending EXCEPT ![p] = EndingAfter(p, status)]
    BY <1>9 DEF StepReturns
  <2>2. at[p] = "body" /\ at'[p] = "complete" /\ pos' = pos
    BY <1>1, <1>9 DEF StepReturns
  <2>3. CASE status = "failed"
    BY <1>1, <2>1, <2>2, <2>3 DEF EndingAfter
  <2>4. CASE status # "failed"
    <3>1. Ended(status)
      BY <2>1, <2>4 DEF BodyStatuses, Ended
    <3>2. Recorded(mem'[p], pos[p])
      BY <1>1, <2>1, <2>2, <3>1, StepEndedRecords
    <3> QED  BY <2>2, <3>2
  <2> QED  BY <2>3, <2>4
<1>10. CASE StepErrors(p)
  BY <1>1, <1>10 DEF StepErrors
<1>11. CASE Die(p)
  BY <1>1, <1>11 DEF Die
<1> QED  BY <1>2, <1>3, <1>4, <1>5, <1>6, <1>7, <1>8, <1>9, <1>10, <1>11
         DEF Moves, Advance, Write, Pipeline

----------------------------------------------------------------------------
(* A closed job is whole: job.json is the last packet that was written, or *)
(* cancelled, and what a runner closes the job with has all the steps.     *)

Local == TypeOK /\ EndingKnown /\ \A p \in Procs : Placed(p) /\ Tracked(p)

LEMMA LocalHolds == Spec => []Local
<1>1. ASSUME Init PROVE \A p \in Procs : Placed(p) /\ Tracked(p)
  BY <1>1 DEF Init, Placed, Tracked, NewJob, Runners
<1>2. ASSUME Local, [Next]_vars PROVE (\A p \in Procs : Placed(p) /\ Tracked(p))'
  <2>1. CASE UNCHANGED vars
    BY <1>2, <2>1 DEF vars, Local, Placed, Tracked
  <2>2. ASSUME NEW p \in Procs, Moves(p), NEW q \in Procs
        PROVE  Placed(q)' /\ Tracked(q)'
    <3>1. CASE q = p
      BY <1>2, <2>2, <3>1, PlacedStep, TrackedStep DEF Local
    <3>2. CASE q # p
      BY <1>2, <2>2, <3>2, OthersStay DEF Local, Placed, Tracked
    <3> QED  BY <3>1, <3>2
  <2> QED  BY <1>2, <2>1, <2>2, SomeoneMoves
<1>3. Spec => [](TypeOK /\ EndingKnown)
  BY InitType, NextType, NextEnding, PTL DEF Spec
<1> QED  BY <1>1, <1>2, <1>3, PTL DEF Spec, Local

LEMMA MergeKeepsWhole ==
    ASSUME NEW new \in Packet, NEW old \in Packet \cup {NoJob}, Whole(new)
    PROVE  Whole(Merged(new, old))
<1>1. CASE old = NoJob \/ old.resumes # new.resumes
  BY <1>1 DEF Merged
<1>2. CASE ~(old = NoJob \/ old.resumes # new.resumes)
  <2> DEFINE m == Merged(new, old)
  <2>1. \/ m.status = "cancelled"
        \/ m.status = new.status /\ m.finished = new.finished /\ m.steps = new.steps
    BY <1>2 DEF Merged, Packet
  <2> HIDE DEF m
  <2>2. Whole(m)
    BY <2>1 DEF Whole, Ended, AllStepsRecorded
  <2> QED  BY <2>2 DEF m
<1> QED  BY <1>1, <1>2

(* The ledger is only changed by the rename of a merged packet.            *)
LEMMA LedgerStep ==
    ASSUME NEW p \in Procs, Moves(p), job' # job
    PROVE  RenameLedger(p) /\ job' = Merged(mem[p], seen[p])
BY DEF Moves, Advance, Write, Pipeline, disk, StartAccepted, ResumeRead, CancelRead,
   CreateEventLog, AppendEvent, ReadLedger, RenameLedger, CheckpointCancels, BeginStep,
   EnterBody, StepReturns, StepErrors, Close, BeginFinish, Die

(* For every set of processes and every pipeline: a job that is called     *)
(* completed or blocked has gone through every step.                       *)
THEOREM ClosedJobsAreWhole == Spec => []ClosedJobIsWhole
<1> DEFINE Inv == job # NoJob => Whole(job)
<1>1. Init => Inv
  BY DEF Init
<1>2. ASSUME Local, Inv, [Next]_vars PROVE Inv'
  <2>1. CASE job' = job
    BY <1>2, <2>1 DEF Whole, AllStepsRecorded
  <2>2. CASE job' # job
    <3>1. PICK p \in Procs : Moves(p)
      BY <1>2, <2>2, SomeoneMoves DEF vars
    <3>2. io[p] = "rename" /\ job' = Merged(mem[p], seen[p])
      BY <2>2, <3>1, LedgerStep DEF RenameLedger
    <3>3. Whole(mem[p]) /\ mem[p] \in Packet /\ seen[p] \in Packet \cup {NoJob}
      BY <1>2, <3>2 DEF Local, Placed, Tracked, Writing, Whole, Ended, TypeOK
    <3>4. Whole(Merged(mem[p], seen[p]))
      BY <3>3, MergeKeepsWhole
    <3> QED  BY <3>2, <3>4
  <2> QED  BY <2>1, <2>2
<1>3. Inv => ClosedJobIsWhole
  BY DEF ClosedJobIsWhole, Whole, Ended
<1> QED  BY <1>1, <1>2, <1>3, LocalHolds, PTL DEF Spec

----------------------------------------------------------------------------
(* The receipt of a runner, for one start and one resume: with two of a    *)
(* kind, two runners write the same generation.                            *)

OneStart  == \A p, q \in Starters : p = q
OneResume == \A p, q \in Resumers : p = q

(* Whose generation a packet is: a start's is the first, and a resume's is *)
(* the second, because before it has begun there is no other.              *)
Generations ==
    /\ \A p \in Starters : mem[p].resumes = 0 /\ receipt[p].resumes = 0
    /\ \A p \in Resumers :
          /\ at[p] \notin {"idle", "done", "dead"} => mem[p].resumes = 1
          /\ at[p] = "done" => receipt[p].resumes = 1
          /\ at[p] = "idle" => /\ job # NoJob => job.resumes = 0
                               /\ \A q \in Procs : mem[q].resumes = 0

LEMMA MergedKeepsNew ==
    ASSUME NEW new \in Packet, NEW old \in Packet \cup {NoJob}
    PROVE  /\ Merged(new, old).resumes = new.resumes
           /\ Merged(new, old).status \in {new.status, "cancelled"}
BY DEF Merged, Packet

(* What a step does to the generation of the packet in memory.             *)
LEMMA GenerationStep ==
    ASSUME Local, NEW p \in Procs, Moves(p)
    PROVE  \/ mem'[p].resumes = mem[p].resumes /\ (at'[p] = "idle" <=> at[p] = "idle")
           \/ mem'[p].resumes = mem[p].resumes /\ StartAccepted(p) /\ p \in Starters
           \/ mem'[p].resumes = 0 /\ at'[p] \in {"done", "dead"}
           \/ /\ p \in Resumers /\ at[p] = "idle" /\ job # NoJob
              /\ at'[p] = "open" /\ mem'[p].resumes = job.resumes + 1
           \/ p \in Cancellers /\ job # NoJob /\ mem'[p].resumes = job.resumes
<1> USE DEF Go, disk
<1>1. /\ at \in [Procs -> Points] /\ mem \in [Procs -> Packet] /\ mem[p] \in Packet
      /\ job \in Packet \cup {NoJob}
  BY DEF Local, TypeOK
<1>2. CASE p \in Starters /\ StartAccepted(p)
  BY <1>2 DEF StartAccepted
<1>3. CASE p \in Resumers /\ ResumeRead(p)
  <2>1. job \in Packet
    BY <1>1, <1>3 DEF ResumeRead
  <2> QED  BY <1>1, <1>3, <2>1, ResetType DEF ResumeRead
<1>4. CASE p \in Cancellers /\ CancelRead(p)
  <2>1. job \in Packet
    BY <1>1, <1>4 DEF CancelRead
  <2> QED  BY <1>1, <1>4, <2>1 DEF CancelRead, Packet
<1>5. CASE CreateEventLog(p) \/ AppendEvent(p) \/ ReadLedger(p) \/ EnterBody(p)
  <2>1. io[p] # "none" => at[p] # "idle"
    BY DEF Local, Placed, Writing
  <2> QED  BY <1>1, <1>5, <2>1 DEF CreateEventLog, AppendEvent, ReadLedger, EnterBody
<1>6. CASE RenameLedger(p)
  <2>1. at[p] # "idle" /\ AfterWrite(p) # "idle"
    BY <1>6 DEF Local, Placed, Writing, RenameLedger, AfterWrite
  <2> QED  BY <1>1, <1>6, <2>1 DEF RenameLedger, Forget, NewJob
<1>7. CASE CheckpointCancels(p) \/ Close(p)
  <2>1. PICK status \in {"cancelled", ending[p]}, cancelled \in BOOLEAN :
           BeginFinish(p, status, cancelled)
    <3>1. CancelRequested(job) \in BOOLEAN
      BY CancelRequestedType DEF Local, TypeOK
    <3> QED  BY <1>7, <3>1 DEF CheckpointCancels, Close
  <2>2. at[p] # "idle" /\ at'[p] = "finish"
    BY <1>1, <1>7, <2>1 DEF CheckpointCancels, Close, BeginFinish
  <2>3. mem'[p] = Finished(mem[p], status, cancelled)
    BY <1>1, <2>1 DEF BeginFinish
  <2>4. mem'[p].resumes = mem[p].resumes
    BY <1>1, <2>3 DEF Finished, Packet
  <2> QED  BY <2>2, <2>4
<1>8. CASE BeginStep(p)
  BY <1>1, <1>8 DEF BeginStep, StepStarted, Packet
<1>9. CASE StepReturns(p) \/ StepErrors(p)
  BY <1>1, <1>9 DEF StepReturns, StepErrors, StepEnded, Packet
<1>10. CASE Die(p)
  BY <1>1, <1>10 DEF Die, Forget, NewJob
<1> QED  BY <1>2, <1>3, <1>4, <1>5, <1>6, <1>7, <1>8, <1>9, <1>10
         DEF Moves, Advance, Write, Pipeline

(* Only a rename writes a receipt, and with it the process is done.        *)
LEMMA ReceiptStep ==
    ASSUME Local, NEW p \in Procs, Moves(p)
    PROVE  \/ /\ RenameLedger(p) /\ at'[p] = "done"
              /\ receipt'[p].status = mem[p].status
              /\ receipt'[p].resumes = mem[p].resumes
           \/ at'[p] # "done" /\ receipt' = receipt
<1> USE DEF Go, disk
<1>1. at \in [Procs -> Points] /\ receipt \in [Procs -> [status : JobStatuses \cup {"none"},
                                                         resumes : Nat]]
  BY DEF Local, TypeOK
<1>2. CASE RenameLedger(p)
  BY <1>1, <1>2 DEF RenameLedger
<1>3. CASE AppendEvent(p) \/ ReadLedger(p)
  BY <1>1, <1>3 DEF AppendEvent, ReadLedger, Local, Placed, Writing
<1> QED  BY <1>1, <1>2, <1>3 DEF Moves, Advance, Write, Pipeline, StartAccepted, ResumeRead,
         CancelRead, CreateEventLog, CheckpointCancels, BeginStep, EnterBody, StepReturns,
         StepErrors, Close, BeginFinish, Die

LEMMA GenerationsByNext ==
    ASSUME OneStart, OneResume, Local, Generations, NEW p \in Procs, Moves(p)
    PROVE  Generations'
<1>1. \A q \in Procs \ {p} : /\ at'[q] = at[q] /\ mem'[q].resumes = mem[q].resumes
                             /\ receipt'[q] = receipt[q]
  BY OthersStay DEF Local
<1>2. job' = job \/ (job' # NoJob /\ job'.resumes = mem[p].resumes /\ io[p] = "rename")
  <2>1. CASE job' # job
    <3>1. io[p] = "rename" /\ job' = Merged(mem[p], seen[p])
          /\ mem[p] \in Packet /\ seen[p] \in Packet \cup {NoJob}
      BY <2>1, LedgerStep DEF RenameLedger, Local, TypeOK
    <3> QED  BY <3>1, MergedType, MergedKeepsNew, NoJobAssumption
  <2> QED  BY <2>1
<1>3. ASSUME NEW q \in Starters
      PROVE  mem'[q].resumes = 0 /\ receipt'[q].resumes = 0
  <2>1. q \in Procs /\ q \notin Resumers /\ q \notin Cancellers
    BY ProcessAssumption DEF Procs, Runners
  <2>2. CASE q = p
    BY <2>1, <2>2, GenerationStep, ReceiptStep DEF Generations
  <2> QED  BY <1>1, <2>1, <2>2 DEF Generations
<1>4. ASSUME NEW q \in Resumers
      PROVE  /\ at'[q] \notin {"idle", "done", "dead"} => mem'[q].resumes = 1
             /\ at'[q] = "done" => receipt'[q].resumes = 1
             /\ at'[q] = "idle" => /\ job' # NoJob => job'.resumes = 0
                                   /\ \A r \in Procs : mem'[r].resumes = 0
  <2>1. q \in Procs /\ q \notin Starters /\ q \notin Cancellers
    BY ProcessAssumption DEF Procs, Runners
  <2>2. CASE q # p
    <3>1. p \notin Resumers
      BY <2>2 DEF OneResume
    <3>2. at'[q] = "idle" => mem'[p].resumes = 0
      BY <1>1, <2>1, <2>2, <3>1, GenerationStep DEF Generations
    <3> QED  BY <1>1, <1>2, <2>1, <2>2, <3>2 DEF Generations
  <2>3. CASE q = p
    <3>1. CASE at[p] = "idle"
      <4>1. \/ at'[p] = "idle"
            \/ at'[p] \notin {"idle", "done"} /\ (at'[p] # "dead" => mem'[p].resumes = 1)
        <5>1. at'[p] # "done"
          BY <3>1, ReceiptStep DEF RenameLedger, Local, Placed, Writing
        <5>2. ASSUME job # NoJob PROVE job.resumes + 1 = 1
          BY <2>3, <3>1, <5>2 DEF Generations
        <5> QED  BY <2>1, <2>3, <3>1, <5>1, <5>2, GenerationStep
      <4>2. io[p] # "rename"
        BY <3>1 DEF Local, Placed, Writing
      <4>3. at'[p] = "idle" => mem'[p].resumes = 0
        BY <2>1, <2>3, <3>1, GenerationStep DEF Generations
      <4> QED  BY <1>1, <1>2, <2>3, <3>1, <4>1, <4>2, <4>3 DEF Generations
    <3>2. CASE at[p] # "idle"
      <4>1. at'[p] # "idle"
        BY <2>1, <2>3, <3>2, GenerationStep
      <4>2. at[p] \notin {"done", "dead"}
        BY DEF Local, Placed, Writing, Moves, Advance, Write, Pipeline, StartAccepted,
           ResumeRead, CancelRead, CreateEventLog, AppendEvent, ReadLedger, RenameLedger,
           CheckpointCancels, BeginStep, EnterBody, StepReturns, StepErrors, Close, Die, Live
      <4> QED  BY <2>1, <2>3, <3>2, <4>1, <4>2, GenerationStep, ReceiptStep DEF Generations
    <3> QED  BY <3>1, <3>2
  <2> QED  BY <2>2, <2>3
<1> QED  BY <1>3, <1>4 DEF Generations

LEMMA ReceiptsByNext ==
    ASSUME OneStart, OneResume, Local, Generations, ReceiptStands, NEW p \in Procs, Moves(p)
    PROVE  ReceiptStands'
<1> SUFFICES ASSUME NEW q \in Runners, job' # NoJob, at'[q] = "done",
                    job'.resumes = receipt'[q].resumes
             PROVE  job'.status \in {receipt'[q].status, "cancelled"}
  BY DEF ReceiptStands
<1>1. q \in Procs
  BY DEF Procs
<1>2. CASE ~RenameLedger(p)
  <2>1. job' = job /\ receipt' = receipt /\ at[q] = "done"
    BY <1>1, <1>2, LedgerStep, ReceiptStep, OthersStay DEF Local
  <2> QED  BY <2>1 DEF ReceiptStands
<1>3. CASE RenameLedger(p)
  <2>1. /\ job' = Merged(mem[p], seen[p]) /\ io[p] = "rename"
        /\ mem[p] \in Packet /\ seen[p] \in Packet \cup {NoJob}
    BY <1>3 DEF RenameLedger, Local, TypeOK
  <2>2. job'.resumes = mem[p].resumes /\ job'.status \in {mem[p].status, "cancelled"}
    BY <2>1, MergedKeepsNew
  <2>3. CASE q = p
    BY <2>2, <2>3, ReceiptStep
  <2>4. CASE q # p
    <3>1. at[q] = "done" /\ receipt'[q] = receipt[q]
      BY <1>1, <2>4, OthersStay DEF Local
    <3>2. CASE p \in Cancellers
      BY <2>1, <2>2, <3>2 DEF Local, Placed, Writing
    <3>3. CASE p \notin Cancellers
      <4>1. at[p] \notin {"idle", "done", "dead"}
        BY <2>1 DEF Local, Placed, Writing
      <4>2. p \in Runners
        BY <3>3 DEF Procs
      <4>3. CASE p \in Starters
        <5>1. q \in Resumers
          BY <2>4, <4>3 DEF OneStart, Runners
        <5>2. mem[p].resumes # receipt[q].resumes
          BY <3>1, <4>3, <5>1 DEF Generations
        <5>3. (receipt'[q]).resumes # (job').resumes
          BY <2>2, <3>1, <5>2
        <5> QED  BY <5>3
      <4>4. CASE p \in Resumers
        <5>1. q \in Starters
          BY <2>4, <4>4 DEF OneResume, Runners
        <5>2. mem[p].resumes # receipt[q].resumes
          BY <4>1, <4>4, <5>1 DEF Generations
        <5>3. (receipt'[q]).resumes # (job').resumes
          BY <2>2, <3>1, <5>2
        <5> QED  BY <5>3
      <4> QED  BY <4>2, <4>3, <4>4 DEF Runners
    <3> QED  BY <3>2, <3>3
  <2> QED  BY <2>3, <2>4
<1> QED  BY <1>2, <1>3

(* For one start, one resume, any number of cancels and any pipeline: what *)
(* a runner reported when it returned is what the ledger of its generation *)
(* says, unless it has been cancelled since.                               *)
THEOREM ReceiptsStand == OneStart /\ OneResume => (Spec => []ReceiptStands)
<1> SUFFICES ASSUME OneStart, OneResume PROVE Spec => []ReceiptStands
  OBVIOUS
<1> DEFINE Inv == Generations /\ ReceiptStands
<1>1. Init => Inv
  <2> SUFFICES ASSUME Init PROVE Inv
    OBVIOUS
  <2>1. \A p \in Procs : mem[p].resumes = 0 /\ receipt[p].resumes = 0 /\ at[p] = "idle"
    BY DEF Init, NewJob
  <2> QED  BY <2>1 DEF Init, Generations, ReceiptStands, Procs, Runners
<1>2. ASSUME Local, Inv, [Next]_vars PROVE Inv'
  <2>1. CASE UNCHANGED vars
    BY <1>2, <2>1 DEF vars, Generations, ReceiptStands
  <2>2. CASE Next
    BY <1>2, <2>2, SomeoneMoves, GenerationsByNext, ReceiptsByNext
  <2> QED  BY <1>2, <2>1, <2>2
<1>3. Inv => ReceiptStands
  OBVIOUS
<1> HIDE DEF Inv
<1> QED  BY <1>1, <1>2, <1>3, LocalHolds, PTL DEF Spec

----------------------------------------------------------------------------
(* The event log, for one start: a second one truncates it after the look  *)
(* that found no ledger.                                                   *)

Logged(j, log) ==
    /\ log["job_started"] > 0
    /\ j.resumes <= log["job_resumed"]
    /\ j.status \in {"completed", "blocked", "failed"} => log["job_finished"] > 0
    /\ j.status = "cancelled" => log["job_cancel_requested"] + log["job_cancelled"] > 0

After(p) == [events EXCEPT ![EventOf(p)] = @ + 1]

(* The log that a process's packet will be written under.                  *)
LogFor(p) == IF io[p] = "append" THEN After(p) ELSE events

(* Every packet on its way to the ledger, and the one there, is logged;    *)
(* before the ledger there is only the start.                              *)
LedgerIsLogged == job # NoJob => Logged(job, events)

InHandIsLogged(p) ==
    /\ seen[p] # NoJob => Logged(seen[p], events)
    /\ at[p] \notin {"idle", "claim", "done", "dead"} => Logged(mem[p], LogFor(p))

StartIsFirst ==
    /\ job = NoJob => \A p \in Resumers \cup Cancellers : at[p] = "idle"
    /\ \A p \in Starters : at[p] \in {"idle", "claim"} => job = NoJob

LogHolds == LedgerIsLogged /\ StartIsFirst /\ \A p \in Procs : InHandIsLogged(p)

Logs == [EventNames -> Nat]

Grows(log, longer) == \A e \in EventNames : log[e] <= longer[e]

LEMMA LoggedGrows ==
    ASSUME NEW j \in Packet, NEW log \in Logs, NEW longer \in Logs,
           Logged(j, log), Grows(log, longer)
    PROVE  Logged(j, longer)
<1>1. \A e \in EventNames : log[e] \in Nat /\ longer[e] \in Nat /\ log[e] <= longer[e]
  BY DEF Logs, Grows
<1>2. j.resumes \in Nat
  BY DEF Packet
<1> QED  BY <1>1, <1>2 DEF Logged, EventNames

LEMMA MergedIsLogged ==
    ASSUME NEW new \in Packet, NEW old \in Packet \cup {NoJob}, NEW log \in Logs,
           Logged(new, log), old # NoJob => Logged(old, log)
    PROVE  Logged(Merged(new, old), log)
<1> DEFINE m == Merged(new, old)
<1>1. /\ m.resumes = new.resumes
      /\ \/ m.status = new.status
         \/ old # NoJob /\ old.status = "cancelled" /\ m.status = "cancelled"
  BY DEF Merged, Packet
<1> HIDE DEF m
<1>2. Logged(m, log)
  BY <1>1 DEF Logged
<1> QED  BY <1>2 DEF m

LEMMA AfterGrows ==
    ASSUME TypeOK, NEW p \in Procs
    PROVE  /\ EventOf(p) \in EventNames /\ After(p) \in Logs /\ Grows(events, After(p))
           /\ After(p)[EventOf(p)] > 0
<1>1. EventOf(p) \in EventNames
  BY DEF EventOf, EventNames
<1>2. events \in [EventNames -> Nat]
  BY DEF TypeOK
<1>3. \A e \in EventNames : After(p)[e] = IF e = EventOf(p) THEN events[e] + 1 ELSE events[e]
  BY <1>1, <1>2 DEF After
<1>4. After(p) \in Logs
  BY <1>1, <1>2 DEF After, Logs
<1> QED  BY <1>1, <1>2, <1>3, <1>4 DEF Grows

(* A process that only watches the log grow.                               *)
LEMMA BystanderIsLogged ==
    ASSUME TypeOK, TypeOK', NEW q \in Procs, InHandIsLogged(q), Grows(events, events'),
           at'[q] = at[q], io'[q] = io[q], mem'[q] = mem[q], seen'[q] = seen[q]
    PROVE  InHandIsLogged(q)'
<1>1. /\ events \in Logs /\ events' \in Logs /\ mem[q] \in Packet
      /\ seen[q] \in Packet \cup {NoJob}
  BY DEF TypeOK, Logs
<1>2. ASSUME seen[q] # NoJob PROVE Logged(seen[q], events')
  BY <1>1, <1>2, LoggedGrows DEF InHandIsLogged
<1>3. ASSUME at[q] \notin {"idle", "claim", "done", "dead"} PROVE Logged(mem[q], LogFor(q)')
  <2>1. Logged(mem[q], LogFor(q))
    BY <1>3 DEF InHandIsLogged
  <2>2. CASE io[q] # "append"
    BY <1>1, <2>1, <2>2, LoggedGrows DEF LogFor
  <2>3. CASE io[q] = "append"
    <3>1. EventOf(q)' = EventOf(q)
      BY DEF EventOf
    <3>2. After(q) \in Logs /\ After(q)' \in Logs /\ EventOf(q) \in EventNames
      <4>1. After(q)' = [events' EXCEPT ![EventOf(q)] = @ + 1] /\ EventOf(q) \in EventNames
        BY <3>1, AfterGrows DEF After
      <4> QED  BY <1>1, <4>1, AfterGrows DEF Logs
    <3>3. Grows(After(q), After(q)')
      BY <1>1, <3>1, <3>2 DEF After, Grows, Logs
    <3>4. Logged(mem[q], After(q)')
      BY <1>1, <2>1, <2>3, <3>2, <3>3, LoggedGrows DEF LogFor
    <3> QED  BY <2>3, <3>4 DEF LogFor
  <2> QED  BY <2>2, <2>3
<1> QED  BY <1>2, <1>3 DEF InHandIsLogged

(* What a process takes up, or makes of its packet, has its line in the    *)
(* log, or will have it with the event that its write begins with.         *)
LEMMA MoverIsLogged ==
    ASSUME Local, TypeOK', LogHolds, NEW p \in Procs, Moves(p)
    PROVE  InHandIsLogged(p)'
<1> USE DEF Go, disk
<1>1. /\ at \in [Procs -> Points] /\ io \in [Procs -> Stages] /\ mem \in [Procs -> Packet]
      /\ seen \in [Procs -> Packet \cup {NoJob}] /\ mem[p] \in Packet
      /\ job \in Packet \cup {NoJob} /\ events \in [EventNames -> Nat]
      /\ seen[p] \in Packet \cup {NoJob} /\ ending \in [Procs -> JobStatuses \cup {"none"}]
      /\ TypeOK
  BY DEF Local, TypeOK
<1>2. InHandIsLogged(p) /\ LedgerIsLogged /\ Placed(p)
  BY DEF LogHolds, Local
<1>3. events["job_started"] \in Nat /\ events["job_resumed"] \in Nat
      /\ events["job_cancel_requested"] \in Nat /\ events["job_cancelled"] \in Nat
      /\ events["job_finished"] \in Nat
  BY <1>1 DEF EventNames
<1>4. CASE p \in Starters /\ StartAccepted(p)
  BY <1>1, <1>2, <1>4 DEF StartAccepted, InHandIsLogged
<1>5. CASE p \in Resumers /\ ResumeRead(p)
  <2>1. /\ job \in Packet /\ job # NoJob /\ mem'[p] = ResetForResume(job)
        /\ at'[p] = "open" /\ io'[p] = "append" /\ seen'[p] = NoJob /\ events' = events
    BY <1>1, <1>2, <1>5 DEF ResumeRead, Placed
  <2>2. EventOf(p)' = "job_resumed" /\ p \notin Starters
    BY <1>5, <2>1, ProcessAssumption DEF EventOf
  <2>3. After(p)' = [events EXCEPT !["job_resumed"] = @ + 1]
    BY <2>1, <2>2 DEF After
  <2>4. Logged(job, events) /\ job.resumes \in Nat
    BY <1>2, <2>1 DEF LedgerIsLogged, Packet
  <2>5. mem'[p].resumes = job.resumes + 1 /\ mem'[p].status = "running"
    BY <2>1 DEF ResetForResume, Packet
  <2>6. /\ After(p)'["job_started"] = events["job_started"]
        /\ After(p)'["job_resumed"] = events["job_resumed"] + 1
    BY <1>1, <2>3 DEF EventNames
  <2>7. Logged(mem'[p], After(p)')
    <3> DEFINE after == After(p)'
    <3>1. /\ after["job_started"] = events["job_started"]
          /\ after["job_resumed"] = events["job_resumed"] + 1
      BY <2>6
    <3> HIDE DEF after
    <3>2. Logged(mem'[p], after)
      BY <1>3, <2>4, <2>5, <3>1 DEF Logged
    <3> QED  BY <3>2 DEF after
  <2> QED  BY <2>1, <2>7 DEF InHandIsLogged, LogFor
<1>6. CASE p \in Cancellers /\ CancelRead(p)
  <2>1. /\ job \in Packet /\ job # NoJob /\ at'[p] = "cancel" /\ io'[p] = "append"
        /\ mem' = [mem EXCEPT ![p] = [job EXCEPT !.status  = "cancelled",
                                                 !.current = "cancelled",
                                                 !.cancel  = TRUE]]
        /\ seen'[p] = NoJob /\ events' = events
    BY <1>1, <1>2, <1>6 DEF CancelRead, Placed
  <2>2. EventOf(p)' = "job_cancel_requested"
    BY <2>1 DEF EventOf
  <2>3. After(p)' = [events EXCEPT !["job_cancel_requested"] = @ + 1]
    BY <2>1, <2>2 DEF After
  <2>4. Logged(job, events)
    BY <1>2, <2>1 DEF LedgerIsLogged
  <2>5. mem'[p].resumes = job.resumes /\ mem'[p].status = "cancelled"
    BY <1>1, <2>1 DEF Packet
  <2>6. Logged(mem'[p], After(p)')
    <3> DEFINE after == After(p)'
    <3>1. /\ after["job_started"] = events["job_started"]
          /\ after["job_resumed"] = events["job_resumed"]
          /\ after["job_cancel_requested"] = events["job_cancel_requested"] + 1
          /\ after["job_cancelled"] = events["job_cancelled"]
      BY <1>1, <2>3 DEF EventNames
    <3> HIDE DEF after
    <3>2. Logged(mem'[p], after)
      BY <1>3, <2>4, <2>5, <3>1 DEF Logged
    <3> QED  BY <3>2 DEF after
  <2> QED  BY <2>1, <2>6 DEF InHandIsLogged, LogFor
<1>7. CASE CreateEventLog(p)
  <2>1. at[p] = "claim" /\ mem'[p] = NewJob /\ seen'[p] = NoJob /\ p \in Starters
        /\ events' = [e \in EventNames |-> 0]
    BY <1>1, <1>2, <1>7 DEF CreateEventLog, Placed
  <2>2. at'[p] = "dead" \/ (at'[p] = "open" /\ io'[p] = "append")
    BY <1>1, <1>7 DEF CreateEventLog
  <2>3. ASSUME at'[p] = "open" /\ io'[p] = "append" PROVE Logged(mem'[p], LogFor(p)')
    <3>1. EventOf(p)' = "job_started"
      BY <2>1, <2>3, ProcessAssumption DEF EventOf
    <3>2. After(p)' = [events' EXCEPT !["job_started"] = @ + 1]
      BY <3>1 DEF After
    <3>3. After(p)'["job_started"] > 0 /\ 0 <= After(p)'["job_resumed"]
      BY <2>1, <3>2 DEF EventNames
    <3> QED  BY <2>1, <2>3, <3>3 DEF LogFor, Logged, NewJob
  <2> QED  BY <2>1, <2>2, <2>3 DEF InHandIsLogged
<1>8. CASE AppendEvent(p)
  <2>1. /\ events' = After(p) /\ io[p] = "append" /\ io'[p] = "read"
        /\ at' = at /\ mem' = mem /\ seen' = seen
    BY <1>1, <1>8 DEF AppendEvent, After
  <2>2. After(p) \in Logs /\ events \in Logs /\ Grows(events, After(p))
    BY <1>1, AfterGrows DEF Logs
  <2>3. seen[p] # NoJob => Logged(seen[p], events')
    BY <1>1, <1>2, <2>1, <2>2, LoggedGrows DEF InHandIsLogged
  <2> QED  BY <1>2, <2>1, <2>3 DEF InHandIsLogged, LogFor
<1>9. CASE ReadLedger(p)
  <2>1. /\ seen'[p] = job /\ io[p] = "read" /\ io'[p] = "rename"
        /\ at' = at /\ mem' = mem /\ events' = events
    BY <1>1, <1>9 DEF ReadLedger
  <2> QED  BY <1>2, <2>1 DEF InHandIsLogged, LogFor, LedgerIsLogged
<1>10. CASE RenameLedger(p)
  <2>1. /\ at'[p] = AfterWrite(p) /\ io[p] = "rename" /\ io'[p] = "none"
        /\ events' = events /\ seen'[p] = NoJob
    BY <1>1, <1>10 DEF RenameLedger, Forget
  <2>2. CASE AfterWrite(p) = "done"
    BY <2>1, <2>2 DEF InHandIsLogged
  <2>3. CASE AfterWrite(p) # "done"
    <3>1. mem' = mem
      BY <1>10, <2>3 DEF RenameLedger
    <3>2. at[p] \notin {"idle", "claim", "done", "dead"}
      BY <1>2, <2>1 DEF Placed, Writing
    <3> QED  BY <1>2, <2>1, <3>1, <3>2 DEF InHandIsLogged, LogFor
  <2> QED  BY <2>2, <2>3
<1>11. CASE CheckpointCancels(p) \/ Close(p)
  <2>1. PICK status \in {"completed", "blocked", "failed", "cancelled"},
             cancelled \in BOOLEAN : BeginFinish(p, status, cancelled)
    <3>1. CancelRequested(job) \in BOOLEAN
      BY CancelRequestedType DEF Local, TypeOK
    <3> QED  BY <1>11, <3>1 DEF CheckpointCancels, Close, Local, EndingKnown
  <2>2. /\ at[p] \in {"before", "started", "closing"} /\ at'[p] = "finish"
        /\ io'[p] = "append" /\ seen' = seen /\ events' = events
        /\ mem'[p] = Finished(mem[p], status, cancelled)
    BY <1>1, <1>11, <2>1 DEF CheckpointCancels, Close, BeginFinish
  <2>3. io[p] # "append" /\ Logged(mem[p], events)
    BY <1>2, <2>2 DEF Placed, InHandIsLogged, LogFor
  <2>4. /\ mem'[p].resumes = mem[p].resumes
        /\ mem'[p].status \in {"completed", "blocked", "failed", "cancelled"}
    BY <1>1, <2>2 DEF Finished, Packet
  <2>5. EventOf(p)' = IF mem'[p].status = "cancelled" THEN "job_cancelled" ELSE "job_finished"
    BY <2>2 DEF EventOf
  <2>6. Logged(mem'[p], After(p)')
    <3> DEFINE after == After(p)'
    <3>1. after = [events EXCEPT ![EventOf(p)'] = @ + 1]
      BY <2>2 DEF After
    <3>2. /\ after["job_started"] = events["job_started"]
          /\ after["job_resumed"] = events["job_resumed"]
          /\ after["job_cancel_requested"] = events["job_cancel_requested"]
      BY <1>1, <2>5, <3>1 DEF EventNames
    <3>3. CASE mem'[p].status = "cancelled"
      <4>1. after["job_cancelled"] = events["job_cancelled"] + 1
        BY <1>1, <2>5, <3>1, <3>3 DEF EventNames
      <4> HIDE DEF after
      <4>2. Logged(mem'[p], after)
        BY <1>3, <2>3, <2>4, <3>2, <3>3, <4>1 DEF Logged
      <4> QED  BY <4>2 DEF after
    <3>4. CASE mem'[p].status # "cancelled"
      <4>1. after["job_finished"] = events["job_finished"] + 1
        BY <1>1, <2>5, <3>1, <3>4 DEF EventNames
      <4> HIDE DEF after
      <4>2. Logged(mem'[p], after)
        BY <1>3, <2>3, <2>4, <3>2, <3>4, <4>1 DEF Logged
      <4> QED  BY <4>2 DEF after
    <3> QED  BY <3>3, <3>4
  <2> QED  BY <1>2, <2>2, <2>6 DEF InHandIsLogged, LogFor
<1>12. CASE BeginStep(p) \/ EnterBody(p) \/ StepReturns(p) \/ StepErrors(p)
  <2>1. /\ at[p] \in {"before", "started", "body"} /\ io'[p] # "append"
        /\ seen' = seen /\ events' = events
    BY <1>1, <1>12 DEF BeginStep, EnterBody, StepReturns, StepErrors
  <2>2. mem'[p].resumes = mem[p].resumes /\ mem'[p].status = "running"
    <3>1. mem[p].status = "running"
      BY <1>2, <2>1 DEF Placed
    <3>2. CASE BeginStep(p)
      BY <1>1, <3>1, <3>2 DEF BeginStep, StepStarted, Packet
    <3>3. CASE EnterBody(p)
      BY <3>1, <3>3 DEF EnterBody
    <3>4. CASE StepReturns(p) \/ StepErrors(p)
      BY <1>1, <3>1, <3>4 DEF StepReturns, StepErrors, StepEnded, Packet
    <3> QED  BY <1>12, <3>2, <3>3, <3>4
  <2>3. io[p] # "append" /\ Logged(mem[p], events)
    BY <1>2, <2>1 DEF Placed, InHandIsLogged, LogFor
  <2>4. Logged(mem'[p], events)
    BY <2>2, <2>3 DEF Logged
  <2> QED  BY <1>2, <2>1, <2>4 DEF InHandIsLogged, LogFor
<1>13. CASE Die(p)
  BY <1>1, <1>13 DEF Die, Forget, InHandIsLogged
<1> QED  BY <1>4, <1>5, <1>6, <1>7, <1>8, <1>9, <1>10, <1>11, <1>12, <1>13
         DEF Moves, Advance, Write, Pipeline

LEMMA LogHoldsByNext ==
    ASSUME OneStart, Local, TypeOK', LogHolds, NEW p \in Procs, Moves(p)
    PROVE  LogHolds'
<1>1. \A q \in Procs \ {p} : /\ at'[q] = at[q] /\ io'[q] = io[q]
                             /\ mem'[q] = mem[q] /\ seen'[q] = seen[q]
  BY OthersStay DEF Local
<1>2. StartIsFirst /\ LedgerIsLogged /\ TypeOK /\ events \in [EventNames -> Nat]
  BY DEF LogHolds, Local, TypeOK
<1>3. CASE CreateEventLog(p)
  <2>1. at[p] = "claim" /\ p \in Starters /\ job = NoJob /\ job' = job /\ at'[p] # "idle"
    BY <1>2, <1>3 DEF CreateEventLog, Local, Placed, StartIsFirst, Go, TypeOK
  <2>2. ASSUME NEW q \in Procs, q # p PROVE InHandIsLogged(q)' /\ at'[q] = "idle"
    <3>1. q \in Resumers \cup Cancellers
      BY <2>1, <2>2 DEF OneStart, Procs, Runners
    <3>2. at[q] = "idle" /\ seen[q] = NoJob
      BY <1>2, <2>1, <2>2, <3>1 DEF StartIsFirst, Local, Placed
    <3> QED  BY <1>1, <2>2, <3>2 DEF InHandIsLogged
  <2>3. \A q \in Procs : InHandIsLogged(q)'
    BY <2>2, MoverIsLogged
  <2>4. StartIsFirst'
    BY <2>1, <2>2, ProcessAssumption DEF StartIsFirst, Procs, Runners
  <2>5. LedgerIsLogged'
    BY <2>1 DEF LedgerIsLogged
  <2> QED  BY <2>3, <2>4, <2>5 DEF LogHolds
<1>4. CASE ~CreateEventLog(p)
  <2>1. events' = events \/ events' = After(p)
    BY <1>4 DEF Moves, Advance, Write, Pipeline, disk, StartAccepted, ResumeRead, CancelRead,
       AppendEvent, After, ReadLedger, RenameLedger, CheckpointCancels, BeginStep, EnterBody,
       StepReturns, StepErrors, Close, BeginFinish, Die
  <2>2. Grows(events, events') /\ events' \in Logs /\ events \in Logs
    BY <1>2, <2>1, AfterGrows DEF Grows, Logs
  <2>3. \A q \in Procs : InHandIsLogged(q)'
    <3> SUFFICES ASSUME NEW q \in Procs PROVE InHandIsLogged(q)'
      OBVIOUS
    <3>1. CASE q = p
      BY <3>1, MoverIsLogged
    <3>2. CASE q # p
      BY <1>1, <1>2, <2>2, <3>2, BystanderIsLogged DEF LogHolds
    <3> QED  BY <3>1, <3>2
  <2>4. LedgerIsLogged'
    <3>1. CASE job' = job
      BY <1>2, <2>2, <3>1, LoggedGrows DEF LedgerIsLogged, TypeOK
    <3>2. CASE job' # job
      <4>1. RenameLedger(p) /\ job' = Merged(mem[p], seen[p])
        BY <3>2, LedgerStep
      <4>2. /\ io[p] = "rename" /\ events' = events /\ mem[p] \in Packet
            /\ seen[p] \in Packet \cup {NoJob}
        BY <1>2, <4>1 DEF RenameLedger, TypeOK
      <4>3. Logged(mem[p], events) /\ (seen[p] # NoJob => Logged(seen[p], events))
        BY <4>2 DEF LogHolds, InHandIsLogged, LogFor, Local, Placed, Writing
      <4> QED  BY <2>2, <4>1, <4>2, <4>3, MergedIsLogged DEF LedgerIsLogged
    <3> QED  BY <3>1, <3>2
  <2>5. StartIsFirst'
    <3>1. job # NoJob => job' # NoJob
      <4>1. CASE job' # job
        BY <4>1, LedgerStep, MergedType, NoJobAssumption DEF Local, TypeOK
      <4> QED  BY <4>1
    <3>2. ASSUME job' = NoJob, NEW q \in Resumers \cup Cancellers PROVE at'[q] = "idle"
      <4>1. job = NoJob /\ at[q] = "idle" /\ q \in Procs /\ q \notin Starters
        BY <1>2, <3>1, <3>2, ProcessAssumption DEF StartIsFirst, Procs, Runners
      <4>2. CASE q = p
        BY <4>1, <4>2 DEF Moves, Advance, Write, Pipeline, ResumeRead, CancelRead,
           CreateEventLog, AppendEvent, ReadLedger, RenameLedger, CheckpointCancels,
           BeginStep, EnterBody, StepReturns, StepErrors, Close, Die, Live, Local, Placed,
           Writing
      <4> QED  BY <1>1, <4>1, <4>2
    <3>3. ASSUME NEW q \in Starters, at'[q] \in {"idle", "claim"} PROVE job' = NoJob
      <4>1. q \in Procs /\ q \notin Resumers /\ q \notin Cancellers
        BY ProcessAssumption DEF Procs, Runners
      <4>2. at[q] \in {"idle", "claim"}
        <5>1. CASE q = p
          BY <1>2, <3>3, <4>1, <5>1, <1>4 DEF Moves, Advance, Write, Pipeline, Go,
             StartAccepted, AppendEvent, ReadLedger, RenameLedger, AfterWrite,
             CheckpointCancels, BeginStep, EnterBody, StepReturns, StepErrors, Close,
             BeginFinish, Die, TypeOK
        <5> QED  BY <1>1, <3>3, <4>1, <5>1
      <4>3. job = NoJob
        BY <1>2, <4>2 DEF StartIsFirst
      <4>4. CASE job' # job
        <5>1. io[p] = "rename" /\ p \in Starters
          BY <1>2, <4>3, <4>4, LedgerStep DEF RenameLedger, StartIsFirst, Local, Placed,
             Writing, Procs, Runners
        <5>2. p = q
          BY <5>1 DEF OneStart
        <5> QED  BY <4>2, <5>1, <5>2, <4>1 DEF Local, Placed, Writing
      <4> QED  BY <4>3, <4>4
    <3> QED  BY <3>2, <3>3 DEF StartIsFirst
  <2> QED  BY <2>3, <2>4, <2>5 DEF LogHolds
<1> QED  BY <1>3, <1>4

(* For one start, any number of resumes and cancels and any pipeline: what *)
(* job.json says has happened has its line in events.jsonl.                *)
THEOREM LogIsAhead == OneStart => (Spec => []LogAheadOfLedger)
<1> SUFFICES ASSUME OneStart PROVE Spec => []LogAheadOfLedger
  OBVIOUS
<1>1. Init => LogHolds
  BY DEF Init, LogHolds, LedgerIsLogged, InHandIsLogged, StartIsFirst, Procs, Runners
<1>2. ASSUME Local, TypeOK', LogHolds, [Next]_vars PROVE LogHolds'
  <2>1. CASE UNCHANGED vars
    BY <1>2, <2>1 DEF vars, LogHolds, LedgerIsLogged, InHandIsLogged, StartIsFirst, LogFor,
       After, EventOf
  <2>2. CASE Next
    BY <1>2, <2>2, SomeoneMoves, LogHoldsByNext
  <2> QED  BY <1>2, <2>1, <2>2
<1>3. LogHolds => LogAheadOfLedger
  BY DEF LogHolds, LedgerIsLogged, Logged, LogAheadOfLedger
<1>4. Local => TypeOK
  BY DEF Local
<1> QED  BY <1>1, <1>2, <1>3, <1>4, LocalHolds, PTL DEF Spec
=============================================================================
