----------------------- MODULE PipelineEffectsProofs ------------------------
(***************************************************************************)
(* What the pipeline does outside its own table, to *arr's library and to  *)
(* requests, for any number of handlers, files, titles, jobs, failed calls *)
(* and restarts.                                                           *)
(***************************************************************************)
EXTENDS PipelineProofs

USE DEF PipelineAssumption, JobIds, Finished, Active

(* What a step of the worker leaves alone, and what it needs of the types. *)
LEMMA WorkerFrame ==
  ASSUME TypeOK, WorkerStep
  PROVE  /\ UNCHANGED <<imported, settings, proc, ffprobe, restarts, handler, jobFile, jobRuntime, nextId>>
         /\ worker \in WorkerState /\ faults \in Nat
         /\ status \in [JobIds -> JobStatus]
         /\ jobFile \in [JobIds -> Files \cup {NoFile}]
         /\ worker.pc \notin JoblessPcs =>
                worker.job \in JobIds /\ jobFile[worker.job] \in Files
<1>1. UNCHANGED <<imported, settings, proc, ffprobe, restarts, handler, jobFile, jobRuntime, nextId>>
  BY DEF WorkerStep, Claim, ClaimNothing, WaitEnds, WorkerExits, Begin, Probe, Panic,
         CheckShutdown, FinishJob, MarkAvailable, Gate, MarkHistoryFailed, LookupFile,
         DeleteFile, Search, WorkerOnly, lifeVars, storeVars, arrVars
<1>2. /\ worker \in WorkerState /\ faults \in Nat
      /\ status \in [JobIds -> JobStatus]
      /\ jobFile \in [JobIds -> Files \cup {NoFile}]
  BY PipelineAssumption DEF TypeOK
<1>3. worker.pc \notin JoblessPcs => worker.job \in JobIds /\ jobFile[worker.job] \in Files
  BY PipelineAssumption DEF TypeOK, InHand
<1> QED BY <1>1, <1>2, <1>3

(* Handlers, prune and refresh leave the worker and the process alone.     *)
LEMMA OthersFrame ==
  ASSUME TypeOK,
         \/ Environment \/ (\E h \in Handlers : HandlerStep(h))
         \/ DoRefresh \/ (\E j \in JobIds : Prune(j))
  PROVE  UNCHANGED <<worker, proc, ffprobe, restarts, blocklisted>>
<1>1. CASE Environment
  BY <1>1 DEF Environment, Import, Approve, PutSetting, HookReceive, RetryGet, HandlerFails,
              OnlyHandlers, lifeVars, arrVars
<1>2. ASSUME NEW h \in Handlers, HandlerStep(h)
      PROVE  UNCHANGED <<worker, proc, ffprobe, restarts, blocklisted>>
  <2>1. OnlyHandlers
    BY <1>2 DEF HandlerStep, EnqueueSelect, EnqueueInsert, RetryRequeue, KickWorker
  <2> QED BY <2>1 DEF OnlyHandlers, lifeVars
<1>3. CASE DoRefresh \/ \E j \in JobIds : Prune(j)
  BY <1>3 DEF DoRefresh, Prune, lifeVars, arrVars
<1> QED BY <1>1, <1>2, <1>3

-----------------------------------------------------------------------------
(* The reaction to a failed validation.                                    *)

(* What was at the job's path when it was probed does not pass for its row. *)
BadFound == ffprobe => ~Passes(worker.job, worker.probed)

(* A fail that the worker goes on with was no probe the shutdown killed.   *)
VerdictsSound ==
    /\ worker.pc = "check" =>
           \/ worker.verdict = "pass"
           \/ worker.verdict = "fail" /\ (proc = "stopping" \/ BadFound)
    /\ worker.pc = "finish" =>
           worker.verdict = "pass" \/ (worker.verdict = "fail" /\ BadFound)
    /\ worker.pc \in FailurePcs => BadFound

(* Whoever can still call *arr has recorded the outcome before.            *)
RecordedFirst ==
    worker.pc \in FailurePcs /\ faults = 0 /\ proc = "up" => status[worker.job] # "running"

(* The file id that is about to be deleted was found at the job's path.    *)
TargetAtPath ==
    worker.pc = "delete" /\ worker.target # NoFile =>
        PathOf[worker.target] = JobPath(worker.job)

FailInv == VerdictsSound /\ RecordedFirst /\ TargetAtPath

(* A verdict stands as long as the row of the job in hand stays as it is.  *)
LEMMA SameVerdict ==
  ASSUME UNCHANGED ffprobe,
         worker'.job = worker.job, worker'.probed = worker.probed,
         jobFile'[worker.job] = jobFile[worker.job],
         jobRuntime'[worker.job] = jobRuntime[worker.job]
  PROVE  BadFound' = BadFound
  BY DEF BadFound, Passes, SizedBy

(* There are no jobs and no verdicts at first.                             *)
LEMMA InitFail == Init => FailInv
  BY DEF Init, FailInv, VerdictsSound, RecordedFirst, TargetAtPath,
         WorkerAt, FailurePcs

(* From the probe to the last of the failure steps.                        *)
LEMMA WorkerFail == ASSUME TypeOK, FailInv, WorkerStep PROVE FailInv'
<1> USE WorkerFrame DEF FailInv, VerdictsSound, RecordedFirst, TargetAtPath, FailurePcs, JobPath
<1>b. worker'.job = worker.job /\ worker'.probed = worker.probed => BadFound' = BadFound
  BY SameVerdict
<1>a. ASSUME NEW pc, WorkerIdles(pc), pc \in JoblessPcs PROVE FailInv'
  BY <1>a DEF WorkerIdles, WorkerAt, JoblessPcs
<1>1. CASE Claim
  <2>1. worker'.pc = "begin"
    BY <1>1 DEF Claim, WorkerAt
  <2> QED BY <2>1
<1>2. CASE ClaimNothing \/ WaitEnds
  <2>1. worker'.pc \in {"wait", "backoff", "claim"}
    BY <1>2 DEF ClaimNothing, WaitEnds, GoTo, WorkerState
  <2> QED BY <2>1
<1>3. CASE WorkerExits \/ Panic \/ MarkAvailable \/ Search
  BY <1>3, <1>a DEF WorkerExits, Panic, MarkAvailable, Search, JoblessPcs
<1>4. CASE Begin
  <2>1. worker'.pc = "probe" \/ (worker'.pc = "check" /\ worker'.verdict = "pass")
    BY <1>4 DEF Begin, GoTo, WorkerState
  <2> QED BY <2>1
<1>5. CASE Probe
  <2> PICK v \in {"pass", "fail"} :
             /\ v = "fail" => ~Sound \/ proc = "stopping"
             /\ worker' = [worker EXCEPT !.pc = "check", !.verdict = v, !.probed = ProbedFile]
    BY <1>5 DEF Probe
  <2>1. /\ worker'.pc = "check" /\ worker'.verdict = v
        /\ worker'.probed = ProbedFile /\ worker'.job = worker.job
    BY DEF WorkerState
  <2>2. ~Sound => BadFound'
    BY <2>1 DEF Sound, BadFound, Passes, SizedBy
  <2> QED BY <2>1, <2>2
<1>6. CASE CheckShutdown
  <2>1. CASE Interrupted
    BY <1>6, <2>1, <1>a DEF CheckShutdown, JoblessPcs
  <2>2. CASE ~Interrupted
    <3>1. worker' = [worker EXCEPT !.pc = "finish"] /\ worker.pc = "check"
      BY <1>6, <2>2 DEF CheckShutdown, AfterCheck, GoTo
    <3>2. /\ worker'.pc = "finish" /\ worker'.verdict = worker.verdict
          /\ worker'.probed = worker.probed /\ worker'.job = worker.job
      BY <3>1 DEF WorkerState
    <3> QED BY <2>2, <3>1, <3>2, <1>b DEF Interrupted
  <2> QED BY <2>1, <2>2
<1>7. CASE FinishJob
  <2>1. CASE worker.verdict = "pass"
    <3>1. worker'.pc = "mark"
      BY <1>7, <2>1 DEF FinishJob, AfterFinish, GoTo, WorkerState
    <3> QED BY <3>1
  <2>2. CASE worker.verdict # "pass"
    <3>1. worker' = [worker EXCEPT !.pc = "gate"] /\ worker.pc = "finish"
      BY <1>7, <2>2 DEF FinishJob, AfterFinish, GoTo
    <3>2. worker'.pc = "gate" /\ worker'.probed = worker.probed /\ worker'.job = worker.job
      BY <3>1 DEF WorkerState
    <3>3. BadFound'
      BY <2>2, <3>1, <3>2, <1>b
    <3>4. \/ proc = "stopping" \/ faults' # 0
          \/ status' = [status EXCEPT ![worker.job] = "failed"]
      BY <1>7, <2>2 DEF FinishJob, CallFails
    <3>5. RecordedFirst'
      BY <3>1, <3>2, <3>4 DEF JoblessPcs
    <3> QED BY <3>2, <3>3, <3>5
  <2> QED BY <2>1, <2>2
<1>8. CASE Gate
  <2>1. CASE WorkerIdles("claim")
    BY <2>1, <1>a DEF JoblessPcs
  <2>2. CASE GoTo("blocklist")
    <3>1. /\ worker'.pc = "blocklist" /\ worker'.probed = worker.probed
          /\ worker'.job = worker.job
      BY <2>2 DEF GoTo, WorkerState
    <3>2. worker.pc = "gate" /\ UNCHANGED status /\ (faults' = 0 => faults = 0)
      BY <1>8 DEF Gate, storeVars, ReadsSetting, CallWorks, CallFails
    <3> QED BY <3>1, <3>2, <1>b
  <2> QED BY <1>8, <2>1, <2>2 DEF Gate
<1>9. CASE MarkHistoryFailed
  <2>1. /\ worker'.pc = "lookup" /\ worker'.probed = worker.probed
        /\ worker'.job = worker.job
    BY <1>9 DEF MarkHistoryFailed, GoTo, WorkerState
  <2>2. worker.pc = "blocklist" /\ UNCHANGED status /\ (faults' = 0 => faults = 0)
    BY <1>9 DEF MarkHistoryFailed, storeVars, CallWorks, CallFails
  <2> QED BY <2>1, <2>2, <1>b
<1>10. CASE LookupFile
  <2> PICK found \in {FileToDelete, NoFile} :
             worker' = [worker EXCEPT !.pc = "delete", !.target = found]
    BY <1>10 DEF LookupFile
  <2>1. /\ worker'.pc = "delete" /\ worker'.probed = worker.probed
        /\ worker'.job = worker.job /\ worker'.target = found
    BY DEF WorkerState
  <2>2. worker.pc = "lookup" /\ UNCHANGED status /\ (faults' = 0 => faults = 0)
    BY <1>10 DEF LookupFile, storeVars, CallWorks, CallFails
  <2>3. found # NoFile => PathOf[found] = JobPath(worker.job)
    BY DEF FileToDelete, FileAt
  <2> QED BY <2>1, <2>2, <2>3, <1>b
<1>11. CASE DeleteFile
  <2>1. /\ worker'.pc = "search" /\ worker'.probed = worker.probed
        /\ worker'.job = worker.job
    BY <1>11 DEF DeleteFile, AfterDelete, GoTo, WorkerState
  <2>2. worker.pc = "delete" /\ UNCHANGED status /\ (faults' = 0 => faults = 0)
    BY <1>11 DEF DeleteFile, storeVars, CallWorks, CallFails
  <2> QED BY <2>1, <2>2, <1>b
<1> QED
  BY <1>1, <1>2, <1>3, <1>4, <1>5, <1>6, <1>7, <1>8, <1>9, <1>10, <1>11 DEF WorkerStep

(* Nobody else sets a row running, or gives an existing row another file;  *)
(* and a new process starts with an idle worker.                           *)
LEMMA OthersFail ==
  ASSUME TypeOK, FailInv,
         \/ Environment \/ (\E h \in Handlers : HandlerStep(h))
         \/ DoRefresh \/ (\E j \in JobIds : Prune(j))
  PROVE  FailInv'
<1> USE OthersFrame DEF FailInv, VerdictsSound, RecordedFirst, TargetAtPath, JobPath
<1>1. worker.pc \notin JoblessPcs =>
          /\ worker.job \in JobIds /\ worker.job # nextId
          /\ jobFile'[worker.job] = jobFile[worker.job]
          /\ jobRuntime'[worker.job] = jobRuntime[worker.job]
  <2>1. worker.pc \notin JoblessPcs => worker.job \in JobIds /\ worker.job # nextId
    <3>1. worker.pc \notin JoblessPcs =>
              worker.job \in JobIds /\ worker.job \in 1 .. nextId - 1
      BY PipelineAssumption DEF TypeOK, InHand
    <3>2. nextId \in Nat
      BY PipelineAssumption DEF TypeOK
    <3> QED BY <3>1, <3>2
  <2>2. \/ UNCHANGED <<jobFile, jobRuntime>>
        \/ \E f, known : /\ jobFile' = [jobFile EXCEPT ![nextId] = f]
                         /\ jobRuntime' = [jobRuntime EXCEPT ![nextId] = known]
    BY DEF Environment, Import, Approve, PutSetting, HookReceive, RetryGet, HandlerFails,
           HandlerStep, EnqueueSelect, EnqueueInsert, RetryRequeue, KickWorker, OnlyHandlers,
           DoRefresh, Prune, storeVars
  <2>3. jobFile \in [JobIds -> Files \cup {NoFile}] /\ jobRuntime \in [JobIds -> BOOLEAN]
    BY DEF TypeOK
  <2> QED BY <2>1, <2>2, <2>3
<1>2. \/ UNCHANGED status
      \/ \E j, s : s \in {"queued", "absent"} /\ status' = [status EXCEPT ![j] = s]
  BY DEF Environment, Import, Approve, PutSetting, HookReceive, RetryGet, HandlerFails,
         HandlerStep, EnqueueSelect, EnqueueInsert, RetryRequeue, KickWorker, OnlyHandlers,
         DoRefresh, Prune, storeVars
<1>3. faults' = 0 => faults = 0
  <2>1. faults \in Nat
    BY PipelineAssumption DEF TypeOK
  <2>2. UNCHANGED faults \/ faults' = faults + 1
    BY DEF Environment, Import, Approve, PutSetting, HookReceive, RetryGet, HandlerFails,
           HandlerStep, EnqueueSelect, EnqueueInsert, RetryRequeue, KickWorker, OnlyHandlers,
           DoRefresh, Prune, CallWorks, CallFails
  <2> QED BY <2>1, <2>2
<1>4. status \in [JobIds -> JobStatus]
  BY DEF TypeOK
<1>5. VerdictsSound'
  <2>1. worker.pc \notin JoblessPcs => BadFound' = BadFound
    BY <1>1, SameVerdict
  <2> QED BY <2>1 DEF FailurePcs, JoblessPcs
<1>6. RecordedFirst'
  BY <1>1, <1>2, <1>3, <1>4 DEF FailurePcs, JoblessPcs
<1>7. TargetAtPath'
  BY <1>1 DEF JoblessPcs
<1> QED BY <1>5, <1>6, <1>7

(* The process does not break it either when it stops, ends or starts      *)
(* again.                                                                  *)
LEMMA ProcessFail ==
  ASSUME TypeOK, FailInv, Stop \/ Exit \/ Crash \/ Restart \/ UNCHANGED vars
  PROVE  FailInv'
<1> USE DEF FailInv, VerdictsSound, RecordedFirst, TargetAtPath, FailurePcs, JobPath
<1>1. CASE Stop
  <2>1. BadFound' = BadFound
    BY <1>1, SameVerdict DEF Stop, storeVars
  <2> QED BY <1>1, <2>1 DEF Stop, storeVars
<1>2. CASE Exit \/ Crash
  <2>1. worker'.pc = "off"
    BY <1>2 DEF Exit, Crash, ProcessEnds, WorkerAt
  <2> QED BY <2>1
<1>3. CASE Restart
  <2>1. worker'.pc = "claim"
    BY <1>3 DEF Restart, Start, WorkerAt
  <2> QED BY <2>1
<1>4. CASE UNCHANGED vars
  <2>1. BadFound' = BadFound
    BY <1>4, SameVerdict DEF vars, storeVars, lifeVars
  <2> QED BY <1>4, <2>1 DEF vars, storeVars, lifeVars
<1> QED BY <1>1, <1>2, <1>3, <1>4

(* Every step keeps it.                                                    *)
LEMMA StepFail == TypeOK /\ FailInv /\ [Next]_vars => FailInv'
  BY WorkerFail, OthersFail, ProcessFail DEF Next

(* So it holds in every state.                                             *)
LEMMA AlwaysFail == Spec => [](TypeOK /\ FailInv)
  BY InitFail, StepFail, TypeCorrect, PTL DEF Spec

(* The reaction to a failed validation never starts on a file that passes  *)
(* for the size and the runtime of the job's row, however shutdowns,       *)
(* restarts, failures, retries and imports at the same path interleave.    *)
THEOREM FailureNeedsBadFile == Spec => []FailureMeansBadFile
<1>1. FailInv => FailureMeansBadFile
  BY DEF FailInv, VerdictsSound, FailureMeansBadFile, BadFound
<1> QED BY <1>1, AlwaysFail, PTL

(* Nothing is blocklisted for a job whose outcome is not recorded.         *)
THEOREM EffectsAreRecorded == Spec => OutcomeBeforeEffects
<1>1. TypeOK /\ FailInv /\ [Next]_vars =>
          [blocklisted' # blocklisted => status[worker.job] # "running" \/ faults > 0]_vars
  <2> SUFFICES ASSUME TypeOK, FailInv, Next, blocklisted' # blocklisted
               PROVE  status[worker.job] # "running" \/ faults > 0
    OBVIOUS
  <2>1. MarkHistoryFailed
    <3>1. WorkerStep
      BY OthersFrame DEF Next, Stop, Exit, Crash, Restart, Start, ProcessEnds, arrVars
    <3> QED
      BY <3>1 DEF WorkerStep, Claim, ClaimNothing, WaitEnds, WorkerExits, Begin, Probe, Panic,
             CheckShutdown, FinishJob, MarkAvailable, Gate, LookupFile, DeleteFile, Search,
             arrVars
  <2>2. worker.pc = "blocklist" /\ proc = "up"
    BY <2>1 DEF MarkHistoryFailed, CallWorks
  <2>3. faults \in Nat
    BY PipelineAssumption DEF TypeOK
  <2> QED BY <2>2, <2>3 DEF FailInv, RecordedFirst, FailurePcs
<1> QED BY <1>1, AlwaysFail, PTL DEF Spec, OutcomeBeforeEffects

(* What is deleted is at the path of the job in hand, whatever *arr        *)
(* imports between the look-up and the delete.                             *)
THEOREM OnlyJobPathDeleted == Spec => DeletesOnlyJobPath
<1> DEFINE AtPath(t) == library[t] # NoFile /\ library'[t] = NoFile =>
                            worker.job \in JobIds /\ PathOf[library[t]] = JobPath(worker.job)
<1>1. TypeOK /\ FailInv /\ [Next]_vars => [\A t \in Titles : AtPath(t)]_vars
  <2> SUFFICES ASSUME TypeOK, FailInv, Next, NEW t \in Titles, library[t] # NoFile,
                      library'[t] = NoFile
               PROVE  worker.job \in JobIds /\ PathOf[library[t]] = JobPath(worker.job)
    OBVIOUS
  <2>0. library \in [Titles -> Files \cup {NoFile}]
    BY DEF TypeOK
  <2>1. \A f \in Files : ~Import(f)
    BY <2>0, PipelineAssumption DEF Import
  <2>2. DeleteFile
    BY <2>1 DEF Next, Environment, Approve, PutSetting, HookReceive, RetryGet,
           HandlerFails, HandlerStep, EnqueueSelect, EnqueueInsert, RetryRequeue, KickWorker,
           OnlyHandlers, DoRefresh, Prune, Stop, Exit, Crash, Restart, Start, ProcessEnds,
           arrVars, WorkerStep, Claim, ClaimNothing, WaitEnds, WorkerExits, Begin, Probe,
           Panic, CheckShutdown, FinishJob, MarkAvailable, Gate, MarkHistoryFailed,
           LookupFile, Search
  <2>3. /\ worker.pc = "delete" /\ worker.target # NoFile
        /\ library[t] = worker.target
    BY <2>0, <2>2 DEF DeleteFile
  <2>4. worker.job \in JobIds
    BY <2>2, <2>3, WorkerFrame DEF JoblessPcs, WorkerStep
  <2> QED BY <2>3, <2>4 DEF FailInv, TargetAtPath
<1> QED BY <1>1, AlwaysFail, PTL DEF Spec, DeletesOnlyJobPath

-----------------------------------------------------------------------------
(* What a passed or failed job leaves behind, while nothing goes wrong.    *)

(* The worker's context is cancelled by a stop only, and a worker runs in  *)
(* a process only.                                                         *)
Uninterrupted ==
    /\ restarts = 0 => proc # "stopping"
    /\ proc = "down" => worker.pc = "off"

(* No webhook, and so no job, is about a file that was not imported: an    *)
(* approval before the import is an approval before the job.               *)
OnlyImported ==
    /\ \A j \in JobIds : jobFile[j] # NoFile => jobFile[j] \in imported
    /\ \A h \in Handlers : handler[h].file # NoFile => handler[h].file \in imported

FulfilInv == Uninterrupted /\ OnlyImported /\ PassedIsFulfilled /\ DeletedIsSearched

(* There are no jobs and nothing to fulfil at first.                       *)
LEMMA InitFulfil == Init => FulfilInv
<1> SUFFICES ASSUME Init PROVE FulfilInv
  OBVIOUS
<1> USE DEF Init
<1>1. Uninterrupted
  BY DEF Uninterrupted, WorkerAt
<1>2. OnlyImported
  BY DEF OnlyImported, IdleHandler
<1>3. PassedIsFulfilled
  BY DEF PassedIsFulfilled
<1>4. DeletedIsSearched
  BY DEF DeletedIsSearched
<1> QED BY <1>1, <1>2, <1>3, <1>4 DEF FulfilInv

(* The process: how it starts and ends.                                    *)
LEMMA StepUninterrupted == ASSUME TypeOK, Uninterrupted, [Next]_vars PROVE Uninterrupted'
<1> USE DEF Uninterrupted
<1>0. restarts \in Nat
  BY DEF TypeOK
<1>1. CASE WorkerStep
  <2>1. proc # "down"
    <3>1. worker.pc # "off"
      BY <1>1, WorkerFrame DEF WorkerStep, Claim, ClaimNothing, WaitEnds, WorkerExits, Begin,
         Probe, Panic, CheckShutdown, FinishJob, MarkAvailable, Gate, MarkHistoryFailed,
         LookupFile, DeleteFile, Search
    <3> QED BY <3>1
  <2> QED BY <1>1, <2>1, WorkerFrame
<1>2. CASE \/ Environment \/ (\E h \in Handlers : HandlerStep(h))
           \/ DoRefresh \/ (\E j \in JobIds : Prune(j))
  BY <1>2, OthersFrame
<1>3. CASE Stop
  BY <1>0, <1>3 DEF Stop
<1>4. CASE Exit \/ Crash
  BY <1>0, <1>4 DEF Exit, Crash, ProcessEnds, WorkerAt
<1>5. CASE Restart
  BY <1>5 DEF Restart, Start
<1>6. CASE UNCHANGED vars
  BY <1>6 DEF vars, lifeVars
<1> QED BY <1>1, <1>2, <1>3, <1>4, <1>5, <1>6 DEF Next

(* Only what is being imported is in the hands of the worker.              *)
LEMMA StepOnlyImported == ASSUME TypeOK, OnlyImported, [Next]_vars PROVE OnlyImported'
<1> USE DEF OnlyImported
<1>0. /\ handler \in [Handlers -> HandlerState]
      /\ jobFile \in [JobIds -> Files \cup {NoFile}]
  BY DEF TypeOK
<1>1. CASE WorkerStep
  BY <1>1, WorkerFrame
<1>2. ASSUME NEW f \in Files, Import(f) PROVE OnlyImported'
  BY <1>2 DEF Import, storeVars
<1>3. ASSUME NEW h \in Handlers, NEW f \in Files, HookReceive(h, f) PROVE OnlyImported'
  <2>1. /\ \E known \in RuntimeStates :
              handler' = [handler EXCEPT ![h] =
                             [pc |-> "select", file |-> f, runtime |-> known, job |-> NoJob]]
        /\ f \in imported /\ UNCHANGED <<jobFile, imported>>
    BY <1>3 DEF HookReceive, OnlyHandlers, storeVars
  <2> QED BY <1>0, <2>1
<1>4. ASSUME NEW h \in Handlers, NEW j \in JobIds, RetryGet(h, j) PROVE OnlyImported'
  <2>1. /\ handler' = [handler EXCEPT ![h] =
                        [pc |-> "requeue", file |-> NoFile, runtime |-> FALSE, job |-> j]]
        /\ UNCHANGED <<jobFile, imported>>
    BY <1>4 DEF RetryGet, OnlyHandlers, storeVars
  <2> QED BY <1>0, <2>1
<1>5. ASSUME NEW h \in Handlers, EnqueueInsert(h) PROVE OnlyImported'
  <2>1. /\ jobFile' = [jobFile EXCEPT ![nextId] = handler[h].file]
        /\ handler' = [handler EXCEPT ![h].pc = "kick"]
        /\ UNCHANGED imported
    BY <1>5 DEF EnqueueInsert, AfterEnqueue, InsertedFile, OnlyHandlers
  <2>2. \A g \in Handlers : handler'[g].file = handler[g].file
    BY <1>0, <2>1 DEF HandlerState
  <2> QED BY <1>0, <2>1, <2>2
<1>6. ASSUME NEW h \in Handlers,
             EnqueueSelect(h) \/ RetryRequeue(h) \/ KickWorker(h) \/ HandlerFails(h)
      PROVE  OnlyImported'
  <2>1. /\ \/ \E pc : handler' = [handler EXCEPT ![h].pc = pc]
           \/ handler' = [handler EXCEPT ![h] = IdleHandler]
        /\ UNCHANGED <<jobFile, imported>>
    <3>1. UNCHANGED <<jobFile, imported>>
      BY <1>6 DEF EnqueueSelect, RetryRequeue, KickWorker, HandlerFails, OnlyHandlers, storeVars
    <3>2. \/ \E pc : handler' = [handler EXCEPT ![h].pc = pc]
          \/ handler' = [handler EXCEPT ![h] = IdleHandler]
      BY <1>6, Zenon DEF EnqueueSelect, RetryRequeue, KickWorker, HandlerFails
    <3> QED BY <3>1, <3>2
  <2>2. \A g \in Handlers : handler'[g].file \in {handler[g].file, NoFile}
    <3>1. IdleHandler.file = NoFile /\ \A g \in Handlers : handler[g] \in HandlerState
      BY <1>0 DEF IdleHandler
    <3>2. CASE handler' = [handler EXCEPT ![h] = IdleHandler]
      BY <1>0, <3>1, <3>2
    <3>3. ASSUME NEW pc, handler' = [handler EXCEPT ![h].pc = pc]
          PROVE  \A g \in Handlers : handler'[g].file = handler[g].file
      BY <1>0, <3>1, <3>3 DEF HandlerState
    <3> QED BY <2>1, <3>2, <3>3
  <2> QED BY <2>1, <2>2
<1>7. CASE \/ \E t \in Requestable : Approve(t)
           \/ \E k \in EditableKeys : PutSetting(k)
           \/ DoRefresh \/ (\E j \in JobIds : Prune(j))
           \/ Stop \/ Restart \/ UNCHANGED vars
  BY <1>7 DEF Approve, PutSetting, DoRefresh, Prune, Stop, Restart, Start, vars, arrVars,
     storeVars
<1>8. CASE Exit \/ Crash
  BY <1>8 DEF Exit, Crash, ProcessEnds, arrVars, storeVars, IdleHandler
<1> QED
  BY <1>1, <1>2, <1>3, <1>4, <1>5, <1>6, <1>7, <1>8 DEF Next, Environment, HandlerStep

(* A row becomes passed when the worker goes to mark, and a request        *)
(* becomes approved only while its title has no job.                       *)
LEMMA StepFulfilled ==
  ASSUME TypeOK, FulfilInv, [Next]_vars PROVE PassedIsFulfilled'
<1> USE DEF FulfilInv
<1> SUFFICES ASSUME faults' = 0, restarts' = 0, NEW j \in JobIds, status'[j] = "passed",
                    request'[JobTitle(j)'] = "approved"
             PROVE  worker'.pc = "mark" /\ worker'.job = j
  BY DEF PassedIsFulfilled
<1>0. /\ status \in [JobIds -> JobStatus] /\ request \in [Titles -> RequestStatus]
      /\ jobFile \in [JobIds -> Files \cup {NoFile}] /\ nextId \in Nat
      /\ faults \in Nat /\ restarts \in Nat /\ worker \in WorkerState
      /\ \A i \in JobIds : i >= nextId => status[i] = "absent"
      /\ \A i \in JobIds : i < nextId => jobFile[i] \in Files
  BY DEF TypeOK, InHand
<1>a. ASSUME faults = 0, restarts = 0, status[j] = "passed",
             request[JobTitle(j)] = "approved"
      PROVE  worker.pc = "mark" /\ worker.job = j
  BY <1>a DEF PassedIsFulfilled
<1>1. CASE WorkerStep
  <2>1. /\ UNCHANGED <<jobFile, restarts, proc>> /\ JobTitle(j)' = JobTitle(j)
        /\ worker.pc \notin JoblessPcs =>
               worker.job \in JobIds /\ jobFile[worker.job] \in Files
    BY <1>1, WorkerFrame DEF JobTitle
  <2>2. proc # "stopping" /\ faults = 0 /\ ~CallFails
    <3>1. proc # "stopping"
      BY <2>1 DEF Uninterrupted
    <3>2. UNCHANGED faults \/ faults' = faults + 1
      BY <1>1 DEF WorkerStep, Claim, ClaimNothing, WaitEnds, WorkerExits, Begin, Probe, Panic,
         CheckShutdown, FinishJob, MarkAvailable, Gate, MarkHistoryFailed, LookupFile,
         DeleteFile, Search, CallWorks, CallFails, ReadsSetting
    <3> QED BY <1>0, <3>1, <3>2 DEF CallFails
  <2>3. CASE FinishJob
    <3>1. /\ status' = [status EXCEPT ![worker.job] =
                           IF worker.verdict = "pass" THEN "passed" ELSE "failed"]
          /\ UNCHANGED request /\ worker.pc = "finish"
          /\ worker' = [worker EXCEPT !.pc = AfterFinish]
      BY <2>2, <2>3 DEF FinishJob, GoTo
    <3>2. CASE j = worker.job
      <4>1. worker.verdict = "pass"
        BY <1>0, <3>1, <3>2
      <4> QED BY <1>0, <3>1, <3>2, <4>1 DEF AfterFinish, WorkerState
    <3>3. CASE j # worker.job
      BY <1>0, <1>a, <2>1, <2>2, <3>1, <3>3
    <3> QED BY <3>2, <3>3
  <2>4. CASE MarkAvailable
    <3>1. /\ worker.pc = "mark" /\ UNCHANGED status
          /\ request' = [request EXCEPT ![JobTitle(worker.job)] =
                            IF @ = "approved" THEN "available" ELSE @]
      BY <2>2, <2>4 DEF MarkAvailable, storeVars
    <3>2. JobTitle(worker.job) \in Titles
      BY <2>1, <3>1, PipelineAssumption DEF JobTitle, JoblessPcs
    <3>3. request[JobTitle(j)] = "approved" /\ JobTitle(j) # JobTitle(worker.job)
      <4>1. CASE JobTitle(j) = JobTitle(worker.job)
        BY <1>0, <2>1, <3>1, <3>2, <4>1
      <4>2. CASE JobTitle(j) # JobTitle(worker.job)
        BY <1>0, <2>1, <3>1, <3>2, <4>2
      <4> QED BY <4>1, <4>2
    <3>4. worker.job = j
      BY <1>a, <2>1, <2>2, <3>1, <3>3
    <3> QED BY <3>3, <3>4
  <2>5. CASE Claim \/ Panic
    <3>1. worker.pc \in {"claim", "probe"} /\ UNCHANGED request
      BY <2>5 DEF Claim, Panic
    <3>2. status[j] = "passed"
      <4>1. CASE Claim
        BY <1>0, <4>1 DEF Claim
      <4>2. CASE Panic
        BY <1>0, <4>2 DEF Panic
      <4> QED BY <2>5, <4>1, <4>2
    <3> QED BY <1>0, <1>a, <2>1, <2>2, <3>1, <3>2
  <2>6. CASE ~FinishJob /\ ~MarkAvailable /\ ~Claim /\ ~Panic
    <3>1. worker.pc # "mark" /\ UNCHANGED <<status, request>>
      BY <1>1, <2>6 DEF WorkerStep, ClaimNothing, WaitEnds, WorkerExits, Begin, Probe,
         CheckShutdown, Gate, MarkHistoryFailed, LookupFile, DeleteFile, Search, storeVars
    <3> QED BY <1>a, <2>1, <2>2, <3>1
  <2> QED BY <2>3, <2>4, <2>5, <2>6
<1>2. ASSUME NEW h \in Handlers, HandlerStep(h)
      PROVE  worker'.pc = "mark" /\ worker'.job = j
  <2>1. UNCHANGED <<worker, request, faults, restarts>>
    <3>1. OnlyHandlers
      BY <1>2 DEF HandlerStep, EnqueueSelect, EnqueueInsert, RetryRequeue, KickWorker
    <3> QED BY <3>1 DEF OnlyHandlers, lifeVars
  <2>2. status[j] = "passed" /\ jobFile'[j] = jobFile[j]
    <3>1. CASE EnqueueInsert(h)
      <4>1. /\ status' = [status EXCEPT ![nextId] = "queued"] /\ nextId \in JobIds
            /\ jobFile' = [jobFile EXCEPT ![nextId] = InsertedFile(h)]
        BY <3>1 DEF EnqueueInsert
      <4> QED BY <1>0, <4>1
    <3>2. CASE ~EnqueueInsert(h)
      <4>1. UNCHANGED jobFile
        BY <1>2, <3>2 DEF HandlerStep, EnqueueSelect, RetryRequeue, KickWorker, storeVars
      <4>2. UNCHANGED status \/ \E i : status' = [status EXCEPT ![i] = "queued"]
        BY <1>2, <3>2 DEF HandlerStep, EnqueueSelect, RetryRequeue, KickWorker, storeVars
      <4> QED BY <1>0, <4>1, <4>2
    <3> QED BY <3>1, <3>2
  <2> QED BY <1>a, <2>1, <2>2 DEF JobTitle
<1>3. ASSUME NEW t \in Requestable, Approve(t)
      PROVE  worker'.pc = "mark" /\ worker'.job = j
  <2>1. /\ request' = [request EXCEPT ![t] = "approved"]
        /\ \A f \in imported : TitleOf[f] # t
        /\ UNCHANGED <<status, jobFile, worker, faults, restarts>>
    BY <1>3 DEF Approve, storeVars, lifeVars
  <2>2. JobTitle(j)' = JobTitle(j) /\ JobTitle(j) # t
    <3>1. jobFile[j] \in Files /\ jobFile[j] # NoFile
      BY <1>0, <2>1, PipelineAssumption
    <3>2. jobFile[j] \in imported
      BY <3>1 DEF OnlyImported
    <3> QED BY <2>1, <3>2 DEF JobTitle
  <2>3. JobTitle(j) \in Titles
    BY <1>0, <2>1, PipelineAssumption DEF JobTitle
  <2> QED BY <1>0, <1>a, <2>1, <2>2, <2>3
<1>4. CASE \/ Environment /\ ~\E t \in Requestable : Approve(t)
           \/ Stop \/ UNCHANGED vars
  <2>1. /\ UNCHANGED <<status, jobFile, request, worker, faults>>
        /\ UNCHANGED restarts \/ restarts' = restarts + 1
    BY <1>4 DEF Environment, Import, PutSetting, HookReceive, RetryGet, HandlerFails,
       OnlyHandlers, Stop, vars, storeVars, lifeVars
  <2> QED BY <1>0, <1>a, <2>1 DEF JobTitle
<1>5. CASE DoRefresh \/ \E i \in JobIds : Prune(i)
  <2>1. /\ UNCHANGED <<jobFile, request, worker, restarts>>
        /\ UNCHANGED faults \/ faults' = faults + 1
    BY <1>5 DEF DoRefresh, Prune, storeVars, lifeVars, CallWorks, CallFails
  <2>2. status[j] = "passed"
    BY <1>0, <1>5 DEF DoRefresh, Prune, storeVars
  <2> QED BY <1>0, <1>a, <2>1, <2>2 DEF JobTitle
<1>6. CASE Exit \/ Crash
  BY <1>0, <1>6 DEF Exit, Crash, ProcessEnds, Uninterrupted
<1>7. CASE Restart
  <2> PICK found \in FfprobeStates : Start(found)
    BY <1>7 DEF Restart
  <2>1. /\ UNCHANGED <<jobFile, request, restarts>> /\ faults = 0
        /\ status' = status \/ status' = Requeued
        /\ worker.pc = "off"
    BY <1>0 DEF Start, Uninterrupted
  <2>2. status[j] = "passed"
    BY <1>0, <2>1 DEF Requeued
  <2> QED BY <1>a, <2>1, <2>2 DEF JobTitle
<1> QED BY <1>1, <1>2, <1>3, <1>4, <1>5, <1>6, <1>7 DEF Next

(* A delete is followed by a search, and only an import withdraws it.      *)
LEMMA StepSearched ==
  ASSUME TypeOK, FulfilInv, [Next]_vars PROVE DeletedIsSearched'
<1> USE DEF FulfilInv
<1> DEFINE Served(f) == \/ library[TitleOf[f]] # NoFile
                        \/ TitleOf[f] \in searching
                        \/ worker.pc = "search" /\ JobTitle(worker.job) = TitleOf[f]
                        \/ TitleOf[f] \in {TitleOf[g] : g \in NoEpisodeId}
<1> SUFFICES ASSUME faults' = 0, restarts' = 0, NEW f \in imported' PROVE Served(f)'
  BY DEF DeletedIsSearched
<1>0. /\ library \in [Titles -> Files \cup {NoFile}]
      /\ faults \in Nat /\ restarts \in Nat /\ worker \in WorkerState
      /\ TitleOf \in [Files -> Titles] /\ NoFile \notin Files
      /\ imported \subseteq Files
  BY PipelineAssumption DEF TypeOK
<1>a. ASSUME faults = 0, restarts = 0, f \in imported PROVE Served(f)
  BY <1>a DEF DeletedIsSearched
<1>1. CASE WorkerStep
  <2>1. /\ UNCHANGED <<imported, jobFile, restarts, proc>>
        /\ worker.pc \notin JoblessPcs =>
               worker.job \in JobIds /\ jobFile[worker.job] \in Files
    BY <1>1, WorkerFrame
  <2>2. proc # "stopping" /\ faults = 0 /\ ~CallFails
    <3>1. proc # "stopping"
      BY <2>1 DEF Uninterrupted
    <3>2. UNCHANGED faults \/ faults' = faults + 1
      BY <1>1 DEF WorkerStep, Claim, ClaimNothing, WaitEnds, WorkerExits, Begin, Probe, Panic,
         CheckShutdown, FinishJob, MarkAvailable, Gate, MarkHistoryFailed, LookupFile,
         DeleteFile, Search, CallWorks, CallFails, ReadsSetting
    <3> QED BY <1>0, <3>1, <3>2 DEF CallFails
  <2>3. CASE DeleteFile
    <3>1. /\ worker.pc = "delete" /\ UNCHANGED searching
          /\ worker' = [worker EXCEPT !.pc = "search"]
          /\ \/ UNCHANGED library
             \/ library' = [library EXCEPT ![JobTitle(worker.job)] = NoFile]
      BY <2>3 DEF DeleteFile, GoTo, AfterDelete
    <3>2. worker'.pc = "search" /\ JobTitle(worker.job)' = JobTitle(worker.job)
      BY <1>0, <2>1, <3>1 DEF WorkerState, JobTitle
    <3>3. CASE JobTitle(worker.job) = TitleOf[f]
      BY <3>2, <3>3
    <3>4. CASE JobTitle(worker.job) # TitleOf[f]
      <4>1. library'[TitleOf[f]] = library[TitleOf[f]]
        <5>1. TitleOf[f] \in Titles
          BY <1>0, <2>1
        <5> QED BY <1>0, <3>1, <3>4, <5>1
      <4> QED BY <1>a, <2>1, <2>2, <3>1, <4>1
    <3> QED BY <3>3, <3>4
  <2>4. CASE Search
    <3>1. worker.pc = "search" /\ UNCHANGED library
      BY <2>4 DEF Search
    <3>2. \/ jobFile[worker.job] \in NoEpisodeId /\ UNCHANGED searching
          \/ searching' = searching \cup {JobTitle(worker.job)}
      BY <2>2, <2>4 DEF Search
    <3>3. jobFile[worker.job] \in NoEpisodeId =>
              JobTitle(worker.job) \in {TitleOf[g] : g \in NoEpisodeId}
      BY DEF JobTitle
    <3> QED BY <1>a, <2>1, <2>2, <3>1, <3>2, <3>3
  <2>5. CASE ~DeleteFile /\ ~Search
    <3>1. worker.pc # "search" /\ UNCHANGED <<library, searching>>
      BY <1>1, <2>5 DEF WorkerStep, Claim, ClaimNothing, WaitEnds, WorkerExits, Begin, Probe,
         Panic, CheckShutdown, FinishJob, MarkAvailable, Gate, MarkHistoryFailed, LookupFile,
         arrVars
    <3> QED BY <1>a, <2>1, <2>2, <3>1
  <2> QED BY <2>3, <2>4, <2>5
<1>2. ASSUME NEW g \in Files, Import(g) PROVE Served(f)'
  <2>1. /\ library' = [library EXCEPT ![TitleOf[g]] = g]
        /\ searching' = searching \ {TitleOf[g]}
        /\ imported' = imported \cup {g}
        /\ UNCHANGED <<worker, jobFile, faults, restarts>>
    BY <1>2 DEF Import, storeVars, lifeVars
  <2>2. CASE TitleOf[f] = TitleOf[g]
    BY <1>0, <2>1, <2>2
  <2>3. CASE TitleOf[f] # TitleOf[g]
    <3>1. f \in imported /\ library'[TitleOf[f]] = library[TitleOf[f]]
      BY <1>0, <2>1, <2>3
    <3> QED BY <1>a, <2>1, <2>3, <3>1 DEF JobTitle
  <2> QED BY <2>2, <2>3
<1>3. ASSUME NEW h \in Handlers, EnqueueInsert(h) PROVE Served(f)'
  <2>1. /\ jobFile' = [jobFile EXCEPT ![nextId] = InsertedFile(h)]
        /\ UNCHANGED <<worker, faults, restarts, library, searching, imported>>
    BY <1>3 DEF EnqueueInsert, OnlyHandlers, lifeVars
  <2>2. worker.pc = "search" => jobFile'[worker.job] = jobFile[worker.job]
    <3>1. worker.pc = "search" => worker.job \in 1 .. nextId - 1
      BY DEF TypeOK, InHand, JoblessPcs
    <3>2. nextId \in Nat /\ nextId <= MaxJobs + 1 /\ MaxJobs \in Nat
      BY PipelineAssumption DEF TypeOK
    <3>3. jobFile \in [JobIds -> Files \cup {NoFile}]
      BY DEF TypeOK
    <3> QED BY <2>1, <3>1, <3>2, <3>3
  <2> QED BY <1>a, <2>1, <2>2 DEF JobTitle
<1>4. CASE \/ Environment /\ ~\E g \in Files : Import(g)
           \/ \E h \in Handlers : HandlerStep(h) /\ ~EnqueueInsert(h)
           \/ DoRefresh \/ (\E j \in JobIds : Prune(j))
           \/ Stop \/ UNCHANGED vars
  <2>1. UNCHANGED <<jobFile, library, searching, imported, worker>>
    <3>1. CASE Environment /\ ~\E g \in Files : Import(g)
      BY <3>1 DEF Environment, Approve, PutSetting, HookReceive, RetryGet, HandlerFails,
         OnlyHandlers, storeVars, arrVars
    <3>2. CASE \E h \in Handlers : HandlerStep(h) /\ ~EnqueueInsert(h)
      <4>1. OnlyHandlers /\ UNCHANGED jobFile
        BY <3>2 DEF HandlerStep, EnqueueSelect, RetryRequeue, KickWorker, storeVars
      <4> QED BY <4>1 DEF OnlyHandlers
    <3>3. CASE DoRefresh \/ (\E j \in JobIds : Prune(j)) \/ Stop \/ UNCHANGED vars
      BY <3>3 DEF DoRefresh, Prune, Stop, vars, storeVars, arrVars
    <3> QED BY <1>4, <3>1, <3>2, <3>3
  <2>2. /\ UNCHANGED faults \/ faults' = faults + 1
        /\ UNCHANGED restarts \/ restarts' = restarts + 1
    <3>1. CASE Environment
      BY <3>1 DEF Environment, Import, Approve, PutSetting, HookReceive, RetryGet,
         HandlerFails, OnlyHandlers, lifeVars
    <3>2. CASE \E h \in Handlers : HandlerStep(h)
      <4>1. OnlyHandlers
        BY <3>2 DEF HandlerStep, EnqueueSelect, EnqueueInsert, RetryRequeue, KickWorker
      <4> QED BY <4>1 DEF OnlyHandlers, lifeVars
    <3>3. CASE DoRefresh \/ (\E j \in JobIds : Prune(j)) \/ Stop \/ UNCHANGED vars
      BY <3>3 DEF DoRefresh, Prune, Stop, vars, lifeVars, CallWorks, CallFails
    <3> QED BY <1>4, <3>1, <3>2, <3>3
  <2> QED BY <1>0, <1>a, <2>1, <2>2 DEF JobTitle
<1>5. CASE Exit \/ Crash
  BY <1>0, <1>5 DEF Exit, Crash, ProcessEnds, Uninterrupted
<1>6. CASE Restart
  <2>1. /\ UNCHANGED <<jobFile, library, searching, imported, restarts>> /\ faults = 0
        /\ worker.pc = "off"
    BY <1>0, <1>6 DEF Restart, Start, Uninterrupted, arrVars
  <2> QED BY <1>a, <2>1
<1> QED BY <1>1, <1>2, <1>3, <1>4, <1>5, <1>6 DEF Next

(* So it holds in every state.                                             *)
LEMMA AlwaysFulfil == Spec => []FulfilInv
<1>1. TypeOK /\ FulfilInv /\ [Next]_vars => FulfilInv'
  BY StepUninterrupted, StepOnlyImported, StepFulfilled, StepSearched DEF FulfilInv
<1> QED BY InitFulfil, <1>1, TypeCorrect, PTL DEF Spec

(* A request that was approved before the import is available as soon as   *)
(* the worker is done with a job that passed, while nothing fails.         *)
THEOREM PassesFulfil == Spec => []PassedIsFulfilled
<1>1. FulfilInv => PassedIsFulfilled
  BY DEF FulfilInv
<1> QED BY <1>1, AlwaysFulfil, PTL

(* No title is left without a file and without a search, while nothing     *)
(* fails, unless its webhook named no episode to search for.               *)
THEOREM DeletesSearch == Spec => []DeletedIsSearched
<1>1. FulfilInv => DeletedIsSearched
  BY DEF FulfilInv
<1> QED BY <1>1, AlwaysFulfil, PTL

-----------------------------------------------------------------------------
(* Without ffprobe.                                                        *)

(* A process that found no ffprobe, stored that in the settings and kept   *)
(* it there is not about to blocklist anything.                            *)
SwitchedOff ==
    proc = "up" /\ ~ffprobe /\ ~overridden =>
        ~settings["auto_blocklist"] /\ worker.pc # "blocklist"

(* A step of the worker: only Gate leads to the failure steps.             *)
LEMMA WorkerSwitchedOff == ASSUME TypeOK, SwitchedOff, WorkerStep PROVE SwitchedOff'
<1> USE DEF SwitchedOff
<1>0. worker \in WorkerState
  BY DEF TypeOK
<1>1. UNCHANGED <<proc, ffprobe, settings>>
  BY WorkerFrame
<1>2. CASE Gate
  <2> SUFFICES ASSUME proc = "up", ~ffprobe, ~overridden'
               PROVE  ~settings["auto_blocklist"] /\ worker'.pc # "blocklist"
    BY <1>1
  <2>1. ~overridden /\ UNCHANGED faults
    BY <1>2 DEF Gate
  <2>2. ~CallFails
    <3>1. faults \in Nat
      BY PipelineAssumption DEF TypeOK
    <3> QED BY <2>1, <3>1 DEF CallFails
  <2>3. ~settings["auto_blocklist"]
    BY <2>1
  <2>4. ~ReadsSetting("auto_blocklist", TRUE)
    BY <2>2, <2>3, Zenon DEF ReadsSetting
  <2>5. WorkerIdles("claim")
    BY <1>2, <2>4, Zenon DEF Gate
  <2> QED BY <2>3, <2>5 DEF WorkerIdles, WorkerAt
<1>3. CASE ~Gate
  <2>1. UNCHANGED overridden
    BY <1>3 DEF WorkerStep, Claim, ClaimNothing, WaitEnds, WorkerExits, Begin, Probe, Panic,
       CheckShutdown, FinishJob, MarkAvailable, MarkHistoryFailed, LookupFile, DeleteFile,
       Search, WorkerOnly, lifeVars
  <2>2. worker'.pc # "blocklist"
    <3>1. ASSUME NEW pc, pc # "blocklist", GoTo(pc) \/ WorkerIdles(pc)
          PROVE  worker'.pc # "blocklist"
      <4>1. worker'.pc = pc
        BY <1>0, <3>1 DEF GoTo, WorkerIdles, WorkerAt, WorkerState
      <4> QED BY <3>1, <4>1
    <3>2. CASE Claim \/ Probe \/ LookupFile
      BY <1>0, <3>2 DEF Claim, Probe, LookupFile, WorkerAt, WorkerState
    <3>3. CASE Begin
      BY <1>0, <3>3 DEF Begin, GoTo, WorkerState
    <3>4. CASE ClaimNothing \/ WaitEnds \/ WorkerExits \/ Panic \/ CheckShutdown
      BY <3>1, <3>4 DEF ClaimNothing, WaitEnds, WorkerExits, Panic, CheckShutdown, AfterCheck
    <3>5. CASE FinishJob \/ DeleteFile
      BY <3>1, <3>5 DEF FinishJob, AfterFinish, DeleteFile, AfterDelete
    <3>6. CASE MarkAvailable \/ MarkHistoryFailed \/ Search
      BY <3>1, <3>6 DEF MarkAvailable, MarkHistoryFailed, Search
    <3> QED BY <1>3, <3>2, <3>3, <3>4, <3>5, <3>6 DEF WorkerStep
  <2> QED BY <1>1, <2>1, <2>2
<1> QED BY <1>2, <1>3

(* Nobody else touches the setting, except an edit, which is on record,    *)
(* and a start, which stores it off.                                       *)
LEMMA StepSwitchedOff == ASSUME TypeOK, SwitchedOff, [Next]_vars PROVE SwitchedOff'
<1> USE DEF SwitchedOff
<1>0. /\ settings \in [SettingKeys -> BOOLEAN] /\ faults \in Nat
      /\ EditableKeys \subseteq SettingKeys
  BY PipelineAssumption DEF TypeOK
<1>1. CASE WorkerStep
  BY <1>1, WorkerSwitchedOff
<1>2. ASSUME NEW k \in EditableKeys, PutSetting(k) PROVE SwitchedOff'
  <2>1. k = "auto_blocklist" \/ settings'["auto_blocklist"] = settings["auto_blocklist"]
    BY <1>0, <1>2 DEF PutSetting, SettingKeys
  <2>2. overridden' = (overridden \/ k = "auto_blocklist")
        /\ UNCHANGED <<proc, ffprobe, worker>>
    BY <1>2 DEF PutSetting
  <2> QED BY <2>1, <2>2
<1>3. CASE \/ Environment /\ ~\E k \in EditableKeys : PutSetting(k)
           \/ \E h \in Handlers : HandlerStep(h)
  <2>1. UNCHANGED <<worker, proc, ffprobe>>
    BY <1>3, OthersFrame
  <2>2. UNCHANGED <<settings, overridden>>
    <3>1. CASE Environment /\ ~\E k \in EditableKeys : PutSetting(k)
      BY <3>1 DEF Environment, Import, Approve, HookReceive, RetryGet, HandlerFails,
         OnlyHandlers, lifeVars
    <3>2. CASE \E h \in Handlers : HandlerStep(h)
      <4>1. OnlyHandlers
        BY <3>2 DEF HandlerStep, EnqueueSelect, EnqueueInsert, RetryRequeue, KickWorker
      <4> QED BY <4>1 DEF OnlyHandlers, lifeVars
    <3> QED BY <1>3, <3>1, <3>2
  <2> QED BY <2>1, <2>2
<1>4. CASE DoRefresh \/ (\E j \in JobIds : Prune(j)) \/ UNCHANGED vars
  BY <1>4 DEF DoRefresh, Prune, vars, lifeVars
<1>5. CASE Stop \/ Exit \/ Crash
  BY <1>5 DEF Stop, Exit, Crash, ProcessEnds
<1>6. CASE Restart
  <2> PICK found \in FfprobeStates : Start(found)
    BY <1>6 DEF Restart
  <2>1. worker'.pc = "claim" /\ ffprobe' = found
    BY DEF Start, WorkerAt
  <2>2. ~overridden' => settings' = SettingsAtStart(found)
    BY DEF Start
  <2>3. ~found => ~SettingsAtStart(found)["auto_blocklist"]
    BY <1>0 DEF SettingsAtStart, SettingKeys
  <2> QED BY <2>1, <2>2, <2>3
<1> QED BY <1>1, <1>2, <1>3, <1>4, <1>5, <1>6 DEF Next, Environment

(* "Refuse to blocklist" without ffprobe: a process that did not find it   *)
(* blocklists only if, since it started, an administrator stored           *)
(* auto_blocklist, or storing it off or reading it failed; what was stored *)
(* or failed in earlier processes does not matter.                         *)
THEOREM NothingBlocklistedWithoutFfprobe == Spec => NoBlocklistWithoutFfprobe
<1>1. Init => SwitchedOff
  BY DEF Init, SwitchedOff
<1>2. TypeOK /\ SwitchedOff /\ [Next]_vars => SwitchedOff'
  BY StepSwitchedOff
<1>3. TypeOK /\ SwitchedOff /\ [Next]_vars =>
          [blocklisted' # blocklisted => ffprobe \/ overridden]_vars
  <2> SUFFICES ASSUME TypeOK, SwitchedOff, Next, blocklisted' # blocklisted
               PROVE  ffprobe \/ overridden
    OBVIOUS
  <2>1. worker.pc = "blocklist" /\ proc = "up"
    <3>1. WorkerStep
      BY OthersFrame DEF Next, Stop, Exit, Crash, Restart, Start, ProcessEnds, arrVars
    <3> QED
      BY <3>1 DEF WorkerStep, Claim, ClaimNothing, WaitEnds, WorkerExits, Begin, Probe, Panic,
         CheckShutdown, FinishJob, MarkAvailable, Gate, MarkHistoryFailed, LookupFile,
         DeleteFile, Search, CallWorks, arrVars
  <2> QED BY <2>1 DEF SwitchedOff
<1> QED BY <1>1, <1>2, <1>3, TypeCorrect, PTL DEF Spec, NoBlocklistWithoutFfprobe
=============================================================================
