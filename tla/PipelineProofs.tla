--------------------------- MODULE PipelineProofs ---------------------------
(***************************************************************************)
(* Proofs about Pipeline, for any number of handlers, files, titles, jobs, *)
(* failed calls and restarts.                                              *)
(***************************************************************************)
EXTENDS Pipeline, TLAPS

USE DEF PipelineAssumption, JobIds, NoJob, Finished, Active

(* The initial state is well typed.                                        *)
LEMMA InitType == Init => TypeOK
<1> SUFFICES ASSUME Init PROVE TypeOK
  OBVIOUS
<1> USE PipelineAssumption DEF Init
<1>1. handler \in [Handlers -> HandlerState]
  BY DEF IdleHandler, HandlerState, HandlerPcs
<1>2. worker \in WorkerState /\ worker.pc \in JoblessPcs
  BY DEF WorkerAt, WorkerState, WorkerPcs, JoblessPcs
<1>3. InHand
  BY <1>2 DEF InHand, IdleHandler
<1>4. settings \in [SettingKeys -> BOOLEAN] /\ request \in [Titles -> RequestStatus]
  BY DEF RequestStatus
<1>5. status \in [JobIds -> JobStatus] /\ jobFile \in [JobIds -> Files \cup {NoFile}]
  BY DEF JobStatus
<1>6. nextId \in 1 .. MaxJobs + 1 /\ faults \in 0 .. MaxFaults
      /\ restarts \in 0 .. MaxRestarts
  OBVIOUS
<1>7. deliveries \in [Files -> 0 .. MaxDeliveries] /\ library \in [Titles -> Files \cup {NoFile}]
  OBVIOUS
<1> QED BY <1>1, <1>2, <1>3, <1>4, <1>5, <1>6, <1>7 DEF TypeOK

(* Imports, approvals and edits of the settings keep the types.             *)
LEMMA EnvironmentType == TypeOK /\ Environment => TypeOK'
<1> SUFFICES ASSUME TypeOK, Environment PROVE TypeOK'
  OBVIOUS
<1> USE PipelineAssumption DEF TypeOK, InHand, JobStatus, HandlerPcs, HandlerState
<1>1. ASSUME NEW f \in Files, Import(f) PROVE TypeOK'
  BY <1>1 DEF Import, storeVars, lifeVars
<1>2. ASSUME NEW t \in Requestable, Approve(t) PROVE TypeOK'
  BY <1>2 DEF Approve, storeVars, lifeVars, arrVars, RequestStatus
<1>3. ASSUME NEW k \in EditableKeys, PutSetting(k) PROVE TypeOK'
  BY <1>3 DEF PutSetting, storeVars, lifeVars, arrVars, SettingKeys
<1>4. ASSUME NEW h \in Handlers, NEW f \in Files, HookReceive(h, f) PROVE TypeOK'
  BY <1>4 DEF HookReceive, storeVars, lifeVars, OnlyHandlers
<1>5. ASSUME NEW h \in Handlers, NEW j \in JobIds, RetryGet(h, j) PROVE TypeOK'
  BY <1>5 DEF RetryGet, storeVars, lifeVars, OnlyHandlers
<1>6. ASSUME NEW h \in Handlers, HandlerFails(h) PROVE TypeOK'
  BY <1>6 DEF HandlerFails, storeVars, lifeVars, OnlyHandlers, IdleHandler
<1> QED BY <1>1, <1>2, <1>3, <1>4, <1>5, <1>6 DEF Environment

(* The steps of the webhook and retry handlers keep the types.              *)
LEMMA HandlerType ==
  ASSUME TypeOK, NEW h \in Handlers, HandlerStep(h) PROVE TypeOK'
<1> USE PipelineAssumption DEF OnlyHandlers, storeVars, lifeVars
<1>h. handler[h] \in HandlerState
  BY DEF TypeOK
<1>1. CASE EnqueueSelect(h)
  <2>1. handler' \in [Handlers -> HandlerState]
    BY <1>1, <1>h DEF EnqueueSelect, TypeOK, HandlerState, HandlerPcs
  <2>2. InHand'
    BY <1>1, <1>h DEF EnqueueSelect, TypeOK, InHand, HandlerState
  <2> QED BY <1>1, <2>1, <2>2 DEF EnqueueSelect, TypeOK
<1>2. CASE EnqueueInsert(h)
  <2>1. handler' \in [Handlers -> HandlerState]
    BY <1>2, <1>h DEF EnqueueInsert, TypeOK, HandlerState, HandlerPcs, AfterEnqueue
  <2>2. InHand'
    BY <1>2, <1>h DEF EnqueueInsert, TypeOK, InHand, HandlerState, InsertedFile,
                      AfterEnqueue
  <2>3. jobRuntime' \in [JobIds -> BOOLEAN]
    <3>1. handler[h].runtime \in BOOLEAN
      BY <1>h DEF HandlerState
    <3>2. jobRuntime \in [JobIds -> BOOLEAN]
      BY DEF TypeOK
    <3> QED BY <1>2, <3>1, <3>2, Zenon DEF EnqueueInsert
  <2>4. /\ handler[h].file \in Files /\ nextId \in JobIds
        /\ status' = [status EXCEPT ![nextId] = "queued"]
        /\ jobFile' = [jobFile EXCEPT ![nextId] = handler[h].file]
        /\ nextId' = nextId + 1
        /\ UNCHANGED <<settings, request, library, imported, deliveries, blocklisted,
                       searching, unindexed, proc, ffprobe, restarts, overridden, kick,
                       worker, refresh, faults>>
    BY <1>2 DEF EnqueueInsert, TypeOK, InHand, InsertedFile
  <2>5. /\ status' \in [JobIds -> JobStatus] /\ nextId' \in 1 .. MaxJobs + 1
        /\ jobFile' \in [JobIds -> Files \cup {NoFile}]
    BY <2>4 DEF TypeOK, JobStatus, JobIds, Active
  <2> QED BY <2>1, <2>2, <2>3, <2>4, <2>5 DEF TypeOK
<1>3. CASE RetryRequeue(h) /\ Requeueable(handler[h].job)
  <2>1. handler' = [handler EXCEPT ![h].pc = "kick"]
    BY <1>3 DEF RetryRequeue, AfterEnqueue
  <2>2. status' = [status EXCEPT ![handler[h].job] = "queued"]
    BY <1>3 DEF RetryRequeue
  <2>3. handler' \in [Handlers -> HandlerState]
    <3>1. [handler[h] EXCEPT !.pc = "kick"] \in HandlerState
      BY <1>h DEF HandlerState, HandlerPcs
    <3>2. handler \in [Handlers -> HandlerState]
      BY DEF TypeOK
    <3> QED BY <2>1, <3>1, <3>2
  <2>4. status' \in [JobIds -> JobStatus]
    <3>1. status \in [JobIds -> JobStatus] /\ "queued" \in JobStatus
      BY DEF TypeOK, JobStatus
    <3> QED BY <2>2, <3>1
  <2>5. InHand'
    BY <1>3, <2>1, <2>2, <1>h DEF RetryRequeue, TypeOK, InHand, HandlerState, Requeueable
  <2> QED BY <1>3, <2>3, <2>4, <2>5 DEF RetryRequeue, TypeOK
<1>4. CASE RetryRequeue(h) /\ ~Requeueable(handler[h].job)
  <2>1. handler' = [handler EXCEPT ![h] = IdleHandler] /\ UNCHANGED status
    BY <1>4 DEF RetryRequeue
  <2>2. handler' \in [Handlers -> HandlerState]
    BY <2>1 DEF TypeOK, HandlerState, HandlerPcs, IdleHandler
  <2>3. InHand'
    BY <1>4, <2>1 DEF RetryRequeue, TypeOK, InHand, IdleHandler
  <2> QED BY <1>4, <2>1, <2>2, <2>3 DEF RetryRequeue, TypeOK
<1>5. CASE KickWorker(h)
  <2>1. handler' \in [Handlers -> HandlerState]
    BY <1>5, <1>h DEF KickWorker, TypeOK, HandlerState, HandlerPcs, IdleHandler
  <2>2. InHand'
    BY <1>5, <1>h DEF KickWorker, TypeOK, InHand, IdleHandler
  <2> QED BY <1>5, <2>1, <2>2 DEF KickWorker, TypeOK
<1> QED BY <1>1, <1>2, <1>3, <1>4, <1>5 DEF HandlerStep

(* The steps of the worker that neither claim nor record a job.            *)
LEMMA WorkerType == ASSUME TypeOK, WorkerStep PROVE TypeOK'
<1> USE DEF WorkerOnly, storeVars, lifeVars, CallWorks, CallFails, GoTo, WorkerIdles,
            WorkerAt
<1>0. /\ worker \in WorkerState
      /\ worker.pc \notin JoblessPcs =>
            /\ worker.job \in JobIds
            /\ worker.job \in 1 .. nextId - 1
            /\ jobFile[worker.job] \in Files
            /\ JobTitle(worker.job) \in Titles
  BY PipelineAssumption DEF TypeOK, InHand, JobTitle
<1> USE PipelineAssumption
<1>1. CASE Claim
  <2> PICK j \in JobIds : /\ status[j] = "queued"
                          /\ status' = [status EXCEPT ![j] = "running"]
                          /\ worker' = [WorkerAt("begin") EXCEPT !.job = j]
    BY <1>1 DEF Claim
  <2>1. worker' \in WorkerState /\ worker'.job = j
    BY DEF WorkerState, WorkerPcs, OwningPcs
  <2>2. status' \in [JobIds -> JobStatus]
    BY DEF TypeOK, JobStatus
  <2>3. InHand'
    BY <1>1, <2>1 DEF Claim, TypeOK, InHand
  <2> QED BY <1>1, <2>1, <2>2, <2>3 DEF Claim, TypeOK
<1>2. CASE ClaimNothing
  <2>1. worker' \in WorkerState /\ worker'.pc \in JoblessPcs
    BY <1>0, <1>2 DEF ClaimNothing, WorkerState, WorkerPcs, JoblessPcs
  <2>2. InHand'
    BY <1>2, <2>1 DEF ClaimNothing, TypeOK, InHand
  <2> QED BY <1>2, <2>1, <2>2 DEF ClaimNothing, TypeOK
<1>3. CASE WaitEnds
  <2>1. worker' \in WorkerState /\ worker'.pc \in JoblessPcs
    BY <1>0, <1>3 DEF WaitEnds, WorkerState, WorkerPcs, JoblessPcs
  <2>2. InHand'
    BY <1>3, <2>1 DEF WaitEnds, TypeOK, InHand
  <2> QED BY <1>3, <2>1, <2>2 DEF WaitEnds, TypeOK
<1>4. CASE WorkerExits
  <2>1. worker' \in WorkerState /\ worker'.pc \in JoblessPcs
    BY <1>0, <1>4 DEF WorkerExits, WorkerState, WorkerPcs, JoblessPcs
  <2>2. InHand'
    BY <1>4, <2>1 DEF WorkerExits, TypeOK, InHand
  <2> QED BY <1>4, <2>1, <2>2 DEF WorkerExits, TypeOK
<1>5. CASE Begin
  <2>1. worker' \in WorkerState /\ worker'.job = worker.job
    BY <1>0, <1>5 DEF Begin, WorkerState, WorkerPcs, OwningPcs
  <2>2. InHand'
    BY <1>0, <1>5, <2>1 DEF Begin, TypeOK, InHand, JoblessPcs
  <2>3. faults' \in 0 .. MaxFaults
    BY <1>5 DEF Begin, TypeOK, ReadsSetting
  <2> QED BY <1>5, <2>1, <2>2, <2>3 DEF Begin, TypeOK
<1>6. CASE Probe
  <2>a. ProbedFile \in Files \cup {NoFile}
    BY <1>0, <1>6 DEF Probe, ProbedFile, FileAt, TypeOK, JoblessPcs
  <2>b. PICK v \in {"pass", "fail"} :
          worker' = [worker EXCEPT !.pc = "check", !.verdict = v, !.probed = ProbedFile]
    BY <1>6 DEF Probe
  <2>1. worker' \in WorkerState /\ worker'.job = worker.job
    BY <1>0, <2>a, <2>b DEF WorkerState, WorkerPcs, OwningPcs
  <2>2. InHand'
    BY <1>0, <1>6, <2>1 DEF Probe, TypeOK, InHand, JoblessPcs
  <2> QED BY <1>6, <2>1, <2>2 DEF Probe, TypeOK
<1>7. CASE Panic
  <2>1. worker' \in WorkerState /\ worker'.pc \in JoblessPcs
    BY <1>0, <1>7 DEF Panic, WorkerState, WorkerPcs, JoblessPcs
  <2>2. status' \in [JobIds -> JobStatus]
    BY <1>7 DEF Panic, TypeOK, JobStatus
  <2>3. InHand'
    BY <1>0, <1>7, <2>1 DEF Panic, TypeOK, InHand, JoblessPcs
  <2> QED BY <1>7, <2>1, <2>2, <2>3 DEF Panic, TypeOK
<1>8. CASE CheckShutdown
  <2>1. /\ worker' \in WorkerState
        /\ worker'.job = worker.job \/ worker'.pc \in JoblessPcs
    BY <1>0, <1>8 DEF CheckShutdown, AfterCheck, WorkerState, WorkerPcs, OwningPcs,
                      JoblessPcs
  <2>2. InHand'
    BY <1>0, <1>8, <2>1 DEF CheckShutdown, TypeOK, InHand, JoblessPcs
  <2> QED BY <1>8, <2>1, <2>2 DEF CheckShutdown, TypeOK
<1>9. CASE FinishJob
  <2>1. worker' \in WorkerState /\ worker'.job = worker.job
    BY <1>0, <1>9 DEF FinishJob, AfterFinish, WorkerState, WorkerPcs, FailurePcs
  <2>2. status' \in [JobIds -> JobStatus]
    BY <1>9 DEF FinishJob, TypeOK, JobStatus
  <2>3. InHand'
    BY <1>0, <1>9, <2>1 DEF FinishJob, TypeOK, InHand, JoblessPcs
  <2> QED BY <1>9, <2>1, <2>2, <2>3 DEF FinishJob, TypeOK
<1>10. CASE MarkAvailable
  <2>1. worker' \in WorkerState /\ worker'.pc \in JoblessPcs
    BY <1>0, <1>10 DEF MarkAvailable, WorkerState, WorkerPcs, JoblessPcs
  <2>2. request' \in [Titles -> RequestStatus] /\ unindexed' \subseteq Titles
    BY <1>0, <1>10 DEF MarkAvailable, TypeOK, RequestStatus, JoblessPcs
  <2>3. InHand'
    BY <1>10, <2>1 DEF MarkAvailable, TypeOK, InHand
  <2> QED BY <1>10, <2>1, <2>2, <2>3 DEF MarkAvailable, Rearmed, TypeOK
<1>11. CASE Gate
  <2>a. worker' = [worker EXCEPT !.pc = "blocklist"] \/ worker' = WorkerAt("claim")
    BY <1>11 DEF Gate
  <2>1. /\ worker' \in WorkerState
        /\ worker'.job = worker.job \/ worker'.pc \in JoblessPcs
    BY <1>0, <2>a DEF WorkerState, WorkerPcs, FailurePcs, JoblessPcs
  <2>2. InHand'
    BY <1>0, <1>11, <2>1 DEF Gate, TypeOK, InHand, JoblessPcs
  <2>3. faults' \in 0 .. MaxFaults
    BY <1>11 DEF Gate, TypeOK, ReadsSetting
  <2>4. overridden' \in BOOLEAN
    BY <1>11, Zenon DEF Gate
  <2>5. UNCHANGED <<storeVars, settings, request, arrVars, unindexed, proc, ffprobe,
                    restarts, handler, kick, refresh>>
    BY <1>11 DEF Gate
  <2> QED BY <2>1, <2>2, <2>3, <2>4, <2>5 DEF TypeOK, arrVars, storeVars
<1>12. CASE MarkHistoryFailed
  <2>1. worker' \in WorkerState /\ worker'.job = worker.job
    BY <1>0, <1>12 DEF MarkHistoryFailed, WorkerState, WorkerPcs, FailurePcs
  <2>2. blocklisted' \subseteq Files
    BY <1>0, <1>12 DEF MarkHistoryFailed, Grabs, TypeOK, JoblessPcs
  <2>3. InHand'
    BY <1>0, <1>12, <2>1 DEF MarkHistoryFailed, TypeOK, InHand, JoblessPcs
  <2> QED BY <1>12, <2>1, <2>2, <2>3 DEF MarkHistoryFailed, TypeOK
<1>13. CASE LookupFile
  <2>1. FileToDelete \in Files \cup {NoFile}
    BY <1>0, <1>13 DEF LookupFile, FileToDelete, FileAt, TypeOK, JoblessPcs
  <2>a. PICK f \in {FileToDelete, NoFile} :
          worker' = [worker EXCEPT !.pc = "delete", !.target = f]
    BY <1>13 DEF LookupFile
  <2>2. worker' \in WorkerState /\ worker'.job = worker.job
    BY <1>0, <2>1, <2>a DEF WorkerState, WorkerPcs, FailurePcs
  <2>3. InHand'
    BY <1>0, <1>13, <2>2 DEF LookupFile, TypeOK, InHand, JoblessPcs
  <2> QED BY <1>13, <2>2, <2>3 DEF LookupFile, TypeOK
<1>14. CASE DeleteFile
  <2>1. worker' \in WorkerState /\ worker'.job = worker.job
    BY <1>0, <1>14 DEF DeleteFile, AfterDelete, WorkerState, WorkerPcs, FailurePcs
  <2>2. library' \in [Titles -> Files \cup {NoFile}]
    BY <1>14 DEF DeleteFile, TypeOK
  <2>3. InHand'
    BY <1>0, <1>14, <2>1 DEF DeleteFile, TypeOK, InHand, JoblessPcs
  <2> QED BY <1>14, <2>1, <2>2, <2>3 DEF DeleteFile, TypeOK
<1>15. CASE Search
  <2>1. worker' \in WorkerState /\ worker'.pc \in JoblessPcs
    BY <1>0, <1>15 DEF Search, WorkerState, WorkerPcs, JoblessPcs
  <2>2. searching' \subseteq Titles
    BY <1>0, <1>15 DEF Search, TypeOK, JoblessPcs
  <2>3. InHand'
    BY <1>15, <2>1 DEF Search, TypeOK, InHand
  <2> QED BY <1>15, <2>1, <2>2, <2>3 DEF Search, TypeOK
<1> QED
  BY <1>1, <1>2, <1>3, <1>4, <1>5, <1>6, <1>7, <1>8, <1>9, <1>10, <1>11, <1>12, <1>13,
     <1>14, <1>15 DEF WorkerStep

(* The other goroutines and the life of the process.                       *)
LEMMA ProcessType ==
  ASSUME TypeOK,
         DoRefresh \/ (\E j \in JobIds : Prune(j)) \/ Stop \/ Exit \/ Crash \/ Restart
  PROVE  TypeOK'
<1> USE PipelineAssumption DEF storeVars, lifeVars, arrVars
<1>1. CASE DoRefresh
  BY <1>1 DEF DoRefresh, TypeOK, InHand, CallFails, CallWorks
<1>2. ASSUME NEW j \in JobIds, Prune(j) PROVE TypeOK'
  BY <1>2 DEF Prune, TypeOK, InHand, JobStatus
<1>3. CASE Stop
  BY <1>3 DEF Stop, TypeOK, InHand
<1>4. CASE Exit \/ Crash
  <2>1. handler' \in [Handlers -> HandlerState]
    <3>1. IdleHandler \in HandlerState
      BY DEF HandlerState, HandlerPcs, IdleHandler
    <3> QED BY <1>4, <3>1 DEF Exit, Crash, ProcessEnds
  <2>2. worker' \in WorkerState /\ worker'.pc \in JoblessPcs
    BY <1>4 DEF Exit, Crash, ProcessEnds, WorkerState, WorkerPcs, WorkerAt, JoblessPcs
  <2>3. InHand'
    BY <1>4, <2>2 DEF Exit, Crash, ProcessEnds, TypeOK, InHand, IdleHandler
  <2>4. kick' \in BOOLEAN
    BY <1>4, Zenon DEF Exit, Crash, ProcessEnds
  <2>5. \/ restarts' = restarts
        \/ restarts < MaxRestarts /\ restarts' = restarts + 1
    BY <1>4 DEF Exit, Crash, ProcessEnds
  <2>6. restarts' \in 0 .. MaxRestarts
    BY <2>5 DEF TypeOK
  <2> QED BY <1>4, <2>1, <2>2, <2>3, <2>4, <2>6 DEF Exit, Crash, ProcessEnds, TypeOK
<1>5. CASE Restart
  <2> PICK found \in FfprobeStates : Start(found)
    BY <1>5 DEF Restart
  <2>1. status' = status \/ status' = Requeued
    BY DEF Start
  <2>2. status' \in [JobIds -> JobStatus]
    BY <2>1 DEF TypeOK, Requeued, JobStatus
  <2>3. settings' \in [SettingKeys -> BOOLEAN]
    BY DEF Start, SettingsAtStart, TypeOK, SettingKeys
  <2>4. faults' \in 0 .. MaxFaults
    BY DEF Start, TypeOK
  <2>5. worker' \in WorkerState /\ worker'.pc \in JoblessPcs
    BY DEF Start, WorkerState, WorkerPcs, WorkerAt, JoblessPcs
  <2>6. InHand'
    BY <2>1, <2>5 DEF Start, TypeOK, InHand, Requeued
  <2> QED BY <2>2, <2>3, <2>4, <2>5, <2>6 DEF Start, TypeOK
<1> QED BY <1>1, <1>2, <1>3, <1>4, <1>5

(* Every variable keeps its type, a handler or worker that is past its     *)
(* first step has a file or a job in hand, and no row above nextId exists. *)
THEOREM TypeCorrect == Spec => []TypeOK
<1>1. TypeOK /\ [Next]_vars => TypeOK'
  <2> SUFFICES ASSUME TypeOK, [Next]_vars PROVE TypeOK'
    OBVIOUS
  <2>1. CASE UNCHANGED vars
    BY <2>1 DEF vars, storeVars, arrVars, lifeVars, TypeOK, InHand
  <2> QED BY <2>1, EnvironmentType, HandlerType, WorkerType, ProcessType DEF Next
<1> QED BY InitType, <1>1, PTL DEF Spec

-----------------------------------------------------------------------------
(* The worker owns the running row.  RunningIsOwned is not inductive by    *)
(* itself: FinishJob must hit the row the worker claimed, which takes      *)
(* ClaimedIsRunning, and a handler must not insert over an existing row,   *)
(* which takes InHand.                                                     *)
OwnInv == ClaimedIsRunning /\ RunningIsOwned

(* Initially no row is running and the worker has nothing in hand.          *)
LEMMA InitOwn == Init => OwnInv
  BY DEF Init, OwnInv, ClaimedIsRunning, RunningIsOwned, OwningPcs, WorkerAt

(* Handlers only touch rows that are not running.                          *)
LEMMA HandlerOwn ==
  ASSUME TypeOK, OwnInv, NEW h \in Handlers, HandlerStep(h) PROVE OwnInv'
<1> USE DEF OwnInv, ClaimedIsRunning, RunningIsOwned, OnlyHandlers, lifeVars, storeVars,
            TypeOK, InHand
<1>1. CASE EnqueueSelect(h)
  BY <1>1 DEF EnqueueSelect
<1>2. CASE EnqueueInsert(h)
  BY <1>2 DEF EnqueueInsert
<1>3. CASE RetryRequeue(h)
  BY <1>3 DEF RetryRequeue, Requeueable
<1>4. CASE KickWorker(h)
  BY <1>4 DEF KickWorker
<1> QED BY <1>1, <1>2, <1>3, <1>4 DEF HandlerStep

(* The worker is in possession of the one row it sets running, until it     *)
(* records the outcome or a failed call makes it lose the row.              *)
LEMMA WorkerOwn == ASSUME TypeOK, OwnInv, WorkerStep PROVE OwnInv'
<1> USE PipelineAssumption DEF OwnInv, ClaimedIsRunning, RunningIsOwned, WorkerOnly,
            lifeVars, storeVars, CallWorks, CallFails, GoTo, WorkerIdles, WorkerAt,
            OwningPcs
<1>0. faults \in Nat /\ worker \in WorkerState /\ status \in [JobIds -> JobStatus]
  BY DEF TypeOK
<1>1. CASE Claim
  <2> PICK j \in JobIds : /\ status' = [status EXCEPT ![j] = "running"]
                          /\ worker' = [WorkerAt("begin") EXCEPT !.job = j]
    BY <1>1 DEF Claim
  <2> QED BY <1>0, <1>1 DEF Claim
<1>2. CASE ClaimNothing
  BY <1>0, <1>2 DEF ClaimNothing, WorkerState
<1>3. CASE WaitEnds
  BY <1>0, <1>3 DEF WaitEnds, WorkerState
<1>4. CASE WorkerExits
  BY <1>0, <1>4 DEF WorkerExits
<1>5. CASE Begin
  <2>1. /\ worker.pc = "begin" /\ worker'.job = worker.job
        /\ worker'.pc \in {"probe", "check"}
    BY <1>0, <1>5 DEF Begin, WorkerState
  <2>2. faults' = 0 => faults = 0
    BY <1>0, <1>5 DEF Begin, ReadsSetting
  <2> QED BY <1>5, <2>1, <2>2 DEF Begin
<1>6. CASE Probe
  BY <1>0, <1>6 DEF Probe, WorkerState
<1>7. CASE Panic
  BY <1>0, <1>7 DEF Panic
<1>8. CASE CheckShutdown
  BY <1>0, <1>8 DEF CheckShutdown, Interrupted, AfterCheck, WorkerState
<1>9. CASE FinishJob
  BY <1>0, <1>9 DEF FinishJob, AfterFinish, WorkerState
<1>10. CASE MarkAvailable
  BY <1>0, <1>10 DEF MarkAvailable
<1>11. CASE Gate
  BY <1>0, <1>11 DEF Gate, ReadsSetting, WorkerState
<1>12. CASE MarkHistoryFailed
  BY <1>0, <1>12 DEF MarkHistoryFailed, WorkerState
<1>13. CASE LookupFile
  BY <1>0, <1>13 DEF LookupFile, WorkerState
<1>14. CASE DeleteFile
  BY <1>0, <1>14 DEF DeleteFile, AfterDelete, WorkerState
<1>15. CASE Search
  BY <1>0, <1>15 DEF Search
<1> QED
  BY <1>1, <1>2, <1>3, <1>4, <1>5, <1>6, <1>7, <1>8, <1>9, <1>10, <1>11, <1>12, <1>13,
     <1>14, <1>15 DEF WorkerStep

(* A start requeues every running row, unless that statement failed.       *)
LEMMA RestOwn ==
  ASSUME TypeOK, OwnInv,
         \/ Environment \/ DoRefresh \/ \E j \in JobIds : Prune(j)
         \/ Stop \/ Exit \/ Crash \/ Restart \/ UNCHANGED vars
  PROVE  OwnInv'
<1> USE DEF OwnInv, ClaimedIsRunning, RunningIsOwned, OwningPcs, lifeVars, storeVars,
            arrVars, OnlyHandlers
<1>0. faults \in Nat /\ status \in [JobIds -> JobStatus]
  BY PipelineAssumption DEF TypeOK
<1>1. CASE Environment
  BY <1>1 DEF Environment, Import, Approve, PutSetting, HookReceive, RetryGet,
              HandlerFails
<1>2. CASE DoRefresh
  BY <1>0, <1>2 DEF DoRefresh, CallFails, CallWorks
<1>3. ASSUME NEW j \in JobIds, Prune(j) PROVE OwnInv'
  BY <1>0, <1>3 DEF Prune
<1>4. CASE Stop \/ Exit \/ Crash
  BY <1>4 DEF Stop, Exit, Crash, ProcessEnds, WorkerAt
<1>5. CASE Restart
  <2> PICK found \in FfprobeStates : Start(found)
    BY <1>5 DEF Restart
  <2>1. worker'.pc = "claim"
    BY DEF Start, WorkerAt
  <2>2. faults' = 0 => status' = Requeued
    BY <1>0 DEF Start
  <2> QED BY <2>1, <2>2, <1>0 DEF Requeued
<1>6. CASE UNCHANGED vars
  BY <1>6 DEF vars
<1> QED BY <1>1, <1>2, <1>3, <1>4, <1>5, <1>6

(* One job at a time: the row the worker claimed stays running until the   *)
(* worker itself finishes it, and while no store call has failed no other  *)
(* row is running, whatever handlers, crashes and restarts interleave.     *)
THEOREM WorkerOwnsRunning == Spec => [](ClaimedIsRunning /\ RunningIsOwned)
<1>1. TypeOK /\ OwnInv /\ [Next]_vars => OwnInv'
  BY HandlerOwn, WorkerOwn, RestOwn DEF Next
<1>2. OwnInv => ClaimedIsRunning /\ RunningIsOwned
  BY DEF OwnInv
<1> QED BY InitOwn, TypeCorrect, <1>1, <1>2, PTL DEF Spec

-----------------------------------------------------------------------------
(* Kick is never lost: while the worker waits and a job is queued, a kick  *)
(* is in the channel or a handler that queued a job has yet to send one.   *)
THEOREM WakeupNotLost == Spec => []NoLostWakeup
<1>1. Init => NoLostWakeup
  BY DEF Init, NoLostWakeup, WorkerAt
<1>2. TypeOK /\ NoLostWakeup /\ [Next]_vars => NoLostWakeup'
  <2> SUFFICES ASSUME TypeOK, NoLostWakeup, [Next]_vars PROVE NoLostWakeup'
    OBVIOUS
  <2> USE DEF NoLostWakeup
  <2>0. /\ handler \in [Handlers -> HandlerState] /\ worker \in WorkerState
        /\ status \in [JobIds -> JobStatus]
    BY DEF TypeOK
  <2>1. ASSUME NEW h \in Handlers, EnqueueInsert(h) PROVE NoLostWakeup'
    <3>1. handler'[h].pc = "kick"
      BY <2>0, <2>1 DEF EnqueueInsert, AfterEnqueue, HandlerState
    <3> QED BY <3>1
  <2>2. ASSUME NEW h \in Handlers, RetryRequeue(h) PROVE NoLostWakeup'
    <3>1. CASE Requeueable(handler[h].job)
      <4>1. handler'[h].pc = "kick"
        BY <2>0, <2>2, <3>1 DEF RetryRequeue, AfterEnqueue, HandlerState
      <4> QED BY <4>1
    <3>2. CASE ~Requeueable(handler[h].job)
      BY <2>0, <2>2, <3>2 DEF RetryRequeue, OnlyHandlers, IdleHandler
    <3> QED BY <3>1, <3>2
  <2>3. ASSUME NEW h \in Handlers, KickWorker(h) PROVE NoLostWakeup'
    BY <2>3, Zenon DEF KickWorker
  <2>4. ASSUME NEW h \in Handlers,
               EnqueueSelect(h) \/ HandlerFails(h)
               \/ (\E f \in Files : HookReceive(h, f)) \/ (\E j \in JobIds : RetryGet(h, j))
        PROVE  NoLostWakeup'
    <3>1. UNCHANGED <<worker, status, kick>>
      BY <2>4 DEF EnqueueSelect, HandlerFails, HookReceive, RetryGet, OnlyHandlers, storeVars
    <3>2. /\ handler[h].pc # "kick"
          /\ \A g \in Handlers \ {h} : handler'[g] = handler[g]
      BY <2>0, <2>4 DEF EnqueueSelect, HandlerFails, HookReceive, RetryGet
    <3> QED BY <3>1, <3>2
  <2>5. CASE ClaimNothing
    BY <2>0, <2>5 DEF ClaimNothing, GoTo, storeVars, WorkerState
  <2>6. CASE WorkerStep /\ ~ClaimNothing
    <3>1. ASSUME NEW pc, pc # "wait", GoTo(pc) \/ WorkerIdles(pc) PROVE NoLostWakeup'
      <4>1. worker'.pc = pc
        BY <2>0, <3>1 DEF GoTo, WorkerIdles, WorkerAt, WorkerState
      <4> QED BY <3>1, <4>1
    <3>2. CASE Claim \/ Begin \/ Probe \/ LookupFile
      <4>1. worker'.pc # "wait"
        <5>1. CASE Claim
          BY <5>1 DEF Claim, WorkerAt
        <5>2. CASE Begin
          BY <2>0, <5>2 DEF Begin, GoTo, WorkerState
        <5>3. CASE Probe
          BY <2>0, <5>3 DEF Probe, WorkerState
        <5>4. CASE LookupFile
          BY <2>0, <5>4 DEF LookupFile, WorkerState
        <5> QED BY <3>2, <5>1, <5>2, <5>3, <5>4
      <4> QED BY <4>1
    <3>3. CASE WaitEnds \/ WorkerExits \/ Panic \/ CheckShutdown
      BY <3>1, <3>3 DEF WaitEnds, WorkerExits, Panic, CheckShutdown, AfterCheck
    <3>4. CASE FinishJob \/ Gate \/ DeleteFile
      BY <3>1, <3>4 DEF FinishJob, AfterFinish, Gate, DeleteFile, AfterDelete
    <3>5. CASE MarkAvailable \/ MarkHistoryFailed \/ Search
      BY <3>1, <3>5 DEF MarkAvailable, MarkHistoryFailed, Search
    <3> QED BY <2>6, <3>2, <3>3, <3>4, <3>5 DEF WorkerStep
  <2>7. CASE \/ \E f \in Files : Import(f)
             \/ \E t \in Requestable : Approve(t)
             \/ \E k \in EditableKeys : PutSetting(k)
             \/ DoRefresh \/ Stop \/ UNCHANGED vars
    <3>1. UNCHANGED <<worker, status, kick, handler>>
      BY <2>7 DEF Import, Approve, PutSetting, DoRefresh, Stop, vars, storeVars
    <3> QED BY <3>1
  <2>8. CASE \E j \in JobIds : Prune(j)
    BY <2>0, <2>8 DEF Prune
  <2>9. CASE Exit \/ Crash \/ Restart
    <3>1. worker'.pc # "wait"
      BY <2>9 DEF Exit, Crash, ProcessEnds, Restart, Start, WorkerAt
    <3> QED BY <3>1
  <2> QED
    BY <2>1, <2>2, <2>3, <2>4, <2>5, <2>6, <2>7, <2>8, <2>9 DEF Next, Environment, HandlerStep
<1> QED BY <1>1, <1>2, TypeCorrect, PTL DEF Spec

-----------------------------------------------------------------------------
(* The step the jobs table takes, if any.                                  *)
TableStep == Lifecycle!Next \/ UNCHANGED <<status, nextId>>

(* A step of a handler is a Submit or a Retry of the lifecycle, or none.    *)
LEMMA HandlerRefines ==
  ASSUME TypeOK, NEW h \in Handlers, HandlerStep(h) PROVE TableStep
<1> USE PipelineAssumption DEF TableStep
<1>1. CASE EnqueueInsert(h)
  <2>1. Lifecycle!Submit
    BY <1>1 DEF EnqueueInsert, Lifecycle!Submit, Lifecycle!JobIds
  <2> QED BY <2>1 DEF Lifecycle!Next
<1>2. CASE RetryRequeue(h) /\ Requeueable(handler[h].job)
  <2> PICK j : j = handler[h].job
    OBVIOUS
  <2>1. j \in JobIds
    BY <1>2 DEF RetryRequeue, TypeOK, InHand
  <2>2. Lifecycle!Retry(j)
    BY <1>2 DEF RetryRequeue, Requeueable, Lifecycle!Retry, Lifecycle!Finished
  <2> QED BY <2>1, <2>2 DEF Lifecycle!Next, Lifecycle!JobIds
<1>3. CASE RetryRequeue(h) /\ ~Requeueable(handler[h].job)
  BY <1>3 DEF RetryRequeue
<1>4. CASE EnqueueSelect(h) \/ KickWorker(h)
  BY <1>4 DEF EnqueueSelect, KickWorker, storeVars
<1> QED BY <1>1, <1>2, <1>3, <1>4 DEF HandlerStep

(* A step of the worker is a Start or a Finish of the lifecycle, or none.   *)
LEMMA WorkerRefines ==
  ASSUME TypeOK, ClaimedIsRunning, WorkerStep PROVE TableStep
<1> USE DEF TableStep
<1>1. CASE Claim
  <2> PICK j \in JobIds : /\ status[j] = "queued"
                          /\ \A k \in JobIds : status[k] = "queued" => j <= k
                          /\ status' = [status EXCEPT ![j] = "running"]
    BY <1>1 DEF Claim
  <2>1. Lifecycle!Start(j)
    BY <1>1 DEF Claim, Lifecycle!Start, Lifecycle!Oldest, Lifecycle!JobIds
  <2> QED BY <2>1 DEF Lifecycle!Next, Lifecycle!JobIds
<1>2. CASE Panic \/ FinishJob
  <2> PICK j : j = worker.job
    OBVIOUS
  <2>1. j \in JobIds /\ status[j] = "running"
    BY <1>2 DEF Panic, FinishJob, ClaimedIsRunning, OwningPcs
  <2>2. /\ \/ UNCHANGED status
           \/ \E s \in Finished : status' = [status EXCEPT ![j] = s]
        /\ UNCHANGED nextId
    BY <1>2 DEF Panic, FinishJob, storeVars
  <2>3. CASE \E s \in Finished : status' = [status EXCEPT ![j] = s]
    <3>1. Lifecycle!Finish(j)
      BY <2>1, <2>2, <2>3 DEF Lifecycle!Finish, Lifecycle!Finished
    <3> QED BY <2>1, <3>1 DEF Lifecycle!Next, Lifecycle!JobIds
  <2> QED BY <2>2, <2>3
<1>3. CASE ~Claim /\ ~Panic /\ ~FinishJob
  BY <1>3 DEF WorkerStep, ClaimNothing, WaitEnds, WorkerExits, Begin, Probe, CheckShutdown,
              MarkAvailable, Gate, MarkHistoryFailed, LookupFile, DeleteFile, Search,
              storeVars
<1> QED BY <1>1, <1>2, <1>3

(* Imports, refreshes, prunes, shutdowns and crashes leave the rows alone or*)
(* drop finished ones; a start recovers the running ones.                   *)
LEMMA RestRefines ==
  ASSUME TypeOK,
         \/ Environment \/ DoRefresh \/ \E j \in JobIds : Prune(j)
         \/ Stop \/ Exit \/ Crash \/ Restart \/ UNCHANGED vars
  PROVE  TableStep
<1> USE DEF TableStep
<1>1. ASSUME NEW j \in JobIds, Prune(j) PROVE TableStep
  <2>1. Lifecycle!Drop(j)
    BY <1>1 DEF Prune, Lifecycle!Drop, Lifecycle!Finished
  <2> QED BY <2>1 DEF Lifecycle!Next, Lifecycle!JobIds
<1>2. CASE Restart
  <2> PICK found \in FfprobeStates : Start(found)
    BY <1>2 DEF Restart
  <2>1. (status' = status \/ status' = Requeued) /\ UNCHANGED nextId
    BY DEF Start
  <2>2. status' = Requeued => Lifecycle!Recover
    BY <2>1 DEF Requeued, Lifecycle!Recover, Lifecycle!JobIds
  <2> QED BY <2>1, <2>2 DEF Lifecycle!Next
<1>3. CASE Environment \/ DoRefresh \/ Stop \/ Exit \/ Crash \/ UNCHANGED vars
  BY <1>3 DEF Environment, Import, Approve, PutSetting, HookReceive, RetryGet, HandlerFails,
              DoRefresh, Stop, Exit, Crash, ProcessEnds, vars, storeVars, OnlyHandlers
<1> QED BY <1>1, <1>2, <1>3

(* The pipeline implements the life of a job that JobLifecycle promises:   *)
(* numbers in order of arrival, the oldest queued job first, no outcome    *)
(* for a job that is not running, and no way back but retry and recovery,  *)
(* whatever handlers, worker, failed calls, crashes and restarts           *)
(* interleave.                                                             *)
THEOREM PipelineImplementsLifecycle == Spec => JobLifecycle
<1>1. Init => Lifecycle!Init
  BY DEF Init, Lifecycle!Init, Lifecycle!JobIds
<1>2. TypeOK /\ ClaimedIsRunning /\ [Next]_vars => [Lifecycle!Next]_(Lifecycle!jobVars)
  BY HandlerRefines, WorkerRefines, RestRefines DEF Next, TableStep, Lifecycle!jobVars
<1> QED
  BY <1>1, <1>2, TypeCorrect, WorkerOwnsRunning, PTL DEF Spec, JobLifecycle, Lifecycle!Spec

=============================================================================
