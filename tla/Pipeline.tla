------------------------------ MODULE Pipeline ------------------------------
(***************************************************************************)
(* The import pipeline of pelicula-server: the webhook handler that queues *)
(* a job, the retry handler, the single worker goroutine that claims,      *)
(* validates and finishes jobs, its reaction to a failed validation, the   *)
(* debounced library refresh, and shutdown, crash and restart.             *)
(*                                                                         *)
(* Every SQLite statement or transaction is one atomic step (the store     *)
(* opens one connection); everything between two statements interleaves.   *)
(***************************************************************************)
EXTENDS Naturals

CONSTANTS
    MaxJobs,        \* bound: rows ever inserted in the jobs table
    Handlers,       \* HTTP handler goroutines serving webhooks and retries
    Files,          \* the files Radarr/Sonarr import, one release each
    Titles,         \* the movies or episodes they belong to
    NoFile,         \* "no file"
    TitleOf,        \* [Files -> Titles]
    PathOf,         \* [Files -> path]: an upgrade may reuse the path
    Readable,       \* the files in which ffprobe finds a video stream, in time
    FullSize,       \* [BOOLEAN -> SUBSET Files]: the files too large for a sample,
                    \* measured with the title's runtime (TRUE) or without
    RightLength,    \* the files about as long as the title's runtime
    Unsized,        \* the files whose webhook names no size
    RuntimeStates,  \* SUBSET BOOLEAN: whether *arr tells a handler the runtime
    Tracked,        \* the files whose webhook names a download id in history
    NoEpisodeId,    \* the files whose Sonarr webhook lists no episode
    FfprobeStates,  \* SUBSET BOOLEAN: whether a start may find ffprobe
    EditableKeys,   \* the settings an admin changes in this instance
    Requestable,    \* the titles somebody requests in this instance
    MaxDeliveries,  \* bound: deliveries of one webhook
    MaxFaults,      \* bound: failed store or *arr calls of the worker
    MaxRestarts     \* bound: shutdowns and crashes

SettingKeys == {"validation_enabled", "auto_blocklist"}

ASSUME PipelineAssumption ==
    /\ MaxJobs \in Nat \ {0}
    /\ MaxDeliveries \in Nat
    /\ MaxFaults \in Nat
    /\ MaxRestarts \in Nat
    /\ NoFile \notin Files
    /\ TitleOf \in [Files -> Titles]
    /\ UNION {Readable, RightLength, Unsized} \subseteq Files
    /\ FullSize \in [BOOLEAN -> SUBSET Files]
    /\ RuntimeStates \subseteq BOOLEAN
    /\ Tracked \subseteq Files
    /\ NoEpisodeId \subseteq Files
    /\ FfprobeStates \subseteq BOOLEAN
    /\ EditableKeys \subseteq SettingKeys
    /\ Requestable \subseteq Titles
    /\ \A f, g \in Files : PathOf[f] = PathOf[g] => TitleOf[f] = TitleOf[g]

VARIABLES
    status,         \* jobs.status per id, "absent" = no such row
    jobFile,        \* the file the row's webhook was about, with its size
    jobRuntime,     \* whether jobs.runtime_min is known (not 0)
    nextId,         \* AUTOINCREMENT
    settings,       \* the settings table, [SettingKeys -> BOOLEAN]
    request,        \* the request for a title, as MarkRequestsAvailable sees it
    library,        \* *arr: the file each title has now
    imported,       \* *arr: the files imported so far
    deliveries,     \* *arr: how often each file's webhook was delivered
    blocklisted,    \* *arr: the files whose grab was marked failed
    searching,      \* *arr: the titles a search was asked for
    unindexed,      \* Jellyfin: titles passed since the last refresh request
    proc,           \* the server process: "up", "stopping" or "down"
    ffprobe,        \* whether this process finds ffprobe
    handler,        \* local state of each handler goroutine
    kick,           \* Worker.kick, a channel of capacity one
    worker,         \* local state of the worker goroutine
    refresh,        \* the debounce timer: "none", "armed" or "spent"
    faults,         \* failed calls so far
    restarts,       \* stops and crashes so far
    overridden      \* history: since the start auto_blocklist was edited, could
                    \* not be read, or could not be stored off

storeVars == <<status, jobFile, jobRuntime, nextId>>
arrVars == <<library, imported, deliveries, blocklisted, searching>>
lifeVars == <<proc, ffprobe, restarts, overridden>>
vars == <<storeVars, settings, request, arrVars, unindexed, lifeVars,
          handler, kick, worker, refresh, faults>>

JobIds == 1 .. MaxJobs
NoJob == 0
Finished == {"passed", "failed"}
Active == {"queued", "running"}
JobStatus == {"absent"} \cup Active \cup Finished
RequestStatus == {"none", "approved", "available"}

HandlerPcs == {"idle", "select", "insert", "requeue", "kick"}
HandlerState == [pc : HandlerPcs, file : Files \cup {NoFile}, runtime : BOOLEAN,
                 job : 0 .. MaxJobs]
IdleHandler == [pc |-> "idle", file |-> NoFile, runtime |-> FALSE, job |-> NoJob]

(* Where the worker holds a claimed job whose outcome is not recorded.     *)
OwningPcs == {"begin", "probe", "check", "finish"}
(* Where the worker reacts to a failed validation.                         *)
FailurePcs == {"gate", "blocklist", "lookup", "delete", "search"}
JoblessPcs == {"off", "claim", "wait", "backoff"}
WorkerPcs == JoblessPcs \cup OwningPcs \cup {"mark"} \cup FailurePcs
WorkerState == [pc : WorkerPcs, job : 0 .. MaxJobs,
                verdict : {"none", "pass", "fail"},
                probed : Files \cup {NoFile}, target : Files \cup {NoFile}]
WorkerAt(pc) == [pc |-> pc, job |-> NoJob, verdict |-> "none",
                 probed |-> NoFile, target |-> NoFile]

(* The file now at the path a webhook named, if the title still has one.   *)
FileAt(f) ==
    LET g == library[TitleOf[f]]
    IN  IF g # NoFile /\ PathOf[g] = PathOf[f] THEN g ELSE NoFile

JobPath(j) == PathOf[jobFile[j]]
JobTitle(j) == TitleOf[jobFile[j]]

(* Rows below nextId, and only those, exist or existed; a handler or the   *)
(* worker past its first step has something in hand.                       *)
InHand ==
    /\ \A j \in JobIds : /\ j >= nextId <=> jobFile[j] = NoFile
                         /\ j >= nextId => status[j] = "absent"
    /\ \A h \in Handlers :
          /\ handler[h].pc \in {"select", "insert"} => handler[h].file \in Files
          /\ handler[h].pc = "requeue" => handler[h].job \in JobIds
    /\ worker.pc \notin JoblessPcs => worker.job \in 1 .. nextId - 1

TypeOK ==
    /\ status \in [JobIds -> JobStatus]
    /\ jobFile \in [JobIds -> Files \cup {NoFile}]
    /\ jobRuntime \in [JobIds -> BOOLEAN]
    /\ nextId \in 1 .. MaxJobs + 1
    /\ settings \in [SettingKeys -> BOOLEAN]
    /\ request \in [Titles -> RequestStatus]
    /\ library \in [Titles -> Files \cup {NoFile}]
    /\ imported \subseteq Files
    /\ deliveries \in [Files -> 0 .. MaxDeliveries]
    /\ blocklisted \subseteq Files
    /\ searching \subseteq Titles
    /\ unindexed \subseteq Titles
    /\ proc \in {"up", "stopping", "down"}
    /\ ffprobe \in BOOLEAN
    /\ handler \in [Handlers -> HandlerState]
    /\ kick \in BOOLEAN
    /\ worker \in WorkerState
    /\ refresh \in {"none", "armed", "spent"}
    /\ faults \in 0 .. MaxFaults
    /\ restarts \in 0 .. MaxRestarts
    /\ overridden \in BOOLEAN
    /\ InHand

Init ==
    /\ status = [j \in JobIds |-> "absent"]
    /\ jobFile = [j \in JobIds |-> NoFile]
    /\ jobRuntime = [j \in JobIds |-> FALSE]
    /\ nextId = 1
    /\ settings = [k \in SettingKeys |-> TRUE]
    /\ request = [t \in Titles |-> "none"]
    /\ library = [t \in Titles |-> NoFile]
    /\ imported = {}
    /\ deliveries = [f \in Files |-> 0]
    /\ blocklisted = {}
    /\ searching = {}
    /\ unindexed = {}
    /\ proc = "down"
    /\ ffprobe = FALSE
    /\ handler = [h \in Handlers |-> IdleHandler]
    /\ kick = FALSE
    /\ worker = WorkerAt("off")
    /\ refresh = "none"
    /\ faults = 0
    /\ restarts = 0
    /\ overridden = FALSE

-----------------------------------------------------------------------------
(* The world outside the server: Radarr and Sonarr, managers and admins.   *)

(* A download is imported.  An upgrade replaces the title's file; the new  *)
(* file may land on the same path.                                         *)
Import(f) ==
    /\ f \notin imported
    /\ imported' = imported \cup {f}
    /\ library' = [library EXCEPT ![TitleOf[f]] = f]
    /\ searching' = searching \ {TitleOf[f]}
    /\ UNCHANGED <<storeVars, settings, request, deliveries, blocklisted,
                   unindexed, lifeVars, handler, kick, worker, refresh, faults>>

(* A manager approves the request for a title not imported yet (Requests   *)
(* models the handler, and approvals of titles already in the library).    *)
Approve(t) ==
    /\ proc = "up"
    /\ request[t] = "none"
    /\ \A f \in imported : TitleOf[f] # t
    /\ request' = [request EXCEPT ![t] = "approved"]
    /\ UNCHANGED <<storeVars, settings, arrVars, unindexed, lifeVars,
                   handler, kick, worker, refresh, faults>>

(* PUT /api/settings stores one key.                                       *)
PutSetting(k) ==
    /\ proc = "up"
    /\ settings' = [settings EXCEPT ![k] = ~@]
    /\ overridden' = (overridden \/ k = "auto_blocklist")
    /\ UNCHANGED <<storeVars, request, arrVars, unindexed, proc, ffprobe, restarts,
                   handler, kick, worker, refresh, faults>>

-----------------------------------------------------------------------------
(* HTTP handlers.                                                          *)

OnlyHandlers ==
    UNCHANGED <<settings, request, library, imported, blocklisted, searching,
                unindexed, lifeVars, worker, refresh, faults>>

(* A Download webhook arrives, or arrives again; the handler asks *arr for *)
(* the title's runtime before it touches the store, and does without.      *)
HookReceive(h, f) ==
    /\ proc = "up"
    /\ handler[h].pc = "idle"
    /\ f \in imported
    /\ deliveries[f] < MaxDeliveries
    /\ deliveries' = [deliveries EXCEPT ![f] = @ + 1]
    /\ \E known \in RuntimeStates :
          handler' = [handler EXCEPT ![h] =
                         [pc |-> "select", file |-> f, runtime |-> known, job |-> NoJob]]
    /\ OnlyHandlers /\ UNCHANGED <<storeVars, kick>>

(* EnqueueJob's first statement: is a job for this path queued or running? *)
EnqueueSelect(h) ==
    /\ handler[h].pc = "select"
    /\ LET twin == \E j \in JobIds : /\ status[j] \in Active
                                     /\ JobPath(j) = PathOf[handler[h].file]
       IN  handler' = [handler EXCEPT ![h].pc = IF twin THEN "kick" ELSE "insert"]
    /\ OnlyHandlers /\ UNCHANGED <<storeVars, deliveries, kick>>

(* A handler that queued a job kicks the worker before it answers.         *)
AfterEnqueueNoKick == "idle"
AfterEnqueue == "kick"

(* EnqueueJob's second statement inserts the row.                          *)
InsertedFileLost(h) == NoFile
InsertedFile(h) == handler[h].file
EnqueueInsert(h) ==
    /\ handler[h].pc = "insert"
    /\ nextId \in JobIds
    /\ status' = [status EXCEPT ![nextId] = "queued"]
    /\ jobFile' = [jobFile EXCEPT ![nextId] = InsertedFile(h)]
    /\ jobRuntime' = [jobRuntime EXCEPT ![nextId] = handler[h].runtime]
    /\ nextId' = nextId + 1
    /\ handler' = [handler EXCEPT ![h].pc = AfterEnqueue]
    /\ OnlyHandlers /\ UNCHANGED <<deliveries, kick>>

(* POST /api/jobs/{id}/retry finds the job finished; otherwise it answers  *)
(* 404 or 409 and changes nothing.                                         *)
RetryGet(h, j) ==
    /\ proc = "up"
    /\ handler[h].pc = "idle"
    /\ status[j] \in Finished
    /\ handler' = [handler EXCEPT ![h] =
                      [pc |-> "requeue", file |-> NoFile, runtime |-> FALSE, job |-> j]]
    /\ OnlyHandlers /\ UNCHANGED <<storeVars, deliveries, kick>>

(* RequeueJob rechecks in its WHERE clause: a job another retry requeued,  *)
(* or housekeeping pruned, is a 409.                                       *)
RequeueableUnchecked(j) == j \in JobIds
Requeueable(j) == status[j] \in Finished
RetryRequeue(h) ==
    /\ handler[h].pc = "requeue"
    /\ \/ /\ Requeueable(handler[h].job)
          /\ status' = [status EXCEPT ![handler[h].job] = "queued"]
          /\ handler' = [handler EXCEPT ![h].pc = AfterEnqueue]
       \/ /\ ~Requeueable(handler[h].job)
          /\ handler' = [handler EXCEPT ![h] = IdleHandler]
          /\ UNCHANGED status
    /\ OnlyHandlers /\ UNCHANGED <<jobFile, jobRuntime, nextId, deliveries, kick>>

(* Worker.Kick: a send that does not block on the full channel.            *)
KickWorker(h) ==
    /\ handler[h].pc = "kick"
    /\ kick' = TRUE
    /\ handler' = [handler EXCEPT ![h] = IdleHandler]
    /\ OnlyHandlers /\ UNCHANGED <<storeVars, deliveries>>

(* The client goes away or a statement fails: the handler answers 500.     *)
HandlerFails(h) ==
    /\ handler[h].pc \in {"select", "insert", "requeue"}
    /\ handler' = [handler EXCEPT ![h] = IdleHandler]
    /\ OnlyHandlers /\ UNCHANGED <<storeVars, deliveries, kick>>

-----------------------------------------------------------------------------
(* The worker goroutine.                                                   *)

(* A call made with the worker's context fails once the process is         *)
(* stopping, and may fail before.                                          *)
CallFails ==
    \/ proc = "stopping" /\ UNCHANGED faults
    \/ proc = "up" /\ faults < MaxFaults /\ faults' = faults + 1
CallWorks == proc = "up" /\ UNCHANGED faults

(* BoolSetting returns TRUE, the default of both keys, when it cannot read. *)
ReadsSetting(key, value) ==
    \/ CallWorks /\ value = settings[key]
    \/ CallFails /\ value = TRUE

GoTo(pc) == worker' = [worker EXCEPT !.pc = pc]
WorkerIdles(pc) == worker' = WorkerAt(pc)
WorkerOnly == UNCHANGED <<imported, deliveries, settings, lifeVars, handler>>

(* ClaimNextJob, one transaction: the oldest queued job becomes running.   *)
Claim ==
    /\ worker.pc = "claim"
    /\ CallWorks
    /\ \E j \in JobIds :
          /\ status[j] = "queued"
          /\ \A k \in JobIds : status[k] = "queued" => j <= k
          /\ status' = [status EXCEPT ![j] = "running"]
          /\ worker' = [WorkerAt("begin") EXCEPT !.job = j]
    /\ WorkerOnly
    /\ UNCHANGED <<jobFile, jobRuntime, nextId, request, library, blocklisted, searching,
                   unindexed, kick, refresh>>

(* The queue is empty, or the claim failed: either way Run waits.          *)
ClaimNothing ==
    /\ worker.pc = "claim"
    /\ \/ /\ \A j \in JobIds : status[j] # "queued"
          /\ CallWorks
          /\ GoTo("wait")
       \/ CallFails /\ GoTo("backoff")
    /\ WorkerOnly
    /\ UNCHANGED <<storeVars, request, library, blocklisted, searching,
                   unindexed, kick, refresh>>

(* wait ends with a kick, which it consumes, or after IdleWait.            *)
WaitEnds ==
    /\ worker.pc \in {"wait", "backoff"}
    /\ proc = "up"
    /\ kick' \in {kick, FALSE}
    /\ GoTo("claim")
    /\ WorkerOnly
    /\ UNCHANGED <<storeVars, request, library, blocklisted, searching,
                   unindexed, refresh, faults>>

(* The loop sees the cancelled context and Run returns, stopping the timer. *)
WorkerExits ==
    /\ worker.pc \in {"claim", "wait", "backoff"}
    /\ proc = "stopping"
    /\ WorkerIdles("off")
    /\ refresh' = IF refresh = "armed" THEN "spent" ELSE refresh
    /\ WorkerOnly
    /\ UNCHANGED <<storeVars, request, library, blocklisted, searching,
                   unindexed, kick, faults>>

(* With validation off every job passes; otherwise the file is probed.     *)
Begin ==
    /\ worker.pc = "begin"
    /\ \/ /\ ReadsSetting("validation_enabled", TRUE)
          /\ GoTo("probe")
       \/ /\ ReadsSetting("validation_enabled", FALSE)
          /\ worker' = [worker EXCEPT !.pc = "check", !.verdict = "pass"]
    /\ WorkerOnly
    /\ UNCHANGED <<storeVars, request, library, blocklisted, searching,
                   unindexed, kick, refresh>>

(* Validate on file g for the row of job j: what ffprobe reads is g's, but *)
(* the size (if the webhook named one) and the runtime are the row's, and  *)
(* may be those of another file at the same path.                          *)
SizedBy(j, g) == IF jobFile[j] \in Unsized THEN g ELSE jobFile[j]
Passes(j, g) ==
    /\ g \in Readable
    /\ SizedBy(j, g) \in FullSize[jobRuntime[j]]
    /\ jobRuntime[j] => g \in RightLength

(* It looks at what is at the job's path now.  Without ffprobe, or when    *)
(* the shutdown kills it, the result says fail.                            *)
ProbedFile == FileAt(jobFile[worker.job])
Sound == ffprobe /\ Passes(worker.job, ProbedFile)
Probe ==
    /\ worker.pc = "probe"
    /\ \E v \in {"pass", "fail"} :
          /\ v = "pass" => Sound
          /\ v = "fail" => ~Sound \/ proc = "stopping"
          /\ worker' = [worker EXCEPT !.pc = "check", !.verdict = v,
                                      !.probed = ProbedFile]
    /\ WorkerOnly
    /\ UNCHANGED <<storeVars, request, library, blocklisted, searching,
                   unindexed, kick, refresh, faults>>

(* A panic while validating: process's deferred function marks the job     *)
(* failed under a context of its own, and nothing is blocklisted.          *)
Panic ==
    /\ worker.pc = "probe"
    /\ \/ UNCHANGED faults /\ status' = [status EXCEPT ![worker.job] = "failed"]
       \/ /\ faults < MaxFaults /\ faults' = faults + 1
          /\ UNCHANGED status
    /\ WorkerIdles("claim")
    /\ WorkerOnly
    /\ UNCHANGED <<jobFile, jobRuntime, nextId, request, library, blocklisted, searching,
                   unindexed, kick, refresh>>

(* A shutdown during the probe leaves the job running and returns.         *)
InterruptedIgnored == FALSE
Interrupted == proc = "stopping"
AfterCheckUnrecorded == IF worker.verdict = "pass" THEN "finish" ELSE "gate"
AfterCheck == "finish"
CheckShutdown ==
    /\ worker.pc = "check"
    /\ IF Interrupted THEN WorkerIdles("claim") ELSE GoTo(AfterCheck)
    /\ WorkerOnly
    /\ UNCHANGED <<storeVars, request, library, blocklisted, searching,
                   unindexed, kick, refresh, faults>>

(* FinishJob records the outcome; if it fails the worker only logs it.     *)
AfterFinishUnmarked == IF worker.verdict = "pass" THEN "claim" ELSE "gate"
AfterFinish == IF worker.verdict = "pass" THEN "mark" ELSE "gate"
FinishJob ==
    /\ worker.pc = "finish"
    /\ \/ CallFails /\ UNCHANGED status
       \/ /\ CallWorks
          /\ status' = [status EXCEPT ![worker.job] =
                           IF worker.verdict = "pass" THEN "passed" ELSE "failed"]
    /\ GoTo(AfterFinish)
    /\ WorkerOnly
    /\ UNCHANGED <<jobFile, jobRuntime, nextId, request, library, blocklisted, searching,
                   unindexed, kick, refresh>>

(* scheduleRefresh creates the timer or pushes it back.                    *)
RearmedNever == IF refresh = "none" THEN "armed" ELSE refresh
Rearmed == "armed"

(* After a pass: MarkRequestsAvailable, best effort, then scheduleRefresh. *)
MarkAvailable ==
    /\ worker.pc = "mark"
    /\ LET t == JobTitle(worker.job)
       IN  /\ \/ CallFails /\ UNCHANGED request
             \/ /\ CallWorks
                /\ request' = [request EXCEPT ![t] =
                                  IF @ = "approved" THEN "available" ELSE @]
           /\ unindexed' = unindexed \cup {t}
    /\ refresh' = Rearmed
    /\ WorkerIdles("claim")
    /\ WorkerOnly
    /\ UNCHANGED <<storeVars, library, blocklisted, searching, kick>>

(* After a fail: is auto_blocklist on?                                     *)
Gate ==
    /\ worker.pc = "gate"
    /\ \/ ReadsSetting("auto_blocklist", TRUE) /\ GoTo("blocklist")
       \/ ReadsSetting("auto_blocklist", FALSE) /\ WorkerIdles("claim")
    /\ overridden' = (overridden \/ faults' # faults)
    /\ UNCHANGED <<storeVars, settings, request, arrVars, unindexed, proc, ffprobe,
                   restarts, handler, kick, refresh>>

(* pickGrab: the grab with the job's download id, else the newest grab of  *)
(* the title, which may be any of them.                                    *)
Grabs(f) ==
    IF f \in Tracked THEN {f} ELSE {g \in imported : TitleOf[g] = TitleOf[f]}

(* markFailed: the grab found in history is marked failed.                 *)
MarkHistoryFailed ==
    /\ worker.pc = "blocklist"
    /\ \/ CallFails /\ UNCHANGED blocklisted
       \/ /\ CallWorks
          /\ \E g \in Grabs(jobFile[worker.job]) :
                 blocklisted' = blocklisted \cup {g}
    /\ GoTo("lookup")
    /\ WorkerOnly
    /\ UNCHANGED <<storeVars, request, library, searching, unindexed, kick,
                   refresh>>

(* GetMovie or GetEpisodeFiles: the id of the file at the job's path.      *)
FileToDeleteAnyPath == library[JobTitle(worker.job)]
FileToDelete == FileAt(jobFile[worker.job])
LookupFile ==
    /\ worker.pc = "lookup"
    /\ \E found \in {FileToDelete, NoFile} :
          /\ \/ CallFails /\ found = NoFile
             \/ CallWorks /\ found = FileToDelete
          /\ worker' = [worker EXCEPT !.pc = "delete", !.target = found]
    /\ WorkerOnly
    /\ UNCHANGED <<storeVars, request, library, blocklisted, searching,
                   unindexed, kick, refresh>>

(* Every failure step carries on with the next one.                        *)
AfterDeleteStop == "claim"
AfterDelete == "search"
(* DeleteMovieFile / DeleteEpisodeFile by file id; an id that was replaced *)
(* meanwhile is a 404.                                                     *)
DeleteFile ==
    /\ worker.pc = "delete"
    /\ LET t == JobTitle(worker.job)
       IN  IF worker.target = NoFile
           THEN UNCHANGED <<library, faults>>
           ELSE \/ CallFails /\ UNCHANGED library
                \/ /\ CallWorks
                   /\ library' = IF library[t] = worker.target
                                 THEN [library EXCEPT ![t] = NoFile]
                                 ELSE library
    /\ GoTo(AfterDelete)
    /\ WorkerOnly
    /\ UNCHANGED <<storeVars, request, blocklisted, searching, unindexed,
                   kick, refresh>>

(* MoviesSearch / EpisodeSearch; without an episode id nothing is asked.   *)
Search ==
    /\ worker.pc = "search"
    /\ IF jobFile[worker.job] \in NoEpisodeId
       THEN UNCHANGED <<searching, faults>>
       ELSE \/ CallFails /\ UNCHANGED searching
            \/ /\ CallWorks
               /\ searching' = searching \cup {JobTitle(worker.job)}
    /\ WorkerIdles("claim")
    /\ WorkerOnly
    /\ UNCHANGED <<storeVars, request, library, blocklisted, unindexed, kick,
                   refresh>>

-----------------------------------------------------------------------------
(* The other goroutines, and the process itself.                           *)

(* The debounce timer fires: one refresh covers every pass since the last, *)
(* unless Jellyfin refuses (not retried) or the process is stopping.       *)
DoRefresh ==
    /\ refresh = "armed"
    /\ refresh' = "spent"
    /\ \/ CallFails /\ UNCHANGED unindexed
       \/ CallWorks /\ unindexed' = {}
    /\ UNCHANGED <<storeVars, settings, request, arrVars, lifeVars, handler,
                   kick, worker>>

(* Daily housekeeping drops a job finished more than 30 days ago, so never *)
(* the one the worker has in hand.                                         *)
Prune(j) ==
    /\ proc = "up"
    /\ status[j] \in Finished
    /\ j # worker.job
    /\ status' = [status EXCEPT ![j] = "absent"]
    /\ UNCHANGED <<jobFile, jobRuntime, nextId, settings, request, arrVars, unindexed,
                   lifeVars, handler, kick, worker, refresh, faults>>

(* SIGTERM cancels the worker's context and stops accepting connections;   *)
(* handlers in flight go on.                                               *)
Stop ==
    /\ proc = "up"
    /\ restarts < MaxRestarts
    /\ proc' = "stopping"
    /\ restarts' = restarts + 1
    /\ UNCHANGED <<storeVars, settings, request, arrVars, unindexed, ffprobe,
                   overridden, handler, kick, worker, refresh, faults>>

(* The process ends: main returns without waiting for the worker, or it is *)
(* killed.  Everything in memory is gone.                                  *)
ProcessEnds ==
    /\ proc' = "down"
    /\ handler' = [h \in Handlers |-> IdleHandler]
    /\ kick' = FALSE
    /\ worker' = WorkerAt("off")
    /\ refresh' = "none"
    /\ UNCHANGED <<storeVars, settings, request, arrVars, unindexed, ffprobe,
                   overridden, faults>>
Exit == proc = "stopping" /\ ProcessEnds /\ UNCHANGED restarts
Crash ==
    /\ proc = "up"
    /\ restarts < MaxRestarts
    /\ restarts' = restarts + 1
    /\ ProcessEnds

(* ResetRunningJobs.                                                       *)
RequeuedNone == status
Requeued == [j \in JobIds |-> IF status[j] = "running" THEN "queued" ELSE status[j]]

(* Without ffprobe every probe fails, so auto_blocklist is switched off.   *)
SettingsKept(found) == settings
SettingsAtStart(found) ==
    IF found THEN settings ELSE [settings EXCEPT !["auto_blocklist"] = FALSE]

(* run: ResetRunningJobs; with no ffprobe auto_blocklist is switched off;  *)
(* either failing is only a warning; then the worker starts.               *)
Start(found) ==
    /\ proc = "down"
    /\ proc' = "up"
    /\ ffprobe' = found
    /\ \E badReset, badDisable \in {0, 1} :
          /\ badDisable = 1 => ~found
          /\ faults' = faults + badReset + badDisable
          /\ faults' <= MaxFaults
          /\ status' = IF badReset = 1 THEN status ELSE Requeued
          /\ settings' = IF badDisable = 1 THEN settings ELSE SettingsAtStart(found)
          /\ overridden' = (badDisable = 1)
    /\ worker' = WorkerAt("claim")
    /\ UNCHANGED <<jobFile, jobRuntime, nextId, request, arrVars, unindexed, restarts,
                   handler, kick, refresh>>

-----------------------------------------------------------------------------
HandlerStep(h) ==
    EnqueueSelect(h) \/ EnqueueInsert(h) \/ RetryRequeue(h) \/ KickWorker(h)

WorkerStep ==
    \/ Claim \/ ClaimNothing \/ WaitEnds \/ WorkerExits
    \/ Begin \/ Probe \/ Panic \/ CheckShutdown \/ FinishJob \/ MarkAvailable
    \/ Gate \/ MarkHistoryFailed \/ LookupFile \/ DeleteFile \/ Search

Environment ==
    \/ \E f \in Files : Import(f)
    \/ \E t \in Requestable : Approve(t)
    \/ \E k \in EditableKeys : PutSetting(k)
    \/ \E h \in Handlers :
          \/ \E f \in Files : HookReceive(h, f)
          \/ \E j \in JobIds : RetryGet(h, j)
          \/ HandlerFails(h)

Restart == \E found \in FfprobeStates : Start(found)

Next ==
    \/ Environment
    \/ \E h \in Handlers : HandlerStep(h)
    \/ WorkerStep
    \/ DoRefresh
    \/ \E j \in JobIds : Prune(j)
    \/ Stop \/ Exit \/ Crash \/ Restart

Spec == Init /\ [][Next]_vars

-----------------------------------------------------------------------------
(* Properties.                                                             *)

(* Between ClaimNextJob and FinishJob the worker's row stays "running":    *)
(* FinishJob has no status guard, so nothing else may touch the row.       *)
ClaimedIsRunning ==
    worker.pc \in OwningPcs => /\ worker.job \in JobIds
                               /\ status[worker.job] = "running"

(* One job at a time, and no row stuck in "running": as long as no store   *)
(* call has failed, a running row is the one the worker has in hand, also  *)
(* after a shutdown or a crash in the middle of a job (a stuck row could   *)
(* be neither retried nor enqueued again).                                 *)
RunningIsOwned ==
    proc = "up" /\ faults = 0 =>
        \A j \in JobIds : status[j] = "running" =>
            worker.pc \in OwningPcs /\ worker.job = j

(* Kick is never lost: if the worker found the queue empty and waits while *)
(* a job is queued, a kick is in the channel or a handler is about to send *)
(* it, so the job does not sit out the idle interval.                      *)
NoLostWakeup ==
    worker.pc = "wait" /\ (\E j \in JobIds : status[j] = "queued") =>
        kick \/ \E h \in Handlers : handler[h].pc = "kick"

(* The reaction to a failed validation never starts on a file that an      *)
(* undisturbed Validate passes for the job's row: a probe killed by a      *)
(* shutdown is no fail, whatever was stopped, restarted or retried.  A row *)
(* may still fail a file that its own webhook's row would pass.            *)
FailureMeansBadFile ==
    ffprobe /\ worker.pc \in FailurePcs => ~Passes(worker.job, worker.probed)

(* The outcome is recorded before anything irreversible is done in *arr,   *)
(* so a crash during the failure steps never leads to a second validation  *)
(* of a job that was already acted on.                                     *)
OutcomeBeforeEffects ==
    [][blocklisted' # blocklisted => status[worker.job] # "running" \/ faults > 0
      ]_vars

(* The pipeline only deletes a file at its job's path, whatever *arr       *)
(* imports between the lookup and the delete.                              *)
DeletesOnlyJobPath ==
    [][\A t \in Titles : library[t] # NoFile /\ library'[t] = NoFile =>
          worker.job \in JobIds /\ PathOf[library[t]] = JobPath(worker.job)]_vars

(* A title whose file the pipeline deleted is searched again, as long as   *)
(* no call failed and no restart cut the failure steps short.              *)
DeletedIsSearched ==
    faults = 0 /\ restarts = 0 =>
        \A f \in imported :
            \/ library[TitleOf[f]] # NoFile
            \/ TitleOf[f] \in searching
            \/ worker.pc = "search" /\ JobTitle(worker.job) = TitleOf[f]
            \/ TitleOf[f] \in {TitleOf[g] : g \in NoEpisodeId}

(* A request approved before the import is fulfilled when the job passes,  *)
(* up to the one step the worker takes after FinishJob.                    *)
PassedIsFulfilled ==
    faults = 0 /\ restarts = 0 =>
        \A j \in JobIds : status[j] = "passed" /\ request[JobTitle(j)] = "approved"
            => worker.pc = "mark" /\ worker.job = j

(* Without ffprobe every validation fails, and the server is to "refuse to *)
(* blocklist in that state".  It does so by switching the setting off when *)
(* it starts, whatever it was before: only what happens to the setting in  *)
(* this very process can make it blocklist all the same.                   *)
NoBlocklistWithoutFfprobe ==
    [][blocklisted' # blocklisted => ffprobe \/ overridden]_vars

-----------------------------------------------------------------------------
(* Each pass pushes the timer back: it fires for sure only once passes end. *)
PassesEnd == <>[][~MarkAvailable]_vars

(* Fairness: goroutines are scheduled, a timer left alone fires, compose   *)
(* restarts the container.  Nothing outside the process is assumed to      *)
(* happen.                                                                 *)
Fairness ==
    /\ WF_vars(WorkerStep)
    /\ \A h \in Handlers : WF_vars(HandlerStep(h))
    /\ PassesEnd => WF_vars(DoRefresh)
    /\ WF_vars(Exit)
    /\ WF_vars(Restart)
FairSpec == Spec /\ Fairness

RetriesEnd == <>[][~\E h \in Handlers : RetryRequeue(h)]_vars

(* Every queued or running job is eventually finished, across shutdowns    *)
(* and crashes, unless a store call fails (a row that FinishJob could not  *)
(* write stays running until the next start), or retries of older jobs,    *)
(* which the claim prefers, go on for ever.                                *)
EveryJobFinishes ==
    RetriesEnd => \A j \in JobIds :
                     status[j] \in Active ~> status[j] \notin Active \/ faults > 0

(* Every pass is eventually followed by a library refresh request, unless  *)
(* passes go on for ever (each may push the timer back once more), the     *)
(* process stops first or the call to Jellyfin fails.                      *)
RefreshHappens ==
    PassesEnd => (unindexed # {} ~> unindexed = {} \/ restarts > 0 \/ faults > 0)

(* The jobs table follows the life JobLifecycle promises.                  *)
Lifecycle == INSTANCE JobLifecycle
JobLifecycle == Lifecycle!Spec

-----------------------------------------------------------------------------
(* What a comment or a document says and the code does not do.             *)

(* "If a queued or running job already exists for the same path, no row is *)
(* inserted" (EnqueueJob, docs/API.md).  The lookup and the insert are two *)
(* statements, and RequeueJob does not look at the path at all.            *)
OneActiveJobPerPath ==
    \A i, j \in JobIds :
        status[i] \in Active /\ status[j] \in Active /\ i # j
            => JobPath(i) # JobPath(j)

(* What the row of its own webhook would pass, the runtime known or not.   *)
Good == Readable \cap FullSize[TRUE] \cap FullSize[FALSE] \cap RightLength

(* handleFailure is to "delete the bad file", and only that; the path is   *)
(* compared, but an upgrade may have put a good file on it: after the bad  *)
(* one was probed, or before, when the bad one's row fails the good one.   *)
GoodFileKept ==
    [][\A t \in Titles : library[t] \in Good => library'[t] # NoFile]_vars

=============================================================================
