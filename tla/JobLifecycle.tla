---------------------------- MODULE JobLifecycle ----------------------------
(***************************************************************************)
(* What the jobs table promises to everyone who reads it (the dashboard,   *)
(* the retry endpoint, the worker): the life of a job, as internal/store's *)
(* JobStatus describes it.  Jobs are numbered in the order they arrive,    *)
(* numbers are never reused, the oldest queued job is taken first, and the *)
(* only ways out of "running" are an outcome or a restart's recovery.      *)
(***************************************************************************)
EXTENDS Naturals

CONSTANT MaxJobs                  \* how many jobs the instance ever creates

VARIABLES status,                 \* the status column, "absent" = no such row
          nextId                  \* the id AUTOINCREMENT hands out next

JobIds == 1 .. MaxJobs
Finished == {"passed", "failed"}
JobStatus == {"absent", "queued", "running"} \cup Finished

jobVars == <<status, nextId>>

Init ==
    /\ status = [j \in JobIds |-> "absent"]
    /\ nextId = 1

Oldest(j) ==
    /\ status[j] = "queued"
    /\ \A k \in JobIds : status[k] = "queued" => j <= k

Submit ==
    /\ nextId \in JobIds
    /\ status' = [status EXCEPT ![nextId] = "queued"]
    /\ nextId' = nextId + 1

Start(j) ==
    /\ Oldest(j)
    /\ status' = [status EXCEPT ![j] = "running"]
    /\ UNCHANGED nextId

Finish(j) ==
    /\ status[j] = "running"
    /\ \E s \in Finished : status' = [status EXCEPT ![j] = s]
    /\ UNCHANGED nextId

Retry(j) ==
    /\ status[j] \in Finished
    /\ status' = [status EXCEPT ![j] = "queued"]
    /\ UNCHANGED nextId

Drop(j) ==
    /\ status[j] \in Finished
    /\ status' = [status EXCEPT ![j] = "absent"]
    /\ UNCHANGED nextId

(* A restart requeues everything the previous process left running.        *)
Recover ==
    /\ status' = [j \in JobIds |-> IF status[j] = "running"
                                   THEN "queued" ELSE status[j]]
    /\ UNCHANGED nextId

Next ==
    \/ Submit
    \/ Recover
    \/ \E j \in JobIds : Start(j) \/ Finish(j) \/ Retry(j) \/ Drop(j)

Spec == Init /\ [][Next]_jobVars
=============================================================================
