------------------------------- MODULE Setup --------------------------------
(***************************************************************************)
(* `pelicula up` and `pelicula reset-config` on the host: complete .env,   *)
(* seed and enforce the services' config files one file at a time, start   *)
(* the containers.  The command may be killed, or fail with a full disk,   *)
(* between any two file operations and be run again.  Users edit .env, and *)
(* the services rewrite their files while they run.                        *)
(***************************************************************************)
EXTENDS Naturals, Sequences

CONSTANTS
    Secrets,        \* the keys completeEnv generates a value for
    SeedPlan,       \* SeedAllConfigs: <<"seed" or "enforce", file>> in order
    DirOf,          \* the directory under CONFIG_DIR of each file
    MaxSecrets,     \* bound on how often completeEnv generates
    MaxCount        \* bound on each of the counts in hostLeft

Files == {SeedPlan[i][2] : i \in DOMAIN SeedPlan}
Dirs == {DirOf[f] : f \in Files}

SetupAssumption ==
    /\ SeedPlan \in Seq({"seed", "enforce"} \X Files)
    /\ \A f \in Files : \E i \in DOMAIN SeedPlan : SeedPlan[i] = <<"seed", f>>
    /\ DOMAIN DirOf = Files
    /\ {MaxSecrets, MaxCount} \subseteq Nat

VARIABLES
    envFile,        \* .env
    temp,           \* the temporary file of WriteEnv
    seeds,          \* the config files
    running,        \* the containers are up
    containers,     \* the .env they were created from
    cliPc, cliEnv,  \* the command: what it does next, its EnvMap
    cliAt,          \* where it is in SeedPlan
    doomed,         \* and the directories reset-config has yet to delete
    generated,      \* secrets generated so far
    edited,         \* history: .env was edited since the command read it
    rewritten,      \* history: config files a service rewrote meanwhile
    cutShort,       \* history: files whose writing was cut short
    hostLeft        \* bounds: commands still to be run, and deaths (commands cut
                    \* short, compose failing) and touches (edits of .env,
                    \* rewrites of config files) still to come

fileVars == <<envFile, temp, seeds>>
stackVars == <<running, containers>>
cliVars == <<cliPc, cliEnv, cliAt, doomed, generated>>
history == <<edited, rewritten, cutShort>>
vars == <<fileVars, stackVars, cliVars, history, hostLeft>>

(* 0 is a blank value, KEY="".                                             *)
EnvMap == [Secrets -> 0 .. MaxSecrets]
Blank == [k \in Secrets |-> 0]

(* A torn .env parses too, but lacks keys.                                 *)
EnvFile == [is : {"absent", "torn", "whole"}, env : EnvMap]
Absent == [is |-> "absent", env |-> Blank]
Torn == [is |-> "torn", env |-> Blank]
Whole(m) == [is |-> "whole", env |-> m]
Exists(file) == file.is # "absent"

(* "ours" holds what seeding wants, "drifted" does not; "torn" is cut off. *)
FileStates == {"absent", "torn", "ours", "drifted"}

TypeOK ==
    /\ {envFile, temp} \subseteq EnvFile
    /\ seeds \in [Files -> FileStates]
    /\ running \in BOOLEAN /\ containers \in EnvMap
    /\ cliPc \in {"idle", "load", "complete", "backup", "temp", "write", "rename",
                  "seed", "fill", "compose", "reset"}
    /\ cliEnv \in EnvMap
    /\ cliAt \in 1 .. Len(SeedPlan) + 1 /\ doomed \subseteq Dirs
    /\ generated \in 0 .. MaxSecrets
    /\ edited \in BOOLEAN /\ rewritten \subseteq Files
    /\ cutShort \subseteq Files
    /\ hostLeft \in [{"commands", "deaths", "touches"} -> 0 .. MaxCount]

Init ==
    /\ envFile = Absent /\ temp = Absent
    /\ seeds = [f \in Files |-> "absent"]
    /\ running = FALSE /\ containers = Blank
    /\ cliPc = "idle"
    /\ cliEnv = Blank
    /\ cliAt = 1 /\ doomed = {}
    /\ generated = 0
    /\ edited = FALSE /\ rewritten = {}
    /\ cutShort = {}
    /\ hostLeft \in [{"commands", "deaths", "touches"} -> 0 .. MaxCount]

Uses(what) ==
    /\ hostLeft[what] > 0
    /\ hostLeft' = [hostLeft EXCEPT ![what] = @ - 1]

-----------------------------------------------------------------------------
(* .env.                                                                   *)

(* cmdUp; without a .env runWizard makes an EnvMap of defaults.            *)
FirstRunAlways == TRUE
FirstRun == ~Exists(envFile)

Up ==
    /\ cliPc = "idle"
    /\ Uses("commands")
    /\ cliEnv' = Blank
    /\ cliAt' = 1
    /\ edited' = FALSE /\ rewritten' = {}
    /\ cliPc' = IF FirstRun THEN "complete" ELSE "load"
    /\ UNCHANGED <<fileVars, stackVars, doomed, generated, cutShort>>

(* loadEnvOrFatal.                                                         *)
Load ==
    /\ cliPc = "load"
    /\ cliEnv' = envFile.env
    /\ cliPc' = IF Exists(envFile) THEN "complete" ELSE "idle"
    /\ edited' = FALSE
    /\ UNCHANGED <<fileVars, stackVars, cliAt, doomed, generated, rewritten, cutShort, hostLeft>>

(* completeEnv fills the blank secrets with random values; the nth time it *)
(* does so, n stands for them.                                             *)
ToFillAll(m) == Secrets
ToFill(m) == {k \in Secrets : m[k] = 0}

Complete ==
    /\ cliPc = "complete"
    /\ IF ToFill(cliEnv) = {}
       THEN /\ cliPc' = "seed"
            /\ UNCHANGED <<cliEnv, generated>>
       ELSE /\ generated < MaxSecrets
            /\ generated' = generated + 1
            /\ cliEnv' = [k \in Secrets |-> IF k \in ToFill(cliEnv) THEN generated + 1
                                                                   ELSE cliEnv[k]]
            /\ cliPc' = "backup"
    /\ UNCHANGED <<fileVars, stackVars, cliAt, doomed, history, hostLeft>>

(* WriteEnv: copy to .env.bak (which no program reads), write and sync a   *)
(* temporary file, rename it.                                              *)
BackUp ==
    /\ cliPc = "backup"
    /\ cliPc' = "temp"
    /\ UNCHANGED <<fileVars, stackVars, cliEnv, cliAt, doomed, generated, history, hostLeft>>

CreateInPlace == envFile' = Torn /\ UNCHANGED temp
CreateTemp == temp' = Torn /\ UNCHANGED envFile

OpenTemp ==
    /\ cliPc = "temp"
    /\ CreateTemp
    /\ cliPc' = "write"
    /\ UNCHANGED <<seeds, stackVars, cliEnv, cliAt, doomed, generated, history, hostLeft>>

WriteTemp ==
    /\ cliPc = "write"
    /\ temp' = Whole(cliEnv)
    /\ cliPc' = "rename"
    /\ UNCHANGED <<envFile, seeds, stackVars, cliEnv, cliAt, doomed, generated, history, hostLeft>>

(* The first run goes on to load what it has written.                      *)
Rename ==
    /\ cliPc = "rename"
    /\ envFile' = temp
    /\ temp' = Absent
    /\ cliPc' = IF Exists(envFile) THEN "seed" ELSE "load"
    /\ UNCHANGED <<seeds, stackVars, cliEnv, cliAt, doomed, generated, history, hostLeft>>

-----------------------------------------------------------------------------
(* SeedAllConfigs, and the containers.                                     *)

File == SeedPlan[cliAt][2]
Advance == cliAt' = cliAt + 1 /\ cliPc' = "seed"

(* seedConfig writes only what is not there; patchFile writes only what    *)
(* changes.  A torn file stays torn: an XML file has lost the tag to patch *)
(* before, and qBittorrent.conf gets five keys back, not the rest.         *)
NeedsWriteIfAbsent == SeedPlan[cliAt][1] = "seed" /\ seeds[File] = "absent"
NeedsWrite ==
    IF SeedPlan[cliAt][1] = "seed" THEN seeds[File] = "absent"
                                   ELSE seeds[File] = "drifted"

(* os.WriteFile truncates first ...                                        *)
OpenFile ==
    /\ cliPc = "seed"
    /\ cliAt <= Len(SeedPlan)
    /\ IF NeedsWrite
       THEN /\ seeds' = [seeds EXCEPT ![File] = "torn"]
            /\ cliPc' = "fill"
            /\ UNCHANGED cliAt
       ELSE Advance /\ UNCHANGED seeds
    /\ UNCHANGED <<envFile, temp, stackVars, cliEnv, doomed, generated, history, hostLeft>>

(* ... and then writes.                                                    *)
FillFile ==
    /\ cliPc = "fill"
    /\ seeds' = [seeds EXCEPT ![File] = "ours"]
    /\ Advance
    /\ UNCHANGED <<envFile, temp, stackVars, cliEnv, doomed, generated, history, hostLeft>>

Seeded ==
    /\ cliPc = "seed"
    /\ cliAt > Len(SeedPlan)
    /\ cliPc' = "compose"
    /\ UNCHANGED <<fileVars, stackVars, cliEnv, cliAt, doomed, generated, history, hostLeft>>

(* docker compose reads .env itself: it refuses a blank secret (${KEY:?}), *)
(* and `up -d` recreates what has changed.                                 *)
Interpolates(file) == \A k \in Secrets : file.env[k] # 0

ComposeUp ==
    /\ cliPc = "compose"
    /\ IF Interpolates(envFile)
       THEN running' = TRUE /\ containers' = envFile.env
       ELSE UNCHANGED stackVars
    /\ cliPc' = "idle"
    /\ UNCHANGED <<fileVars, cliEnv, cliAt, doomed, generated, history, hostLeft>>

-----------------------------------------------------------------------------
(* reset-config: stop the stack (a failure is only a warning), then delete *)
(* one directory after another.                                            *)

ComposeDown ==
    /\ cliPc = "idle"
    /\ Exists(envFile)
    /\ cliPc' = "reset"
    /\ \/ Interpolates(envFile) /\ Uses("commands") /\ running' = FALSE
       \/ ~Interpolates(envFile) /\ Uses("commands") /\ UNCHANGED running
       \/ hostLeft["commands"] > 0 /\ Uses("deaths") /\ UNCHANGED running
    /\ doomed' \in {Dirs} \cup {{d} : d \in Dirs}
    /\ UNCHANGED <<fileVars, containers, cliEnv, cliAt, generated, history>>

RemoveAll(d) ==
    /\ cliPc = "reset"
    /\ d \in doomed
    /\ seeds' = [f \in Files |-> IF DirOf[f] = d THEN "absent" ELSE seeds[f]]
    /\ cutShort' = {f \in cutShort : DirOf[f] # d}
    /\ doomed' = doomed \ {d}
    /\ cliPc' = IF doomed = {d} THEN "idle" ELSE "reset"
    /\ UNCHANGED <<envFile, temp, stackVars, cliEnv, cliAt, generated, edited, rewritten, hostLeft>>

-----------------------------------------------------------------------------
(* The command is killed, or a write fails and fatal ends it.  A temporary *)
(* file that is left over has a name of its own, and is not read again.    *)
Dies ==
    /\ cliPc # "idle"
    /\ Uses("deaths")
    /\ cutShort' = IF cliPc = "fill" THEN cutShort \cup {File} ELSE cutShort
    /\ temp' = Absent
    /\ cliPc' = "idle"
    /\ cliEnv' = Blank /\ cliAt' = 1 /\ doomed' = {}
    /\ UNCHANGED <<envFile, seeds, stackVars, generated, edited, rewritten>>

(* "Leave a secret blank and the next `pelicula up` generates it", or      *)
(* "delete .env and re-run `pelicula up`".                                 *)
EditEnv ==
    /\ envFile.is = "whole"
    /\ Uses("touches")
    /\ envFile' \in {Whole([envFile.env EXCEPT ![k] = 0]) : k \in Secrets} \cup {Absent}
    /\ edited' = TRUE
    /\ UNCHANGED <<temp, seeds, stackVars, cliVars, rewritten, cutShort>>

(* A running service writes its file anew, with its own idea of it.        *)
Rewrite(f) ==
    /\ running
    /\ Uses("touches")
    /\ seeds[f] # "absent"
    /\ seeds' = [seeds EXCEPT ![f] = "drifted"]
    /\ cutShort' = cutShort \ {f}
    /\ rewritten' = rewritten \cup {f}
    /\ UNCHANGED <<envFile, temp, stackVars, cliVars, edited>>

UpStep ==
    \/ Load \/ Complete
    \/ BackUp \/ OpenTemp \/ WriteTemp \/ Rename
    \/ OpenFile \/ FillFile \/ Seeded \/ ComposeUp

Next ==
    \/ Up \/ UpStep \/ Dies
    \/ ComposeDown \/ \E d \in Dirs : RemoveAll(d)
    \/ EditEnv \/ \E f \in Files : Rewrite(f)

Spec == Init /\ [][Next]_vars

-----------------------------------------------------------------------------
(* Properties.                                                             *)

(* "A crash never leaves a truncated .env behind."                         *)
EnvWhole == envFile.is # "torn"

(* A generated secret stays in .env, for the containers that were created  *)
(* with it, unless the user takes it out, even by another `up` that was    *)
(* cut short or read the file earlier.                                     *)
SecretsStay ==
    [][\A k \in Secrets :
          envFile.env[k] # 0 /\ ~edited /\ ~edited' => envFile'.env[k] = envFile.env[k]]_vars

(* When `up` starts the containers, every config file is there and holds   *)
(* what it was seeded with, or enforced to, wherever earlier commands died; *)
(* but for a file whose own write was cut short, one that a service has    *)
(* rewritten since, and one that is seeded only, which is the user's.      *)
Enforced(f) == \E i \in DOMAIN SeedPlan : SeedPlan[i] = <<"enforce", f>>
StartsSeeded ==
    [][cliPc = "compose" /\ UNCHANGED hostLeft /\ cliPc' = "idle" =>
          \A f \in Files \ (cutShort \cup rewritten) :
              seeds[f] = "ours" \/ (seeds[f] = "drifted" /\ ~Enforced(f))]_vars
=============================================================================
