--------------------------- MODULE StartupProofs ----------------------------
(***************************************************************************)
(* What holds of a stack for every plan of seeds and wirings and every     *)
(* number of commands, deaths, edits, failures and restarts.               *)
(***************************************************************************)
EXTENDS Startup, TLAPS

(* The composition is made of steps of the host, or leaves it alone.       *)
LEMMA HostSteps == ASSUME [Next]_vars PROVE [Host!Next]_(Host!vars)
  <1>. DEFINE Quiet == UNCHANGED hostVars
  <1>0. Quiet => UNCHANGED Host!vars
    BY DEF hostVars, Host!vars, Host!fileVars, Host!stackVars, Host!cliVars, Host!history
  <1>1. CASE HostStep
    BY <1>1 DEF HostStep, Host!Next, Host!UpStep
  <1>2. CASE ComposeUp
    BY <1>2 DEF ComposeUp, Host!Next, Host!UpStep
  <1>3. CASE ComposeDown
    BY <1>3 DEF ComposeDown, Host!Next
  <1>4. CASE EditEnv
    BY <1>4 DEF EditEnv, Host!Next
  <1>5. ASSUME NEW d \in Host!Dirs, RemoveAll(d) PROVE Host!Next
    BY <1>5 DEF RemoveAll, Host!Next
  <1>6. CASE WireStep \/ ServerRestarts \/ UserEdits
    BY <1>0, <1>6 DEF WireStep, ServerRestarts, UserEdits
  <1>7. CASE \E v \in Services : Boot(v)
    BY <1>0, <1>7 DEF Boot
  <1>8. CASE \E v \in Server!Values : PasswordChanged(v)
    BY <1>0, <1>8 DEF PasswordChanged
  <1>9. CASE UNCHANGED vars
    BY <1>0, <1>9 DEF vars
  <1>. QED
    BY <1>1, <1>2, <1>3, <1>4, <1>5, <1>6, <1>7, <1>8, <1>9 DEF Next

(* Whatever Setup promises of the host's files, it promises beside the     *)
(* server as well: the stack implements the command's own specification.  *)
THEOREM StartupImplementsSetup == Spec => Host!Spec
  <1>1. Init => Host!Init
    BY DEF Init
  <1>. QED
    BY <1>1, HostSteps, PTL DEF Spec, Host!Spec

-----------------------------------------------------------------------------
(* .env.                                                                   *)

(* While the command has an EnvMap to write, nothing that was in .env when *)
(* it was read is missing from it.                                         *)
Busy == {"complete", "backup", "temp", "write", "rename"}
KeepsSecrets ==
    cliPc \in Busy /\ ~edited =>
        \A k \in {"password", "secret"} : envFile.env[k] # 0 => cliEnv[k] = envFile.env[k]

(* What Rename puts in place is whole, and no .env means no secrets.       *)
TempReady == cliPc = "rename" => temp = Host!Whole(cliEnv)
AbsentIsBlank == envFile.is = "absent" => envFile = Host!Absent

EnvInv == EnvWhole /\ AbsentIsBlank /\ TempReady /\ KeepsSecrets

(* There is no .env at first.                                              *)
LEMMA InitEnvInv == Init => EnvInv
  BY DEF Init, Host!Init, EnvInv, EnvWhole, Host!EnvWhole, AbsentIsBlank, TempReady,
         KeepsSecrets, Busy, Host!Absent

SecretsStep ==
    \A k \in {"password", "secret"} :
        envFile.env[k] # 0 /\ ~edited /\ ~edited' => envFile'.env[k] = envFile.env[k]

(* Every step of the host keeps .env whole and its secrets in it.          *)
LEMMA StepEnvInv ==
    ASSUME EnvInv, [Host!Next]_(Host!vars) PROVE EnvInv' /\ SecretsStep
  <1>. USE DEF EnvInv, EnvWhole, Host!EnvWhole, AbsentIsBlank, TempReady, KeepsSecrets, Busy,
               SecretsStep, Host!fileVars, Host!stackVars, Host!history
  <1>1. CASE Host!Up
    BY <1>1 DEF Host!Up, Host!FirstRun, Host!Exists, Host!Absent, Host!Blank
  <1>2. CASE Host!Load
    BY <1>2 DEF Host!Load
  <1>3. CASE Host!Complete
    BY <1>3 DEF Host!Complete, Host!ToFill
  <1>4. CASE Host!BackUp
    BY <1>4 DEF Host!BackUp
  <1>5. CASE Host!OpenTemp
    BY <1>5 DEF Host!OpenTemp, Host!CreateTemp
  <1>6. CASE Host!WriteTemp
    BY <1>6 DEF Host!WriteTemp
  <1>7. CASE Host!Rename
    BY <1>7 DEF Host!Rename, Host!Whole, Host!Exists
  <1>8. CASE Host!OpenFile
    BY <1>8 DEF Host!OpenFile, Host!Advance
  <1>9. CASE Host!FillFile
    BY <1>9 DEF Host!FillFile, Host!Advance
  <1>10. CASE Host!Seeded \/ Host!ComposeUp
    BY <1>10 DEF Host!Seeded, Host!ComposeUp
  <1>11. CASE Host!Dies
    BY <1>11 DEF Host!Dies
  <1>12. CASE Host!ComposeDown
    BY <1>12 DEF Host!ComposeDown
  <1>13. CASE \E d \in Host!Dirs : Host!RemoveAll(d)
    BY <1>13 DEF Host!RemoveAll
  <1>14. CASE Host!EditEnv
    BY <1>14 DEF Host!EditEnv, Host!Whole, Host!Absent, Host!cliVars
  <1>15. CASE \E f \in Host!Files : Host!Rewrite(f)
    BY <1>15 DEF Host!Rewrite, Host!cliVars
  <1>16. CASE UNCHANGED Host!vars
    BY <1>16 DEF Host!vars, Host!cliVars
  <1>. QED
    BY <1>1, <1>2, <1>3, <1>4, <1>5, <1>6, <1>7, <1>8, <1>9, <1>10, <1>11, <1>12, <1>13,
       <1>14, <1>15, <1>16 DEF Host!Next, Host!UpStep

(* "A crash never leaves a truncated .env behind."                         *)
THEOREM EnvStaysWhole == Spec => []EnvWhole
  <1>1. EnvInv /\ [Next]_vars => EnvInv'
    BY HostSteps, StepEnvInv
  <1>2. EnvInv => EnvWhole
    BY DEF EnvInv
  <1>. QED
    BY InitEnvInv, <1>1, <1>2, PTL DEF Spec

(* No command, cut short or not, takes a secret out of .env or replaces it. *)
THEOREM SecretsAreKept == Spec => SecretsStay
  <1>1. EnvInv /\ [Next]_vars => EnvInv'
    BY HostSteps, StepEnvInv
  <1>2. EnvInv /\ [Next]_vars =>
            [\A k \in {"password", "secret"} :
                envFile.env[k] # 0 /\ ~edited /\ ~edited' =>
                    envFile'.env[k] = envFile.env[k]]_(Host!vars)
    BY HostSteps, StepEnvInv DEF SecretsStep
  <1>. QED
    BY InitEnvInv, <1>1, <1>2, PTL DEF Spec, SecretsStay, Host!SecretsStay

-----------------------------------------------------------------------------
(* The admin's password.                                                   *)

(* The server has the environment of containers that are up.               *)
ServerFed == wirePc # "off" => running /\ cfg = containers

JellyfinRecord == jellyfin = [wizard |-> jellyfin.wizard, password |-> jellyfin.password]

(* One password all the way from .env to Jellyfin, once it is anywhere     *)
(* beyond .env; only before that may a command still generate it.          *)
OnePassword ==
    ~loginTouched =>
        /\ running => containers.password = envFile.env.password /\ containers.password # 0
        /\ jellyfin.wizard = "done" =>
               jellyfin.password = envFile.env.password /\ jellyfin.password # 0
        /\ wirePc = "complete" => jellyfin.password = cfg.password
        /\ cliPc \in Busy => ~edited

LoginInv == ServerFed /\ JellyfinRecord /\ OnePassword

(* Nothing runs and nobody has a password at first.                        *)
LEMMA InitLoginInv == Init => LoginInv
  BY DEF Init, Host!Init, Server!Init, LoginInv, ServerFed, JellyfinRecord, OnePassword, Busy

(* Every step of the stack keeps the one password.                         *)
LEMMA StepLoginInv == ASSUME EnvInv, LoginInv, [Next]_vars PROVE LoginInv'
  <1>. USE DEF LoginInv, ServerFed, JellyfinRecord, OnePassword, Busy, hostVars, serverVars,
               serviceVars, passVars
  <1>. DEFINE HostKeeps == UNCHANGED <<serverVars, loginTouched, running, containers>>
  <1>1. CASE HostStep
    <2>0. HostKeeps
      BY <1>1 DEF HostStep, Host!Up, Host!Load, Host!Complete, Host!BackUp, Host!OpenTemp,
            Host!WriteTemp, Host!Rename, Host!OpenFile, Host!FillFile, Host!Seeded, Host!Dies,
            Host!Rewrite, Host!stackVars
    <2>1. CASE Host!Up \/ Host!Load
      BY <1>1, <2>0, <2>1 DEF Host!Up, Host!Load, Host!fileVars
    <2>2. CASE Host!Complete \/ Host!BackUp \/ Host!OpenTemp \/ Host!WriteTemp
      BY <1>1, <2>0, <2>2 DEF Host!Complete, Host!BackUp, Host!OpenTemp, Host!WriteTemp,
            Host!CreateTemp, Host!fileVars, Host!history
    <2>3. CASE Host!Rename
      <3>1. /\ envFile'.env = cliEnv /\ edited' = edited
            /\ cliPc = "rename" /\ cliPc' \notin Busy
        BY <2>3 DEF Host!Rename, EnvInv, TempReady, Host!Whole, Host!history
      <3>2. ~loginTouched /\ envFile.env.password # 0 => cliEnv.password = envFile.env.password
        BY <3>1 DEF EnvInv, KeepsSecrets
      <3>. QED
        BY <2>0, <3>1, <3>2
    <2>4. CASE Host!OpenFile \/ Host!FillFile \/ Host!Seeded \/ Host!Dies
      BY <1>1, <2>0, <2>4 DEF Host!OpenFile, Host!FillFile, Host!Seeded, Host!Dies,
            Host!Advance, Host!fileVars, Host!history
    <2>5. CASE \E f \in Host!Files : Host!Rewrite(f)
      BY <1>1, <2>0, <2>5 DEF Host!Rewrite, Host!cliVars
    <2>. QED
      BY <1>1, <2>1, <2>2, <2>3, <2>4, <2>5 DEF HostStep
  <1>2. CASE ComposeUp
    <2>1. CASE UNCHANGED <<running, containers>>
      BY <1>2, <2>1 DEF ComposeUp, Host!ComposeUp, Host!fileVars, Host!history
    <2>2. CASE ~UNCHANGED <<running, containers>>
      BY <1>2, <2>2 DEF ComposeUp, Host!ComposeUp, Host!fileVars, Host!stackVars, Host!history,
            Host!Interpolates, Server!ServerStarts
    <2>. QED
      BY <2>1, <2>2
  <1>3. CASE ComposeDown
    BY <1>3 DEF ComposeDown, Host!ComposeDown, Host!fileVars, Host!history, Server!ServerStops
  <1>4. CASE EditEnv
    BY <1>4 DEF EditEnv, Host!EditEnv, Host!stackVars
  <1>5. ASSUME NEW d \in Host!Dirs, RemoveAll(d) PROVE LoginInv'
    <2>1. /\ UNCHANGED <<envFile, running, containers, edited, cfg, wirePc>>
          /\ cliPc' \notin Busy
      BY <1>5 DEF RemoveAll, Host!RemoveAll, Host!stackVars
    <2>2. \/ /\ jellyfin' = [wizard |-> "fresh", password |-> 0]
             /\ loginTouched' = running
          \/ UNCHANGED <<jellyfin, loginTouched>>
      BY <1>5 DEF RemoveAll
    <2>. QED
      BY <2>1, <2>2
  <1>6. CASE WireStep
    <2>1. UNCHANGED <<hostVars, loginTouched>>
      BY <1>6 DEF WireStep
    <2>2. cfg' = cfg
      BY <1>6 DEF WireStep, Server!PassStep, Server!CallFails, Server!OthersLogIn,
            Server!Crash, Server!Quiet, Server!WaitForAPIKeys, Server!PingServices,
            Server!WaitTimesOut, Server!CheckWizard, Server!WizardStep, Server!Login,
            Server!ListLibraries, Server!ListEntries,
            Server!Write, Server!WriteRefused, Server!NextPass
    <2>3. \/ UNCHANGED jellyfin /\ (wirePc' = "complete" => wirePc = "complete")
          \/ Server!WizardCall
      BY <1>6 DEF WireStep, Server!PassStep, Server!CallFails, Server!OthersLogIn,
            Server!Crash, Server!Quiet, Server!WaitForAPIKeys, Server!PingServices,
            Server!WaitTimesOut, Server!CheckWizard, Server!WizardStep, Server!Login,
            Server!ListLibraries, Server!ListEntries,
            Server!Write, Server!WriteRefused, Server!NextPass, Server!serviceVars,
            Server!GoesOn, Server!AfterFailedPass, Server!ServerStops
    <2>4. wirePc # "off"
      BY <1>6 DEF WireStep, Server!PassStep, Server!CallFails, Server!OthersLogIn, Server!Crash,
            Server!WaitForAPIKeys, Server!PingServices, Server!WaitTimesOut, Server!CheckWizard,
            Server!WizardStep, Server!WizardCall, Server!Login, Server!ListLibraries,
            Server!ListEntries, Server!Write, Server!WriteRefused, Server!NextPass
    <2>5. CASE UNCHANGED jellyfin /\ (wirePc' = "complete" => wirePc = "complete")
      BY <2>1, <2>2, <2>4, <2>5
    <2>6. CASE Server!WizardCall
      BY <2>1, <2>2, <2>4, <2>6 DEF Server!WizardCall
    <2>. QED
      BY <2>3, <2>5, <2>6
  <1>7. CASE ServerRestarts
    BY <1>7 DEF ServerRestarts, Server!Start, Server!ServerStarts, Server!serviceVars
  <1>8. CASE UserEdits
    BY <1>8 DEF UserEdits, Server!UserEdits, Server!KeyRenewed, Server!TokenRevoked,
          Server!passVars, Server!serviceVars
  <1>9. ASSUME NEW v \in Services, Boot(v) PROVE LoginInv'
    BY <1>9 DEF Boot, Server!Boot, Server!passVars
  <1>10. ASSUME NEW v \in Server!Values, PasswordChanged(v) PROVE LoginInv'
    BY <1>10 DEF PasswordChanged, Server!PasswordChanged, Server!passVars
  <1>11. CASE UNCHANGED vars
    BY <1>11 DEF vars
  <1>. QED
    BY <1>1, <1>2, <1>3, <1>4, <1>5, <1>6, <1>7, <1>8, <1>9, <1>10, <1>11 DEF Next

(* The login `up` printed and keeps in .env is the one Jellyfin takes.     *)
THEOREM StoredLogin == Spec => []StoredLoginWorks
  <1>1. EnvInv /\ LoginInv /\ [Next]_vars => EnvInv' /\ LoginInv'
    BY HostSteps, StepEnvInv, StepLoginInv
  <1>2. LoginInv => StoredLoginWorks
    BY DEF LoginInv, OnePassword, StoredLoginWorks
  <1>. QED
    BY InitEnvInv, InitLoginInv, <1>1, <1>2, PTL DEF Spec

-----------------------------------------------------------------------------
(* The config files.                                                       *)

(* A file is being filled only where the plan has one.                     *)
Filling == cliPc = "fill" => cliAt \in DOMAIN SeedPlan
HostTyped == Host!TypeOK /\ Filling

(* The file that the command is at is one of the plan's.                   *)
LEMMA FileAt ==
  ASSUME cliAt \in DOMAIN SeedPlan PROVE Host!File \in Host!Files
  BY DEF Host!File, Host!Files

(* Bounds, and the contents that .env can have.                            *)
LEMMA Contents ==
  /\ {MaxSecrets, MaxCount} \subseteq Nat
  /\ Len(SeedPlan) \in Nat /\ DOMAIN SeedPlan = 1 .. Len(SeedPlan)
  /\ Host!Blank \in Host!EnvMap /\ {Host!Absent, Host!Torn} \subseteq Host!EnvFile
  /\ \A m \in Host!EnvMap : Host!Whole(m) \in Host!EnvFile
  /\ \A file \in Host!EnvFile : file.env \in Host!EnvMap
  <1>1. /\ {MaxSecrets, MaxCount} \subseteq Nat
        /\ Len(SeedPlan) \in Nat /\ DOMAIN SeedPlan = 1 .. Len(SeedPlan)
    BY StartupAssumption DEF Host!SetupAssumption
  <1>2. Host!Blank \in Host!EnvMap /\ {Host!Absent, Host!Torn} \subseteq Host!EnvFile
    BY <1>1 DEF Host!Blank, Host!EnvMap, Host!Absent, Host!Torn, Host!EnvFile
  <1>3. \A m \in Host!EnvMap : Host!Whole(m) \in Host!EnvFile
    BY DEF Host!Whole, Host!EnvFile
  <1>4. \A file \in Host!EnvFile : file.env \in Host!EnvMap
    BY DEF Host!EnvFile
  <1>. QED
    BY <1>1, <1>2, <1>3, <1>4

(* The host starts with no files.                                          *)
LEMMA InitHostTyped == Init => HostTyped
  <1>. SUFFICES ASSUME Host!Init PROVE HostTyped
    BY DEF Init
  <1>1. /\ {envFile, temp} \subseteq Host!EnvFile
        /\ containers \in Host!EnvMap /\ cliEnv \in Host!EnvMap
    BY Contents DEF Host!Init
  <1>2. cliAt \in 1 .. Len(SeedPlan) + 1 /\ generated \in 0 .. MaxSecrets
    BY Contents DEF Host!Init
  <1>3. seeds \in [Host!Files -> Host!FileStates]
    BY DEF Host!Init, Host!FileStates
  <1>. QED
    BY <1>1, <1>2, <1>3 DEF Host!Init, HostTyped, Host!TypeOK, Filling

(* Every step of the host keeps its types.                                 *)
LEMMA StepHostTyped == ASSUME HostTyped, [Host!Next]_(Host!vars) PROVE HostTyped'
  <1>. USE DEF HostTyped, Host!TypeOK, Filling, Host!fileVars, Host!stackVars, Host!cliVars,
               Host!history
  <1>0. /\ {MaxSecrets, MaxCount} \subseteq Nat
        /\ Len(SeedPlan) \in Nat /\ DOMAIN SeedPlan = 1 .. Len(SeedPlan)
    BY Contents
  <1>1. Host!Blank \in Host!EnvMap /\ {Host!Absent, Host!Torn} \subseteq Host!EnvFile
    BY Contents
  <1>2. \A m \in Host!EnvMap : Host!Whole(m) \in Host!EnvFile
    BY Contents
  <1>3. \A file \in Host!EnvFile : file.env \in Host!EnvMap
    BY Contents
  <1>4. ASSUME NEW what \in {"commands", "deaths", "touches"}, Host!Uses(what)
        PROVE  hostLeft' \in [{"commands", "deaths", "touches"} -> 0 .. MaxCount]
    BY <1>0, <1>4 DEF Host!Uses
  <1>5. CASE Host!Up
    <2>1. hostLeft' \in [{"commands", "deaths", "touches"} -> 0 .. MaxCount]
      BY <1>4, <1>5 DEF Host!Up
    <2>2. cliPc' \in {"complete", "load"} /\ cliAt' = 1 /\ 1 \in 1 .. Len(SeedPlan) + 1
      BY <1>0, <1>5 DEF Host!Up
    <2>. QED
      BY <1>1, <1>5, <2>1, <2>2 DEF Host!Up
  <1>6. CASE Host!Load
    BY <1>3, <1>6 DEF Host!Load
  <1>7. CASE Host!Complete
    <2>1. CASE Host!ToFill(cliEnv) = {}
      BY <1>7, <2>1 DEF Host!Complete
    <2>2. CASE Host!ToFill(cliEnv) # {}
      <3>1. generated' \in 0 .. MaxSecrets /\ generated' = generated + 1
        BY <1>0, <1>7, <2>2 DEF Host!Complete
      <3>2. cliEnv' \in Host!EnvMap
        BY <1>7, <2>2, <3>1 DEF Host!Complete, Host!EnvMap
      <3>. QED
        BY <1>7, <2>2, <3>1, <3>2 DEF Host!Complete
    <2>. QED
      BY <2>1, <2>2
  <1>8. CASE Host!BackUp \/ Host!Seeded
    BY <1>8 DEF Host!BackUp, Host!Seeded
  <1>9. CASE Host!OpenTemp
    BY <1>1, <1>9 DEF Host!OpenTemp, Host!CreateTemp
  <1>10. CASE Host!WriteTemp
    BY <1>2, <1>10 DEF Host!WriteTemp
  <1>11. CASE Host!Rename
    BY <1>1, <1>11 DEF Host!Rename
  <1>12. CASE Host!OpenFile
    <2>1. cliAt \in DOMAIN SeedPlan
      BY <1>0, <1>12 DEF Host!OpenFile
    <2>2. CASE Host!NeedsWrite
      BY <1>12, <2>1, <2>2, FileAt DEF Host!OpenFile, Host!FileStates
    <2>3. CASE ~Host!NeedsWrite
      BY <1>0, <1>12, <2>1, <2>3 DEF Host!OpenFile, Host!Advance
    <2>. QED
      BY <2>2, <2>3
  <1>13. CASE Host!FillFile
    BY <1>0, <1>13, FileAt DEF Host!FillFile, Host!Advance, Host!FileStates
  <1>14. CASE Host!ComposeUp
    BY <1>3, <1>14 DEF Host!ComposeUp
  <1>15. CASE Host!Dies
    BY <1>0, <1>1, <1>4, <1>15, FileAt DEF Host!Dies
  <1>16. CASE Host!ComposeDown
    BY <1>4, <1>16 DEF Host!ComposeDown
  <1>17. ASSUME NEW d \in Host!Dirs, Host!RemoveAll(d) PROVE HostTyped'
    BY <1>17 DEF Host!RemoveAll, Host!FileStates
  <1>18. CASE Host!EditEnv
    <2>1. \A k \in {"password", "secret"} :
             Host!Whole([envFile.env EXCEPT ![k] = 0]) \in Host!EnvFile
      <3>1. ASSUME NEW k \in {"password", "secret"}
            PROVE  [envFile.env EXCEPT ![k] = 0] \in Host!EnvMap
        <4>1. envFile.env \in [{"password", "secret"} -> 0 .. MaxSecrets]
          BY <1>3 DEF Host!EnvMap
        <4>2. 0 \in 0 .. MaxSecrets
          BY <1>0
        <4>. QED
          BY <4>1, <4>2 DEF Host!EnvMap
      <3>. QED
        BY <1>2, <3>1
    <2>. QED
      BY <1>1, <1>4, <1>18, <2>1 DEF Host!EditEnv
  <1>19. ASSUME NEW f \in Host!Files, Host!Rewrite(f) PROVE HostTyped'
    BY <1>4, <1>19 DEF Host!Rewrite, Host!FileStates
  <1>20. CASE UNCHANGED Host!vars
    BY <1>20 DEF Host!vars
  <1>. QED
    BY <1>5, <1>6, <1>7, <1>8, <1>9, <1>10, <1>11, <1>12, <1>13, <1>14, <1>15, <1>16, <1>17,
       <1>18, <1>19, <1>20 DEF Host!Next, Host!UpStep

(* Where the command is: in front of the plan until .env is complete, and  *)
(* behind it when it calls docker compose.                                 *)
FirstSteps == {"load", "complete", "backup", "temp", "write", "rename"}
Place ==
    /\ cliPc \in FirstSteps => cliAt = 1
    /\ cliPc = "compose" => cliAt = Len(SeedPlan) + 1

(* A file is torn while its own write goes on, or after one was cut short. *)
TornOnlyThere ==
    \A f \in Host!Files \ cutShort :
        seeds[f] = "torn" => cliPc = "fill" /\ Host!File = f

(* What the steps of the plan so far have seen to, unless a service has    *)
(* written the file since.                                                 *)
Treated(i, f) ==
    /\ SeedPlan[i] = <<"seed", f>> => seeds[f] # "absent"
    /\ SeedPlan[i] = <<"enforce", f>> => seeds[f] # "drifted"
SeenTo ==
    cliPc \in {"seed", "fill", "compose"} =>
        \A f \in Host!Files \ rewritten : \A i \in DOMAIN SeedPlan : i < cliAt => Treated(i, f)

SeedInv == Place /\ TornOnlyThere /\ SeenTo

(* No file is there at first, and none is torn.                            *)
LEMMA InitSeedInv == Init => SeedInv
  BY DEF Init, Host!Init, SeedInv, Place, TornOnlyThere, SeenTo, FirstSteps

(* A file is torn only by its own write, and the plan is worked off in     *)
(* order.                                                                  *)
LEMMA StepSeedInv == ASSUME HostTyped, SeedInv, [Host!Next]_(Host!vars) PROVE SeedInv'
  <1>. USE DEF SeedInv, Place, TornOnlyThere, SeenTo, Treated, FirstSteps, Host!File,
               Host!fileVars, Host!stackVars, Host!cliVars, Host!history
  <1>0. /\ Len(SeedPlan) \in Nat /\ DOMAIN SeedPlan = 1 .. Len(SeedPlan)
        /\ cliAt \in 1 .. Len(SeedPlan) + 1
        /\ seeds \in [Host!Files -> Host!FileStates]
    BY Contents DEF HostTyped, Host!TypeOK
  <1>1. CASE Host!Up
    BY <1>1 DEF Host!Up
  <1>2. CASE Host!Load
    BY <1>2 DEF Host!Load
  <1>3. CASE Host!Complete
    BY <1>0, <1>3 DEF Host!Complete
  <1>4. CASE Host!BackUp \/ Host!OpenTemp \/ Host!WriteTemp
    BY <1>4 DEF Host!BackUp, Host!OpenTemp, Host!CreateTemp, Host!WriteTemp
  <1>5. CASE Host!Rename
    BY <1>0, <1>5 DEF Host!Rename
  <1>6. CASE Host!OpenFile
    <2>. USE <1>0, <1>6 DEF Host!OpenFile
    <2>1. CASE Host!NeedsWrite
      BY <2>1, FileAt DEF Host!NeedsWrite
    <2>2. CASE ~Host!NeedsWrite
      BY <2>2, FileAt DEF Host!NeedsWrite, Host!Advance
    <2>. QED
      BY <2>1, <2>2
  <1>7. CASE Host!FillFile
    BY <1>0, <1>7, FileAt DEF Host!FillFile, Host!Advance, HostTyped, Filling
  <1>8. CASE Host!Seeded \/ Host!ComposeUp \/ Host!Dies
    BY <1>0, <1>8 DEF Host!Seeded, Host!ComposeUp, Host!Dies
  <1>9. CASE Host!ComposeDown
    BY <1>9 DEF Host!ComposeDown
  <1>10. ASSUME NEW d \in Host!Dirs, Host!RemoveAll(d) PROVE SeedInv'
    BY <1>0, <1>10 DEF Host!RemoveAll
  <1>11. CASE Host!EditEnv
    BY <1>11 DEF Host!EditEnv
  <1>12. ASSUME NEW f \in Host!Files, Host!Rewrite(f) PROVE SeedInv'
    BY <1>0, <1>12 DEF Host!Rewrite
  <1>13. CASE UNCHANGED Host!vars
    BY <1>13 DEF Host!vars
  <1>. QED
    BY <1>1, <1>2, <1>3, <1>4, <1>5, <1>6, <1>7, <1>8, <1>9, <1>10, <1>11, <1>12, <1>13
       DEF Host!Next, Host!UpStep

(* Behind the plan, every file is there, and an enforced one is ours.      *)
LEMMA AllTreated ==
  ASSUME HostTyped, SeedInv, cliPc = "compose"
  PROVE  \A f \in Host!Files \ (cutShort \cup rewritten) :
             seeds[f] = "ours" \/ (seeds[f] = "drifted" /\ ~Host!Enforced(f))
  <1>. TAKE f \in Host!Files \ (cutShort \cup rewritten)
  <1>1. \A i \in DOMAIN SeedPlan : Treated(i, f)
    BY Contents DEF SeedInv, Place, SeenTo
  <1>2. seeds[f] # "absent"
    <2>1. PICK i \in DOMAIN SeedPlan : SeedPlan[i] = <<"seed", f>>
      BY StartupAssumption DEF Host!SetupAssumption
    <2>. QED
      BY <1>1, <2>1 DEF Treated
  <1>3. seeds[f] # "torn"
    BY DEF SeedInv, TornOnlyThere
  <1>4. Host!Enforced(f) => seeds[f] # "drifted"
    BY <1>1 DEF Treated, Host!Enforced
  <1>. QED
    BY <1>2, <1>3, <1>4 DEF HostTyped, Host!TypeOK, Host!FileStates

(* `up` starts the containers with every config file in place, however     *)
(* many earlier commands were cut short.                                   *)
THEOREM FilesAreSeeded == Spec => StartsSeeded
  <1>1. HostTyped /\ SeedInv /\ [Next]_vars => HostTyped' /\ SeedInv'
    BY HostSteps, StepHostTyped, StepSeedInv
  <1>2. HostTyped /\ SeedInv /\ [Next]_vars =>
            [cliPc = "compose" /\ UNCHANGED hostLeft /\ cliPc' = "idle" =>
                \A f \in Host!Files \ (cutShort \cup rewritten) :
                    seeds[f] = "ours" \/ (seeds[f] = "drifted" /\ ~Host!Enforced(f))]_(Host!vars)
    BY AllTreated
  <1>. QED
    BY InitHostTyped, InitSeedInv, <1>1, <1>2, PTL DEF Spec, StartsSeeded, Host!StartsSeeded
=============================================================================
