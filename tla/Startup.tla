------------------------------ MODULE Startup -------------------------------
(***************************************************************************)
(* A stack from `pelicula up` to "wired": the host's .env and config files *)
(* (Setup), the containers docker compose makes of them, and the server    *)
(* that wires the services in them (Autowire).  The admin password and the *)
(* webhook secret travel from .env through the server's environment into   *)
(* Jellyfin and the *arr apps; reset-config takes a service's data away.   *)
(***************************************************************************)
EXTENDS Naturals, Sequences, FiniteSets

CONSTANTS SeedPlan, DirOf, MaxSecrets, MaxCount,
          Plan, Services, MaxEntries, MaxMishaps

VARIABLES
    envFile, temp, seeds, running, containers,
    cliPc, cliEnv, cliAt, doomed, generated, edited, rewritten, cutShort, hostLeft,
    entries, lastId, arrKey, jellyfin, booted, cfg, wired, wirePc, at, key,
    pending, listed, failed, token, tampered, settled, serverLeft,
    loginTouched    \* history: the login was changed by hand, in .env or Jellyfin,
                    \* or Jellyfin's data were deleted while it was running

Host == INSTANCE Setup WITH Secrets <- {"password", "secret"}
Server == INSTANCE Autowire WITH MaxValue <- MaxSecrets

ASSUME StartupAssumption == Host!SetupAssumption /\ Server!AutowireAssumption

hostVars == <<envFile, temp, seeds, running, containers,
              cliPc, cliEnv, cliAt, doomed, generated, edited, rewritten, cutShort, hostLeft>>
serviceVars == <<entries, lastId, arrKey, jellyfin, booted>>
passVars == <<wired, wirePc, at, key, pending, listed, failed, token>>
serverVars == <<serviceVars, cfg, passVars, tampered, settled, serverLeft>>
vars == <<hostVars, serverVars, loginTouched>>

TypeOK ==
    /\ Host!TypeOK
    /\ Server!TypeOK
    /\ loginTouched \in BOOLEAN

Init ==
    /\ Host!Init
    /\ Server!Init
    /\ loginTouched = FALSE

-----------------------------------------------------------------------------
(* The command and the server's container.                                 *)

HostStep ==
    /\ \/ Host!Up \/ Host!Load \/ Host!Complete
       \/ Host!BackUp \/ Host!OpenTemp \/ Host!WriteTemp \/ Host!Rename
       \/ Host!OpenFile \/ Host!FillFile \/ Host!Seeded
       \/ Host!Dies
       \/ \E f \in Host!Files : Host!Rewrite(f)
    /\ UNCHANGED <<serverVars, loginTouched>>

(* docker compose recreates the server when its environment has changed.   *)
ComposeUp ==
    /\ Host!ComposeUp
    /\ IF UNCHANGED <<running, containers>>
       THEN UNCHANGED serverVars
       ELSE /\ Server!ServerStarts(containers')
            /\ UNCHANGED <<serviceVars, tampered, serverLeft>>
    /\ UNCHANGED loginTouched

ComposeDown ==
    /\ Host!ComposeDown
    /\ IF running /\ ~running'
       THEN /\ Server!ServerStops
            /\ booted' = {}
            /\ UNCHANGED <<entries, lastId, arrKey, jellyfin, cfg, tampered, settled, serverLeft>>
       ELSE UNCHANGED serverVars
    /\ UNCHANGED loginTouched

(* Where each wiring's entries are kept: an application is Prowlarr's.     *)
KeptIn(s) == CASE Plan[s] = "library"     -> "jellyfin"
               [] Plan[s] = "application" -> "prowlarr"
               [] OTHER                   -> "sonarr"

(* A service whose directory is gone starts from nothing.                  *)
RemoveAll(d) ==
    /\ Host!RemoveAll(d)
    /\ entries' = [s \in Server!Wirings |-> IF KeptIn(s) = d THEN {} ELSE entries[s]]
    /\ lastId' = [s \in Server!Wirings |-> IF KeptIn(s) = d THEN 0 ELSE lastId[s]]
    /\ IF d = "jellyfin"
       THEN /\ jellyfin' = [wizard |-> "fresh", password |-> 0]
            /\ token' = Server!Forgotten
            /\ loginTouched' = running
       ELSE UNCHANGED <<jellyfin, token, loginTouched>>
    /\ IF d = "sonarr"
       THEN arrKey < MaxSecrets /\ arrKey' = arrKey + 1
       ELSE UNCHANGED arrKey
    /\ tampered' = TRUE
    /\ UNCHANGED <<booted, cfg, wired, wirePc, at, key, pending, listed, failed,
                   settled, serverLeft>>

EditEnv ==
    /\ Host!EditEnv
    /\ loginTouched' = TRUE
    /\ UNCHANGED serverVars

-----------------------------------------------------------------------------
(* The containers, which are there while the stack is up.                  *)

WireStep ==
    /\ Server!PassStep \/ Server!CallFails \/ Server!OthersLogIn \/ Server!Crash
    /\ UNCHANGED <<hostVars, loginTouched>>

(* restart: unless-stopped.                                                *)
ServerRestarts ==
    /\ running
    /\ Server!Start(containers)
    /\ UNCHANGED <<hostVars, loginTouched>>

Boot(v) ==
    /\ running
    /\ Server!Boot(v)
    /\ UNCHANGED <<hostVars, loginTouched>>

UserEdits ==
    /\ running
    /\ \/ \E s \in Server!Wirings : Server!UserEdits(s)
       \/ Server!KeyRenewed \/ Server!TokenRevoked
    /\ UNCHANGED <<hostVars, loginTouched>>

PasswordChanged(v) ==
    /\ running
    /\ Server!PasswordChanged(v)
    /\ loginTouched' = TRUE
    /\ UNCHANGED hostVars

Next ==
    \/ HostStep \/ ComposeUp \/ ComposeDown \/ EditEnv
    \/ \E d \in Host!Dirs : RemoveAll(d)
    \/ WireStep \/ ServerRestarts \/ UserEdits
    \/ \E v \in Services : Boot(v)
    \/ \E v \in Server!Values : PasswordChanged(v)

Spec == Init /\ [][Next]_vars

(* As in Autowire; nobody has to run the command.                          *)
Fairness ==
    /\ WF_vars(Server!PassStep /\ WireStep)
    /\ WF_vars(ServerRestarts)
    /\ \A v \in Services : WF_vars(Boot(v))
FairSpec == Spec /\ Fairness

-----------------------------------------------------------------------------
(* Properties.                                                             *)

(* The password that `up` printed and keeps in .env is the one Jellyfin's  *)
(* wizard was given, however often the command died, was run again or a    *)
(* service was reset, unless the user changed either.                      *)
StoredLoginWorks ==
    jellyfin.wizard = "done" /\ ~loginTouched => jellyfin.password = envFile.env.password

(* What holds of each part holds of the stack; a pass may meet services    *)
(* that were reset, and a command a server in the middle of a pass.        *)
EnvWhole == Host!EnvWhole
SecretsStay == Host!SecretsStay
StartsSeeded == Host!StartsSeeded
WiredIsWired == Server!WiredIsWired
AddedOnce == Server!AddedOnce
SettledIsLeftAlone == Server!SettledIsLeftAlone
UsersSettingsKept == Server!UsersSettingsKept

(* A stack that stays up, with a login that works, is wired in the end,    *)
(* unless the server is left with an admin token that Jellyfin forgot: it  *)
(* goes on presenting that one until it restarts.                          *)
EventuallyWired ==
    <>[](/\ running
         /\ jellyfin.wizard = "done" => Server!LoginWorks
         /\ token # "dead") => <>[]wired
=============================================================================
