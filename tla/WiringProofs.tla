---------------------------- MODULE WiringProofs -----------------------------
(***************************************************************************)
(* What autowire leaves in the services, for every plan of wirings and     *)
(* every number of users' edits, failed calls, crashes, resets and         *)
(* restarts around it.                                                     *)
(***************************************************************************)
EXTENDS StartupProofs, FiniteSetTheorems, WellFoundedInduction

-----------------------------------------------------------------------------
(* The operators of the model.                                             *)

(* A list of entries has a first one.                                      *)
LEMMA FirstIsLeast ==
  ASSUME NEW es, es # {}, \A e \in es : e.id \in Nat
  PROVE  /\ Server!First(es) \in es
         /\ \A f \in es : Server!First(es).id <= f.id
  <1>. DEFINE Less == {p \in Nat \X Nat : p[1] < p[2]}
  <1>1. IsWellFoundedOn(Less, Nat)
    BY NatLessThanWellFounded DEF OpToRel
  <1>2. PICK m \in {e.id : e \in es} : \A n \in {e.id : e \in es} : ~(<<n, m>> \in Less)
    <2>1. {e.id : e \in es} \subseteq Nat /\ {e.id : e \in es} # {}
      OBVIOUS
    <2>. HIDE DEF Less
    <2>. QED
      BY <1>1, <2>1, WFMin
  <1>3. PICK e \in es : e.id = m
    OBVIOUS
  <1>4. \A f \in es : e.id <= f.id
    <2>. TAKE f \in es
    <2>1. <<f.id, m>> \notin Less /\ f.id \in Nat /\ m \in Nat
      BY <1>2, <1>3
    <2>2. ~(f.id < m)
      BY <2>1
    <2>. QED
      BY <1>3, <2>1, <2>2
  <1>5. \E x \in es : \A f \in es : x.id <= f.id
    BY <1>4
  <1>. QED
    BY <1>5 DEF Server!First

(* The first entry is the only one with the least id.                      *)
LEMMA FirstIsOnly ==
  ASSUME NEW es, NEW e \in es, \A f \in es : f.id \in Nat,
         \A f \in es : f # e => e.id < f.id
  PROVE  Server!First(es) = e
  BY FirstIsLeast

(* The counting of Autowire is that of FiniteSets.                         *)
LEMMA SameCount == ASSUME NEW S PROVE Server!Cardinality(S) = Cardinality(S)
  BY DEF Server!Cardinality, Cardinality

(* The libraries come first.                                               *)
LEMMA Libraries ==
  /\ Server!FirstAfterLibraries \in 1 .. Len(Plan) + 1
  /\ \A s \in Server!Wirings : s >= Server!FirstAfterLibraries => Plan[s] # "library"
  <1>. DEFINE Libs == {s \in Server!Wirings : Plan[s] = "library"}
  <1>1. /\ Len(Plan) \in Nat /\ Server!Wirings = 1 .. Len(Plan)
        /\ \A s, t \in Server!Wirings : s < t /\ Plan[t] = "library" => Plan[s] = "library"
    BY StartupAssumption DEF Server!AutowireAssumption, Server!Wirings
  <1>2. IsFiniteSet(1 .. Len(Plan)) /\ Cardinality(1 .. Len(Plan)) = Len(Plan)
    BY <1>1, FS_Interval
  <1>3. /\ IsFiniteSet(Libs) /\ Cardinality(Libs) \in Nat /\ Cardinality(Libs) <= Len(Plan)
    <2>1. Libs \in SUBSET (1 .. Len(Plan))
      BY <1>1
    <2>. QED
      BY <1>2, <2>1, FS_Subset, FS_CardinalityType
  <1>4. \A s \in Server!Wirings : Plan[s] = "library" => s <= Cardinality(Libs)
    <2>. SUFFICES ASSUME NEW s \in 1 .. Len(Plan), Plan[s] = "library"
                  PROVE  s <= Cardinality(Libs)
      BY <1>1
    <2>1. ASSUME NEW t \in 1 .. s PROVE t \in Libs
      <3>1. t \in Server!Wirings /\ (t = s \/ t < s)
        BY <1>1
      <3>. QED
        BY <1>1, <3>1
    <2>2. s \in Nat /\ 1 .. s \subseteq Libs
      BY <1>1, <2>1
    <2>3. IsFiniteSet(1 .. s) /\ Cardinality(1 .. s) = s
      <3>. QED
        BY <2>2, FS_Interval, 1 \in Int
    <2>. HIDE DEF Libs
    <2>. QED
      BY <1>3, <2>2, <2>3, FS_Subset
  <1>5. Server!FirstAfterLibraries = Cardinality(Libs) + 1
    BY SameCount DEF Server!FirstAfterLibraries
  <1>. HIDE DEF Libs
  <1>. QED
    BY <1>1, <1>3, <1>4, <1>5

(* On to the next wiring, or out of Run.                                   *)
LEMMA Goes ==
  ASSUME Server!TypeOK, NEW next \in 1 .. Len(Plan) + 1, NEW err \in BOOLEAN,
         Server!GoesOn(next, err)
  PROVE  /\ at' = next
         /\ failed' = (failed \/ err) /\ failed' \in BOOLEAN
         /\ \/ next <= Len(Plan) /\ Plan[next] = "library" /\ wirePc' = "write" /\ wired' = wired
            \/ next <= Len(Plan) /\ Plan[next] # "library" /\ wirePc' = "list" /\ wired' = wired
            \/ next = Len(Plan) + 1 /\ failed' /\ wirePc' = "sleep" /\ wired' = FALSE
            \/ next = Len(Plan) + 1 /\ ~failed' /\ wirePc' = "returned" /\ wired' = TRUE
  <1>1. Len(Plan) \in Nat
    BY StartupAssumption DEF Server!AutowireAssumption
  <1>2. failed' = (failed \/ err) /\ failed' \in BOOLEAN
    BY DEF Server!GoesOn, Server!Noted, Server!TypeOK
  <1>3. CASE next <= Len(Plan)
    BY <1>2, <1>3 DEF Server!GoesOn
  <1>4. CASE ~(next <= Len(Plan))
    <2>1. next = Len(Plan) + 1
      BY <1>1, <1>4
    <2>2. /\ wirePc' = IF failed \/ err THEN "sleep" ELSE "returned"
          /\ wired' = ~(failed \/ err)
          /\ at' = next
      BY <1>4 DEF Server!GoesOn, Server!Noted, Server!AfterFailedPass
    <2>. HIDE <1>4
    <2>. QED
      BY <1>2, <2>1, <2>2, Zenon
  <1>. QED
    BY <1>3, <1>4

-----------------------------------------------------------------------------
(* What a step of the stack is to the server and the services.             *)

(* At most the admin token is another one, or known to be no good.         *)
Tokens == {"none", "live", "dead"}
Unmoved ==
    /\ UNCHANGED <<entries, lastId, arrKey, jellyfin, booted, cfg, wired, wirePc, at, key,
                   pending, listed, failed, tampered, settled>>
    /\ token' \in Tokens
    /\ serverLeft' = serverLeft \/ Server!Uses("edits")
Starts ==
    /\ running' /\ cfg' = containers'
    /\ Server!ServerStarts(containers')
    /\ UNCHANGED <<entries, lastId, arrKey, jellyfin, booted, tampered, serverLeft>>
Stops ==
    /\ Server!ServerStops
    /\ UNCHANGED <<entries, lastId, arrKey, jellyfin, cfg, tampered, settled>>
    /\ booted' \subseteq booted
    /\ serverLeft' = serverLeft \/ Server!Uses("crashes")
Resets ==
    /\ \A s \in Server!Wirings :
           (entries'[s] = {} /\ lastId'[s] = 0) \/ (entries'[s] = entries[s] /\ lastId'[s] = lastId[s])
    /\ entries' = [s \in Server!Wirings |-> entries'[s]]
    /\ lastId' = [s \in Server!Wirings |-> lastId'[s]]
    /\ jellyfin' \in {jellyfin, [wizard |-> "fresh", password |-> 0]}
    /\ arrKey' = arrKey \/ (arrKey < MaxSecrets /\ arrKey' = arrKey + 1)
    /\ tampered' = TRUE
    /\ token' \in Tokens
    /\ UNCHANGED <<booted, cfg, wired, wirePc, at, key, pending, listed, failed, settled,
                   serverLeft>>

(* The host's commands, and those who use or reset a service, touch the    *)
(* server in these few ways.                                               *)
LEMMA ServerSteps ==
  ASSUME Server!TypeOK, [Next]_vars
  PROVE  \/ Unmoved
         \/ Server!PassStep
         \/ Server!CallFails
         \/ Starts
         \/ Stops
         \/ Resets
         \/ \E s \in Server!Wirings : Server!UserEdits(s)
         \/ Server!KeyRenewed
         \/ \E v \in Server!Values : Server!PasswordChanged(v)
         \/ \E v \in Services : Server!Boot(v)
  <1>1. CASE HostStep \/ EditEnv \/ UNCHANGED vars
    BY <1>1 DEF HostStep, EditEnv, vars, serverVars, serviceVars, passVars, Unmoved, Tokens,
          Server!TypeOK
  <1>2. CASE ComposeUp
    <2>1. CASE UNCHANGED <<running, containers>>
      BY <1>2, <2>1 DEF ComposeUp, serverVars, serviceVars, passVars, Unmoved, Tokens,
            Server!TypeOK
    <2>2. CASE ~UNCHANGED <<running, containers>>
      <3>1. running'
        BY <1>2, <2>2 DEF ComposeUp, Host!ComposeUp, Host!stackVars
      <3>. QED
        BY <1>2, <2>2, <3>1 DEF ComposeUp, Starts, Server!ServerStarts, serviceVars
    <2>. QED
      BY <2>1, <2>2
  <1>3. CASE ComposeDown
    BY <1>3 DEF ComposeDown, Stops, serverVars, serviceVars, passVars, Unmoved, Tokens,
          Server!TypeOK
  <1>4. ASSUME NEW d \in Host!Dirs, RemoveAll(d) PROVE Resets
    <2>1. /\ entries' = [s \in Server!Wirings |-> entries'[s]]
          /\ lastId' = [s \in Server!Wirings |-> lastId'[s]]
          /\ \A s \in Server!Wirings :
                \/ entries'[s] = {} /\ lastId'[s] = 0
                \/ entries'[s] = entries[s] /\ lastId'[s] = lastId[s]
      BY <1>4 DEF RemoveAll
    <2>2. /\ jellyfin' \in {jellyfin, [wizard |-> "fresh", password |-> 0]}
          /\ arrKey' = arrKey \/ (arrKey < MaxSecrets /\ arrKey' = arrKey + 1)
          /\ tampered' = TRUE
          /\ UNCHANGED <<booted, cfg, wired, wirePc, at, key, pending, listed, failed, settled,
                         serverLeft>>
      BY <1>4 DEF RemoveAll
    <2>3. token' \in Tokens
      BY <1>4 DEF RemoveAll, Server!Forgotten, Server!TypeOK, Tokens
    <2>. QED
      BY <2>1, <2>2, <2>3 DEF Resets
  <1>5. CASE WireStep
    BY <1>5 DEF WireStep, Stops, Server!Crash, Server!OthersLogIn, Server!Quiet,
          Server!Cached, Server!serviceVars, Unmoved, Tokens
  <1>6. CASE ServerRestarts
    BY <1>6 DEF ServerRestarts, Starts, Server!Start, Server!ServerStarts, Server!serviceVars,
          hostVars
  <1>7. CASE UserEdits
    BY <1>7 DEF UserEdits, Server!TokenRevoked, Server!Forgotten, Server!serviceVars, Unmoved,
          Tokens
  <1>8. CASE \E v \in Services : Boot(v)
    BY <1>8 DEF Boot
  <1>9. CASE \E v \in Server!Values : PasswordChanged(v)
    BY <1>9 DEF PasswordChanged
  <1>. QED
    BY <1>1, <1>2, <1>3, <1>4, <1>5, <1>6, <1>7, <1>8, <1>9 DEF Next

-----------------------------------------------------------------------------
(* Types.                                                                  *)

(* A pass lists and writes at a wiring, and does not list libraries here.  *)
At ==
    /\ wirePc \in {"list", "write"} => at \in Server!Wirings
    /\ wirePc = "list" => Plan[at] # "library"

(* Containers that are up have a password and a secret.                    *)
RunningFed == running => \A k \in {"password", "secret"} : containers[k] # 0

ServerTyped == Server!TypeOK /\ At

(* What the assumptions say of the plan and the bounds.                    *)
LEMMA Bounds ==
  /\ MaxSecrets \in Nat \ {0} /\ MaxEntries \in Nat /\ MaxMishaps \in Nat
  /\ Len(Plan) \in Nat /\ Server!Wirings = 1 .. Len(Plan)
  /\ \A s \in Server!Wirings : Plan[s] \in Server!Kinds
  /\ \A s, t \in Server!Wirings : s < t /\ Plan[t] = "library" => Plan[s] = "library"
  /\ 1 \in 1 .. Len(Plan) + 1 /\ \A s \in Server!Wirings : s + 1 \in 1 .. Len(Plan) + 1
  <1>1. /\ MaxSecrets \in Nat \ {0} /\ MaxEntries \in Nat /\ MaxMishaps \in Nat
        /\ Len(Plan) \in Nat /\ Server!Wirings = 1 .. Len(Plan)
        /\ \A s \in Server!Wirings : Plan[s] \in Server!Kinds
        /\ \A s, t \in Server!Wirings : s < t /\ Plan[t] = "library" => Plan[s] = "library"
    BY StartupAssumption DEF Server!AutowireAssumption, Server!Wirings
  <1>2. /\ 1 \in 1 .. Len(Plan) + 1
        /\ \A s \in Server!Wirings : s + 1 \in 1 .. Len(Plan) + 1
    BY <1>1
  <1>. QED
    BY <1>1, <1>2

(* Containers that are up make an environment for the server.              *)
LEMMA FedConfig ==
  ASSUME NEW c \in Host!EnvMap, \A k \in {"password", "secret"} : c[k] # 0
  PROVE  c \in Server!Config
  <1>1. /\ c = [password |-> c.password, secret |-> c.secret]
        /\ c.password \in 1 .. MaxSecrets /\ c.secret \in 1 .. MaxSecrets
    BY Bounds DEF Host!EnvMap
  <1>. QED
    BY <1>1 DEF Server!Config, Server!Values

(* docker compose starts nothing from a blank password or secret.          *)
LEMMA StepRunningFed ==
  ASSUME HostTyped, RunningFed, [Host!Next]_(Host!vars) PROVE RunningFed'
  <1>1. \/ UNCHANGED <<running, containers>>
        \/ containers' = containers /\ running' = FALSE
        \/ Host!Interpolates(envFile) /\ running' = TRUE /\ containers' = envFile.env
    BY DEF Host!Next, Host!UpStep, Host!Up, Host!Load, Host!Complete, Host!BackUp,
       Host!OpenTemp, Host!WriteTemp, Host!Rename, Host!OpenFile, Host!FillFile, Host!Seeded,
       Host!ComposeUp, Host!Dies, Host!ComposeDown, Host!RemoveAll, Host!EditEnv, Host!Rewrite,
       Host!stackVars, Host!vars
  <1>. QED
    BY <1>1 DEF RunningFed, Host!Interpolates

(* The server is off and the services are empty at first.                  *)
LEMMA InitServerTyped == Init => ServerTyped /\ RunningFed
  <1>. SUFFICES ASSUME Init PROVE ServerTyped /\ RunningFed
    OBVIOUS
  <1>1. RunningFed
    BY DEF Init, Host!Init, RunningFed
  <1>2. /\ entries \in [Server!Wirings -> SUBSET Server!Entry]
        /\ listed \in [Server!Wirings -> SUBSET Server!Entry]
    BY DEF Init, Server!Init, Server!NothingListed
  <1>3. /\ lastId \in [Server!Wirings -> 0 .. MaxEntries]
        /\ arrKey \in Server!Values /\ at \in 1 .. Len(Plan) + 1 /\ key \in 0 .. MaxSecrets
    BY Bounds DEF Init, Server!Init, Server!Values
  <1>4. /\ jellyfin \in [wizard : {"fresh", "named", "done"}, password : 0 .. MaxSecrets]
        /\ cfg \in Server!Config
    BY Bounds DEF Init, Server!Init, Server!Values, Server!Config
  <1>. QED
    BY <1>1, <1>2, <1>3, <1>4 DEF Init, Server!Init, ServerTyped, At, Server!TypeOK

(* An entry is added where none is listed, and the first one listed is     *)
(* updated where its value is compared and differs.                        *)
Compared == {"client", "webhook", "application"}
LEMMA Decisions ==
  ASSUME NEW s \in Server!Wirings
  PROVE  /\ Server!Decision(s) \in {"add", "update", "keep"}
         /\ Server!Decision(s) = "add" <=> listed[s] = {}
         /\ Server!Decision(s) = "update" <=>
                /\ listed[s] # {} /\ Plan[s] \in Compared
                /\ Server!First(listed[s]).value # Server!Want(s)
  <1>1. CASE Plan[s] \in {"library", "folder"}
    BY <1>1 DEF Server!Decision, Server!EnsureLibrary, Server!EnsureRootFolder, Compared
  <1>2. CASE Plan[s] \in Compared
    <2>1. Server!Decision(s) = Server!Reconcile(s)
      BY <1>2 DEF Server!Decision, Server!ReconcileClient, Server!ReconcileWebhook,
            Server!ReconcileApplication, Compared
    <2>. QED
      BY <1>2, <2>1 DEF Server!Reconcile
  <1>. QED
    BY <1>1, <1>2, Bounds DEF Server!Kinds, Compared

(* What a wiring writes is an entry of its list.                           *)
LEMMA WrittenTyped ==
  ASSUME Server!TypeOK, at \in Server!Wirings, Server!Written(at)
  PROVE  /\ entries' \in [Server!Wirings -> SUBSET Server!Entry]
         /\ lastId' \in [Server!Wirings -> 0 .. MaxEntries]
  <1>1. Server!Want(at) \in 0 .. MaxSecrets
    BY Bounds DEF Server!Want, Server!TypeOK, Server!Config, Server!Values
  <1>2. CASE Server!Added(at)
    <2>1. lastId[at] + 1 \in 1 .. MaxEntries /\ lastId[at] + 1 \in 0 .. MaxEntries
      <3>1. lastId[at] \in 0 .. MaxEntries
        BY DEF Server!TypeOK
      <3>2. lastId[at] < MaxEntries
        BY <1>2 DEF Server!Added
      <3>. QED
        BY <3>1, <3>2, Bounds
    <2>2. [id |-> lastId[at] + 1, value |-> Server!Want(at), extra |-> FALSE, ours |-> TRUE]
             \in Server!Entry
      BY <1>1, <2>1 DEF Server!Entry
    <2>. QED
      BY <1>2, <2>1, <2>2 DEF Server!Added, Server!TypeOK
  <1>3. CASE Server!Decision(at) = "update" /\ Server!Updated(at)
    <2>. DEFINE e == Server!First(listed[at])
    <2>1. listed[at] # {} /\ listed[at] \subseteq Server!Entry
      BY <1>3, Decisions DEF Server!TypeOK
    <2>2. e \in Server!Entry
      <3>1. \A f \in listed[at] : f.id \in Nat
        BY <2>1, Bounds DEF Server!Entry
      <3>. QED
        BY <2>1, <3>1, FirstIsLeast
    <2>3. Server!PutBack(e, at) \in Server!Entry
      BY <1>1, <2>2 DEF Server!PutBack, Server!Entry
    <2>. QED
      BY <1>3, <2>3 DEF Server!Updated, Server!TypeOK
  <1>. QED
    BY <1>2, <1>3 DEF Server!Written

(* Where GoesOn leads is a place of a pass.                                *)
LEMMA GoesTyped ==
  ASSUME Server!TypeOK, NEW next \in 1 .. Len(Plan) + 1, NEW err \in BOOLEAN,
         Server!GoesOn(next, err)
  PROVE  /\ wirePc' \in {"list", "write", "sleep", "returned"}
         /\ at' \in 1 .. Len(Plan) + 1 /\ failed' \in BOOLEAN /\ wired' \in BOOLEAN
         /\ At'
  <1>1. wired \in BOOLEAN
    BY DEF Server!TypeOK
  <1>2. next <= Len(Plan) => next \in Server!Wirings
    BY Bounds
  <1>. QED
    BY <1>1, <1>2, Goes DEF At

(* Every step of the stack keeps the types of the server and the services. *)
LEMMA StepServerTyped ==
  ASSUME HostTyped', RunningFed', ServerTyped, [Next]_vars PROVE ServerTyped'
  <1>. USE DEF ServerTyped, Server!TypeOK, At, passVars, serviceVars
  <1>0. ASSUME NEW what \in {"failures", "edits", "crashes"}, Server!Uses(what)
        PROVE  serverLeft' \in [{"failures", "edits", "crashes"} -> 0 .. MaxMishaps]
    BY <1>0, Bounds DEF Server!Uses
  <1>1. CASE Unmoved
    BY <1>0, <1>1 DEF Unmoved, Tokens
  <1>2. CASE Server!PassStep
    <2>. USE DEF Server!Quiet, Server!serviceVars
    <2>1. CASE Server!WaitForAPIKeys
      <3>1. arrKey \in 0 .. MaxSecrets /\ Server!AllSatisfied \in BOOLEAN
        BY Bounds DEF Server!Values, Server!AllSatisfied
      <3>. QED
        BY <2>1, <3>1 DEF Server!WaitForAPIKeys
    <2>2. CASE Server!PingServices
      BY <2>2 DEF Server!PingServices
    <2>3. CASE Server!WaitTimesOut \/ Server!CheckWizard
      BY <2>3 DEF Server!WaitTimesOut, Server!CheckWizard
    <2>4. CASE Server!WizardStep
      <3>1. jellyfin' \in [wizard : {"fresh", "named", "done"}, password : 0 .. MaxSecrets]
        BY <2>4, Bounds DEF Server!WizardStep, Server!WizardCall, Server!Config, Server!Values
      <3>. QED
        BY <2>4, <3>1 DEF Server!WizardStep
    <2>5. CASE Server!Login
      <3>1. CASE Server!TokenAtHand
        BY <2>5, <3>1 DEF Server!Login, Server!Cached
      <3>2. CASE ~Server!TokenAtHand
        <4>1. Server!GoesOn(Server!FirstAfterLibraries, TRUE)
          BY <2>5, <3>2 DEF Server!Login
        <4>. QED
          BY <2>5, <4>1, GoesTyped, Libraries DEF Server!Login
      <3>. QED
        BY <3>1, <3>2
    <2>6. CASE Server!ListLibraries
      <3>1. \E next \in 1 .. Len(Plan) + 1, err \in BOOLEAN : Server!GoesOn(next, err)
        BY <2>6, Bounds, Libraries DEF Server!ListLibraries
      <3>2. listed' \in [Server!Wirings -> SUBSET Server!Entry]
        BY <2>6 DEF Server!ListLibraries
      <3>. QED
        BY <2>6, <3>1, <3>2, GoesTyped DEF Server!ListLibraries
    <2>7. CASE Server!ListEntries
      BY <2>7 DEF Server!ListEntries
    <2>8. CASE Server!Write
      <3>1. Server!GoesOn(at + 1, FALSE) /\ wirePc = "write"
        BY <2>8 DEF Server!Write
      <3>a. at + 1 \in 1 .. Len(Plan) + 1
        BY <3>1, Bounds
      <3>2. /\ entries' \in [Server!Wirings -> SUBSET Server!Entry]
            /\ lastId' \in [Server!Wirings -> 0 .. MaxEntries]
        BY <2>8, WrittenTyped DEF Server!Write
      <3>. QED
        BY <2>8, <3>1, <3>a, <3>2, GoesTyped DEF Server!Write
    <2>9. CASE Server!WriteRefused
      <3>1. Server!GoesOn(at + 1, TRUE) /\ wirePc = "write"
        BY <2>9 DEF Server!WriteRefused
      <3>a. at + 1 \in 1 .. Len(Plan) + 1
        BY <3>1, Bounds
      <3>. QED
        BY <2>9, <3>1, <3>a, GoesTyped DEF Server!WriteRefused
    <2>10. CASE Server!NextPass
      BY <2>10, Bounds DEF Server!NextPass
    <2>. QED
      BY <1>2, <2>1, <2>2, <2>3, <2>4, <2>5, <2>6, <2>7, <2>8, <2>9, <2>10 DEF Server!PassStep
  <1>3. CASE Server!CallFails
    <2>. DEFINE next == IF wirePc = "write" \/ wirePc = "list" THEN at + 1
                                                               ELSE Server!FirstAfterLibraries
    <2>1. Server!GoesOn(next, TRUE) /\ next \in 1 .. Len(Plan) + 1
      <3>1. Server!GoesOn(next, TRUE)
        BY <1>3 DEF Server!CallFails
      <3>2. wirePc \in {"list", "write"} => at + 1 \in 1 .. Len(Plan) + 1
        BY Bounds
      <3>. QED
        BY <3>1, <3>2, Libraries
    <2>2. /\ entries' \in [Server!Wirings -> SUBSET Server!Entry]
          /\ lastId' \in [Server!Wirings -> 0 .. MaxEntries]
      BY <1>3, WrittenTyped DEF Server!CallFails, Server!serviceVars
    <2>3. jellyfin' \in [wizard : {"fresh", "named", "done"}, password : 0 .. MaxSecrets]
      BY <1>3, Bounds DEF Server!CallFails, Server!serviceVars, Server!WizardCall,
            Server!Config, Server!Values
    <2>4. /\ serverLeft' \in [{"failures", "edits", "crashes"} -> 0 .. MaxMishaps]
          /\ UNCHANGED <<arrKey, booted, cfg, key, pending, listed, token, tampered, settled>>
      BY <1>0, <1>3 DEF Server!CallFails, Server!serviceVars
    <2>. HIDE DEF next
    <2>. QED
      BY <2>1, <2>2, <2>3, <2>4, GoesTyped
  <1>4. CASE Starts
    <2>1. /\ cfg' = containers' /\ containers' \in Host!EnvMap
          /\ \A k \in {"password", "secret"} : containers'[k] # 0
      BY <1>4 DEF Starts, HostTyped, Host!TypeOK, RunningFed
    <2>a. cfg' \in Server!Config
      BY <2>1, FedConfig
    <2>2. listed' \in [Server!Wirings -> SUBSET Server!Entry]
      BY <1>4 DEF Starts, Server!ServerStarts, Server!NothingListed
    <2>3. at' \in 1 .. Len(Plan) + 1 /\ key' \in 0 .. MaxSecrets
      BY <1>4, Bounds DEF Starts, Server!ServerStarts
    <2>. QED
      BY <1>4, <2>a, <2>2, <2>3 DEF Starts, Server!ServerStarts
  <1>5. CASE Stops
    BY <1>0, <1>5 DEF Stops, Server!ServerStops
  <1>6. CASE Resets
    <2>1. /\ entries' \in [Server!Wirings -> SUBSET Server!Entry]
          /\ lastId' \in [Server!Wirings -> 0 .. MaxEntries]
      <3>1. \A s \in Server!Wirings :
               entries'[s] \subseteq Server!Entry /\ lastId'[s] \in 0 .. MaxEntries
        BY <1>6, Bounds DEF Resets
      <3>. QED
        BY <1>6, <3>1 DEF Resets
    <2>2. arrKey' \in Server!Values
      BY <1>6, Bounds DEF Resets, Server!Values
    <2>. QED
      BY <1>6, <2>1, <2>2, Bounds DEF Resets, Tokens
  <1>7. ASSUME NEW s \in Server!Wirings, Server!UserEdits(s) PROVE ServerTyped'
    <2>. USE <1>7 DEF Server!UserEdits
    <2>1. lastId' \in [Server!Wirings -> 0 .. MaxEntries]
      <3>1. CASE lastId[s] < MaxEntries /\ lastId' = [lastId EXCEPT ![s] = @ + 1]
        <4>1. lastId[s] + 1 \in 0 .. MaxEntries
          <5>1. lastId[s] \in 0 .. MaxEntries
            OBVIOUS
          <5>. QED
            BY <3>1, <5>1, Bounds
        <4>. QED
          BY <3>1, <4>1
      <3>. QED
        BY <3>1
    <2>2. entries' \in [Server!Wirings -> SUBSET Server!Entry]
      <3>0. entries[s] \subseteq Server!Entry /\ entries \in [Server!Wirings -> SUBSET Server!Entry]
        OBVIOUS
      <3>1. \A e \in Server!Entry : /\ [e EXCEPT !.value = 0] \in Server!Entry
                                    /\ [e EXCEPT !.extra = TRUE] \in Server!Entry
        <4>1. 0 \in 0 .. MaxSecrets
          BY Bounds
        <4>. QED
          BY <4>1 DEF Server!Entry
      <3>2. ASSUME NEW e \in entries[s],
                   entries' \in {[entries EXCEPT ![s] = @ \ {e}],
                                 [entries EXCEPT ![s] = (@ \ {e}) \cup {[e EXCEPT !.value = 0]}],
                                 [entries EXCEPT ![s] = (@ \ {e}) \cup {[e EXCEPT !.extra = TRUE]}]}
            PROVE  entries' \in [Server!Wirings -> SUBSET Server!Entry]
        <4>1. /\ entries[s] \ {e} \subseteq Server!Entry
              /\ (entries[s] \ {e}) \cup {[e EXCEPT !.value = 0]} \subseteq Server!Entry
              /\ (entries[s] \ {e}) \cup {[e EXCEPT !.extra = TRUE]} \subseteq Server!Entry
          BY <3>0, <3>1
        <4>. QED
          BY <3>0, <3>2, <4>1
      <3>3. CASE /\ lastId[s] < MaxEntries
                 /\ entries' = [entries EXCEPT ![s] = @ \cup
                       {[id |-> lastId[s] + 1, value |-> 0, extra |-> TRUE, ours |-> FALSE]}]
        <4>1. lastId[s] + 1 \in 1 .. MaxEntries /\ 0 \in 0 .. MaxSecrets
          <5>1. lastId[s] \in 0 .. MaxEntries
            OBVIOUS
          <5>. QED
            BY <3>3, <5>1, Bounds
        <4>2. [id |-> lastId[s] + 1, value |-> 0, extra |-> TRUE, ours |-> FALSE] \in Server!Entry
          BY <4>1 DEF Server!Entry
        <4>. QED
          BY <3>0, <3>3, <4>2
      <3>. QED
        BY <3>2, <3>3
    <2>. QED
      BY <1>0, <2>1, <2>2 DEF Server!passVars
  <1>8. CASE Server!KeyRenewed
    BY <1>0, <1>8, Bounds DEF Server!KeyRenewed, Server!Values, Server!passVars
  <1>9. ASSUME NEW v \in Server!Values, Server!PasswordChanged(v) PROVE ServerTyped'
    <2>1. jellyfin' \in [wizard : {"fresh", "named", "done"}, password : 0 .. MaxSecrets]
      BY <1>9, Bounds DEF Server!PasswordChanged, Server!Values
    <2>. QED
      BY <1>0, <1>9, <2>1 DEF Server!PasswordChanged, Server!Forgotten
  <1>10. ASSUME NEW v \in Services, Server!Boot(v) PROVE ServerTyped'
    BY <1>10 DEF Server!Boot, Server!passVars
  <1>. QED
    BY <1>1, <1>2, <1>3, <1>4, <1>5, <1>6, <1>7, <1>8, <1>9, <1>10, ServerSteps

(* Every variable of the stack keeps its type.                             *)
THEOREM StartupTyped == Spec => []TypeOK
  <1>. DEFINE Inv == HostTyped /\ ServerTyped /\ RunningFed /\ loginTouched \in BOOLEAN
  <1>1. Init => Inv
    BY InitHostTyped, InitServerTyped DEF Init
  <1>2. Inv /\ [Next]_vars => Inv'
    <2>1. [Next]_vars /\ HostTyped /\ loginTouched \in BOOLEAN => loginTouched' \in BOOLEAN
      BY DEF Next, HostStep, ComposeUp, ComposeDown, RemoveAll, EditEnv, WireStep,
         ServerRestarts, Boot, UserEdits, PasswordChanged, vars, HostTyped, Host!TypeOK
    <2>. QED
      BY <2>1, HostSteps, StepHostTyped, StepRunningFed, StepServerTyped
  <1>3. Inv => TypeOK
    BY DEF HostTyped, ServerTyped, TypeOK
  <1>. QED
    BY <1>1, <1>2, <1>3, PTL DEF Spec

-----------------------------------------------------------------------------
(* Lists and writes.                                                       *)

(* What is listed was there when it was listed, and a write is the only    *)
(* thing a pass does to entries.                                           *)
LEMMA EntrySteps ==
  ASSUME ServerTyped, [Next]_vars
  PROVE  \/ /\ UNCHANGED <<entries, lastId>>
            /\ \A s \in Server!Wirings : listed'[s] \in {listed[s], entries[s], {}}
         \/ wirePc = "write" /\ at \in Server!Wirings /\ Server!Written(at) /\ UNCHANGED listed
         \/ Resets /\ UNCHANGED listed
         \/ \E s \in Server!Wirings : Server!UserEdits(s) /\ UNCHANGED listed
  <1>. USE DEF serviceVars, passVars, Server!serviceVars, Server!passVars, Server!Quiet
  <1>1. CASE Unmoved
    BY <1>1 DEF Unmoved
  <1>2. CASE Server!PassStep
    <2>1. CASE Server!ListLibraries \/ Server!ListEntries
      BY <2>1 DEF Server!ListLibraries, Server!ListEntries, ServerTyped, Server!TypeOK
    <2>2. CASE Server!Write
      BY <2>2 DEF Server!Write, ServerTyped, At
    <2>. QED
      BY <1>2, <2>1, <2>2 DEF Server!PassStep, Server!WaitForAPIKeys, Server!PingServices,
            Server!WaitTimesOut, Server!CheckWizard, Server!WizardStep, Server!Login,
            Server!WriteRefused, Server!NextPass
  <1>3. CASE Server!CallFails
    BY <1>3 DEF Server!CallFails, ServerTyped, At
  <1>4. CASE Starts
    BY <1>4 DEF Starts, Server!ServerStarts, Server!NothingListed
  <1>5. CASE Stops
    BY <1>5 DEF Stops, Server!ServerStops
  <1>6. CASE Resets
    BY <1>6 DEF Resets
  <1>7. CASE \E s \in Server!Wirings : Server!UserEdits(s)
    BY <1>7 DEF Server!UserEdits
  <1>8. CASE Server!KeyRenewed
    BY <1>8 DEF Server!KeyRenewed
  <1>9. CASE \E v \in Server!Values : Server!PasswordChanged(v)
    BY <1>9 DEF Server!PasswordChanged
  <1>10. CASE \E v \in Services : Server!Boot(v)
    BY <1>10 DEF Server!Boot
  <1>. QED
    BY <1>1, <1>2, <1>3, <1>4, <1>5, <1>6, <1>7, <1>8, <1>9, <1>10, ServerSteps
       DEF ServerTyped

(* The wirings whose list has been made and is still to be acted on.       *)
Due(s) == wirePc = "write" /\ (s = at \/ (s > at /\ Plan[s] = "library"))

(* A list that is to be acted on is as old as the pass is at its wiring,   *)
(* or at the libraries: the pass itself has written nothing there since.   *)
LEMMA DueStep ==
  ASSUME ServerTyped, [Next]_vars, NEW s \in Server!Wirings, Due(s)'
  PROVE  /\ tampered => tampered'
         /\ \/ listed'[s] = entries[s] /\ entries' = entries
            \/ Due(s) /\ listed'[s] = listed[s] /\ entries'[s] = entries[s]
            \/ Due(s) /\ listed'[s] = listed[s] /\ Resets
            \/ Due(s) /\ listed'[s] = listed[s] /\ \E t \in Server!Wirings : Server!UserEdits(t)
  <1>. USE DEF Due, serviceVars, passVars, Server!serviceVars, Server!passVars, Server!Quiet
  <1>. DEFINE Moves == /\ Due(s) /\ listed'[s] = listed[s] /\ entries'[s] = entries[s]
                       /\ tampered' = tampered
  <1>1. CASE Unmoved
    BY <1>1 DEF Unmoved
  <1>2. ASSUME NEW err \in BOOLEAN, wirePc \in {"list", "write"}, Server!GoesOn(at + 1, err),
               UNCHANGED <<listed, tampered>>,
               \/ UNCHANGED entries
               \/ Server!Written(at)
        PROVE  Moves
    <2>1. at \in Server!Wirings /\ at + 1 \in 1 .. Len(Plan) + 1
      BY <1>2, Bounds DEF ServerTyped, At
    <2>2. at' = at + 1 /\ at + 1 <= Len(Plan) /\ Plan[at + 1] = "library"
      BY <1>2, <2>1, Goes, Bounds DEF ServerTyped
    <2>3. Plan[at] = "library"
      BY <2>1, <2>2, Bounds
    <2>4. wirePc = "write" /\ s > at /\ s # at /\ Plan[s] = "library"
      BY <1>2, <2>1, <2>2, <2>3, Bounds DEF ServerTyped, At
    <2>5. entries'[s] = entries[s]
      BY <1>2, <2>4 DEF Server!Written, Server!Added, Server!Updated, ServerTyped, Server!TypeOK
    <2>. QED
      BY <1>2, <2>4, <2>5
  <1>3. ASSUME Server!GoesOn(Server!FirstAfterLibraries, TRUE) PROVE FALSE
    <2>1. /\ Server!FirstAfterLibraries <= Len(Plan)
          /\ Plan[Server!FirstAfterLibraries] = "library"
      BY <1>3, Goes, Libraries, Bounds DEF ServerTyped
    <2>2. Server!FirstAfterLibraries \in Server!Wirings
      BY <2>1, Libraries, Bounds
    <2>. QED
      BY <2>1, <2>2, Libraries, Bounds
  <1>4. CASE Server!PassStep
    <2>1. CASE Server!ListLibraries
      <3>1. Server!GoesOn(1, FALSE) /\ token # "dead"
        BY <1>3, <2>1 DEF Server!ListLibraries
      <3>2. at' = 1 /\ Plan[1] = "library"
        BY <3>1, Goes, Bounds DEF ServerTyped
      <3>. QED
        BY <2>1, <3>1, <3>2 DEF Server!ListLibraries
    <2>2. CASE Server!ListEntries
      <3>1. wirePc = "list" /\ at \in Server!Wirings /\ Plan[at] # "library" /\ at' = at
        BY <2>2 DEF Server!ListEntries, ServerTyped, At
      <3>2. s = at
        BY <3>1, Bounds
      <3>. QED
        BY <2>2, <3>2 DEF Server!ListEntries, ServerTyped, Server!TypeOK
    <2>3. CASE Server!Write
      BY <1>2, <2>3 DEF Server!Write
    <2>4. CASE Server!WriteRefused
      BY <1>2, <2>4 DEF Server!WriteRefused
    <2>5. CASE Server!Login
      BY <1>3, <2>5 DEF Server!Login
    <2>. QED
      BY <1>4, <2>1, <2>2, <2>3, <2>4, <2>5 DEF Server!PassStep, Server!WaitForAPIKeys,
            Server!PingServices, Server!WaitTimesOut, Server!CheckWizard, Server!WizardStep,
            Server!NextPass
  <1>5. CASE Server!CallFails
    <2>1. CASE wirePc \in {"list", "write"}
      <3>1. Server!GoesOn(at + 1, TRUE)
        BY <1>5, <2>1 DEF Server!CallFails
      <3>2. UNCHANGED entries \/ Server!Written(at)
        BY <1>5 DEF Server!CallFails
      <3>. QED
        BY <1>2, <1>5, <2>1, <3>1, <3>2 DEF Server!CallFails
    <2>2. CASE ~(wirePc \in {"list", "write"})
      BY <1>3, <1>5, <2>2 DEF Server!CallFails
    <2>. QED
      BY <2>1, <2>2
  <1>6. CASE Starts \/ Stops
    BY <1>6 DEF Starts, Stops, Server!ServerStarts, Server!ServerStops
  <1>7. CASE Resets
    BY <1>7 DEF Resets
  <1>8. CASE \E t \in Server!Wirings : Server!UserEdits(t)
    BY <1>8 DEF Server!UserEdits
  <1>9. CASE Server!KeyRenewed \/ \E v \in Server!Values : Server!PasswordChanged(v)
    BY <1>9 DEF Server!KeyRenewed, Server!PasswordChanged
  <1>10. CASE \E v \in Services : Server!Boot(v)
    BY <1>10 DEF Server!Boot
  <1>. QED
    BY <1>1, <1>4, <1>5, <1>6, <1>7, <1>8, <1>9, <1>10, ServerSteps DEF ServerTyped

-----------------------------------------------------------------------------
(* One entry of ours.                                                      *)

(* A service gives an id once, until its data are deleted.                 *)
UniqueIds ==
    \A s \in Server!Wirings :
        /\ \A e, f \in entries[s] : e.id = f.id => e = f
        /\ \A e, f \in listed[s] : e.id = f.id => e = f
        /\ \A e \in entries[s] : e.id <= lastId[s]

(* Of one wiring's entries at most one is ours, and a list that is to be   *)
(* acted on does not miss it or take it for another one.                   *)
OursOnce ==
    \A s \in Server!Wirings :
        /\ \A e, f \in entries[s] : e.ours /\ f.ours => e = f
        /\ Due(s) =>
               /\ listed[s] = {} => \A f \in entries[s] : ~f.ours
               /\ \A e \in listed[s], f \in entries[s] : e.ours /\ f.ours => f.id = e.id

(* The entry that an update puts back is the first one of the list.        *)
LEMMA UpdateOf ==
  ASSUME Server!TypeOK, at \in Server!Wirings, Server!Decision(at) = "update"
  PROVE  /\ Server!First(listed[at]) \in listed[at]
         /\ \A f \in listed[at] : Server!First(listed[at]).id <= f.id
  <1>1. listed[at] # {} /\ listed[at] \subseteq Server!Entry
    BY Decisions DEF Server!TypeOK
  <1>2. \A f \in listed[at] : f.id \in Nat
    BY <1>1, Bounds DEF Server!Entry
  <1>. QED
    BY <1>1, <1>2, FirstIsLeast

(* What PutBack changes of an entry is its value.                          *)
LEMMA PutBackKeeps ==
  ASSUME NEW e \in Server!Entry, NEW s
  PROVE  /\ Server!PutBack(e, s).id = e.id
         /\ Server!PutBack(e, s).ours = e.ours
         /\ Server!PutBack(e, s).extra = e.extra
         /\ Server!PutBack(e, s).value = Server!Want(s)
  BY DEF Server!PutBack, Server!Entry

(* An id is given once: an added entry has the next one, an update keeps   *)
(* it.                                                                     *)
LEMMA StepUniqueIds == ASSUME ServerTyped, UniqueIds, [Next]_vars PROVE UniqueIds'
  <1>0. ASSUME NEW s \in Server!Wirings
        PROVE  /\ lastId[s] \in Nat /\ entries[s] \subseteq Server!Entry
               /\ \A e \in entries[s] : e.id \in Nat /\ e.id <= lastId[s]
               /\ \A e, f \in entries[s] : e.id = f.id => e = f
               /\ \A e, f \in listed[s] : e.id = f.id => e = f
    BY Bounds DEF ServerTyped, Server!TypeOK, Server!Entry, UniqueIds
  <1>1. CASE /\ UNCHANGED <<entries, lastId>>
             /\ \A s \in Server!Wirings : listed'[s] \in {listed[s], entries[s], {}}
    BY <1>1 DEF UniqueIds
  <1>2. CASE wirePc = "write" /\ at \in Server!Wirings /\ Server!Written(at) /\ UNCHANGED listed
    <2>1. CASE Server!Added(at)
      <3>. DEFINE n == [id |-> lastId[at] + 1, value |-> Server!Want(at), extra |-> FALSE,
                        ours |-> TRUE]
      <3>1. /\ entries' = [entries EXCEPT ![at] = @ \cup {n}]
            /\ lastId' = [lastId EXCEPT ![at] = @ + 1]
        BY <2>1 DEF Server!Added
      <3>2. n.id = lastId[at] + 1
        OBVIOUS
      <3>. HIDE DEF n
      <3>. QED
        BY <1>0, <1>2, <3>1, <3>2 DEF UniqueIds, ServerTyped, Server!TypeOK
    <2>2. CASE Server!Decision(at) = "update" /\ Server!Updated(at)
      <3>. DEFINE e == Server!First(listed[at])
                  p == Server!PutBack(e, at)
      <3>1. e \in Server!Entry /\ p.id = e.id
        BY <1>2, <2>2, UpdateOf, PutBackKeeps DEF ServerTyped, Server!TypeOK
      <3>2. /\ \E f \in entries[at] : f.id = e.id
            /\ entries' = [entries EXCEPT ![at] = {f \in @ : f.id # e.id} \cup {p}]
            /\ lastId' = lastId
        BY <2>2 DEF Server!Updated
      <3>. HIDE DEF e, p
      <3>. QED
        BY <1>0, <1>2, <3>1, <3>2 DEF UniqueIds, ServerTyped, Server!TypeOK
    <2>. QED
      BY <1>2, <2>1, <2>2 DEF Server!Written
  <1>3. CASE Resets /\ UNCHANGED listed
    BY <1>0, <1>3 DEF Resets, UniqueIds
  <1>4. ASSUME NEW s \in Server!Wirings, Server!UserEdits(s), UNCHANGED listed
        PROVE  UniqueIds'
    <2>1. ASSUME NEW e \in entries[s], lastId' = lastId,
                 NEW p, p.id = e.id,
                 \/ entries' = [entries EXCEPT ![s] = @ \ {e}]
                 \/ entries' = [entries EXCEPT ![s] = (@ \ {e}) \cup {p}]
          PROVE  UniqueIds'
      <3>1. /\ entries'[s] \subseteq (entries[s] \ {e}) \cup {p}
            /\ \A t \in Server!Wirings \ {s} : entries'[t] = entries[t]
        BY <2>1 DEF ServerTyped, Server!TypeOK
      <3>2. \A t \in Server!Wirings : \A f, g \in entries'[t] : f.id = g.id => f = g
        BY <1>0, <2>1, <3>1
      <3>3. \A t \in Server!Wirings : \A f \in entries'[t] : f.id <= lastId'[t]
        BY <1>0, <2>1, <3>1
      <3>. QED
        BY <1>0, <1>4, <3>2, <3>3 DEF UniqueIds
    <2>2. ASSUME NEW n, n.id = lastId[s] + 1,
                 lastId' = [lastId EXCEPT ![s] = @ + 1],
                 entries' = [entries EXCEPT ![s] = @ \cup {n}]
          PROVE  UniqueIds'
      BY <1>0, <1>4, <2>2 DEF UniqueIds, ServerTyped, Server!TypeOK
    <2>3. \A e \in entries[s] : [e EXCEPT !.value = 0].id = e.id /\ [e EXCEPT !.extra = TRUE].id = e.id
      BY <1>0 DEF Server!Entry
    <2>4. CASE /\ lastId' = [lastId EXCEPT ![s] = @ + 1]
               /\ entries' = [entries EXCEPT ![s] = @ \cup
                     {[id |-> lastId[s] + 1, value |-> 0, extra |-> TRUE, ours |-> FALSE]}]
      BY <2>2, <2>4
    <2>5. ASSUME NEW e \in entries[s], UNCHANGED lastId,
                 entries' \in {[entries EXCEPT ![s] = @ \ {e}],
                               [entries EXCEPT ![s] = (@ \ {e}) \cup {[e EXCEPT !.value = 0]}],
                               [entries EXCEPT ![s] = (@ \ {e}) \cup {[e EXCEPT !.extra = TRUE]}]}
          PROVE  UniqueIds'
      <3>1. CASE entries' = [entries EXCEPT ![s] = @ \ {e}]
        BY <2>1, <2>5, <3>1
      <3>2. CASE entries' = [entries EXCEPT ![s] = (@ \ {e}) \cup {[e EXCEPT !.value = 0]}]
        BY <2>1, <2>3, <2>5, <3>2
      <3>3. CASE entries' = [entries EXCEPT ![s] = (@ \ {e}) \cup {[e EXCEPT !.extra = TRUE]}]
        BY <2>1, <2>3, <2>5, <3>3
      <3>. QED
        BY <2>5, <3>1, <3>2, <3>3
    <2>. QED
      BY <1>4, <2>4, <2>5 DEF Server!UserEdits
  <1>. QED
    BY <1>1, <1>2, <1>3, <1>4, EntrySteps

(* A user's edit makes no entry ours.                                      *)
LEMMA EditsKeepOurs ==
  ASSUME ServerTyped, NEW s \in Server!Wirings, NEW t \in Server!Wirings, Server!UserEdits(t)
  PROVE  \A f \in entries'[s] : f.ours => \E g \in entries[s] : g.ours /\ g.id = f.id
  <1>1. entries[s] \subseteq Server!Entry
    BY DEF ServerTyped, Server!TypeOK
  <1>2. CASE /\ lastId' = [lastId EXCEPT ![t] = @ + 1]
             /\ entries' = [entries EXCEPT ![t] = @ \cup
                   {[id |-> lastId[t] + 1, value |-> 0, extra |-> TRUE, ours |-> FALSE]}]
    BY <1>2 DEF ServerTyped, Server!TypeOK
  <1>3. ASSUME NEW e \in entries[t], NEW p, p.id = e.id, p.ours = e.ours,
               \/ entries' = [entries EXCEPT ![t] = @ \ {e}]
               \/ entries' = [entries EXCEPT ![t] = (@ \ {e}) \cup {p}]
        PROVE  \A f \in entries'[s] : f.ours => \E g \in entries[s] : g.ours /\ g.id = f.id
    <2>1. entries'[s] \subseteq IF s = t THEN (entries[s] \ {e}) \cup {p} ELSE entries[s]
      BY <1>3 DEF ServerTyped, Server!TypeOK
    <2>. QED
      BY <1>3, <2>1
  <1>4. \A e \in Server!Entry :
           /\ [e EXCEPT !.value = 0].id = e.id /\ [e EXCEPT !.value = 0].ours = e.ours
           /\ [e EXCEPT !.extra = TRUE].id = e.id /\ [e EXCEPT !.extra = TRUE].ours = e.ours
    BY DEF Server!Entry
  <1>5. ASSUME NEW e \in entries[t],
               entries' \in {[entries EXCEPT ![t] = @ \ {e}],
                             [entries EXCEPT ![t] = (@ \ {e}) \cup {[e EXCEPT !.value = 0]}],
                             [entries EXCEPT ![t] = (@ \ {e}) \cup {[e EXCEPT !.extra = TRUE]}]}
        PROVE  \A f \in entries'[s] : f.ours => \E g \in entries[s] : g.ours /\ g.id = f.id
    <2>0. e \in Server!Entry
      BY DEF ServerTyped, Server!TypeOK
    <2>1. CASE entries' = [entries EXCEPT ![t] = @ \ {e}]
      BY <1>3, <2>1
    <2>2. CASE entries' = [entries EXCEPT ![t] = (@ \ {e}) \cup {[e EXCEPT !.value = 0]}]
      BY <1>3, <1>4, <2>0, <2>2
    <2>3. CASE entries' = [entries EXCEPT ![t] = (@ \ {e}) \cup {[e EXCEPT !.extra = TRUE]}]
      BY <1>3, <1>4, <2>0, <2>3
    <2>. QED
      BY <1>5, <2>1, <2>2, <2>3
  <1>. QED
    BY <1>2, <1>5 DEF Server!UserEdits

(* Nobody but a write of autowire's makes an entry ours.                   *)
LEMMA OursFrom ==
  ASSUME ServerTyped, [Next]_vars, NEW s \in Server!Wirings
  PROVE  \/ s = at /\ Due(s) /\ Server!Written(s)
         \/ \A f \in entries'[s] : f.ours => \E g \in entries[s] : g.ours /\ g.id = f.id
  <1>1. CASE entries' = entries
    BY <1>1
  <1>2. CASE wirePc = "write" /\ at \in Server!Wirings /\ Server!Written(at)
    <2>1. s # at => entries'[s] = entries[s]
      BY <1>2 DEF Server!Written, Server!Added, Server!Updated, ServerTyped, Server!TypeOK
    <2>. QED
      BY <1>2, <2>1 DEF Due
  <1>3. CASE Resets
    BY <1>3 DEF Resets
  <1>4. CASE \E t \in Server!Wirings : Server!UserEdits(t)
    BY <1>4, EditsKeepOurs
  <1>. QED
    BY <1>1, <1>2, <1>3, <1>4, EntrySteps

(* An entry is added only where the list showed none of ours, and that     *)
(* list still holds.                                                       *)
LEMMA StepOursOnce ==
  ASSUME ServerTyped, UniqueIds, UniqueIds', OursOnce, [Next]_vars PROVE OursOnce'
  <1>. SUFFICES ASSUME NEW s \in Server!Wirings
                PROVE  /\ \A e, f \in entries'[s] : e.ours /\ f.ours => e = f
                       /\ Due(s)' =>
                             /\ listed'[s] = {} => \A f \in entries'[s] : ~f.ours
                             /\ \A e \in listed'[s], f \in entries'[s] :
                                    e.ours /\ f.ours => f.id = e.id
    BY DEF OursOnce
  <1>1. \A e, f \in entries'[s] : e.ours /\ f.ours => e = f
    <2>1. CASE \A f \in entries'[s] : f.ours => \E g \in entries[s] : g.ours /\ g.id = f.id
      BY <2>1 DEF OursOnce, UniqueIds
    <2>2. CASE s = at /\ Due(s) /\ Server!Written(s)
      <3>1. CASE Server!Decision(s) = "add" /\ Server!Added(s)
        <4>1. \A f \in entries[s] : ~f.ours
          BY <2>2, <3>1, Decisions DEF OursOnce
        <4>. QED
          BY <3>1, <4>1 DEF Server!Added, ServerTyped, Server!TypeOK
      <3>2. CASE Server!Decision(s) = "update" /\ Server!Updated(s)
        <4>. DEFINE e == Server!First(listed[s])
                    p == Server!PutBack(e, s)
        <4>1. e \in listed[s] /\ e \in Server!Entry
          BY <2>2, <3>2, UpdateOf DEF ServerTyped, Server!TypeOK
        <4>2. p.ours = e.ours
          BY <4>1, PutBackKeeps
        <4>3. entries'[s] = {f \in entries[s] : f.id # e.id} \cup {p}
          BY <3>2 DEF Server!Updated, ServerTyped, Server!TypeOK
        <4>4. \A f \in entries[s] : e.ours /\ f.ours => f.id = e.id
          BY <2>2, <4>1 DEF OursOnce
        <4>. HIDE DEF e, p
        <4>. QED
          BY <4>2, <4>3, <4>4 DEF OursOnce
      <3>. QED
        BY <2>2, <3>1, <3>2 DEF Server!Written
    <2>. QED
      BY <2>1, <2>2, OursFrom
  <1>2. ASSUME Due(s)'
        PROVE  /\ listed'[s] = {} => \A f \in entries'[s] : ~f.ours
               /\ \A e \in listed'[s], f \in entries'[s] : e.ours /\ f.ours => f.id = e.id
    <2>1. CASE listed'[s] = entries[s] /\ entries' = entries
      BY <1>1, <2>1
    <2>2. CASE Due(s) /\ listed'[s] = listed[s] /\ entries'[s] = entries[s]
      BY <2>2 DEF OursOnce
    <2>3. CASE Due(s) /\ listed'[s] = listed[s] /\ Resets
      BY <2>3 DEF OursOnce, Resets
    <2>4. CASE Due(s) /\ listed'[s] = listed[s] /\ \E t \in Server!Wirings : Server!UserEdits(t)
      <3>1. \A f \in entries'[s] : f.ours => \E g \in entries[s] : g.ours /\ g.id = f.id
        BY <2>4, EditsKeepOurs
      <3>. QED
        BY <2>4, <3>1 DEF OursOnce
    <2>. QED
      BY <1>2, <2>1, <2>2, <2>3, <2>4, DueStep
  <1>. QED
    BY <1>1, <1>2

Typed == HostTyped /\ ServerTyped /\ RunningFed
EntriesInv == Typed /\ UniqueIds /\ OursOnce

(* Types, of the host and of the server together.                          *)
LEMMA StepTyped == ASSUME Typed, [Next]_vars PROVE Typed'
  BY HostSteps, StepHostTyped, StepRunningFed, StepServerTyped DEF Typed

(* There are no entries at first.                                          *)
LEMMA InitEntriesInv == Init => EntriesInv
  <1>1. Init => UniqueIds /\ OursOnce
    BY DEF Init, Server!Init, Server!NothingListed, UniqueIds, OursOnce
  <1>. QED
    BY <1>1, InitHostTyped, InitServerTyped DEF EntriesInv, Typed

(* Every step of the stack keeps unique ids and single entries.            *)
LEMMA StepEntriesInv == ASSUME EntriesInv, [Next]_vars PROVE EntriesInv'
  BY StepTyped, StepUniqueIds, StepOursOnce DEF EntriesInv, Typed

(* No wiring is ever added twice, whatever failed, was lost, was reset or  *)
(* was restarted meanwhile.                                                *)
THEOREM NeverTwice == Spec => []AddedOnce
  <1>1. EntriesInv => AddedOnce
    <2>. SUFFICES ASSUME EntriesInv, NEW s \in Server!Wirings
                  PROVE  Server!Cardinality({e \in entries[s] : e.ours}) <= 1
      BY DEF AddedOnce, Server!AddedOnce
    <2>. DEFINE Ours == {e \in entries[s] : e.ours}
    <2>1. CASE Ours = {}
      BY <2>1, SameCount, FS_EmptySet
    <2>2. CASE Ours # {}
      <3>1. PICK e \in Ours : Ours = {e}
        BY <2>2 DEF EntriesInv, OursOnce
      <3>2. Cardinality(Ours) = 1
        BY <3>1, FS_Singleton
      <3>. QED
        BY <3>2, SameCount
    <2>. QED
      BY <2>1, <2>2
  <1>. QED
    BY InitEntriesInv, StepEntriesInv, <1>1, PTL DEF Spec

(* An update sets what autowire owns and leaves the user's settings.       *)
LEMMA UpdateKeepsSettings ==
  ASSUME EntriesInv, wirePc = "write", Server!PassStep, NEW e \in entries[at], e \in listed[at]
  PROVE  \E f \in entries'[at] : f.id = e.id /\ f.extra = e.extra
  <1>0. at \in Server!Wirings
    BY DEF EntriesInv, Typed, ServerTyped, At
  <1>1. CASE Server!Written(at)
    <2>1. CASE Server!Added(at)
      BY <1>0, <2>1 DEF Server!Added, EntriesInv, Typed, ServerTyped, Server!TypeOK
    <2>2. CASE Server!Decision(at) = "update" /\ Server!Updated(at)
      <3>. DEFINE g == Server!First(listed[at])
                  p == Server!PutBack(g, at)
      <3>1. g \in listed[at] /\ g \in Server!Entry
        BY <1>0, <2>2, UpdateOf DEF EntriesInv, Typed, ServerTyped, Server!TypeOK
      <3>2. p.id = g.id /\ p.extra = g.extra
        BY <3>1, PutBackKeeps
      <3>3. entries'[at] = {f \in entries[at] : f.id # g.id} \cup {p}
        BY <1>0, <2>2 DEF Server!Updated, EntriesInv, Typed, ServerTyped, Server!TypeOK
      <3>4. e.id = g.id => e = g
        BY <1>0, <3>1 DEF EntriesInv, UniqueIds
      <3>. HIDE DEF g, p
      <3>. QED
        BY <3>2, <3>3, <3>4
    <2>. QED
      BY <1>1, <2>1, <2>2 DEF Server!Written
  <1>2. CASE entries' = entries
    BY <1>2
  <1>. QED
    BY <1>1, <1>2 DEF Server!PassStep, Server!WaitForAPIKeys, Server!PingServices,
       Server!WaitTimesOut, Server!CheckWizard, Server!WizardStep, Server!WizardCall,
       Server!Login, Server!ListLibraries, Server!ListEntries, Server!Write,
       Server!WriteRefused, Server!NextPass, Server!Quiet, Server!serviceVars

(* Entries and settings of the user's that a list showed are kept.         *)
THEOREM KeepsUsersSettings == Spec => UsersSettingsKept
  <1>1. EntriesInv /\ [Next]_vars =>
            [wirePc = "write" /\ Server!PassStep =>
                \A e \in entries[at] : e \in listed[at] =>
                    \E f \in entries'[at] : f.id = e.id /\ f.extra = e.extra]_(Server!vars)
    BY UpdateKeepsSettings
  <1>. QED
    BY InitEntriesInv, StepEntriesInv, <1>1, PTL
       DEF Spec, UsersSettingsKept, Server!UsersSettingsKept

-----------------------------------------------------------------------------
(* Wired, when the server says so.                                         *)

Pass == {"ping", "wizard", "user", "complete", "login", "libraries", "list", "write"}

(* As long as nobody else changes a service, a pass knows the key and what *)
(* is where it is about to write.                                          *)
Undisturbed ==
    ~tampered =>
        /\ wirePc \in Pass => key = arrKey
        /\ \A s \in Server!Wirings : Due(s) => listed[s] = entries[s]

(* A step that leaves tampered false leaves key and lists right.           *)
LEMMA StepUndisturbed == ASSUME ServerTyped, Undisturbed, [Next]_vars PROVE Undisturbed'
  <1>. SUFFICES ASSUME ~tampered' PROVE Undisturbed'
    BY DEF Undisturbed
  <1>1. wirePc' \in Pass => key' = arrKey'
    <2>. USE DEF Undisturbed, Pass, serviceVars, passVars, Server!serviceVars, Server!passVars,
                 Server!Quiet
    <2>1. CASE Unmoved
      BY <2>1 DEF Unmoved
    <2>2. CASE Server!PassStep
      <3>1. CASE Server!WaitForAPIKeys
        BY <3>1 DEF Server!WaitForAPIKeys
      <3>2. CASE ~Server!WaitForAPIKeys
        <4>1. key' = key /\ arrKey' = arrKey /\ tampered' = tampered
          BY <2>2, <3>2 DEF Server!PassStep, Server!PingServices, Server!WaitTimesOut,
             Server!CheckWizard, Server!WizardStep, Server!Login, Server!ListLibraries,
             Server!ListEntries, Server!Write, Server!WriteRefused, Server!NextPass
        <4>2. wirePc \in Pass \/ wirePc' \notin Pass
          BY <2>2, <3>2 DEF Server!PassStep, Server!PingServices, Server!WaitTimesOut,
             Server!CheckWizard, Server!WizardStep, Server!WizardCall, Server!Login,
             Server!ListLibraries, Server!ListEntries, Server!Write,
             Server!WriteRefused, Server!NextPass
        <4>. QED
          BY <4>1, <4>2
      <3>. QED
        BY <3>1, <3>2
    <2>3. CASE Server!CallFails
      BY <2>3 DEF Server!CallFails
    <2>4. CASE Starts \/ Stops
      BY <2>4 DEF Starts, Stops, Server!ServerStarts, Server!ServerStops
    <2>5. CASE \/ Resets \/ Server!KeyRenewed
               \/ \E s \in Server!Wirings : Server!UserEdits(s)
               \/ \E v \in Server!Values : Server!PasswordChanged(v)
      BY <2>5 DEF Resets, Server!KeyRenewed, Server!UserEdits, Server!PasswordChanged
    <2>6. CASE \E v \in Services : Server!Boot(v)
      BY <2>6 DEF Server!Boot
    <2>. QED
      BY <2>1, <2>2, <2>3, <2>4, <2>5, <2>6, ServerSteps DEF ServerTyped
  <1>2. ASSUME NEW s \in Server!Wirings, Due(s)' PROVE listed'[s] = entries'[s]
    <2>1. Resets \/ (\E t \in Server!Wirings : Server!UserEdits(t)) => tampered'
      BY DEF Resets, Server!UserEdits
    <2>. QED
      BY <1>2, <2>1, DueStep DEF Undisturbed
  <1>. QED
    BY <1>1, <1>2 DEF Undisturbed

(* What a wiring wants is right while the pass is undisturbed.             *)
LEMMA WantsRight ==
  ASSUME Undisturbed, ~tampered, wirePc = "write", NEW s
  PROVE  Server!Want(s) = Server!RightValue(s)
  BY DEF Undisturbed, Pass, Server!Want, Server!RightValue

(* A wiring that nobody touches stays as satisfied as it is.               *)
LEMMA Steady ==
  ASSUME UNCHANGED <<cfg, arrKey>>, NEW s, entries'[s] = entries[s]
  PROVE  Server!Satisfied(s)' <=> Server!Satisfied(s)
  BY DEF Server!Satisfied, Server!RightValue

(* A write that works leaves its wiring satisfied.                         *)
LEMMA WriteSatisfies ==
  ASSUME EntriesInv, Undisturbed, ~tampered, Server!Write, NEW s \in Server!Wirings, s = at
  PROVE  Server!Satisfied(s)'
  <1>1. /\ wirePc = "write" /\ UNCHANGED <<cfg, arrKey>>
        /\ Server!Written(s) \/ (Server!Decision(s) = "keep" /\ UNCHANGED entries)
    BY DEF Server!Write
  <1>2. listed[s] = entries[s] /\ entries[s] \subseteq Server!Entry
    BY <1>1 DEF Undisturbed, Due, EntriesInv, Typed, ServerTyped, Server!TypeOK
  <1>3. \A e \in entries[s] : e.id \in Nat
    BY <1>2, Bounds DEF Server!Entry
  <1>4. Server!RightValue(s)' = Server!Want(s)
    BY <1>1, WantsRight DEF Server!RightValue
  <1>5. CASE Server!Decision(s) = "add" /\ Server!Added(s)
    <2>. DEFINE n == [id |-> lastId[s] + 1, value |-> Server!Want(s), extra |-> FALSE,
                      ours |-> TRUE]
    <2>1. entries[s] = {}
      BY <1>2, <1>5, Decisions
    <2>2. entries'[s] = {n}
      BY <1>5, <2>1 DEF Server!Added, EntriesInv, Typed, ServerTyped, Server!TypeOK
    <2>3. n.id \in Nat /\ n.value = Server!Want(s)
      <3>1. lastId[s] \in 0 .. MaxEntries
        BY DEF EntriesInv, Typed, ServerTyped, Server!TypeOK
      <3>. QED
        BY <3>1, Bounds
    <2>. HIDE DEF n
    <2>4. Server!First(entries'[s]) = n
      BY <2>2, <2>3, FirstIsLeast
    <2>. QED
      BY <1>4, <2>2, <2>3, <2>4 DEF Server!Satisfied
  <1>6. CASE Server!Decision(s) = "update" /\ Server!Updated(s)
    <2>. DEFINE e == Server!First(listed[s])
                p == Server!PutBack(e, s)
    <2>1. e \in entries[s] /\ e \in Server!Entry /\ \A f \in entries[s] : e.id <= f.id
      BY <1>2, <1>6, UpdateOf DEF EntriesInv, Typed, ServerTyped
    <2>2. p.id = e.id /\ p.value = Server!Want(s)
      BY <2>1, PutBackKeeps
    <2>3. entries'[s] = {f \in entries[s] : f.id # e.id} \cup {p}
      BY <1>6 DEF Server!Updated, EntriesInv, Typed, ServerTyped, Server!TypeOK
    <2>. HIDE DEF e, p
    <2>4. /\ p \in entries'[s] /\ \A f \in entries'[s] : f.id \in Nat
          /\ \A f \in entries'[s] : f # p => p.id < f.id
      BY <1>3, <2>1, <2>2, <2>3
    <2>5. Server!First(entries'[s]) = p
      BY <2>4, FirstIsOnly
    <2>. QED
      BY <1>4, <2>2, <2>4, <2>5 DEF Server!Satisfied
  <1>7. CASE Server!Decision(s) = "keep" /\ UNCHANGED entries
    BY <1>2, <1>4, <1>7, Decisions DEF Server!Satisfied, Compared
  <1>. QED
    BY <1>1, <1>5, <1>6, <1>7 DEF Server!Written

(* How far a pass has come, and where wired stands.                        *)
Progress ==
    /\ wired => wirePc = "returned"
    /\ wired /\ ~tampered => Server!AllSatisfied
    /\ ~tampered /\ ~failed /\ wirePc \in {"login", "libraries", "list", "write"} =>
           jellyfin.wizard = "done"
    /\ ~tampered /\ ~failed /\ wirePc \in {"list", "write"} =>
           \A s \in Server!Wirings : s < at => Server!Satisfied(s)

(* GoesOn keeps that up when what is behind the pass is satisfied, or when *)
(* something has failed.                                                   *)
LEMMA GoesProgress ==
  ASSUME Server!TypeOK, Progress, wirePc # "returned",
         NEW next \in 1 .. Len(Plan) + 1, NEW err \in BOOLEAN, Server!GoesOn(next, err),
         tampered' \/ failed' \/ ( /\ jellyfin'.wizard = "done"
                                   /\ \A s \in Server!Wirings : s < next => Server!Satisfied(s)')
  PROVE  Progress'
  <1>1. wired = FALSE
    BY DEF Progress, Server!TypeOK
  <1>2. \A s \in Server!Wirings : s < Len(Plan) + 1
    BY Bounds
  <1>. QED
    BY <1>1, <1>2, Goes DEF Progress, Server!AllSatisfied

(* A pass leaves satisfied wirings behind it, or notes a failure.          *)
LEMMA StepProgress ==
  ASSUME EntriesInv, Undisturbed, Progress, [Next]_vars PROVE Progress'
  <1>. USE DEF serviceVars, passVars, Server!serviceVars, Server!passVars, Server!Quiet
  <1>0. Server!TypeOK /\ ServerTyped
    BY DEF EntriesInv, Typed, ServerTyped
  <1>a. ASSUME UNCHANGED <<entries, jellyfin, cfg, arrKey>>
        PROVE  /\ Server!AllSatisfied' = Server!AllSatisfied
               /\ \A s \in Server!Wirings : Server!Satisfied(s)' = Server!Satisfied(s)
    BY <1>a DEF Server!AllSatisfied, Server!Satisfied, Server!RightValue
  <1>1. CASE Unmoved
    BY <1>1, <1>a DEF Unmoved, Progress
  <1>2. CASE Server!PassStep
    <2>1. CASE \/ Server!WaitForAPIKeys \/ Server!PingServices \/ Server!WaitTimesOut
               \/ Server!CheckWizard \/ Server!NextPass
      BY <2>1 DEF Server!WaitForAPIKeys, Server!PingServices, Server!WaitTimesOut,
            Server!CheckWizard, Server!NextPass, Progress
    <2>2. CASE Server!WizardStep
      BY <1>0, <2>2 DEF Server!WizardStep, Server!WizardCall, Server!TypeOK, Progress
    <2>3. CASE Server!Login
      <3>1. CASE Server!TokenAtHand
        BY <2>3, <3>1 DEF Server!Login, Progress
      <3>2. CASE ~Server!TokenAtHand
        <4>1. Server!GoesOn(Server!FirstAfterLibraries, TRUE) /\ wirePc # "returned"
          BY <2>3, <3>2 DEF Server!Login
        <4>2. failed'
          BY <1>0, <4>1, Goes, Libraries
        <4>. QED
          BY <1>0, <4>1, <4>2, GoesProgress, Libraries
      <3>. QED
        BY <3>1, <3>2
    <2>4. CASE Server!ListLibraries
      <3>0. CASE token = "dead"
        <4>1. Server!GoesOn(Server!FirstAfterLibraries, TRUE) /\ wirePc # "returned"
          BY <2>4, <3>0 DEF Server!ListLibraries
        <4>2. failed'
          BY <1>0, <4>1, Goes, Libraries
        <4>. QED
          BY <1>0, <4>1, <4>2, GoesProgress, Libraries
      <3>. SUFFICES ASSUME token # "dead" PROVE Progress'
        BY <3>0
      <3>1. /\ Server!GoesOn(1, FALSE) /\ wirePc = "libraries"
            /\ UNCHANGED <<entries, jellyfin, cfg, arrKey, tampered>>
        BY <2>4 DEF Server!ListLibraries
      <3>2. failed' = failed
        BY <1>0, <3>1, Goes, Bounds DEF Server!TypeOK
      <3>3. \A s \in Server!Wirings : ~(s < 1)
        BY Bounds
      <3>4. tampered' \/ failed' \/ jellyfin'.wizard = "done"
        BY <3>1, <3>2 DEF Progress
      <3>. QED
        BY <1>0, <3>1, <3>3, <3>4, GoesProgress, Bounds
    <2>5. CASE Server!ListEntries
      BY <1>a, <2>5 DEF Server!ListEntries, Progress
    <2>6. CASE Server!Write
      <3>1. /\ Server!GoesOn(at + 1, FALSE) /\ wirePc = "write" /\ at \in Server!Wirings
            /\ UNCHANGED <<jellyfin, cfg, arrKey, tampered>>
        BY <1>0, <2>6 DEF Server!Write, ServerTyped, At
      <3>2. at + 1 \in 1 .. Len(Plan) + 1 /\ failed' = failed
        BY <1>0, <3>1, Goes, Bounds DEF Server!TypeOK
      <3>3. ASSUME ~tampered, ~failed, NEW s \in Server!Wirings, s < at + 1
            PROVE  Server!Satisfied(s)'
        <4>1. CASE s = at
          BY <2>6, <3>3, <4>1, WriteSatisfies
        <4>2. CASE s # at
          <5>1. s < at
            BY <3>1, <3>3, <4>2, Bounds
          <5>2. entries'[s] = entries[s]
            BY <1>0, <2>6, <4>2 DEF Server!Write, Server!Written, Server!Added,
                  Server!Updated, Server!TypeOK
          <5>. QED
            BY <3>1, <3>3, <5>1, <5>2, Steady DEF Progress
        <4>. QED
          BY <4>1, <4>2
      <3>4. tampered' \/ failed' \/ jellyfin'.wizard = "done"
        BY <3>1, <3>2 DEF Progress
      <3>5. tampered' \/ failed' \/ \A s \in Server!Wirings : s < at + 1 => Server!Satisfied(s)'
        BY <3>1, <3>2, <3>3
      <3>. QED
        BY <1>0, <3>1, <3>2, <3>4, <3>5, GoesProgress
    <2>7. CASE Server!WriteRefused
      <3>1. Server!GoesOn(at + 1, TRUE) /\ wirePc = "write" /\ at \in Server!Wirings
        BY <1>0, <2>7 DEF Server!WriteRefused, ServerTyped, At
      <3>2. at + 1 \in 1 .. Len(Plan) + 1 /\ failed'
        BY <1>0, <3>1, Goes, Bounds
      <3>. QED
        BY <1>0, <3>1, <3>2, GoesProgress
    <2>. QED
      BY <1>2, <2>1, <2>2, <2>3, <2>4, <2>5, <2>6, <2>7 DEF Server!PassStep
  <1>3. CASE Server!CallFails
    <2>1. PICK next \in 1 .. Len(Plan) + 1 : Server!GoesOn(next, TRUE)
      <3>1. wirePc \in {"list", "write"} => at + 1 \in 1 .. Len(Plan) + 1
        BY <1>0, Bounds DEF ServerTyped, At
      <3>. QED
        BY <1>3, <3>1, Libraries DEF Server!CallFails
    <2>2. failed' /\ wirePc # "returned"
      BY <1>0, <1>3, <2>1, Goes DEF Server!CallFails
    <2>. QED
      BY <1>0, <2>1, <2>2, GoesProgress
  <1>4. CASE Starts \/ Stops
    BY <1>4 DEF Starts, Stops, Server!ServerStarts, Server!ServerStops, Progress
  <1>5. CASE \/ Resets \/ Server!KeyRenewed
             \/ \E s \in Server!Wirings : Server!UserEdits(s)
             \/ \E v \in Server!Values : Server!PasswordChanged(v)
    BY <1>5 DEF Resets, Server!KeyRenewed, Server!UserEdits, Server!PasswordChanged, Progress
  <1>6. CASE \E v \in Services : Server!Boot(v)
    BY <1>6, <1>a DEF Server!Boot, Progress
  <1>. QED
    BY <1>0, <1>1, <1>2, <1>3, <1>4, <1>5, <1>6, ServerSteps

WiringInv == EntriesInv /\ Undisturbed /\ Progress

(* No pass is under way at first.                                          *)
LEMMA InitWiringInv == Init => WiringInv
  <1>1. Init => Undisturbed /\ Progress
    BY DEF Init, Server!Init, Undisturbed, Progress, Pass, Due
  <1>. QED
    BY <1>1, InitEntriesInv DEF WiringInv

(* Every step of the stack keeps what passes rely on.                      *)
LEMMA StepWiringInv == ASSUME WiringInv, [Next]_vars PROVE WiringInv'
  BY StepEntriesInv, StepUndisturbed, StepProgress DEF WiringInv, EntriesInv, Typed

(* What /api/health tells `pelicula up`: the wizard is done and every      *)
(* wiring is in place, as long as nobody else changed one.                 *)
THEOREM WiredMeansWired == Spec => []WiredIsWired
  <1>1. WiringInv => WiredIsWired
    BY DEF WiringInv, Progress, WiredIsWired, Server!WiredIsWired
  <1>. QED
    BY InitWiringInv, StepWiringInv, <1>1, PTL DEF Spec

-----------------------------------------------------------------------------
(* A settled stack.                                                        *)

(* A pass that began with nothing to do still has nothing to do, and does  *)
(* not enter the wizard, as long as nobody else changes a service.         *)
Settled ==
    settled /\ ~tampered /\ wirePc \in Pass =>
        Server!AllSatisfied /\ wirePc \notin {"user", "complete"}

(* Where nothing is to be done, an undisturbed pass decides to keep.       *)
LEMMA SettledKeeps ==
  ASSUME WiringInv, Settled, settled, ~tampered, wirePc = "write"
  PROVE  Server!Decision(at) = "keep" /\ ~Server!Written(at)
  <1>1. at \in Server!Wirings
    BY DEF WiringInv, EntriesInv, Typed, ServerTyped, At
  <1>2. listed[at] = entries[at] /\ Server!Satisfied(at)
    BY <1>1 DEF WiringInv, Undisturbed, Due, Settled, Pass, Server!AllSatisfied
  <1>3. Server!Want(at) = Server!RightValue(at)
    BY WantsRight DEF WiringInv
  <1>4. Server!Decision(at) = "keep"
    BY <1>1, <1>2, <1>3, Decisions DEF Server!Satisfied, Compared
  <1>. QED
    BY <1>4 DEF Server!Written

(* So a step of the pass changes neither entries nor Jellyfin.             *)
LEMMA SettledLeavesAlone ==
  ASSUME WiringInv, Settled, settled, wirePc \in Pass, ~tampered', [Next]_vars
  PROVE  ~tampered /\ UNCHANGED <<entries, jellyfin>>
  <1>. USE DEF serviceVars, passVars, Server!serviceVars, Server!passVars, Server!Quiet
  <1>1. CASE Unmoved
    BY <1>1 DEF Unmoved
  <1>2. CASE Server!PassStep
    <2>1. ~tampered
      BY <1>2 DEF Server!PassStep, Server!WaitForAPIKeys, Server!PingServices,
         Server!WaitTimesOut, Server!CheckWizard, Server!WizardStep,
         Server!Login, Server!ListLibraries, Server!ListEntries, Server!Write,
         Server!WriteRefused, Server!NextPass, Pass
    <2>2. CASE Server!Write
      BY <2>1, <2>2, SettledKeeps DEF Server!Write
    <2>3. ~Server!WizardStep
      BY <2>1 DEF Server!WizardStep, Server!WizardCall, Settled
    <2>. QED
      BY <1>2, <2>1, <2>2, <2>3 DEF Server!PassStep, Server!WaitForAPIKeys,
         Server!PingServices, Server!WaitTimesOut, Server!CheckWizard, Server!Login,
         Server!ListLibraries, Server!ListEntries, Server!WriteRefused, Server!NextPass
  <1>3. CASE Server!CallFails
    <2>1. ~tampered
      BY <1>3 DEF Server!CallFails
    <2>2. ~Server!WizardCall /\ ~(wirePc = "write" /\ Server!Written(at))
      BY <2>1, SettledKeeps DEF Server!WizardCall, Settled
    <2>. QED
      BY <1>3, <2>1, <2>2 DEF Server!CallFails
  <1>4. CASE Starts \/ Stops
    <2>1. tampered' = tampered /\ entries' = entries /\ jellyfin' = jellyfin
      BY <1>4 DEF Starts, Stops
    <2>. QED
      BY <2>1
  <1>5. CASE \/ Resets \/ Server!KeyRenewed
             \/ \E s \in Server!Wirings : Server!UserEdits(s)
             \/ \E v \in Server!Values : Server!PasswordChanged(v)
    BY <1>5 DEF Resets, Server!KeyRenewed, Server!UserEdits, Server!PasswordChanged
  <1>6. CASE \E v \in Services : Server!Boot(v)
    BY <1>6 DEF Server!Boot
  <1>. QED
    BY <1>1, <1>2, <1>3, <1>4, <1>5, <1>6, ServerSteps
       DEF WiringInv, EntriesInv, Typed, ServerTyped

(* A pass is in Pass once it has the keys; nothing else brings it there.   *)
LEMMA EntersPass ==
  ASSUME ServerTyped, wirePc \notin Pass, wirePc' \in Pass, [Next]_vars
  PROVE  Server!WaitForAPIKeys
  <1>. USE DEF serviceVars, passVars, Server!passVars, Pass
  <1>1. CASE Server!PassStep
    BY <1>1 DEF Server!PassStep, Server!PingServices,
       Server!WaitTimesOut, Server!CheckWizard, Server!WizardStep, Server!WizardCall,
       Server!Login, Server!ListLibraries, Server!ListEntries, Server!Write,
       Server!WriteRefused, Server!NextPass
  <1>2. CASE Server!CallFails \/ Starts \/ Stops
    BY <1>2 DEF Server!CallFails, Starts, Stops, Server!ServerStarts, Server!ServerStops
  <1>3. CASE \/ Unmoved \/ Resets \/ Server!KeyRenewed
             \/ \E s \in Server!Wirings : Server!UserEdits(s)
             \/ \E v \in Server!Values : Server!PasswordChanged(v)
             \/ \E v \in Services : Server!Boot(v)
    BY <1>3 DEF Unmoved, Resets, Server!KeyRenewed, Server!UserEdits,
       Server!PasswordChanged, Server!Boot
  <1>. QED
    BY <1>1, <1>2, <1>3, ServerSteps DEF ServerTyped

(* A settled stack stays settled until the pass ends or somebody else      *)
(* changes it.                                                             *)
LEMMA StepSettled == ASSUME WiringInv, Settled, [Next]_vars PROVE Settled'
  <1>. SUFFICES ASSUME settled', ~tampered', wirePc' \in Pass
                PROVE  Server!AllSatisfied' /\ wirePc' \notin {"user", "complete"}
    BY DEF Settled
  <1>. USE DEF serviceVars, passVars, Server!serviceVars, Server!passVars, Server!Quiet
  <1>0. ServerTyped
    BY DEF WiringInv, EntriesInv, Typed
  <1>1. CASE Server!WaitForAPIKeys
    BY <1>1 DEF Server!WaitForAPIKeys, Server!AllSatisfied, Server!Satisfied,
          Server!RightValue
  <1>2. CASE ~Server!WaitForAPIKeys
    <2>1. wirePc \in Pass
      BY <1>0, <1>2, EntersPass
    <2>2. /\ settled /\ UNCHANGED <<cfg, arrKey>>
          /\ wirePc' \in {"user", "complete"} =>
                 \/ wirePc \in {"user", "complete"}
                 \/ wirePc = "wizard" /\ jellyfin.wizard # "done"
      <3>1. CASE Unmoved
        BY <3>1 DEF Unmoved
      <3>2. CASE Server!PassStep
        BY <1>2, <3>2 DEF Server!PassStep, Server!PingServices,
           Server!WaitTimesOut, Server!CheckWizard, Server!WizardStep, Server!WizardCall,
           Server!Login, Server!ListLibraries, Server!ListEntries, Server!Write,
           Server!WriteRefused, Server!NextPass, Server!GoesOn, Server!AfterFailedPass
      <3>3. CASE Server!CallFails
        BY <3>3 DEF Server!CallFails, Server!GoesOn, Server!AfterFailedPass
      <3>4. CASE Starts \/ Stops
        BY <3>4 DEF Starts, Stops, Server!ServerStarts, Server!ServerStops, Pass
      <3>5. CASE \/ Resets \/ Server!KeyRenewed
                 \/ \E s \in Server!Wirings : Server!UserEdits(s)
                 \/ \E v \in Server!Values : Server!PasswordChanged(v)
        BY <3>5 DEF Resets, Server!KeyRenewed, Server!UserEdits, Server!PasswordChanged
      <3>6. CASE \E v \in Services : Server!Boot(v)
        BY <3>6 DEF Server!Boot
      <3>. QED
        BY <1>0, <3>1, <3>2, <3>3, <3>4, <3>5, <3>6, ServerSteps DEF ServerTyped
    <2>3. ~tampered /\ UNCHANGED <<entries, jellyfin>>
      BY <2>1, <2>2, SettledLeavesAlone
    <2>4. Server!AllSatisfied /\ wirePc \notin {"user", "complete"}
      BY <2>1, <2>2, <2>3 DEF Settled
    <2>. QED
      BY <2>2, <2>3, <2>4 DEF Server!AllSatisfied, Server!Satisfied, Server!RightValue
  <1>. QED
    BY <1>1, <1>2

(* "Running it against an already-wired stack changes nothing."            *)
THEOREM SettledStaysAsItIs == Spec => SettledIsLeftAlone
  <1>. DEFINE Inv == WiringInv /\ Settled
  <1>1. Init => Inv
    BY InitWiringInv DEF Init, Server!Init, Settled
  <1>2. Inv /\ [Next]_vars => Inv'
    BY StepWiringInv, StepSettled
  <1>3. Inv /\ [Next]_vars =>
            [settled /\ ~tampered' /\ wirePc \in {"user", "complete", "write"}
                => UNCHANGED <<entries, jellyfin>>]_(Server!vars)
    BY SettledLeavesAlone DEF Pass
  <1>. QED
    BY <1>1, <1>2, <1>3, PTL DEF Spec, SettledIsLeftAlone, Server!SettledIsLeftAlone
=============================================================================
