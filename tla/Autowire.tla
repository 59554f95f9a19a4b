------------------------------ MODULE Autowire ------------------------------
(***************************************************************************)
(* wire and autowire.Run: wait for the services and their API keys, run    *)
(* Jellyfin's wizard and sign in, then go through the wirings (libraries,  *)
(* root folders, download clients, webhooks, Prowlarr applications), each  *)
(* of which lists what the service has and adds or updates an entry.  Any  *)
(* call may fail, carried out or not; a pass with a failure is repeated.   *)
(* Users edit the same entries, and the server may restart at any point.   *)
(***************************************************************************)
EXTENDS Naturals, Sequences, FiniteSets

CONSTANTS
    Plan,           \* the kinds of the wirings, in the order of Run
    Services,       \* what has to answer before the first wiring
    MaxValue,       \* bound on passwords, secrets and API keys ever in use
    MaxEntries,     \* bound on entries ever made for one wiring
    MaxMishaps      \* bound on each of the counts in serverLeft

Kinds == {"library", "folder", "client", "webhook", "application"}
Wirings == DOMAIN Plan
Values == 1 .. MaxValue

AutowireAssumption ==
    /\ Plan \in Seq(Kinds)
    /\ \A s, t \in Wirings : s < t /\ Plan[t] = "library" => Plan[s] = "library"
    /\ MaxValue \in Nat \ {0}
    /\ {MaxEntries, MaxMishaps} \subseteq Nat

VARIABLES
    entries,        \* the services: the entries each wiring looks at
    lastId,         \* and the last id given to one of them
    arrKey,         \* the *arr apps' API key
    jellyfin,       \* how far the wizard is, and the admin's password
    booted,         \* the services that answer
    cfg,            \* the server's environment: admin password and webhook secret
    wired,          \* what /api/health reports
    wirePc, at,     \* where wire is, and at which wiring
    key,            \* the API key from WaitForAPIKeys
    pending,        \* waitForServices: not answered yet
    listed,         \* what each wiring's list call returned
    failed,         \* firstErr is set
    token,          \* the admin token that Admin caches, if any, and whether
                    \* Jellyfin still takes it
    tampered,       \* history: somebody else changed a service in this pass
    settled,        \* history: the pass began with nothing to do
    serverLeft      \* bounds: failed calls, edits and restarts still to come

serviceVars == <<entries, lastId, arrKey, jellyfin, booted>>
passVars == <<wired, wirePc, at, key, pending, listed, failed, token>>
vars == <<serviceVars, cfg, passVars, tampered, settled, serverLeft>>

(* value is what a wiring compares and sets (host, url, secret, API key),  *)
(* 0 for anything wrong; extra is a setting of the user's; ours: we added. *)
Entry == [id : 1 .. MaxEntries, value : 0 .. MaxValue, extra : BOOLEAN, ours : BOOLEAN]

Config == [password : Values, secret : Values]

TypeOK ==
    /\ entries \in [Wirings -> SUBSET Entry]
    /\ lastId \in [Wirings -> 0 .. MaxEntries]
    /\ arrKey \in Values
    /\ jellyfin \in [wizard : {"fresh", "named", "done"}, password : 0 .. MaxValue]
    /\ booted \subseteq Services /\ pending \subseteq Services
    /\ cfg \in Config
    /\ wired \in BOOLEAN /\ failed \in BOOLEAN
    /\ tampered \in BOOLEAN /\ settled \in BOOLEAN
    /\ wirePc \in {"keys", "ping", "wizard", "user", "complete", "login",
                   "libraries", "list", "write", "sleep", "returned", "off"}
    /\ at \in 1 .. Len(Plan) + 1
    /\ key \in 0 .. MaxValue
    /\ listed \in [Wirings -> SUBSET Entry]
    /\ token \in {"none", "live", "dead"}
    /\ serverLeft \in [{"failures", "edits", "crashes"} -> 0 .. MaxMishaps]

NothingListed == [s \in Wirings |-> {}]

Init ==
    /\ entries = NothingListed
    /\ lastId = [s \in Wirings |-> 0]
    /\ arrKey = 1
    /\ jellyfin = [wizard |-> "fresh", password |-> 0]
    /\ booted = {}
    /\ cfg = [password |-> 1, secret |-> 1]
    /\ wired = FALSE
    /\ wirePc = "off"
    /\ at = 1
    /\ key = 0
    /\ pending = Services
    /\ listed = NothingListed
    /\ failed = FALSE
    /\ token = "none"
    /\ tampered = FALSE
    /\ settled = FALSE
    /\ serverLeft \in [{"failures", "edits", "crashes"} -> 0 .. MaxMishaps]

Uses(what) ==
    /\ serverLeft[what] > 0
    /\ serverLeft' = [serverLeft EXCEPT ![what] = @ - 1]

-----------------------------------------------------------------------------
(* What each wiring wants, and what it makes of a list.                    *)

Want(s) == CASE Plan[s] = "webhook"     -> cfg.secret
             [] Plan[s] = "application" -> key
             [] OTHER                   -> 1

First(es) == CHOOSE e \in es : \A f \in es : e.id <= f.id

(* ensureLibrary and wireRootFolder only add; what is there stays as it is. *)
EnsureLibraryAgain(s) == "add"
EnsureLibrary(s) == IF listed[s] = {} THEN "add" ELSE "keep"
EnsureRootFolder(s) == IF listed[s] = {} THEN "add" ELSE "keep"

(* The others take the first entry that is theirs by type or name.         *)
ReconcileAddsOnDrift(s) ==
    IF \E e \in listed[s] : e.value = Want(s) THEN "keep" ELSE "add"
Reconcile(s) ==
    IF listed[s] = {} THEN "add"
    ELSE IF First(listed[s]).value # Want(s) THEN "update" ELSE "keep"

(* wireDownloadClient: any qBittorrent client, even the user's own.        *)
ReconcileClient(s) == Reconcile(s)
(* wireImportWebhook: url, method, the secret's header and the triggers.   *)
ReconcileWebhook(s) == Reconcile(s)
(* wireProwlarrApp: both urls and the app's key.                           *)
ReconcileApplication(s) == Reconcile(s)

Decision(s) ==
    CASE Plan[s] = "library"     -> EnsureLibrary(s)
      [] Plan[s] = "folder"      -> EnsureRootFolder(s)
      [] Plan[s] = "client"      -> ReconcileClient(s)
      [] Plan[s] = "webhook"     -> ReconcileWebhook(s)
      [] Plan[s] = "application" -> ReconcileApplication(s)

(* A wiring has nothing to do.                                             *)
RightValue(s) == CASE Plan[s] = "webhook"     -> cfg.secret
                   [] Plan[s] = "application" -> arrKey
                   [] OTHER                   -> 1
Satisfied(s) ==
    /\ entries[s] # {}
    /\ Plan[s] \in {"client", "webhook", "application"} =>
           First(entries[s]).value = RightValue(s)
AllSatisfied == jellyfin.wizard = "done" /\ \A s \in Wirings : Satisfied(s)

-----------------------------------------------------------------------------
(* A pass.                                                                 *)

Quiet == UNCHANGED <<serviceVars, cfg, tampered, settled, serverLeft>>

(* WaitForAPIKeys: every key is there; the apps write them when they boot. *)
WaitForAPIKeys ==
    /\ wirePc = "keys"
    /\ Services \ {"jellyfin"} \subseteq booted
    /\ key' = arrKey
    /\ wirePc' = "ping"
    /\ pending' = Services
    /\ failed' = FALSE
    /\ tampered' = FALSE
    /\ settled' = AllSatisfied
    /\ UNCHANGED <<serviceVars, cfg, wired, at, listed, token, serverLeft>>

(* waitForServices: one round of pings.                                    *)
PingServices ==
    /\ wirePc = "ping"
    /\ pending' = pending \ booted
    /\ wirePc' = IF pending \subseteq booted THEN "wizard" ELSE "ping"
    /\ UNCHANGED <<wired, at, key, listed, failed, token>>
    /\ Quiet

(* keyCtx or runCtx ends while a service is away: 2 minutes' sleep.        *)
WaitTimesOut ==
    /\ wirePc \in {"keys", "ping"}
    /\ ~(Services \subseteq booted)
    /\ wirePc' = "sleep"
    /\ UNCHANGED <<wired, at, key, pending, listed, failed, token>>
    /\ Quiet

(* Done with the wiring (or all the libraries); on, or out of Run.         *)
AfterFailedPassReturn == "returned"
AfterFailedPass == "sleep"

(* firstErr.note: one error is enough, whatever works afterwards.          *)
NotedLast(err) == err
Noted(err) == failed \/ err

GoesOn(next, err) ==
    /\ at' = next
    /\ failed' = Noted(err)
    /\ IF next <= Len(Plan)
       THEN /\ wirePc' = IF Plan[next] = "library" THEN "write" ELSE "list"
            /\ UNCHANGED wired
       ELSE /\ wirePc' = IF Noted(err) THEN AfterFailedPass ELSE "returned"
            /\ wired' = ~Noted(err)

FirstAfterLibraries == Cardinality({s \in Wirings : Plan[s] = "library"}) + 1

(* wireJellyfin; StartupWizardCompleted decides about the wizard.          *)
CheckWizard ==
    /\ wirePc = "wizard"
    /\ wirePc' = IF jellyfin.wizard = "done" THEN "login" ELSE "user"
    /\ UNCHANGED <<wired, at, key, pending, listed, failed, token>>
    /\ Quiet

(* CompleteStartupWizard's POST /Startup/User and POST /Startup/Complete.  *)
WizardCall ==
    \/ /\ wirePc = "user"
       /\ jellyfin' = [wizard |-> "named", password |-> cfg.password]
    \/ /\ wirePc = "complete"
       /\ jellyfin' = [jellyfin EXCEPT !.wizard = "done"]

WizardStep ==
    /\ WizardCall
    /\ wirePc' = IF wirePc = "user" THEN "complete" ELSE "login"
    /\ UNCHANGED <<entries, lastId, arrKey, booted, cfg, wired, at, key, pending,
                   listed, failed, token, tampered, settled, serverLeft>>

(* Admin.Token: the cached token, alive or not (nobody invalidates it), or *)
(* else a login: Jellyfin takes the configured password, or does not.      *)
LoginWorks == jellyfin.wizard = "done" /\ jellyfin.password = cfg.password
TokenAtHand == token # "none" \/ LoginWorks
Cached == IF token = "none" THEN "live" ELSE token

Login ==
    /\ wirePc = "login"
    /\ \/ TokenAtHand /\ token' = Cached /\ wirePc' = "libraries" /\ UNCHANGED <<wired, at, failed>>
       \/ ~TokenAtHand /\ GoesOn(FirstAfterLibraries, TRUE) /\ UNCHANGED token
    /\ UNCHANGED <<key, pending, listed>>
    /\ Quiet

(* One list for all the libraries; a dead token is a 401 and ends this.    *)
ListLibraries ==
    /\ wirePc = "libraries"
    /\ \/ /\ token # "dead"
          /\ listed' = [s \in Wirings |-> IF Plan[s] = "library" THEN entries[s] ELSE {}]
          /\ GoesOn(1, FALSE)
       \/ /\ token = "dead"
          /\ GoesOn(FirstAfterLibraries, TRUE)
          /\ UNCHANGED listed
    /\ UNCHANGED <<key, pending, token>>
    /\ Quiet

ListEntries ==
    /\ wirePc = "list"
    /\ listed' = [listed EXCEPT ![at] = entries[at]]
    /\ wirePc' = "write"
    /\ UNCHANGED <<wired, at, key, pending, failed, token>>
    /\ Quiet

(* POST a new entry, or PUT the listed one back with our fields set.       *)
Added(s) ==
    /\ lastId[s] < MaxEntries
    /\ lastId' = [lastId EXCEPT ![s] = @ + 1]
    /\ entries' = [entries EXCEPT ![s] = @ \cup
           {[id |-> lastId[s] + 1, value |-> Want(s), extra |-> FALSE, ours |-> TRUE]}]

PutBackFresh(e, s) == [e EXCEPT !.value = Want(s), !.extra = FALSE]
PutBack(e, s) == [e EXCEPT !.value = Want(s)]

Updated(s) ==
    LET e == First(listed[s])
    IN  /\ \E f \in entries[s] : f.id = e.id
        /\ entries' = [entries EXCEPT ![s] = {f \in @ : f.id # e.id} \cup {PutBack(e, s)}]
        /\ UNCHANGED lastId

Unauthorized(s) == Plan[s] = "library" /\ token = "dead"
Written(s) == \/ Decision(s) = "add" /\ ~Unauthorized(s) /\ Added(s)
              \/ Decision(s) = "update" /\ Updated(s)

Write ==
    /\ wirePc = "write"
    /\ \/ Written(at)
       \/ Decision(at) = "keep" /\ UNCHANGED <<entries, lastId>>
    /\ GoesOn(at + 1, FALSE)
    /\ UNCHANGED <<arrKey, jellyfin, booted, cfg, key, pending, listed, token,
                   tampered, settled, serverLeft>>

(* The entry to be updated is gone (404), or the token died (401).         *)
WriteRefused ==
    /\ wirePc = "write"
    /\ \/ /\ Decision(at) = "update"
          /\ \A f \in entries[at] : f.id # First(listed[at]).id
       \/ Decision(at) = "add" /\ Unauthorized(at)
    /\ GoesOn(at + 1, TRUE)
    /\ UNCHANGED <<key, pending, listed, token>>
    /\ Quiet

(* A call fails, or only its answer is lost: the step is noted as failed   *)
(* and the next one has its turn.                                          *)
CallFails ==
    /\ wirePc \in {"wizard", "user", "complete", "login", "libraries", "list", "write"}
    /\ wirePc = "write" => Decision(at) # "keep"
    /\ wirePc = "login" => token = "none"
    /\ Uses("failures")
    /\ GoesOn(IF wirePc = "write" \/ wirePc = "list" THEN at + 1 ELSE FirstAfterLibraries, TRUE)
    /\ \/ UNCHANGED serviceVars
       \/ wirePc = "write" /\ Written(at) /\ UNCHANGED <<arrKey, jellyfin, booted>>
       \/ WizardCall /\ UNCHANGED <<entries, lastId, arrKey, booted>>
    /\ UNCHANGED <<cfg, key, pending, listed, token, tampered, settled>>

(* After 2 minutes.                                                        *)
NextPass ==
    /\ wirePc = "sleep"
    /\ wirePc' = "keys"
    /\ at' = 1
    /\ UNCHANGED <<wired, key, pending, listed, failed, token>>
    /\ Quiet

-----------------------------------------------------------------------------
(* Around it.                                                              *)

Boot(v) ==
    /\ v \notin booted
    /\ booted' = booted \cup {v}
    /\ UNCHANGED <<entries, lastId, arrKey, jellyfin, cfg, passVars, tampered, settled, serverLeft>>

(* The user changes an entry, removes it, or adds one of the same type or  *)
(* name; the app's key is renewed; the admin's password is changed.        *)
UserEdits(s) ==
    /\ Uses("edits")
    /\ tampered' = TRUE
    /\ \/ /\ \E e \in entries[s] :
                entries' \in {[entries EXCEPT ![s] = @ \ {e}],
                              [entries EXCEPT ![s] = (@ \ {e}) \cup {[e EXCEPT !.value = 0]}],
                              [entries EXCEPT ![s] = (@ \ {e}) \cup {[e EXCEPT !.extra = TRUE]}]}
          /\ UNCHANGED lastId
       \/ /\ lastId[s] < MaxEntries
          /\ lastId' = [lastId EXCEPT ![s] = @ + 1]
          /\ entries' = [entries EXCEPT ![s] = @ \cup
                {[id |-> lastId[s] + 1, value |-> 0, extra |-> TRUE, ours |-> FALSE]}]
    /\ UNCHANGED <<arrKey, jellyfin, booted, cfg, passVars, settled>>

KeyRenewed ==
    /\ arrKey < MaxValue
    /\ Uses("edits")
    /\ arrKey' = arrKey + 1
    /\ tampered' = TRUE
    /\ UNCHANGED <<entries, lastId, jellyfin, booted, cfg, passVars, settled>>

(* What becomes of a live token that Jellyfin forgets.                     *)
Forgotten == IF token = "live" THEN "dead" ELSE token

PasswordChanged(v) ==
    /\ jellyfin.wizard = "done"
    /\ Uses("edits")
    /\ jellyfin' = [jellyfin EXCEPT !.password = v]
    /\ token' \in {token, Forgotten}
    /\ tampered' = TRUE
    /\ UNCHANGED <<entries, lastId, arrKey, booted, cfg, wired, wirePc, at, key, pending,
                   listed, failed, settled>>

(* The other users of Admin (registration, the library refresh, the list   *)
(* of users) need a token at any time.                                     *)
OthersLogIn ==
    /\ wirePc # "off"
    /\ token = "none" /\ LoginWorks
    /\ token' = Cached
    /\ UNCHANGED <<wired, wirePc, at, key, pending, listed, failed>>
    /\ Quiet

(* An admin revokes the server's session in Jellyfin.                      *)
TokenRevoked ==
    /\ token = "live"
    /\ Uses("edits")
    /\ token' = Forgotten
    /\ UNCHANGED <<serviceVars, cfg, wired, wirePc, at, key, pending, listed, failed,
                   tampered, settled>>

(* The server's container starts, stops or crashes.                        *)
ServerStarts(c) ==
    /\ cfg' = c
    /\ wired' = FALSE
    /\ wirePc' = "keys"
    /\ at' = 1
    /\ key' = 0
    /\ pending' = Services
    /\ listed' = NothingListed
    /\ failed' = FALSE
    /\ token' = "none"
    /\ settled' = FALSE

ServerStops ==
    /\ wired' = FALSE
    /\ wirePc' = "off"
    /\ UNCHANGED <<at, key, pending, listed, failed, token>>

Start(c) ==
    /\ wirePc = "off"
    /\ ServerStarts(c)
    /\ UNCHANGED <<serviceVars, tampered, serverLeft>>

Crash ==
    /\ wirePc # "off"
    /\ Uses("crashes")
    /\ ServerStops
    /\ UNCHANGED <<serviceVars, cfg, tampered, settled>>

PassStep ==
    \/ WaitForAPIKeys \/ PingServices \/ WaitTimesOut
    \/ CheckWizard \/ WizardStep \/ Login
    \/ ListLibraries \/ ListEntries \/ Write \/ WriteRefused
    \/ NextPass

Next ==
    \/ PassStep \/ CallFails
    \/ \E v \in Services : Boot(v)
    \/ \E s \in Wirings : UserEdits(s)
    \/ KeyRenewed
    \/ \E v \in Values : PasswordChanged(v)
    \/ OthersLogIn \/ TokenRevoked
    \/ \E c \in Config : Start(c)
    \/ Crash

Spec == Init /\ [][Next]_vars

(* wire runs on, as calls and waits have timeouts; docker boots what is in *)
(* the compose file and restarts the server (restart: unless-stopped).     *)
Fairness ==
    /\ WF_vars(PassStep)
    /\ WF_vars(\E c \in Config : Start(c))
    /\ \A v \in Services : WF_vars(Boot(v))
FairSpec == Spec /\ Fairness

-----------------------------------------------------------------------------
(* Properties.                                                             *)

(* wired means what /api/health tells `pelicula up`: the wizard is done    *)
(* and every wiring is in place, as long as nobody else changed one.       *)
WiredIsWired == wired /\ ~tampered => AllSatisfied

(* No wiring is ever added twice, whatever failed, was lost or restarted.  *)
AddedOnce ==
    \A s \in Wirings : Cardinality({e \in entries[s] : e.ours}) <= 1

(* "Running it against an already-wired stack changes nothing."            *)
SettledIsLeftAlone ==
    [][settled /\ ~tampered' /\ wirePc \in {"user", "complete", "write"}
           => UNCHANGED <<entries, jellyfin>>]_vars

(* An update changes our fields of one entry as it was listed; entries and *)
(* settings of the user's outside the short race are kept.                 *)
UsersSettingsKept ==
    [][wirePc = "write" /\ PassStep =>
          \A e \in entries[at] : e \in listed[at] =>
              \E f \in entries'[at] : f.id = e.id /\ f.extra = e.extra]_vars

(* When the services stay up, the password stays right and the server is   *)
(* not left with a dead token, mishaps end and the stack is wired.         *)
EventuallyWired ==
    <>[](token # "dead" /\ (jellyfin.wizard = "done" => LoginWorks)) => <>[]wired
=============================================================================
