----------------------------- MODULE AdminToken -----------------------------
(***************************************************************************)
(* jellyfin.Admin, the cached administrator token that registration, user  *)
(* management, the library refresh and autowire share, and what Jellyfin   *)
(* does with tokens: one session per user and device, a login on a device  *)
(* logs that device's session out, and a token presented by another device *)
(* moves there.  Go's mutexes and the dashboard's logins interleave freely. *)
(***************************************************************************)
EXTENDS Naturals, FiniteSets

CONSTANTS
    Callers,        \* goroutines that make a call with the admin token
    MaxTokens,      \* bound on the tokens Jellyfin issues
    MaxRevocations, \* bound on tokens revoked in Jellyfin by hand
    MaxCrashes      \* bound on restarts of the server

NoCaller == "none"

ASSUME AdminTokenAssumption ==
    /\ NoCaller \notin Callers
    /\ MaxTokens \in Nat /\ MaxRevocations \in Nat /\ MaxCrashes \in Nat

VARIABLES
    device,         \* Jellyfin: the device each token is on, or "loggedOut"
    issued,         \* Jellyfin: the last token issued
    revoked,        \* Jellyfin: tokens revoked by hand
    cached,         \* Admin.token; 0 is the empty string
    adminMu,        \* Admin.mu: who holds it
    callerPc,       \* what each caller does next
    inHand,         \* the token it got, 0 for none
    crashes

jellyfinVars == <<device, issued, revoked>>
adminVars == <<jellyfinVars, cached, adminMu, callerPc, inHand, crashes>>

Tokens == 1 .. MaxTokens
Devices == {"server", "dashboard", "loggedOut"}

AdminTypeOK ==
    /\ device \in [Tokens -> Devices]
    /\ issued \in 0 .. MaxTokens
    /\ revoked \subseteq Tokens
    /\ cached \in 0 .. MaxTokens
    /\ adminMu \in Callers \cup {NoCaller}
    /\ callerPc \in [Callers -> {"idle", "lock", "login", "call"}]
    /\ inHand \in [Callers -> 0 .. MaxTokens]
    /\ crashes \in 0 .. MaxCrashes

AdminInit ==
    /\ device = [t \in Tokens |-> "loggedOut"]
    /\ issued = 0
    /\ revoked = {}
    /\ cached = 0
    /\ adminMu = NoCaller
    /\ callerPc = [k \in Callers |-> "idle"]
    /\ inHand = [k \in Callers |-> 0]
    /\ crashes = 0

-----------------------------------------------------------------------------
(* Jellyfin.                                                               *)

(* A login as the administrator on device d.                               *)
Issue(d) ==
    /\ issued < MaxTokens
    /\ issued' = issued + 1
    /\ device' = [t \in Tokens |-> IF t = issued + 1 THEN d
                                   ELSE IF device[t] = d THEN "loggedOut"
                                   ELSE device[t]]
    /\ UNCHANGED revoked

(* The administrator signs in to the dashboard, through the jf client.     *)
DashboardLogin ==
    /\ Issue("dashboard")
    /\ UNCHANGED <<cached, adminMu, callerPc, inHand, crashes>>

(* The session is ended in Jellyfin's own interface.                       *)
Revoke(t) ==
    /\ device[t] # "loggedOut"
    /\ Cardinality(revoked) < MaxRevocations
    /\ revoked' = revoked \cup {t}
    /\ device' = [device EXCEPT ![t] = "loggedOut"]
    /\ UNCHANGED <<issued, cached, adminMu, callerPc, inHand, crashes>>

-----------------------------------------------------------------------------
(* Admin.                                                                  *)

(* NewAdmin's client is for DeviceServer, and Admin.Client hands it out.   *)
LoginDevice == "server"
CallDeviceDashboard == "dashboard"
CallDevice == "server"

(* Token, up to a.mu.Lock.                                                 *)
Ask(k) ==
    /\ callerPc[k] = "idle"
    /\ callerPc' = [callerPc EXCEPT ![k] = "lock"]
    /\ UNCHANGED <<jellyfinVars, cached, adminMu, inHand, crashes>>

AdminMuFree == adminMu = NoCaller

(* There is a token: Token returns it, and lets go of the lock.            *)
UseCached(k) ==
    /\ callerPc[k] = "lock"
    /\ AdminMuFree
    /\ cached # 0
    /\ inHand' = [inHand EXCEPT ![k] = cached]
    /\ callerPc' = [callerPc EXCEPT ![k] = "call"]
    /\ UNCHANGED <<jellyfinVars, cached, adminMu, crashes>>

(* There is none: log in, holding the lock.                                *)
StartLogin(k) ==
    /\ callerPc[k] = "lock"
    /\ AdminMuFree
    /\ cached = 0
    /\ adminMu' = k
    /\ callerPc' = [callerPc EXCEPT ![k] = "login"]
    /\ UNCHANGED <<jellyfinVars, cached, inHand, crashes>>

LoginWorks(k) ==
    /\ callerPc[k] = "login"
    /\ Issue(LoginDevice)
    /\ cached' = issued + 1
    /\ inHand' = [inHand EXCEPT ![k] = issued + 1]
    /\ adminMu' = NoCaller
    /\ callerPc' = [callerPc EXCEPT ![k] = "call"]
    /\ UNCHANGED crashes

(* An error, or no answer; Jellyfin may have issued a token all the same.  *)
UnlockForgotten == UNCHANGED adminMu
Unlock == adminMu' = NoCaller

LoginFails(k) ==
    /\ callerPc[k] = "login"
    /\ UNCHANGED jellyfinVars \/ Issue(LoginDevice)
    /\ Unlock
    /\ callerPc' = [callerPc EXCEPT ![k] = "idle"]
    /\ UNCHANGED <<cached, inHand, crashes>>

(* The call itself.  A live token moves to the device that presents it; a  *)
(* dead one gets a 401, which the caller reports and does nothing about.   *)
Accepted(k) ==
    /\ callerPc[k] = "call"
    /\ device[inHand[k]] # "loggedOut"
    /\ device' = [device EXCEPT ![inHand[k]] = CallDevice]
    /\ callerPc' = [callerPc EXCEPT ![k] = "idle"]
    /\ inHand' = [inHand EXCEPT ![k] = 0]
    /\ UNCHANGED <<issued, revoked, cached, adminMu, crashes>>

Rejected(k) ==
    /\ callerPc[k] = "call"
    /\ device[inHand[k]] = "loggedOut"
    /\ callerPc' = [callerPc EXCEPT ![k] = "idle"]
    /\ inHand' = [inHand EXCEPT ![k] = 0]
    /\ UNCHANGED <<jellyfinVars, cached, adminMu, crashes>>

(* The server starts again, with an empty cache.                           *)
Restart ==
    /\ crashes < MaxCrashes
    /\ crashes' = crashes + 1
    /\ cached' = 0
    /\ adminMu' = NoCaller
    /\ callerPc' = [k \in Callers |-> "idle"]
    /\ inHand' = [k \in Callers |-> 0]
    /\ UNCHANGED jellyfinVars

CallerStep(k) ==
    \/ UseCached(k) \/ StartLogin(k)
    \/ LoginWorks(k) \/ LoginFails(k)
    \/ Accepted(k) \/ Rejected(k)

AdminNext ==
    \/ \E k \in Callers : Ask(k) \/ CallerStep(k)
    \/ DashboardLogin
    \/ \E t \in Tokens : Revoke(t)
    \/ Restart

AdminSpec == AdminInit /\ [][AdminNext]_adminVars

(* A login ends within the client's 10 s, and sync.Mutex hands the lock to *)
(* a waiter that has been waiting for long.                                *)
Fairness ==
    \A k \in Callers : /\ WF_adminVars(LoginWorks(k) \/ LoginFails(k))
                       /\ SF_adminVars(UseCached(k) \/ StartLogin(k))
                       /\ WF_adminVars(Accepted(k) \/ Rejected(k))
FairSpec == AdminSpec /\ Fairness

-----------------------------------------------------------------------------
(* Properties.                                                             *)

(* What DeviceServer and the mutex are for: a token in the cache or in a   *)
(* caller's hand is live, on the server's device, unless it was revoked in *)
(* Jellyfin; no login, on either device and by whomever, takes it away.    *)
Held == ({cached} \cup {inHand[k] : k \in Callers}) \ {0}
HeldTokensLive == \A t \in Held : device[t] = "server" \/ t \in revoked

(* The lock is held across the login, and no caller waits for ever.        *)
EveryCallerServed ==
    \A k \in Callers : (callerPc[k] = "lock") ~> (callerPc[k] # "lock")

(* auth.go says that the token is "cached and refreshed by the             *)
(* implementation": while callers keep asking, one that Jellyfin no longer *)
(* takes does not stay in the cache for ever.                              *)
BusySpec == FairSpec /\ \A k \in Callers : WF_adminVars(Ask(k))
DeadTokenReplaced ==
    \A t \in Tokens :
        (cached = t /\ device[t] = "loggedOut") ~> (cached # t)
=============================================================================
