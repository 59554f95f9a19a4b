---------------------------- MODULE StatusCache -----------------------------
(***************************************************************************)
(* Server.statusSnapshot: dashboards poll /api/status, and the first that  *)
(* finds the snapshot older than the TTL probes every service, holding the *)
(* lock, while the others wait.  Time passes in seconds; services come and *)
(* go, and so do the callers.                                              *)
(***************************************************************************)
EXTENDS Naturals

CONSTANTS
    Services,       \* what probe pings
    Pollers,        \* handler goroutines
    MaxTime,        \* bound on the clock
    MaxFlips        \* bound on services going up or down

NoPoller == "none"
TTL == 5            \* statusCacheTTL
PingTimeout == 2    \* statusPingTimeout

ASSUME StatusCacheAssumption ==
    NoPoller \notin Pollers /\ MaxTime \in Nat \ {0} /\ MaxFlips \in Nat

VARIABLES
    clock,          \* seconds; the server started at 1
    healthy,        \* the services that answer
    lastUp, lastDown, \* when each did and did not, last
    snapshot,       \* statusSnap, the services shown as up
    statusAt,       \* when it was stored, 0 for never
    statusMu,       \* who holds the lock
    probeAt,        \* when the last probe began
    answers,        \* the current probe: what each ping has found
    pollerPc,       \* what each poller does next
    left,           \* pollers whose request context is cancelled
    flips

worldVars == <<clock, healthy, lastUp, lastDown, flips>>
probeVars == <<snapshot, statusAt, statusMu, probeAt, answers>>
statusVars == <<worldVars, probeVars, pollerPc, left>>

Times == 0 .. MaxTime

StatusTypeOK ==
    /\ clock \in Times
    /\ healthy \subseteq Services /\ snapshot \subseteq Services
    /\ lastUp \in [Services -> Times] /\ lastDown \in [Services -> Times]
    /\ statusAt \in Times /\ probeAt \in Times
    /\ statusMu \in Pollers \cup {NoPoller}
    /\ answers \in [Services -> {"pending", "up", "down"}]
    /\ pollerPc \in [Pollers -> {"idle", "lock", "probe"}]
    /\ left \subseteq Pollers
    /\ flips \in 0 .. MaxFlips

StatusInit ==
    /\ clock = 1
    /\ healthy = Services
    /\ lastUp = [s \in Services |-> 1]
    /\ lastDown = [s \in Services |-> 0]
    /\ snapshot = {}
    /\ statusAt = 0
    /\ statusMu = NoPoller
    /\ probeAt = 0
    /\ answers = [s \in Services |-> "pending"]
    /\ pollerPc = [k \in Pollers |-> "idle"]
    /\ left = {}
    /\ flips = 0

Pending == {s \in Services : answers[s] = "pending"}
TimedOut == clock = probeAt + PingTimeout

-----------------------------------------------------------------------------
(* The world.  A probe does not outlast its deadline.                      *)

Tick ==
    /\ clock < MaxTime
    /\ statusMu # NoPoller => ~TimedOut
    /\ clock' = clock + 1
    /\ lastUp' = [s \in Services |-> IF s \in healthy THEN clock + 1 ELSE lastUp[s]]
    /\ lastDown' = [s \in Services |-> IF s \in healthy THEN lastDown[s] ELSE clock + 1]
    /\ UNCHANGED <<healthy, flips, probeVars, pollerPc, left>>

Flip(s) ==
    /\ flips < MaxFlips
    /\ flips' = flips + 1
    /\ IF s \in healthy
       THEN /\ healthy' = healthy \ {s}
            /\ lastDown' = [lastDown EXCEPT ![s] = clock]
            /\ UNCHANGED lastUp
       ELSE /\ healthy' = healthy \cup {s}
            /\ lastUp' = [lastUp EXCEPT ![s] = clock]
            /\ UNCHANGED lastDown
    /\ UNCHANGED <<clock, probeVars, pollerPc, left>>

Poll(k) ==
    /\ pollerPc[k] = "idle"
    /\ pollerPc' = [pollerPc EXCEPT ![k] = "lock"]
    /\ left' = left \ {k}
    /\ UNCHANGED <<worldVars, probeVars>>

(* The browser closes the connection, which cancels the request's context. *)
Leave(k) ==
    /\ pollerPc[k] # "idle"
    /\ k \notin left
    /\ left' = left \cup {k}
    /\ UNCHANGED <<worldVars, probeVars, pollerPc>>

-----------------------------------------------------------------------------
(* statusSnapshot.                                                         *)

Fresh == statusAt # 0 /\ clock - statusAt < TTL

StatusMuFreeAlways == TRUE
StatusMuFree == statusMu = NoPoller

Cached(k) ==
    /\ pollerPc[k] = "lock"
    /\ StatusMuFree
    /\ Fresh
    /\ pollerPc' = [pollerPc EXCEPT ![k] = "idle"]
    /\ UNCHANGED <<worldVars, probeVars, left>>

StartProbe(k) ==
    /\ pollerPc[k] = "lock"
    /\ StatusMuFree
    /\ ~Fresh
    /\ statusMu' = k
    /\ probeAt' = clock
    /\ answers' = [s \in Services |-> "pending"]
    /\ pollerPc' = [pollerPc EXCEPT ![k] = "probe"]
    /\ UNCHANGED <<worldVars, snapshot, statusAt, left>>

(* The probe's context is the request's, WithoutCancel.                    *)
AbortedWithCaller == statusMu \in left
Aborted == FALSE

(* Ping: a service that is down may refuse at once; one that is slow, or   *)
(* drops packets, runs into the deadline.                                  *)
PingAnswers(s) ==
    /\ statusMu # NoPoller
    /\ s \in Pending
    /\ \/ /\ s \in healthy
          /\ answers' = [answers EXCEPT ![s] = "up"]
       \/ /\ s \notin healthy \/ TimedOut \/ Aborted
          /\ answers' = [answers EXCEPT ![s] = "down"]
    /\ UNCHANGED <<worldVars, snapshot, statusAt, statusMu, probeAt, pollerPc, left>>

(* wg.Wait has returned; the snapshot is stored, timed and answered.       *)
EndProbe(k) ==
    /\ pollerPc[k] = "probe"
    /\ Pending = {}
    /\ snapshot' = {s \in Services : answers[s] = "up"}
    /\ statusAt' = clock
    /\ statusMu' = NoPoller
    /\ pollerPc' = [pollerPc EXCEPT ![k] = "idle"]
    /\ UNCHANGED <<worldVars, probeAt, answers, left>>

StatusNext ==
    \/ Tick
    \/ \E s \in Services : Flip(s) \/ PingAnswers(s)
    \/ \E k \in Pollers : \/ Poll(k) \/ Leave(k)
                          \/ Cached(k) \/ StartProbe(k) \/ EndProbe(k)

StatusSpec == StatusInit /\ [][StatusNext]_statusVars

-----------------------------------------------------------------------------
(* Properties.                                                             *)

(* What a poller is told was seen less than TTL + PingTimeout ago, whoever *)
(* probed: a service shown as up has answered, and one shown as down was   *)
(* down, or slow for the whole probe.  That another poller left is neither. *)
Recent(t) == t + TTL + PingTimeout > clock
AnswersAreRecent ==
    [][\A k \in Pollers : pollerPc[k] # "idle" /\ pollerPc'[k] = "idle" =>
          \A s \in Services :
              IF s \in snapshot' THEN Recent(lastUp[s])
              ELSE Recent(lastDown[s]) \/ statusAt' = probeAt + PingTimeout]_statusVars

(* "A burst of dashboards triggers one probe, not one each": two probes    *)
(* begin at least the TTL apart.                                           *)
OneProbePerTTL == [][probeAt' # probeAt /\ probeAt # 0 => probeAt' >= probeAt + TTL]_statusVars
=============================================================================
