--------------------------- MODULE HandlersProofs ---------------------------
(***************************************************************************)
(* What handlers of the server rely on beside the pipeline: the two caches *)
(* whose mutex is held across calls to other services, and the deletion of *)
(* a download through a queue that moves.                                  *)
(***************************************************************************)
EXTENDS AdminToken, StatusCache, Downloads, Integers, FiniteSetTheorems, SequenceTheorems, TLAPS

-----------------------------------------------------------------------------
(* jellyfin.Admin: why the server never logs out its own token.  There is  *)
(* a login only while nobody holds a token.                                *)

(* Whoever logs in has the lock, and there is no token yet.                *)
Locked == \A k \in Callers : callerPc[k] = "login" => adminMu = k /\ cached = 0

(* Any token in hand is a copy of a cached one: the cache is not empty     *)
(* while there is one, so nobody logs in.                                  *)
Holding == \A k \in Callers : inHand[k] # 0 => cached # 0

(* Tokens that are held were issued.                                       *)
Issued == cached <= issued /\ \A k \in Callers : inHand[k] <= issued

(* HeldTokensLive, token by token.                                         *)
Live(t) == device[t] = "server" \/ t \in revoked
HeldLive ==
    /\ cached # 0 => Live(cached)
    /\ \A k \in Callers : inHand[k] # 0 => Live(inHand[k])

AdminInv == AdminTypeOK /\ Locked /\ Holding /\ Issued /\ HeldLive

(* A login: the new token, and the tokens of the other device.             *)
LEMMA IssueKeepsOthers ==
    ASSUME NEW d \in {"server", "dashboard"}, AdminTypeOK, Issue(d)
    PROVE  /\ device' \in [Tokens -> Devices]
           /\ issued' \in 0 .. MaxTokens /\ issued' = issued + 1
           /\ issued + 1 \in Tokens
           /\ revoked' = revoked
           /\ device'[issued + 1] = d
           /\ \A t \in Tokens : device[t] # d /\ t # issued + 1 => device'[t] = device[t]
  <1>1. issued + 1 \in Tokens /\ issued' = issued + 1 /\ issued' \in 0 .. MaxTokens
    BY AdminTokenAssumption DEF AdminTypeOK, Issue, Tokens
  <1>2. device' \in [Tokens -> Devices]
    BY DEF AdminTypeOK, Issue, Devices
  <1>3. revoked' = revoked
    BY DEF Issue
  <1>4. device'[issued + 1] = d
    BY <1>1 DEF Issue
  <1>5. \A t \in Tokens : device[t] # d /\ t # issued + 1 => device'[t] = device[t]
    BY DEF Issue
  <1>. QED
    BY <1>1, <1>2, <1>3, <1>4, <1>5

(* Nothing is issued or cached at first.                                   *)
LEMMA InitAdminInv == ASSUME AdminInit PROVE AdminInv
  <1>1. AdminTypeOK
    BY AdminTokenAssumption DEF AdminInit, AdminTypeOK, Tokens, Devices
  <1>2. Locked /\ Holding /\ Issued /\ HeldLive
    BY DEF AdminInit, Locked, Holding, Issued, HeldLive
  <1>. QED
    BY <1>1, <1>2 DEF AdminInv

(* One step of a caller with the token or the lock.                        *)
LEMMA CallerKeepsAdminInv ==
    ASSUME AdminInv, NEW k \in Callers, Ask(k) \/ CallerStep(k)
    PROVE  AdminInv'
  <1>. USE DEF AdminInv, AdminTypeOK, jellyfinVars
  <1>0. cached \in Nat /\ issued \in Nat /\ \A j \in Callers : inHand[j] \in Nat
    BY AdminTokenAssumption
  <1>1. CASE Ask(k)
    BY <1>1 DEF Ask, Locked, Holding, Issued, HeldLive, Live
  <1>2. CASE UseCached(k)
    <2>1. AdminTypeOK'
      BY <1>2 DEF UseCached
    <2>2. Locked' /\ Holding' /\ Issued'
      BY <1>2 DEF UseCached, Locked, Holding, Issued
    <2>3. HeldLive'
      BY <1>2 DEF UseCached, HeldLive, Live
    <2>. QED
      BY <2>1, <2>2, <2>3
  <1>3. CASE StartLogin(k)
    <2>1. AdminTypeOK'
      BY <1>3 DEF StartLogin
    <2>2. Locked'
      BY AdminTokenAssumption, <1>3 DEF StartLogin, AdminMuFree, Locked
    <2>3. Holding' /\ Issued' /\ HeldLive'
      BY <1>3 DEF StartLogin, Holding, Issued, HeldLive, Live
    <2>. QED
      BY <2>1, <2>2, <2>3
  <1>4. CASE LoginWorks(k)
    <2>1. \A j \in Callers : inHand[j] = 0 /\ (callerPc[j] = "login" => j = k)
      BY <1>4 DEF LoginWorks, Locked, Holding
    <2>2. /\ device' \in [Tokens -> Devices] /\ issued' = issued + 1
          /\ issued' \in 0 .. MaxTokens /\ issued + 1 \in Tokens
          /\ revoked' = revoked /\ device'[issued + 1] = "server"
      BY <1>4, IssueKeepsOthers DEF LoginWorks, LoginDevice
    <2>3. AdminTypeOK'
      BY <1>4, <2>2 DEF LoginWorks, Tokens
    <2>4. Locked'
      BY <1>4, <2>1 DEF LoginWorks, Locked
    <2>5. \A j \in Callers : inHand'[j] = 0 \/ inHand'[j] = issued + 1
      BY <1>4, <2>1 DEF LoginWorks
    <2>6. cached' = issued + 1 /\ cached' # 0
      BY <1>0, <1>4 DEF LoginWorks
    <2>7. Holding' /\ Issued'
      BY <1>0, <2>2, <2>5, <2>6 DEF Holding, Issued
    <2>8. HeldLive'
      BY <2>2, <2>5, <2>6 DEF HeldLive, Live
    <2>. QED
      BY <2>3, <2>4, <2>7, <2>8
  <1>5. CASE LoginFails(k)
    <2>1. cached = 0 /\ \A j \in Callers : inHand[j] = 0 /\ (callerPc[j] = "login" => j = k)
      BY <1>5 DEF LoginFails, Locked, Holding
    <2>2. /\ device' \in [Tokens -> Devices] /\ revoked' = revoked
          /\ issued' \in 0 .. MaxTokens
      <3>1. CASE UNCHANGED jellyfinVars
        BY <3>1
      <3>2. CASE Issue(LoginDevice)
        BY <3>2, IssueKeepsOthers DEF LoginDevice
      <3>. QED
        BY <1>5, <3>1, <3>2 DEF LoginFails
    <2>3. AdminTypeOK'
      BY <1>5, <2>2 DEF LoginFails, Unlock
    <2>4. cached' = 0 /\ inHand' = inHand
      BY <1>5, <2>1 DEF LoginFails
    <2>5. Locked'
      BY <1>5, <2>1 DEF LoginFails, Locked
    <2>6. Holding' /\ Issued' /\ HeldLive'
      BY <2>1, <2>2, <2>4 DEF Holding, Issued, HeldLive
    <2>. QED
      BY <2>3, <2>5, <2>6
  <1>6. CASE Accepted(k)
    <2>0. device' \in [Tokens -> Devices]
      BY <1>6 DEF Accepted, CallDevice, Devices
    <2>1. AdminTypeOK'
      BY AdminTokenAssumption, <1>6, <2>0 DEF Accepted
    <2>2. Locked' /\ Holding' /\ Issued'
      BY <1>0, <1>6 DEF Accepted, Locked, Holding, Issued
    <2>3. \A t \in Tokens : Live(t) => Live(t)'
      BY <1>6 DEF Accepted, CallDevice, Live
    <2>4. HeldLive'
      BY <1>6, <2>3 DEF Accepted, HeldLive, Tokens
    <2>. QED
      BY <2>1, <2>2, <2>4
  <1>7. CASE Rejected(k)
    <2>1. AdminTypeOK'
      BY AdminTokenAssumption, <1>7 DEF Rejected
    <2>2. Locked' /\ Holding' /\ Issued' /\ HeldLive'
      BY <1>0, <1>7 DEF Rejected, Locked, Holding, Issued, HeldLive, Live
    <2>. QED
      BY <2>1, <2>2
  <1>. QED
    BY <1>1, <1>2, <1>3, <1>4, <1>5, <1>6, <1>7 DEF CallerStep

(* What happens without a caller.                                          *)
LEMMA OthersKeepAdminInv ==
    ASSUME AdminInv,
           DashboardLogin \/ (\E t \in Tokens : Revoke(t)) \/ Restart
    PROVE  AdminInv'
  <1>. USE DEF AdminInv, AdminTypeOK
  <1>0. cached \in Nat /\ issued \in Nat /\ \A j \in Callers : inHand[j] \in Nat
    BY AdminTokenAssumption
  <1>1. CASE DashboardLogin
    <2>1. /\ device' \in [Tokens -> Devices] /\ issued' = issued + 1
          /\ issued' \in 0 .. MaxTokens /\ revoked' = revoked
          /\ \A t \in Tokens :
                device[t] # "dashboard" /\ t # issued + 1 => device'[t] = device[t]
      BY <1>1, IssueKeepsOthers DEF DashboardLogin
    <2>2. UNCHANGED <<cached, adminMu, callerPc, inHand, crashes>>
      BY <1>1 DEF DashboardLogin
    <2>3. AdminTypeOK'
      BY <2>1, <2>2
    <2>4. Locked' /\ Holding' /\ Issued'
      BY <1>0, <2>1, <2>2 DEF Locked, Holding, Issued
    <2>5. ASSUME NEW t \in Tokens, t <= issued, Live(t)
          PROVE  Live(t)'
      <3>1. t # issued + 1
        BY <1>0, <2>5 DEF Tokens
      <3>. QED
        BY <2>1, <2>5, <3>1 DEF Live
    <2>6. HeldLive'
      BY <1>0, <2>2, <2>5 DEF HeldLive, Issued, Tokens
    <2>. QED
      BY <2>3, <2>4, <2>6
  <1>2. CASE \E t \in Tokens : Revoke(t)
    <2>1. PICK t \in Tokens : Revoke(t)
      BY <1>2
    <2>2. AdminTypeOK'
      BY <2>1 DEF Revoke, Devices
    <2>3. Locked' /\ Holding' /\ Issued'
      BY <2>1 DEF Revoke, Locked, Holding, Issued
    <2>4. \A u \in Tokens : Live(u) => Live(u)'
      BY <2>1 DEF Revoke, Live
    <2>5. HeldLive'
      BY <2>1, <2>4 DEF Revoke, HeldLive, Tokens
    <2>. QED
      BY <2>2, <2>3, <2>5
  <1>3. CASE Restart
    BY AdminTokenAssumption, <1>0, <1>3 DEF Restart, jellyfinVars, Locked, Holding, Issued, HeldLive
  <1>. QED
    BY <1>1, <1>2, <1>3

(* So it holds in every state of a behaviour.                              *)
LEMMA AdminInvariance == AdminSpec => []AdminInv
  <1>1. AdminInit => AdminInv
    BY InitAdminInv
  <1>2. AdminInv /\ [AdminNext]_adminVars => AdminInv'
    <2>. SUFFICES ASSUME AdminInv, [AdminNext]_adminVars PROVE AdminInv'
      OBVIOUS
    <2>1. CASE AdminNext
      BY <2>1, CallerKeepsAdminInv, OthersKeepAdminInv DEF AdminNext
    <2>2. CASE UNCHANGED adminVars
      BY <2>2 DEF adminVars, jellyfinVars, AdminInv, AdminTypeOK, Locked, Holding, Issued, HeldLive, Live
    <2>. QED
      BY <2>1, <2>2
  <1>. QED
    BY <1>1, <1>2, PTL DEF AdminSpec

(* Type correctness of the token cache, whatever the callers, Jellyfin and *)
(* restarts do.                                                            *)
THEOREM AdminTypeCorrect == AdminSpec => []AdminTypeOK
  <1>1. AdminInv => AdminTypeOK
    BY DEF AdminInv
  <1>. QED
    BY <1>1, AdminInvariance, PTL

(* The token that the server caches, and every copy a goroutine has in     *)
(* hand, is on the server's device until it is revoked in Jellyfin itself: *)
(* neither the server's logins nor the dashboard's log it out.             *)
THEOREM TokensLive == AdminSpec => []HeldTokensLive
  <1>1. AdminInv => HeldTokensLive
    BY DEF AdminInv, HeldLive, Live, HeldTokensLive, Held
  <1>. QED
    BY <1>1, AdminInvariance, PTL

-----------------------------------------------------------------------------
(* Server.statusSnapshot: how old an answer may be.                        *)

(* The services are seen as they are now, and were seen before now.        *)
SeenNow ==
    \A s \in Services :
        /\ lastUp[s] <= clock /\ lastDown[s] <= clock
        /\ s \in healthy => lastUp[s] = clock
        /\ s \notin healthy => lastDown[s] = clock

(* The lock is held by whoever probes; the clock began at 1, and a probe   *)
(* ends within its deadline.                                               *)
Prober ==
    /\ \A k \in Pollers : pollerPc[k] = "probe" <=> statusMu = k
    /\ clock > 0 /\ probeAt <= clock /\ statusAt <= clock
    /\ statusMu # NoPoller => clock <= probeAt + PingTimeout
    /\ statusMu = NoPoller /\ probeAt # 0 => statusAt >= probeAt
    /\ statusMu = NoPoller => statusAt <= probeAt + PingTimeout

(* What a ping has found was so during this probe, or took all its time.   *)
AnswerHolds(s) ==
    /\ answers[s] = "up" => lastUp[s] >= probeAt
    /\ answers[s] = "down" => lastDown[s] >= probeAt \/ TimedOut

(* The same of a stored snapshot, until the next probe begins.             *)
ShownHolds(s) ==
    IF s \in snapshot THEN lastUp[s] >= probeAt
    ELSE lastDown[s] >= probeAt \/ statusAt = probeAt + PingTimeout

StatusInv ==
    /\ StatusTypeOK /\ SeenNow /\ Prober
    /\ statusMu # NoPoller => \A s \in Services : AnswerHolds(s)
    /\ statusMu = NoPoller /\ statusAt # 0 => \A s \in Services : ShownHolds(s)

(* The server starts at 1, with no snapshot.                               *)
LEMMA InitStatusInv == ASSUME StatusInit PROVE StatusInv
  <1>1. StatusTypeOK
    BY StatusCacheAssumption DEF StatusInit, StatusTypeOK, Times
  <1>2. SeenNow /\ Prober
    BY StatusCacheAssumption DEF StatusInit, SeenNow, Prober, PingTimeout
  <1>. QED
    BY <1>1, <1>2 DEF StatusInit, StatusInv

(* Times are numbers.                                                      *)
LEMMA TimesAreNumbers ==
    ASSUME StatusTypeOK
    PROVE  /\ clock \in Nat /\ statusAt \in Nat /\ probeAt \in Nat
           /\ \A s \in Services : lastUp[s] \in Nat /\ lastDown[s] \in Nat
  BY StatusCacheAssumption DEF StatusTypeOK, Times

(* Time passes, or a service comes or goes: what was found stays found.    *)
LEMMA WorldKeepsStatusInv ==
    ASSUME StatusInv, Tick \/ \E s \in Services : Flip(s)
    PROVE  StatusInv'
  <1>. USE DEF StatusInv, PingTimeout, TimedOut
  <1>0. /\ clock \in Nat /\ statusAt \in Nat /\ probeAt \in Nat
        /\ \A s \in Services : lastUp[s] \in Nat /\ lastDown[s] \in Nat
        /\ UNCHANGED <<probeVars, pollerPc, left>>
    BY TimesAreNumbers DEF Tick, Flip
  <1>1. CASE Tick
    <2>0. clock' = clock + 1 /\ clock' \in Times
      BY <1>1, StatusCacheAssumption DEF Tick, StatusTypeOK, Times
    <2>1. /\ lastUp' \in [Services -> Times] /\ lastDown' \in [Services -> Times]
          /\ \A s \in Services :
                /\ lastUp'[s] = IF s \in healthy THEN clock + 1 ELSE lastUp[s]
                /\ lastDown'[s] = IF s \in healthy THEN lastDown[s] ELSE clock + 1
      BY <1>1, <2>0 DEF Tick, StatusTypeOK
    <2>2. StatusTypeOK'
      BY <1>0, <1>1, <2>0, <2>1 DEF Tick, StatusTypeOK, probeVars
    <2>3. SeenNow'
      BY <1>0, <1>1, <2>0, <2>1 DEF Tick, SeenNow
    <2>4. Prober'
      BY <1>0, <1>1, <2>0 DEF Tick, Prober, probeVars
    <2>5. statusMu # NoPoller => ~TimedOut
      BY <1>1 DEF Tick
    <2>6. \A s \in Services : /\ statusMu # NoPoller => AnswerHolds(s)'
                              /\ statusMu = NoPoller /\ statusAt # 0 => ShownHolds(s)'
      BY <1>0, <2>0, <2>1, <2>5 DEF SeenNow, AnswerHolds, ShownHolds, probeVars
    <2>. QED
      BY <1>0, <2>2, <2>3, <2>4, <2>6 DEF probeVars
  <1>2. CASE \E s \in Services : Flip(s)
    <2>1. PICK f \in Services : Flip(f)
      BY <1>2
    <2>2. /\ clock' = clock
          /\ \A s \in Services :
                /\ s # f => /\ s \in healthy' <=> s \in healthy
                            /\ lastUp'[s] = lastUp[s] /\ lastDown'[s] = lastDown[s]
                /\ s = f => \/ /\ f \in healthy /\ f \notin healthy'
                               /\ lastUp'[f] = lastUp[f] /\ lastDown'[f] = clock
                            \/ /\ f \notin healthy /\ f \in healthy'
                               /\ lastUp'[f] = clock /\ lastDown'[f] = lastDown[f]
      BY <2>1 DEF Flip, StatusTypeOK
    <2>3. StatusTypeOK'
      <3>1. /\ healthy' \subseteq Services /\ flips' \in 0 .. MaxFlips
            /\ lastUp' \in [Services -> Times] /\ lastDown' \in [Services -> Times]
        BY <2>1, StatusCacheAssumption DEF Flip, StatusTypeOK
      <3>. QED
        BY <1>0, <2>2, <3>1 DEF StatusTypeOK, probeVars
    <2>4. SeenNow'
      BY <1>0, <2>2 DEF SeenNow
    <2>5. Prober'
      BY <1>0, <2>2 DEF Prober, probeVars
    <2>6. \A s \in Services : /\ AnswerHolds(s) => AnswerHolds(s)'
                              /\ ShownHolds(s) => ShownHolds(s)'
      BY <1>0, <2>2 DEF SeenNow, AnswerHolds, ShownHolds, probeVars
    <2>. QED
      BY <1>0, <2>3, <2>4, <2>5, <2>6 DEF probeVars
  <1>. QED
    BY <1>1, <1>2

(* A ping is answered, or runs into the deadline: Aborted is FALSE.        *)
LEMMA PingKeepsStatusInv ==
    ASSUME StatusInv, NEW s \in Services, PingAnswers(s)
    PROVE  StatusInv'
  <1>. USE DEF StatusInv
  <1>0. /\ UNCHANGED <<worldVars, snapshot, statusAt, statusMu, probeAt, pollerPc, left>>
        /\ statusMu # NoPoller /\ clock \in Nat /\ probeAt \in Nat
        /\ \A t \in Services : lastUp[t] \in Nat /\ lastDown[t] \in Nat
    BY TimesAreNumbers DEF PingAnswers
  <1>1. /\ answers' \in [Services -> {"pending", "up", "down"}]
        /\ \A t \in Services : t # s => answers'[t] = answers[t]
        /\ \/ answers'[s] = "up" /\ s \in healthy
           \/ answers'[s] = "down" /\ (s \notin healthy \/ TimedOut)
    BY DEF PingAnswers, Aborted, StatusTypeOK
  <1>2. StatusTypeOK' /\ SeenNow' /\ Prober'
    BY <1>0, <1>1 DEF StatusTypeOK, SeenNow, Prober, worldVars
  <1>3. \A t \in Services : AnswerHolds(t)'
    BY <1>0, <1>1 DEF AnswerHolds, SeenNow, Prober, TimedOut, worldVars
  <1>. QED
    BY <1>0, <1>2, <1>3

(* The steps of a poller: only the one that takes or gives back the lock   *)
(* does anything to the snapshot.                                          *)
LEMMA PollerKeepsStatusInv ==
    ASSUME StatusInv, NEW k \in Pollers,
           Poll(k) \/ Leave(k) \/ Cached(k) \/ StartProbe(k) \/ EndProbe(k)
    PROVE  StatusInv'
  <1>. USE DEF StatusInv
  <1>0. /\ UNCHANGED worldVars
        /\ clock \in Nat /\ statusAt \in Nat /\ probeAt \in Nat /\ k # NoPoller
        /\ \A t \in Services : lastUp[t] \in Nat /\ lastDown[t] \in Nat
    BY TimesAreNumbers, StatusCacheAssumption DEF Poll, Leave, Cached, StartProbe, EndProbe
  <1>1. SeenNow'
    BY <1>0 DEF SeenNow, worldVars
  <1>2. CASE Poll(k) \/ Leave(k) \/ Cached(k)
    <2>1. /\ UNCHANGED probeVars
          /\ pollerPc' \in [Pollers -> {"idle", "lock", "probe"}] /\ left' \subseteq Pollers
          /\ \A j \in Pollers : pollerPc'[j] = "probe" <=> pollerPc[j] = "probe"
      BY <1>2 DEF Poll, Leave, Cached, StatusTypeOK
    <2>2. StatusTypeOK' /\ Prober'
      BY <1>0, <2>1 DEF StatusTypeOK, Prober, worldVars, probeVars
    <2>3. \A s \in Services : /\ AnswerHolds(s) => AnswerHolds(s)'
                              /\ ShownHolds(s) => ShownHolds(s)'
      BY <1>0, <2>1 DEF AnswerHolds, ShownHolds, TimedOut, worldVars, probeVars
    <2>. QED
      BY <1>1, <2>1, <2>2, <2>3 DEF probeVars
  <1>3. CASE StartProbe(k)
    <2>1. /\ UNCHANGED <<snapshot, statusAt, left>> /\ statusMu' = k /\ probeAt' = clock
          /\ \A s \in Services : answers'[s] = "pending"
          /\ statusMu = NoPoller
          /\ \A j \in Pollers : pollerPc'[j] = IF j = k THEN "probe" ELSE pollerPc[j]
      BY <1>3 DEF StartProbe, StatusMuFree, StatusTypeOK
    <2>2. StatusTypeOK'
      BY <1>0, <1>3, <2>1 DEF StartProbe, StatusTypeOK, worldVars
    <2>3. Prober'
      <3>1. \A j \in Pollers : pollerPc[j] # "probe"
        BY <2>1, StatusCacheAssumption DEF Prober
      <3>2. \A j \in Pollers : pollerPc'[j] = "probe" <=> statusMu' = j
        BY <2>1, <3>1
      <3>. QED
        BY <1>0, <2>1, <3>2 DEF Prober, worldVars, PingTimeout
    <2>4. \A s \in Services : AnswerHolds(s)'
      BY <2>1 DEF AnswerHolds
    <2>. QED
      BY <1>0, <1>1, <2>1, <2>2, <2>3, <2>4
  <1>4. CASE EndProbe(k)
    <2>1. /\ UNCHANGED <<probeAt, answers, left>>
          /\ snapshot' = {s \in Services : answers[s] = "up"}
          /\ statusAt' = clock /\ statusMu' = NoPoller
          /\ statusMu = k /\ Pending = {}
          /\ \A j \in Pollers : pollerPc'[j] = IF j = k THEN "idle" ELSE pollerPc[j]
      BY <1>4 DEF EndProbe, Prober, StatusTypeOK
    <2>2. StatusTypeOK'
      BY <1>0, <1>4, <2>1 DEF EndProbe, StatusTypeOK, worldVars
    <2>3. Prober'
      <3>1. \A j \in Pollers : pollerPc'[j] # "probe"
        BY <2>1 DEF Prober
      <3>2. \A j \in Pollers : pollerPc'[j] = "probe" <=> statusMu' = j
        BY <2>1, <3>1, StatusCacheAssumption
      <3>. QED
        BY <1>0, <2>1, <3>2 DEF Prober, worldVars
    <2>4. \A s \in Services : ShownHolds(s)'
      <3>. SUFFICES ASSUME NEW s \in Services PROVE ShownHolds(s)'
        OBVIOUS
      <3>1. answers[s] \in {"up", "down"} /\ AnswerHolds(s)
        BY <1>0, <2>1 DEF Pending, StatusTypeOK
      <3>. QED
        BY <1>0, <2>1, <3>1 DEF AnswerHolds, ShownHolds, TimedOut, worldVars
    <2>. QED
      BY <1>0, <1>1, <2>1, <2>2, <2>3, <2>4
  <1>. QED
    BY <1>2, <1>3, <1>4

(* So it holds in every state of a behaviour.                              *)
LEMMA StatusInvariance == StatusSpec => []StatusInv
  <1>1. StatusInit => StatusInv
    BY InitStatusInv
  <1>2. StatusInv /\ [StatusNext]_statusVars => StatusInv'
    <2>. SUFFICES ASSUME StatusInv, [StatusNext]_statusVars PROVE StatusInv'
      OBVIOUS
    <2>1. CASE StatusNext
      BY <2>1, WorldKeepsStatusInv, PingKeepsStatusInv, PollerKeepsStatusInv DEF StatusNext
    <2>2. CASE UNCHANGED statusVars
      BY <2>2 DEF statusVars, worldVars, probeVars, StatusInv, StatusTypeOK, SeenNow, Prober,
                  AnswerHolds, ShownHolds, TimedOut
    <2>. QED
      BY <2>1, <2>2
  <1>. QED
    BY <1>1, <1>2, PTL DEF StatusSpec

(* Whoever is answered, from the cache or after a probe, is told what was  *)
(* seen less than TTL + PingTimeout ago.                                   *)
THEOREM StatusIsRecent == StatusSpec => AnswersAreRecent
  <1>1. StatusInv /\ [StatusNext]_statusVars =>
          [\A k \in Pollers : pollerPc[k] # "idle" /\ pollerPc'[k] = "idle" =>
              \A s \in Services :
                  IF s \in snapshot' THEN Recent(lastUp[s])
                  ELSE Recent(lastDown[s]) \/ statusAt' = probeAt + PingTimeout]_statusVars
    <2>. SUFFICES ASSUME StatusInv, StatusNext, NEW k \in Pollers,
                         pollerPc[k] # "idle", pollerPc'[k] = "idle", NEW s \in Services
                  PROVE  IF s \in snapshot' THEN Recent(lastUp[s])
                         ELSE Recent(lastDown[s]) \/ statusAt' = probeAt + PingTimeout
      OBVIOUS
    <2>. USE DEF StatusInv, Recent, TTL, PingTimeout
    <2>0. /\ clock \in Nat /\ statusAt \in Nat /\ probeAt \in Nat
          /\ lastUp[s] \in Nat /\ lastDown[s] \in Nat
      BY TimesAreNumbers
    <2>1. \E j \in Pollers : Cached(j) \/ EndProbe(j)
      BY DEF StatusNext, Tick, Flip, PingAnswers, Poll, Leave, StartProbe, StatusTypeOK
    <2>2. CASE \E j \in Pollers : Cached(j)
      <3>1. /\ UNCHANGED probeVars
            /\ statusMu = NoPoller /\ statusAt # 0 /\ clock < statusAt + TTL
        BY <2>0, <2>2 DEF Cached, StatusMuFree, Fresh
      <3>2. ShownHolds(s) /\ statusAt <= probeAt + PingTimeout
        BY <3>1 DEF Prober
      <3>. QED
        BY <2>0, <3>1, <3>2 DEF ShownHolds, probeVars
    <2>3. CASE \E j \in Pollers : EndProbe(j)
      <3>1. /\ snapshot' = {t \in Services : answers[t] = "up"} /\ statusAt' = clock
            /\ statusMu # NoPoller /\ Pending = {}
        BY <2>3, StatusCacheAssumption DEF EndProbe, Prober
      <3>2. answers[s] \in {"up", "down"} /\ AnswerHolds(s) /\ clock <= probeAt + PingTimeout
        BY <3>1 DEF Pending, StatusTypeOK, Prober
      <3>. QED
        BY <2>0, <3>1, <3>2 DEF AnswerHolds, TimedOut
    <2>. QED
      BY <2>1, <2>2, <2>3
  <1>. QED
    BY <1>1, StatusInvariance, PTL DEF StatusSpec, AnswersAreRecent

(* "A burst of dashboards triggers one probe, not one each": whoever gets  *)
(* the lock after a probe finds its snapshot, for TTL seconds.             *)
THEOREM OneProbe == StatusSpec => OneProbePerTTL
  <1>1. StatusInv /\ [StatusNext]_statusVars =>
          [probeAt' # probeAt /\ probeAt # 0 => probeAt' >= probeAt + TTL]_statusVars
    <2>. SUFFICES ASSUME StatusInv, StatusNext, probeAt' # probeAt, probeAt # 0
                  PROVE  probeAt' >= probeAt + TTL
      OBVIOUS
    <2>1. PICK k \in Pollers : StartProbe(k)
      BY DEF StatusNext, Tick, Flip, PingAnswers, Poll, Leave, Cached, EndProbe, probeVars
    <2>2. statusMu = NoPoller /\ probeAt' = clock /\ ~Fresh
      BY <2>1 DEF StartProbe, StatusMuFree
    <2>3. clock \in Nat /\ statusAt \in Nat /\ probeAt \in Nat /\ statusAt >= probeAt
      BY <2>2, TimesAreNumbers DEF StatusInv, Prober
    <2>. QED
      BY <2>2, <2>3 DEF Fresh, TTL
  <1>. QED
    BY <1>1, StatusInvariance, PTL DEF StatusSpec, OneProbePerTTL

-----------------------------------------------------------------------------
(* handleDeleteDownload: what a look-up cannot miss.                       *)

(* The app had the record all along, and no look-up was spoilt.            *)
Steady(h) == h.tracked /\ ~h.failed /\ ~h.shifted

(* How many places of the queue the pages before this one cover.           *)
Before(h) == (h.page - 1) * PageSize

(* A record that is still in the queue is ahead, or has been read: places  *)
(* only grow while nothing leaves.                                         *)
NotPassed(h, q) ==
    \A i \in DOMAIN q[h.app] :
        q[h.app][i] = h.hash => i > Before(h) \/ Contains(h.all, h.hash)

LookedUp(h, q) ==
    /\ h.pc # "idle" /\ h.tracked => Tracks(q, h.hash)
    /\ h.pc \in {"lookup", "item"} => h.app \in Apps
    /\ h.pc = "lookup" => Len(h.all) <= Before(h)
    /\ h.pc = "lookup" /\ Steady(h) =>
           /\ h.app = "sonarr" => ~Contains(q["radarr"], h.hash)
           /\ NotPassed(h, q)
    /\ h.pc = "torrent" => ~Steady(h)

DownloadInv == DownloadTypeOK /\ \A d \in Deleters : LookedUp(deleter[d], queue)

(* Sequences put together hold what their parts hold.                      *)
LEMMA Together ==
    ASSUME NEW a \in Seq(Hashes), NEW b \in Seq(Hashes)
    PROVE  /\ a \o b \in Seq(Hashes)
           /\ Len(a \o b) = Len(a) + Len(b)
           /\ \A e : Contains(a \o b, e) <=> Contains(a, e) \/ Contains(b, e)
  <1>1. /\ a \o b \in Seq(Hashes)
        /\ Len(a \o b) = Len(a) + Len(b)
        /\ \A i \in 1 .. Len(a) + Len(b) :
              (a \o b)[i] = IF i <= Len(a) THEN a[i] ELSE b[i - Len(a)]
        /\ Len(a) \in Nat /\ Len(b) \in Nat
    BY ConcatProperties, LenProperties
  <1>2. ASSUME NEW e, Contains(a \o b, e)
        PROVE  Contains(a, e) \/ Contains(b, e)
    BY <1>1, <1>2 DEF Contains
  <1>3. ASSUME NEW e, Contains(a, e)
        PROVE  Contains(a \o b, e)
    BY <1>1, <1>3 DEF Contains
  <1>4. ASSUME NEW e, Contains(b, e)
        PROVE  Contains(a \o b, e)
    <2>1. PICK i \in 1 .. Len(b) : b[i] = e
      BY <1>4 DEF Contains
    <2>2. Len(a) + i \in 1 .. Len(a \o b) /\ (a \o b)[Len(a) + i] = e
      BY <1>1, <2>1
    <2>. QED
      BY <2>2 DEF Contains
  <1>. QED
    BY <1>1, <1>2, <1>3, <1>4

(* Where a page ends.                                                      *)
LEMMA EndOfPage ==
    ASSUME NEW b \in Nat, NEW total \in Nat
    PROVE  LET last == Min({b + 1 + PageSize - 1, total})
           IN  /\ last \in Nat
               /\ last <= b + PageSize /\ last <= total
               /\ last = b + PageSize \/ last = total
  <1>0. PageSize \in Nat
    BY DownloadsAssumption
  <1>1. \A m, n \in Nat : Min({m, n}) = IF m <= n THEN m ELSE n
    BY DEF Min
  <1>2. b + 1 + PageSize - 1 = b + PageSize /\ b + PageSize \in Nat
    BY <1>0
  <1>3. Min({b + PageSize, total}) = IF b + PageSize <= total THEN b + PageSize ELSE total
    BY <1>1, <1>2
  <1>. QED
    BY <1>0, <1>2, <1>3

(* A page holds the PageSize places behind the first b, as far as there    *)
(* are any.                                                                *)
LEMMA OnThePage ==
    ASSUME NEW q \in Seq(Hashes), NEW b \in Nat, NEW last \in Nat,
           last <= b + PageSize, last <= Len(q), last = b + PageSize \/ last = Len(q)
    PROVE  LET records == SubSeq(q, b + 1, last)
           IN  /\ records \in Seq(Hashes)
               /\ Len(records) <= PageSize
               /\ records = <<>> => Len(q) <= b
               /\ \A i \in DOMAIN q : b < i /\ i <= b + PageSize => Contains(records, q[i])
  <1>0. PageSize \in Nat \ {0} /\ Len(q) \in Nat
    BY DownloadsAssumption, LenProperties
  <1>1. \A i \in b + 1 .. last : i \in 1 .. Len(q)
    BY <1>0
  <1>2. \A i \in b + 1 .. last : q[i] \in Hashes
    BY <1>1, ElementOfSeq
  <1>3. /\ last - (b + 1) + 1 = last - b
        /\ \A i \in 1 .. last - b : (b + 1) + i - 1 = b + i
    OBVIOUS
  <1>4. b + 1 \in Int /\ last \in Int
    OBVIOUS
  <1>. DEFINE records == SubSeq(q, b + 1, last)
  <1>5. /\ records \in Seq(Hashes)
        /\ Len(records) = IF b + 1 <= last THEN last - b ELSE 0
        /\ \A i \in 1 .. last - b : records[i] = q[b + i]
    <2>1. /\ records \in Seq(Hashes)
          /\ Len(records) = IF b + 1 <= last THEN last - (b + 1) + 1 ELSE 0
          /\ \A i \in 1 .. last - (b + 1) + 1 : records[i] = q[(b + 1) + i - 1]
      BY <1>2, <1>4, SubSeqProperties
    <2>. QED
      BY <1>3, <2>1
  <1>. HIDE DEF records
  <1>6. Len(records) <= PageSize
    BY <1>0, <1>5
  <1>7. records = <<>> => Len(q) <= b
    <2>1. records = <<>> => Len(records) = 0
      OBVIOUS
    <2>. QED
      BY <1>0, <1>5, <2>1
  <1>8. ASSUME NEW i \in DOMAIN q, b < i, i <= b + PageSize
        PROVE  Contains(records, q[i])
    <2>0. i \in 1 .. Len(q)
      BY <1>8, LenProperties
    <2>1. i - b \in 1 .. Len(records) /\ i - b \in 1 .. last - b /\ b + (i - b) = i
      BY <1>0, <1>5, <1>8, <2>0
    <2>2. records[i - b] = q[i]
      BY <1>5, <2>1
    <2>. QED
      BY <2>1, <2>2 DEF Contains
  <1>. QED
    BY <1>5, <1>6, <1>7, <1>8 DEF records

(* A record that leaves makes the queue shorter.                           *)
LEMMA Shortens ==
    ASSUME NEW q \in Seq(Hashes), NEW i \in DOMAIN q
    PROVE  RemoveAt(q, i) \in Seq(Hashes) /\ Len(RemoveAt(q, i)) < Len(q)
  <1>0. Len(q) \in Nat /\ i \in 1 .. Len(q) /\ \A j \in 1 .. Len(q) : q[j] \in Hashes
    BY LenProperties, ElementOfSeq
  <1>1. /\ SubSeq(q, 1, i - 1) \in Seq(Hashes)
        /\ Len(SubSeq(q, 1, i - 1)) = i - 1
    BY <1>0, SubSeqProperties
  <1>2. /\ SubSeq(q, i + 1, Len(q)) \in Seq(Hashes)
        /\ Len(SubSeq(q, i + 1, Len(q))) = Len(q) - i
    BY <1>0, SubSeqProperties
  <1>. QED
    BY <1>0, <1>1, <1>2, Together DEF RemoveAt

(* A record that is added, in front or behind, takes nothing out and moves *)
(* no other record to an earlier place.                                    *)
LEMMA Lengthens ==
    ASSUME NEW q \in Seq(Hashes), NEW x \in Hashes, NEW r \in {<<x>> \o q, Append(q, x)}
    PROVE  /\ r \in Seq(Hashes)
           /\ Len(r) = Len(q) + 1
           /\ \A e : Contains(q, e) => Contains(r, e)
           /\ \A i \in DOMAIN r : r[i] = x \/ \E k \in DOMAIN q : r[i] = q[k] /\ k <= i
  <1>0. Len(q) \in Nat /\ DOMAIN q = 1 .. Len(q)
    BY LenProperties
  <1>1. CASE r = <<x>> \o q
    <2>0. <<x>> \in Seq(Hashes) /\ Len(<<x>>) = 1 /\ <<x>>[1] = x
      OBVIOUS
    <2>1. /\ r \in Seq(Hashes) /\ Len(r) = Len(q) + 1
          /\ \A e : Contains(q, e) => Contains(r, e)
      <3>1. /\ <<x>> \o q \in Seq(Hashes)
            /\ Len(<<x>> \o q) = Len(<<x>>) + Len(q)
            /\ \A e : Contains(<<x>> \o q, e) <=> Contains(<<x>>, e) \/ Contains(q, e)
        BY <2>0, Together
      <3>. QED
        BY <1>0, <1>1, <2>0, <3>1
    <2>2. \A i \in 1 .. 1 + Len(q) : r[i] = IF i <= 1 THEN <<x>>[i] ELSE q[i - 1]
      BY <1>0, <1>1, <2>0, ConcatProperties
    <2>3. ASSUME NEW i \in DOMAIN r, r[i] # x
          PROVE  \E k \in DOMAIN q : r[i] = q[k] /\ k <= i
      <3>1. i \in 2 .. 1 + Len(q)
        BY <1>0, <2>0, <2>1, <2>2, <2>3, LenProperties
      <3>2. i - 1 \in DOMAIN q /\ r[i] = q[i - 1] /\ i - 1 <= i
        BY <1>0, <2>2, <3>1
      <3>. QED
        BY <3>2
    <2>. QED
      BY <2>1, <2>3
  <1>2. CASE r = Append(q, x)
    <2>1. /\ r \in Seq(Hashes) /\ Len(r) = Len(q) + 1
          /\ \A i \in 1 .. Len(q) : r[i] = q[i]
          /\ r[Len(q) + 1] = x
      BY <1>2, AppendProperties
    <2>2. \A e : Contains(q, e) => Contains(r, e)
      BY <1>0, <2>1 DEF Contains
    <2>3. DOMAIN r = 1 .. Len(q) + 1
      BY <2>1, LenProperties
    <2>. QED
      BY <1>0, <2>1, <2>2, <2>3
  <1>. QED
    BY <1>1, <1>2

(* Bookkeeping changes no more than what it is about.                      *)
LEMMA SeenFields ==
    ASSUME NEW h \in DeleterType, NEW q
    PROVE  /\ Seen(h, q) \in DeleterType
           /\ Seen(h, q).pc = h.pc /\ Seen(h, q).hash = h.hash /\ Seen(h, q).app = h.app
           /\ Seen(h, q).page = h.page /\ Seen(h, q).all = h.all
           /\ Seen(h, q).failed = h.failed
           /\ Seen(h, q).tracked <=> h.tracked /\ Tracks(q, h.hash)
           /\ Seen(h, q).shifted <=> h.shifted \/ \E a \in Apps : Len(q[a]) < Len(queue[a])
  <1>1. Tracks(q, h.hash) \in BOOLEAN /\ (\E a \in Apps : Len(q[a]) < Len(queue[a])) \in BOOLEAN
    BY DEF Tracks
  <1>. QED
    BY <1>1 DEF Seen, DeleterType

(* A queue that got shorter promises nothing to a look-up under way.       *)
LEMMA ShorterKeeps ==
    ASSUME NEW h \in DeleterType, LookedUp(h, queue), NEW q, NEW a \in Apps,
           Len(q[a]) < Len(queue[a])
    PROVE  LookedUp(Seen(h, q), q)
  <1>1. ~Steady(Seen(h, q))
    BY SeenFields DEF Steady
  <1>2. Before(Seen(h, q)) = Before(h)
    BY SeenFields DEF Before
  <1>. QED
    BY <1>1, <1>2, SeenFields DEF LookedUp

(* A queue that got longer by another release keeps its promise.           *)
LEMMA LongerKeeps ==
    ASSUME DownloadTypeOK, NEW h \in DeleterType, LookedUp(h, queue),
           NEW a \in Apps, NEW x \in Hashes, ~Tracks(queue, x),
           NEW r \in {<<x>> \o queue[a], Append(queue[a], x)},
           NEW q, q = [queue EXCEPT ![a] = r]
    PROVE  LookedUp(Seen(h, q), q)
  <1>1. queue[a] \in Seq(Hashes)
    BY DEF DownloadTypeOK
  <1>2. /\ \A e : Contains(queue[a], e) => Contains(r, e)
        /\ r \in Seq(Hashes)
        /\ \A i \in DOMAIN r : r[i] = x \/ \E k \in DOMAIN queue[a] : r[i] = queue[a][k] /\ k <= i
    <2>. DEFINE Q == queue[a]
    <2>1. Q \in Seq(Hashes) /\ r \in {<<x>> \o Q, Append(Q, x)}
      BY <1>1
    <2>. HIDE DEF Q
    <2>2. /\ r \in Seq(Hashes)
          /\ \A e : Contains(Q, e) => Contains(r, e)
          /\ \A i \in DOMAIN r : r[i] = x \/ \E k \in DOMAIN Q : r[i] = Q[k] /\ k <= i
      BY <2>1, Lengthens, Zenon
    <2>. QED
      BY <2>2 DEF Q
  <1>3. /\ q[a] = r
        /\ \A b \in Apps : b # a => q[b] = queue[b]
    BY DEF DownloadTypeOK
  <1>4. Before(Seen(h, q)) = Before(h) /\ (Steady(Seen(h, q)) => Steady(h))
    BY SeenFields DEF Before, Steady
  <1>5. ASSUME Seen(h, q).pc = "lookup", Steady(Seen(h, q))
        PROVE  /\ h.app = "sonarr" => ~Contains(q["radarr"], h.hash)
               /\ NotPassed(h, q)
    <2>1. h.pc = "lookup" /\ Steady(h) /\ h.hash # x
      BY <1>4, <1>5, SeenFields DEF LookedUp, Steady
    <2>2. h.app = "sonarr" => ~Contains(q["radarr"], h.hash)
      <3>1. h.app = "sonarr" => ~Contains(queue["radarr"], h.hash)
        BY <2>1 DEF LookedUp
      <3>2. CASE a = "radarr"
        <4>1. Contains(r, h.hash) => Contains(queue[a], h.hash)
          <5>. SUFFICES ASSUME NEW i \in 1 .. Len(r), r[i] = h.hash
                        PROVE  Contains(queue[a], h.hash)
            BY Zenon DEF Contains
          <5>1. i \in DOMAIN r
            BY <1>2, LenProperties
          <5>2. PICK k \in DOMAIN queue[a] : r[i] = queue[a][k]
            BY <1>2, <2>1, <5>1
          <5>3. k \in 1 .. Len(queue[a])
            BY <1>1, LenProperties
          <5>. QED
            BY <5>2, <5>3, Zenon DEF Contains
        <4>. QED
          BY <1>3, <3>1, <3>2, <4>1
      <3>3. CASE a # "radarr"
        BY <1>3, <3>1, <3>3 DEF Apps
      <3>. QED
        BY <3>2, <3>3
    <2>3. ASSUME NEW i \in DOMAIN q[h.app], q[h.app][i] = h.hash, ~Contains(h.all, h.hash)
          PROVE  i > Before(h)
      <3>0. h.app \in Apps /\ NotPassed(h, queue)
        BY <2>1 DEF LookedUp
      <3>1. CASE h.app # a
        BY <1>3, <2>3, <3>0, <3>1 DEF NotPassed
      <3>2. CASE h.app = a
        <4>1. PICK k \in DOMAIN queue[a] : queue[a][k] = h.hash /\ k <= i
          BY <1>2, <1>3, <2>1, <2>3, <3>2
        <4>2. k > Before(h)
          BY <2>3, <3>0, <3>2, <4>1 DEF NotPassed
        <4>3. Before(h) \in Int /\ i \in Nat /\ k \in Nat
          <5>1. Before(h) \in Int
            BY DownloadsAssumption DEF Before, DeleterType
          <5>2. i \in 1 .. Len(r) /\ k \in 1 .. Len(queue[a])
            BY <1>1, <1>2, <1>3, <2>3, <3>2, <4>1, LenProperties
          <5>. QED
            BY <5>1, <5>2
        <4>. QED
          BY <4>1, <4>2, <4>3
      <3>. QED
        BY <3>1, <3>2
    <2>. QED
      BY <2>2, <2>3 DEF NotPassed
  <1>6. NotPassed(Seen(h, q), q) <=> NotPassed(h, q)
    BY <1>4, SeenFields DEF NotPassed
  <1>. QED
    BY <1>4, <1>5, <1>6, SeenFields DEF LookedUp, Steady

(* No handler is at work in the beginning.                                 *)
LEMMA DownloadInvInit == DownloadInit => DownloadInv
  <1>. SUFFICES ASSUME DownloadInit PROVE DownloadInv
    OBVIOUS
  <1>1. SetToSeqs({}) \cup SetToSeqs(Hashes) \subseteq Seq(Hashes)
    <2>1. Cardinality({}) = 0 /\ Cardinality(Hashes) \in Nat
      BY FS_EmptySet, FS_CardinalityType, DownloadsAssumption
    <2>2. SetToSeqs(Hashes) \subseteq [1 .. Cardinality(Hashes) -> Hashes]
      BY DEF SetToSeqs
    <2>3. SetToSeqs({}) \subseteq [1 .. 0 -> Hashes]
      BY <2>1 DEF SetToSeqs
    <2>. QED
      BY <2>1, <2>2, <2>3, SeqDef
  <1>2. queue \in [Apps -> Seq(Hashes)]
    BY <1>1 DEF DownloadInit
  <1>3. Idle \in DeleterType
    BY DEF Idle, DeleterType
  <1>4. DownloadTypeOK
    BY <1>2, <1>3, DownloadsAssumption DEF DownloadInit, DownloadTypeOK
  <1>5. \A d \in Deleters : deleter[d] = Idle
    BY DEF DownloadInit
  <1>6. LookedUp(Idle, queue)
    BY DEF LookedUp, Idle, Steady
  <1>. QED
    BY <1>4, <1>5, <1>6 DEF DownloadInv

(* An app that does not have the record is behind us.                      *)
LEMMA NextKeeps ==
    ASSUME DownloadTypeOK, NEW h \in DeleterType, h.pc = "lookup", h.app \in Apps,
           h.tracked => Tracks(queue, h.hash),
           Steady(h) => /\ ~Contains(queue[h.app], h.hash)
                        /\ h.app = "sonarr" => ~Contains(queue["radarr"], h.hash)
    PROVE  TryNext(h) \in DeleterType /\ LookedUp(TryNext(h), queue)
  <1>1. CASE h.app = "radarr"
    <2>. DEFINE n == [h EXCEPT !.app = "sonarr", !.page = 1, !.all = <<>>]
    <2>1. TryNext(h) = n
      BY <1>1 DEF TryNext, NextApp
    <2>2. /\ n \in DeleterType /\ n.pc = "lookup" /\ n.hash = h.hash /\ n.app = "sonarr"
          /\ n.page = 1 /\ n.all = <<>>
          /\ n.tracked = h.tracked /\ n.failed = h.failed /\ n.shifted = h.shifted
      <3>1. "sonarr" \in Apps \cup {"none"} /\ 1 \in Nat \ {0} /\ <<>> \in Seq(Hashes)
        BY DEF Apps
      <3>. QED
        BY <3>1 DEF DeleterType
    <2>. HIDE DEF n
    <2>3. Before(n) = 0 /\ Len(n.all) = 0
      BY <2>2, DownloadsAssumption DEF Before
    <2>4. NotPassed(n, queue)
      <3>1. queue["sonarr"] \in Seq(Hashes)
        BY DEF DownloadTypeOK, Apps
      <3>2. \A i \in DOMAIN queue["sonarr"] : i > 0
        BY <3>1, LenProperties
      <3>. QED
        BY <2>2, <2>3, <3>2 DEF NotPassed
    <2>. QED
      BY <1>1, <2>1, <2>2, <2>3, <2>4 DEF LookedUp, Steady, Apps
  <1>2. CASE h.app = "sonarr"
    <2>1. TryNext(h) = [h EXCEPT !.pc = "torrent"]
      BY <1>2 DEF TryNext, NextApp
    <2>2. ~Steady(h)
      BY <1>2 DEF Steady, Tracks, Apps
    <2>. QED
      BY <2>1, <2>2 DEF LookedUp, Steady, DeleterType
  <1>. QED
    BY <1>1, <1>2 DEF Apps

(* One page more, and what the handler does with it.                       *)
LEMMA PageKeeps ==
    ASSUME DownloadInv, NEW d \in Deleters, GetPage(d)
    PROVE  /\ deleter'[d] \in DeleterType /\ LookedUp(deleter'[d], queue)
           /\ \A e \in Deleters : e # d => deleter'[e] = deleter[e]
  <1>. DEFINE h == deleter[d]
              Q == queue[h.app]
              b == Before(h)
              last == Min({b + 1 + PageSize - 1, Len(Q)})
              records == SubSeq(Q, b + 1, last)
              all == h.all \o records
              more == [h EXCEPT !.page = @ + 1, !.all = all]
              read == [h EXCEPT !.all = all]
  <1>1. /\ h \in DeleterType /\ LookedUp(h, queue)
        /\ h.pc = "lookup" /\ h.app \in Apps
        /\ deleter \in [Deleters -> DeleterType]
    BY DEF DownloadInv, DownloadTypeOK, GetPage, LookedUp
  <1>2. deleter' = [deleter EXCEPT ![d] =
                       CASE MorePages(records, all, Len(Q)) -> more
                         [] OTHER -> IF Contains(all, h.hash)
                                     THEN [h EXCEPT !.pc = "item", !.all = all]
                                     ELSE TryNext(read)]
    BY DEF GetPage, Goes, Before
  <1>3. Q \in Seq(Hashes) /\ Len(Q) \in Nat /\ h.all \in Seq(Hashes) /\ h.page \in Nat \ {0}
    BY <1>1 DEF DownloadInv, DownloadTypeOK, DeleterType
  <1>4. b \in Nat /\ PageSize \in Nat \ {0}
    <2>1. h.page - 1 \in Nat /\ PageSize \in Nat \ {0}
      BY <1>3, DownloadsAssumption
    <2>. QED
      BY <2>1 DEF Before
  <1>5. last \in Nat /\ last <= b + PageSize /\ last <= Len(Q) /\ (last = b + PageSize \/ last = Len(Q))
    BY <1>3, <1>4, EndOfPage
  <1>. HIDE DEF last
  <1>6. /\ records \in Seq(Hashes) /\ Len(records) <= PageSize
        /\ records = <<>> => Len(Q) <= b
        /\ \A i \in DOMAIN Q : b < i /\ i <= b + PageSize => Contains(records, Q[i])
    BY <1>3, <1>4, <1>5, OnThePage
  <1>. HIDE DEF records, Q
  <1>7. /\ all \in Seq(Hashes) /\ Len(all) = Len(h.all) + Len(records)
        /\ \A e : Contains(all, e) <=> Contains(h.all, e) \/ Contains(records, e)
    BY <1>3, <1>6, Together
  <1>8. Len(all) <= b + PageSize /\ Len(all) \in Nat
    <2>1. Len(h.all) <= b
      BY <1>1 DEF LookedUp
    <2>2. Len(h.all) \in Nat /\ Len(records) \in Nat
      BY <1>3, <1>6, LenProperties
    <2>. QED
      BY <1>4, <1>6, <1>7, <2>1, <2>2
  <1>9. \A i \in DOMAIN Q : i \in Nat /\ i <= Len(Q)
    BY <1>3, LenProperties
  <1>. HIDE DEF all
  <1>10. ASSUME Steady(h), NEW i \in DOMAIN Q, Q[i] = h.hash, ~Contains(all, h.hash)
         PROVE  i > b + PageSize
    <2>1. i > b
      BY <1>1, <1>7, <1>10 DEF LookedUp, NotPassed, Q
    <2>2. ~(i <= b + PageSize)
      BY <1>6, <1>7, <1>10, <2>1, <1>4, <1>9
    <2>. QED
      BY <1>4, <1>9, <2>2
  <1>. HIDE DEF b
  <1>11. ASSUME MorePages(records, all, Len(Q))
         PROVE  more \in DeleterType /\ LookedUp(more, queue)
    <2>1. /\ more \in DeleterType /\ more.pc = "lookup" /\ more.app = h.app
          /\ more.hash = h.hash /\ more.page = h.page + 1 /\ more.all = all
          /\ more.tracked = h.tracked /\ more.failed = h.failed /\ more.shifted = h.shifted
      <3>1. h.page + 1 \in Nat \ {0}
        BY <1>3
      <3>. QED
        BY <1>1, <1>7, <3>1 DEF DeleterType
    <2>. HIDE DEF more
    <2>2. Before(more) = b + PageSize
      <3>1. more.page - 1 = (h.page - 1) + 1 /\ h.page - 1 \in Nat
        BY <1>3, <2>1
      <3>2. \A m \in Nat : (m + 1) * PageSize = m * PageSize + PageSize
        BY <1>4
      <3>. QED
        BY <3>1, <3>2 DEF Before, b
    <2>3. Steady(h) => NotPassed(more, queue)
      BY <1>10, <2>1, <2>2 DEF NotPassed, Q
    <2>4. Steady(more) <=> Steady(h)
      BY <2>1 DEF Steady
    <2>5. Len(more.all) <= Before(more)
      BY <1>8, <2>1, <2>2
    <2>. QED
      BY <1>1, <2>1, <2>3, <2>4, <2>5 DEF LookedUp
  <1>12. ASSUME ~MorePages(records, all, Len(Q)), ~Contains(all, h.hash)
         PROVE  TryNext(read) \in DeleterType /\ LookedUp(TryNext(read), queue)
    <2>1. /\ read \in DeleterType /\ read.pc = "lookup" /\ read.app = h.app /\ read.hash = h.hash
          /\ read.tracked = h.tracked /\ read.failed = h.failed /\ read.shifted = h.shifted
      BY <1>1, <1>7 DEF DeleterType
    <2>. HIDE DEF read
    <2>2. Len(Q) <= b + PageSize
      <3>1. records = <<>> \/ ~(Len(all) < Len(Q))
        BY <1>12 DEF MorePages
      <3>. QED
        BY <1>3, <1>4, <1>6, <1>8, <3>1
    <2>3. Steady(h) => ~Contains(Q, h.hash)
      <3>1. SUFFICES ASSUME Steady(h), NEW i \in 1 .. Len(Q), Q[i] = h.hash PROVE FALSE
        BY DEF Contains
      <3>2. i \in DOMAIN Q
        BY <1>3, LenProperties
      <3>3. i > b + PageSize
        BY <1>10, <1>12, <3>1, <3>2
      <3>. QED
        BY <1>3, <1>4, <2>2, <3>1, <3>3
    <2>4. Steady(read) <=> Steady(h)
      BY <2>1 DEF Steady
    <2>5. /\ h.tracked => Tracks(queue, h.hash)
          /\ Steady(h) /\ h.app = "sonarr" => ~Contains(queue["radarr"], h.hash)
      BY <1>1 DEF LookedUp
    <2>6. /\ read.tracked => Tracks(queue, read.hash)
          /\ Steady(read) => /\ ~Contains(queue[read.app], read.hash)
                             /\ read.app = "sonarr" => ~Contains(queue["radarr"], read.hash)
      BY <2>1, <2>3, <2>4, <2>5 DEF Q
    <2>. QED
      BY <1>1, <2>1, <2>6, NextKeeps DEF DownloadInv
  <1>13. ASSUME NEW n, n = [h EXCEPT !.pc = "item", !.all = all]
         PROVE  n \in DeleterType /\ LookedUp(n, queue)
    BY <1>1, <1>7, <1>13 DEF LookedUp, DeleterType
  <1>. QED
    BY <1>1, <1>2, <1>11, <1>12, <1>13

(* A record that is removed, from anywhere in a queue.                     *)
LEMMA RemovalKeeps ==
    ASSUME DownloadTypeOK, NEW a \in Apps, NEW i \in DOMAIN queue[a],
           NEW q, q = [queue EXCEPT ![a] = RemoveAt(@, i)]
    PROVE  /\ q \in [Apps -> Seq(Hashes)]
           /\ \A h \in DeleterType : LookedUp(h, queue) =>
                  Seen(h, q) \in DeleterType /\ LookedUp(Seen(h, q), q)
  <1>1. queue \in [Apps -> Seq(Hashes)] /\ queue[a] \in Seq(Hashes)
    BY DEF DownloadTypeOK
  <1>2. RemoveAt(queue[a], i) \in Seq(Hashes) /\ Len(RemoveAt(queue[a], i)) < Len(queue[a])
    BY <1>1, Shortens
  <1>3. q = [queue EXCEPT ![a] = RemoveAt(queue[a], i)]
    OBVIOUS
  <1>4. q \in [Apps -> Seq(Hashes)] /\ q[a] = RemoveAt(queue[a], i)
    BY <1>1, <1>2, <1>3
  <1>5. Len(q[a]) < Len(queue[a])
    BY <1>2, <1>4
  <1>6. ASSUME NEW h \in DeleterType, LookedUp(h, queue)
        PROVE  Seen(h, q) \in DeleterType /\ LookedUp(Seen(h, q), q)
    BY <1>5, <1>6, SeenFields, ShorterKeeps
  <1>. QED
    BY <1>4, <1>6

(* A handler that is done relies on nothing.                               *)
LEMMA IdleKeeps == Idle \in DeleterType /\ \A q : LookedUp(Idle, q)
  BY DEF Idle, DeleterType, LookedUp, Steady

(* A step of one handler that leaves the queues alone.                     *)
LEMMA OneHandler ==
    ASSUME DownloadInv, NEW d \in Deleters, queue' = queue,
           NEW new \in DeleterType, LookedUp(new, queue), deleter' = [deleter EXCEPT ![d] = new],
           torrents' \subseteq Hashes, blocklisted' \subseteq Hashes,
           failures' \in 0 .. MaxFailures, moves' \in 0 .. MaxMoves
    PROVE  DownloadInv'
  <1>1. deleter \in [Deleters -> DeleterType] /\ queue \in [Apps -> Seq(Hashes)]
    BY DEF DownloadInv, DownloadTypeOK
  <1>2. deleter' \in [Deleters -> DeleterType] /\ queue' \in [Apps -> Seq(Hashes)]
    BY <1>1
  <1>3. DownloadTypeOK'
    BY <1>2 DEF DownloadTypeOK
  <1>4. ASSUME NEW e \in Deleters
        PROVE  LookedUp(deleter'[e], queue)
    BY <1>1 DEF DownloadInv
  <1>. QED
    BY <1>3, <1>4 DEF DownloadInv

(* The bound on failed calls.                                              *)
LEMMA FailsTyped == ASSUME DownloadTypeOK, Fails PROVE failures' \in 0 .. MaxFailures
  BY DownloadsAssumption DEF DownloadTypeOK, Fails

(* A move of the queues by the apps.                                       *)
LEMMA QueueMovesKeep ==
    ASSUME DownloadInv, NEW q \in [Apps -> Seq(Hashes)], QueueMoves(q),
           \A d \in Deleters : Seen(deleter[d], q) \in DeleterType /\ LookedUp(Seen(deleter[d], q), q),
           torrents' \subseteq Hashes
    PROVE  DownloadInv'
  <1>1. /\ queue' = q /\ deleter' = [d \in Deleters |-> Seen(deleter[d], q)]
        /\ blocklisted' = blocklisted /\ failures' = failures
    BY DEF QueueMoves
  <1>2. moves' \in 0 .. MaxMoves
    BY DownloadsAssumption DEF QueueMoves, DownloadInv, DownloadTypeOK
  <1>3. deleter' \in [Deleters -> DeleterType]
    BY <1>1
  <1>4. DownloadTypeOK'
    BY <1>1, <1>2, <1>3 DEF DownloadInv, DownloadTypeOK
  <1>5. \A d \in Deleters : LookedUp(deleter'[d], queue')
    BY <1>1
  <1>. QED
    BY <1>4, <1>5 DEF DownloadInv

(* The removal through the queue, which keeps what 204 promises.           *)
LEMMA ItemRemovedKeeps ==
    ASSUME DownloadInv, NEW d \in Deleters, deleter[d].pc = "item", ItemRemoved(d),
           failures' \in 0 .. MaxFailures, moves' \in 0 .. MaxMoves
    PROVE  /\ DownloadInv'
           /\ deleter[d].hash \notin torrents'
           /\ deleter[d].blocklist => deleter[d].hash \in blocklisted'
  <1>. DEFINE h == deleter[d]
  <1>1. /\ h \in DeleterType /\ LookedUp(h, queue) /\ h.app \in Apps
        /\ \A e \in Deleters : deleter[e] \in DeleterType /\ LookedUp(deleter[e], queue)
    BY DEF DownloadInv, DownloadTypeOK, LookedUp
  <1>2. PICK i \in DOMAIN queue[h.app] : /\ queue[h.app][i] = h.hash
                                         /\ queue' = [queue EXCEPT ![h.app] = RemoveAt(@, i)]
    BY DEF ItemRemoved
  <1>3. /\ torrents' = torrents \ {h.hash}
        /\ blocklisted' = IF h.blocklist THEN blocklisted \cup {h.hash} ELSE blocklisted
        /\ deleter' = [e \in Deleters |-> IF e = d THEN Idle ELSE Seen(deleter[e], queue')]
    BY DEF ItemRemoved, RemovesTorrent
  <1>4. /\ queue' \in [Apps -> Seq(Hashes)]
        /\ \A g \in DeleterType : LookedUp(g, queue) =>
               Seen(g, queue') \in DeleterType /\ LookedUp(Seen(g, queue'), queue')
    BY <1>1, <1>2, RemovalKeeps DEF DownloadInv
  <1>5. h.hash \in Hashes
    BY <1>1, <1>2, ElementOfSeq, LenProperties DEF DownloadInv, DownloadTypeOK
  <1>6. \A e \in Deleters : deleter'[e] \in DeleterType /\ LookedUp(deleter'[e], queue')
    BY <1>1, <1>3, <1>4, IdleKeeps
  <1>7. deleter' \in [Deleters -> DeleterType]
    BY <1>3, <1>6
  <1>8. torrents' \subseteq Hashes /\ blocklisted' \subseteq Hashes
    BY <1>3, <1>5 DEF DownloadInv, DownloadTypeOK
  <1>9. DownloadTypeOK'
    BY <1>4, <1>7, <1>8 DEF DownloadTypeOK
  <1>. QED
    BY <1>3, <1>6, <1>9 DEF DownloadInv

(* Every step keeps what look-ups rely on.                                 *)
LEMMA DownloadStep == DownloadInv /\ [DownloadNext]_downloadVars => DownloadInv'
  <1>. SUFFICES ASSUME DownloadInv, [DownloadNext]_downloadVars PROVE DownloadInv'
    OBVIOUS
  <1>0. /\ DownloadTypeOK
        /\ deleter \in [Deleters -> DeleterType]
        /\ torrents \subseteq Hashes /\ blocklisted \subseteq Hashes
        /\ failures \in 0 .. MaxFailures /\ moves \in 0 .. MaxMoves
        /\ \A d \in Deleters : deleter[d] \in DeleterType /\ LookedUp(deleter[d], queue)
    BY DEF DownloadInv, DownloadTypeOK
  <1>1. ASSUME NEW a \in Apps, NEW i \in 1 .. Cardinality(Hashes), Dequeue(a, i)
        PROVE  DownloadInv'
    <2>. DEFINE q == [queue EXCEPT ![a] = RemoveAt(@, i)]
    <2>1. i \in DOMAIN queue[a] /\ QueueMoves(q) /\ torrents' = torrents
      BY <1>1 DEF Dequeue
    <2>. HIDE DEF q
    <2>2. /\ q \in [Apps -> Seq(Hashes)]
          /\ \A d \in Deleters : Seen(deleter[d], q) \in DeleterType
                                 /\ LookedUp(Seen(deleter[d], q), q)
      BY <1>0, <2>1, RemovalKeeps DEF q
    <2>. QED
      BY <1>0, <2>1, <2>2, QueueMovesKeep
  <1>2. ASSUME NEW a \in Apps, NEW x \in Hashes, Grab(a, x)
        PROVE  DownloadInv'
    <2>1. PICK r \in {<<x>> \o queue[a], Append(queue[a], x)} : QueueMoves([queue EXCEPT ![a] = r])
      BY <1>2 DEF Grab
    <2>. DEFINE q == [queue EXCEPT ![a] = r]
    <2>2. q \in [Apps -> Seq(Hashes)]
      <3>1. queue \in [Apps -> Seq(Hashes)] /\ queue[a] \in Seq(Hashes)
        BY <1>0 DEF DownloadTypeOK
      <3>2. r \in Seq(Hashes)
        BY <3>1, Lengthens
      <3>. QED
        BY <3>1, <3>2
    <2>3. ~Tracks(queue, x) /\ torrents' = torrents \cup {x}
      BY <1>2 DEF Grab
    <2>4. QueueMoves(q) /\ q = [queue EXCEPT ![a] = r]
      BY <2>1
    <2>. HIDE DEF q
    <2>5. \A d \in Deleters : Seen(deleter[d], q) \in DeleterType /\ LookedUp(Seen(deleter[d], q), q)
      BY <1>0, <2>3, <2>4, SeenFields, LongerKeeps
    <2>. QED
      BY <1>0, <2>2, <2>3, <2>4, <2>5, QueueMovesKeep
  <1>3. ASSUME NEW d \in Deleters, NEW hash \in Hashes, NEW b \in BOOLEAN, Delete(d, hash, b)
        PROVE  DownloadInv'
    <2>. DEFINE new == [Idle EXCEPT !.pc = "lookup", !.hash = hash, !.app = "radarr",
                                    !.blocklist = b, !.tracked = Tracks(queue, hash)]
    <2>1. /\ new \in DeleterType /\ new.pc = "lookup" /\ new.hash = hash /\ new.app = "radarr"
          /\ new.page = 1 /\ new.all = <<>> /\ new.tracked = Tracks(queue, hash)
      <3>1. /\ "radarr" \in Apps \cup {"none"} /\ 1 \in Nat \ {0} /\ <<>> \in Seq(Hashes)
            /\ Tracks(queue, hash) \in BOOLEAN
        BY DEF Apps, Tracks
      <3>. QED
        BY <3>1 DEF Idle, DeleterType
    <2>2. deleter' = [deleter EXCEPT ![d] = new] /\ UNCHANGED <<queue, torrents, blocklisted, failures, moves>>
      BY <1>3 DEF Delete, Goes
    <2>. HIDE DEF new
    <2>3. Before(new) = 0 /\ Len(new.all) = 0
      BY <2>1, DownloadsAssumption DEF Before
    <2>4. NotPassed(new, queue)
      <3>1. queue["radarr"] \in Seq(Hashes)
        BY <1>0 DEF DownloadTypeOK, Apps
      <3>. QED
        BY <2>1, <2>3, <3>1, LenProperties DEF NotPassed
    <2>5. LookedUp(new, queue)
      BY <2>1, <2>3, <2>4 DEF LookedUp, Apps
    <2>. QED
      BY <1>0, <2>1, <2>2, <2>5, OneHandler
  <1>4. ASSUME NEW d \in Deleters, GetPage(d)
        PROVE  DownloadInv'
    <2>1. PICK new : Goes(d, new)
      BY <1>4 DEF GetPage
    <2>2. deleter' = [deleter EXCEPT ![d] = new] /\ UNCHANGED <<queue, torrents, blocklisted, failures, moves>>
      BY <1>4, <2>1 DEF GetPage, Goes
    <2>3. new = deleter'[d]
      BY <1>0, <2>2
    <2>4. new \in DeleterType /\ LookedUp(new, queue)
      BY <1>4, <2>3, PageKeeps
    <2>. QED
      BY <1>0, <2>2, <2>4, OneHandler
  <1>5. ASSUME NEW d \in Deleters, LookupFails(d)
        PROVE  DownloadInv'
    <2>. DEFINE h == [deleter[d] EXCEPT !.failed = TRUE]
    <2>1. /\ h \in DeleterType /\ h.pc = "lookup" /\ h.app = deleter[d].app /\ h.hash = deleter[d].hash
          /\ h.tracked = deleter[d].tracked /\ ~Steady(h)
      BY <1>0, <1>5 DEF LookupFails, DeleterType, Steady
    <2>2. /\ deleter' = [deleter EXCEPT ![d] = TryNext(h)]
          /\ UNCHANGED <<queue, torrents, blocklisted, moves>> /\ Fails
      BY <1>5 DEF LookupFails, Goes
    <2>. HIDE DEF h
    <2>3. h.app \in Apps /\ (h.tracked => Tracks(queue, h.hash))
      BY <1>0, <1>5, <2>1 DEF LookupFails, LookedUp
    <2>4. TryNext(h) \in DeleterType /\ LookedUp(TryNext(h), queue)
      BY <1>0, <2>1, <2>3, NextKeeps
    <2>. QED
      BY <1>0, <2>2, <2>4, OneHandler, FailsTyped
  <1>6. ASSUME NEW d \in Deleters, DeleteItem(d)
        PROVE  DownloadInv'
    BY <1>0, <1>6, ItemRemovedKeeps DEF DeleteItem
  <1>7. ASSUME NEW d \in Deleters, DeleteItemFails(d)
        PROVE  DownloadInv'
    <2>1. deleter[d].pc = "item" /\ moves' = moves /\ failures' \in 0 .. MaxFailures
      BY <1>0, <1>7, FailsTyped DEF DeleteItemFails
    <2>2. CASE ItemRemoved(d)
      BY <1>0, <2>1, <2>2, ItemRemovedKeeps
    <2>3. CASE Goes(d, Idle) /\ UNCHANGED <<queue, torrents, blocklisted>>
      BY <1>0, <2>1, <2>3, OneHandler, IdleKeeps DEF Goes
    <2>. QED
      BY <1>7, <2>2, <2>3 DEF DeleteItemFails
  <1>8. ASSUME NEW d \in Deleters, DeleteTorrent(d) \/ DeleteTorrentFails(d)
        PROVE  DownloadInv'
    <2>1. /\ deleter' = [deleter EXCEPT ![d] = Idle] /\ queue' = queue
          /\ blocklisted' = blocklisted /\ moves' = moves
          /\ torrents' \subseteq Hashes
      BY <1>0, <1>8 DEF DeleteTorrent, DeleteTorrentFails, Goes
    <2>2. failures' \in 0 .. MaxFailures
      BY <1>0, <1>8, FailsTyped DEF DeleteTorrent, DeleteTorrentFails
    <2>. QED
      BY <1>0, <2>1, <2>2, OneHandler, IdleKeeps
  <1>9. CASE UNCHANGED downloadVars
    BY <1>9 DEF downloadVars, DownloadInv, DownloadTypeOK
  <1>. QED
    BY <1>1, <1>2, <1>3, <1>4, <1>5, <1>6, <1>7, <1>8, <1>9 DEF DownloadNext

(* "204": the torrent is gone, and blocklisted where that was asked and no *)
(* look-up was spoilt.  The removal through the queue does both; the       *)
(* direct deletion is reached only after both look-ups ended without the   *)
(* record, which an undisturbed look-up of a tracked torrent cannot.       *)
THEOREM DoneMeansDone == DownloadSpec => DoneIsDone
  <1>1. DownloadSpec => []DownloadInv
    BY DownloadInvInit, DownloadStep, PTL DEF DownloadSpec
  <1>2. ASSUME DownloadInv, DownloadNext, NEW d \in Deleters, TellsDone(d)
        PROVE  LET h == deleter[d]
               IN  /\ h.hash \notin torrents'
                   /\ h.blocklist /\ h.tracked /\ ~h.failed /\ ~h.shifted =>
                          h.hash \in blocklisted'
    <2>0. /\ deleter \in [Deleters -> DeleterType] /\ failures \in Nat
          /\ \A e \in Deleters : deleter[e] \in DeleterType /\ LookedUp(deleter[e], queue)
          /\ failures \in 0 .. MaxFailures /\ moves \in 0 .. MaxMoves
      BY <1>2 DEF DownloadInv, DownloadTypeOK
    <2>1. /\ failures' = failures /\ deleter[d].pc # "idle" /\ deleter'[d].pc = "idle"
          /\ ~(deleter[d].pc = "item" /\ queue' = queue)
      BY <1>2 DEF TellsDone, Answered
    <2>2. ~Fails
      BY <2>0, <2>1 DEF Fails
    <2>3. \A q : deleter'[d] # Seen(deleter[d], q) /\ deleter'[d] # deleter[d]
      BY <2>0, <2>1, SeenFields
    <2>4. ~ \E q : QueueMoves(q)
      BY <2>3 DEF QueueMoves
    <2>5. PICK e \in Deleters :
             \/ \E hash \in Hashes, b \in BOOLEAN : Delete(e, hash, b)
             \/ GetPage(e) \/ LookupFails(e) \/ DeleteItem(e) \/ DeleteItemFails(e)
             \/ DeleteTorrent(e) \/ DeleteTorrentFails(e)
      BY <1>2, <2>4 DEF DownloadNext, Dequeue, Grab
    <2>6. \A g : deleter' = [deleter EXCEPT ![e] = g] => e = d /\ g = deleter'[d]
      BY <2>0, <2>3
    <2>7. e = d
      <3>1. ItemRemoved(e) => e = d
        BY <2>3 DEF ItemRemoved
      <3>. QED
        BY <2>5, <2>6, <3>1 DEF Delete, GetPage, LookupFails, DeleteItem, DeleteItemFails,
                                DeleteTorrent, DeleteTorrentFails, Goes
    <2>8. ~GetPage(d)
      <3>. SUFFICES ASSUME GetPage(d) PROVE FALSE
        OBVIOUS
      <3>1. PICK all : \/ Goes(d, [deleter[d] EXCEPT !.page = @ + 1, !.all = all])
                       \/ Goes(d, [deleter[d] EXCEPT !.pc = "item", !.all = all])
                       \/ Goes(d, TryNext([deleter[d] EXCEPT !.all = all]))
        BY DEF GetPage
      <3>2. deleter[d].pc = "lookup" /\ deleter[d] \in DeleterType
        BY <2>0 DEF GetPage
      <3>3. /\ [deleter[d] EXCEPT !.page = @ + 1, !.all = all].pc # "idle"
            /\ [deleter[d] EXCEPT !.pc = "item", !.all = all].pc # "idle"
            /\ TryNext([deleter[d] EXCEPT !.all = all]).pc # "idle"
        BY <3>2 DEF TryNext, DeleterType
      <3>. QED
        BY <2>1, <2>6, <2>7, <3>1, <3>3 DEF Goes
    <2>9. DeleteItem(d) \/ DeleteTorrent(d)
      <3>1. ~LookupFails(d) /\ ~DeleteTorrentFails(d) /\ ~DeleteItemFails(d)
        BY <2>1, <2>2 DEF LookupFails, DeleteTorrentFails, DeleteItemFails
      <3>2. ~ \E hash \in Hashes, b \in BOOLEAN : Delete(d, hash, b)
        BY <2>1 DEF Delete
      <3>. QED
        BY <2>5, <2>7, <2>8, <3>1, <3>2
    <2>10. CASE DeleteItem(d)
      BY <1>2, <2>0, <2>10, ItemRemovedKeeps DEF DeleteItem
    <2>11. CASE DeleteTorrent(d)
      BY <2>0, <2>11 DEF DeleteTorrent, LookedUp, Steady
    <2>. QED
      BY <2>9, <2>10, <2>11
  <1>3. DownloadInv /\ [DownloadNext]_downloadVars =>
          [\A d \in Deleters : TellsDone(d) =>
              LET h == deleter[d]
              IN  /\ h.hash \notin torrents'
                  /\ h.blocklist /\ h.tracked /\ ~h.failed /\ ~h.shifted =>
                         h.hash \in blocklisted']_downloadVars
    <2>. SUFFICES ASSUME DownloadInv, DownloadNext, NEW d \in Deleters, TellsDone(d)
                  PROVE  LET h == deleter[d]
                         IN  /\ h.hash \notin torrents'
                             /\ h.blocklist /\ h.tracked /\ ~h.failed /\ ~h.shifted =>
                                    h.hash \in blocklisted'
      OBVIOUS
    <2>. QED
      BY <1>2
  <1>. QED
    BY <1>1, <1>3, PTL DEF DownloadSpec, DoneIsDone
=============================================================================
