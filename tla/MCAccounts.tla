----------------------------- MODULE MCAccounts -----------------------------
(* Small instances of Accounts for TLC: two names, two invites and two     *)
(* handlers, in three mixes: all operations, one handler at a time and no  *)
(* failure; and handlers that overlap, around invites (no second session,  *)
(* no role change, one manager at a time) or without invites.              *)
EXTENDS AccountsHistory, FiniteSets, TLC

CONSTANTS owner, ann, t1, t2, c1, c2, h1, h2

VARIABLE mix

Symmetry == Permutations(Codes) \cup Permutations(Handlers) \cup Permutations(Tokens)

Bound ==
    CASE mix = "turns"   ->
            /\ Cardinality({h \in Handlers : handler[h].pc # "idle"}) <= 1
            /\ faults = 0
      [] mix = "invites" ->
            /\ Cardinality({s \in Tokens : session[s] # NoSession}) <= 1
            /\ \E h \in Handlers : handler[h].op \in {"none", "login", "register"}
            /\ \A h \in Handlers :
                  /\ handler[h].op # "setrole"
                  /\ handler[h].op = "invite" => handler[h].role = "viewer"
      [] mix = "admins"  ->
            \A h \in Handlers : handler[h].op \notin {"invite", "revoke"}

MCInit == HistoryInit /\ mix \in {"turns", "invites", "admins"}
MCNext == HistoryNext /\ UNCHANGED mix /\ Bound'
MCSpec == MCInit /\ [][MCNext]_<<vars, historyVars, mix>>
=============================================================================
