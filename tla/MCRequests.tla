----------------------------- MODULE MCRequests -----------------------------
(* Small instances of Requests for TLC: a movie and a series, whose apps   *)
(* hand out the same ids, and two handlers, in three mixes: everything,    *)
(* with one handler at a time; handlers that overlap, where no item is     *)
(* removed; and where movies are removed and added again, but no call      *)
(* fails.                                                                  *)
EXTENDS RequestsHistory, FiniteSets, TLC

CONSTANTS movie, series, h1, h2

VARIABLE mix

AllAppOf == movie :> "radarr" @@ series :> "sonarr"
MCAppOf == [t \in Titles |-> AllAppOf[t]]
Symmetry == Permutations(Handlers)

Bound ==
    CASE mix = "turns"   -> Cardinality({h \in Handlers : handler[h].pc # "idle"}) <= 1
      [] mix = "both"    -> removals = 0 /\ \A i \in Items : i[2] > 1 => itemTitle[i] = NoTitle
      [] mix = "removed" -> /\ faults = 0
                            /\ \A h \in Handlers : handler[h].title # series
                            /\ \A i \in Items : i[1] = "sonarr" => itemTitle[i] = NoTitle

MCInit == HistoryInit /\ mix \in {"turns", "both", "removed"}
MCNext == HistoryNext /\ UNCHANGED mix /\ Bound'
MCSpec == MCInit /\ [][MCNext]_<<vars, contested, mix>>
=============================================================================
