-------------------------- MODULE RequestsHistory ---------------------------
(***************************************************************************)
(* Requests with a record of the rows that two managers are deciding about *)
(* at once, and what a viewer may rely upon of any row.  The record keeps  *)
(* nobody from anything: every behaviour of Requests is one of these.      *)
(***************************************************************************)
EXTENDS Requests

VARIABLE contested      \* the rows that two handlers held at once, until
                        \* the last of them has answered

(* From the handler's loadRequest to its answer.                           *)
Decides(h, r) == handler[h].op \in {"approve", "decline"} /\ handler[h].req = r
Deciders(r) == {h \in Handlers : Decides(h, r)}
Conflicts == {r \in Requests : \E g, h \in Deciders(r) : g # h}

HistoryInit == Init /\ contested = {}
HistoryNext ==
    /\ Next
    /\ contested' = Conflicts' \cup {r \in contested : Deciders(r)' # {}}
HistorySpec == HistoryInit /\ [][HistoryNext]_<<vars, contested>>

-----------------------------------------------------------------------------
(* What the viewer is told follows the life RequestLifecycle promises: one *)
(* decision, then only fulfilment, and nobody but a manager who was        *)
(* deciding at the same time as another ever overrules it.                 *)
Lifecycle == INSTANCE RequestLifecycle
RequestLifecycle == Lifecycle!Spec
=============================================================================
