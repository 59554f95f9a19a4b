----------------------------- MODULE CreateOnce -----------------------------
(***************************************************************************)
(* What a caller of PostJSON, RawPost or PostForm may rely on: the server  *)
(* creates at most one thing, plus one for each time it answered 5xx (a    *)
(* service that fails after it has committed is asked again), an answer of *)
(* success is true, and a refusal is final.  A call that fails otherwise   *)
(* leaves the caller in the dark, and may be carried out late.             *)
(***************************************************************************)
EXTENDS Naturals

CONSTANT Creates    \* the calls

VARIABLES
    made,           \* how often the server has carried each call out
    excuses,        \* how often it answered 5xx
    told            \* what the caller has heard

vars == <<made, excuses, told>>

Answer == {"nothing", "success", "refused", "unknown"}

Init ==
    /\ made = [c \in Creates |-> 0]
    /\ excuses = [c \in Creates |-> 0]
    /\ told = [c \in Creates |-> "nothing"]

Make(c) ==
    /\ made[c] <= excuses[c]
    /\ told[c] \notin {"success", "refused"}
    /\ made' = [made EXCEPT ![c] = @ + 1]
    /\ UNCHANGED <<excuses, told>>

(* A 5xx, which may be the last answer the caller waits for.               *)
Excuse(c) ==
    /\ told[c] = "nothing"
    /\ excuses' = [excuses EXCEPT ![c] = @ + 1]
    /\ \E answer \in {"nothing", "unknown"} : told' = [told EXCEPT ![c] = answer]
    /\ UNCHANGED made

(* Success is told of something made; a refusal leaves room for one more.  *)
Tell(c) ==
    /\ told[c] = "nothing"
    /\ \E answer \in Answer \ {"nothing"} :
          /\ answer = "success" => made[c] > 0
          /\ answer = "refused" => made[c] <= excuses[c]
          /\ told' = [told EXCEPT ![c] = answer]
    /\ UNCHANGED <<made, excuses>>

Spec == Init /\ [][\E c \in Creates : Make(c) \/ Excuse(c) \/ Tell(c)]_vars
=============================================================================
