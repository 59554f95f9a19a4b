---------------------------- MODULE RetryClient ----------------------------
(***************************************************************************)
(* httpx.Client.send, the retry loop under every *arr, qBittorrent and     *)
(* gluetun call, and the server at the other end.  One attempt is a        *)
(* request that may fail to be dialled, get lost, be carried out and have  *)
(* its answer lost, or be carried out after the client has given up on it. *)
(***************************************************************************)
EXTENDS Naturals, FiniteSets

CONSTANTS
    Calls,          \* calls of the client's methods
    Creates         \* those that POST; the others GET, PUT or DELETE

(* RetryPolicy.MaxAttempts, as New sets it.                                *)
MaxAttempts == 3

ASSUME CallsAssumption == Creates \subseteq Calls

VARIABLES
    callPc,             \* where send is
    attempt,        \* the loop's i + 1, 0 before the first attempt
    cancelled,      \* the call's context is done
    result,         \* what send returned
    atServer,       \* attempts the server received and still works on
    done,           \* attempts the server carried out
    erred           \* attempts it answered 5xx

clientVars == <<callPc, attempt, result>>
serverVars == <<atServer, done, erred>>
vars == <<clientVars, cancelled, serverVars>>

Attempts == 1 .. MaxAttempts
Results == {"none", "ok", "refused", "failed", "cancelled"}

TypeOK ==
    /\ callPc \in [Calls -> {"idle", "loop", "sent", "returned"}]
    /\ attempt \in [Calls -> 0 .. MaxAttempts]
    /\ cancelled \in [Calls -> BOOLEAN]
    /\ result \in [Calls -> Results]
    /\ atServer \in [Calls -> SUBSET Attempts]
    /\ done \in [Calls -> SUBSET Attempts]
    /\ erred \in [Calls -> SUBSET Attempts]

Init ==
    /\ callPc = [c \in Calls |-> "idle"]
    /\ attempt = [c \in Calls |-> 0]
    /\ cancelled = [c \in Calls |-> FALSE]
    /\ result = [c \in Calls |-> "none"]
    /\ atServer = [c \in Calls |-> {}]
    /\ done = [c \in Calls |-> {}]
    /\ erred = [c \in Calls |-> {}]

-----------------------------------------------------------------------------
(* The client.  How an attempt ends: "2xx", "4xx" and "5xx" answers,       *)
(* "dial" for an error while dialling, "cut" for any other transport error *)
(* (a reset, a body that breaks off), "timeout" and "cancelled".           *)

Endings == {"2xx", "4xx", "5xx", "dial", "cut", "timeout", "cancelled"}

(* isTransientErr and isRetriableSendErr as once applies them.             *)
RetriesEveryCut(c) == {"5xx", "dial", "cut"}
Retries(c) == {"5xx", "dial"} \cup (IF c \in Creates THEN {} ELSE {"cut"})

ResultOf(ending) ==
    CASE ending = "2xx"       -> "ok"
      [] ending = "4xx"       -> "refused"
      [] ending = "cancelled" -> "cancelled"
      [] OTHER                -> "failed"

Returns(c, res) ==
    /\ callPc' = [callPc EXCEPT ![c] = "returned"]
    /\ result' = [result EXCEPT ![c] = res]

(* The attempt has ended: on with the loop, or out of it.                  *)
Ends(c, ending, n) ==
    IF ending \in Retries(c) /\ n < MaxAttempts
    THEN callPc' = [callPc EXCEPT ![c] = "loop"] /\ UNCHANGED result
    ELSE Returns(c, ResultOf(ending))

Start(c) ==
    /\ callPc[c] = "idle"
    /\ callPc' = [callPc EXCEPT ![c] = "loop"]
    /\ UNCHANGED <<attempt, result, cancelled, serverVars>>

(* The handler's client goes away, or the process shuts down.              *)
Cancel(c) ==
    /\ callPc[c] # "idle"
    /\ ~cancelled[c]
    /\ cancelled' = [cancelled EXCEPT ![c] = TRUE]
    /\ UNCHANGED <<clientVars, serverVars>>

(* The check before an attempt, and in the wait for the backoff.           *)
GiveUp(c) ==
    /\ callPc[c] = "loop"
    /\ cancelled[c]
    /\ Returns(c, "cancelled")
    /\ UNCHANGED <<attempt, cancelled, serverVars>>

(* for i := 0; i < attempts; i++                                           *)
NextAttempt(c) == attempt[c] + 1

(* An attempt is dialled; the server may get it.                           *)
Send(c) ==
    /\ callPc[c] = "loop"
    /\ ~cancelled[c]
    /\ attempt' = [attempt EXCEPT ![c] = NextAttempt(c)]
    /\ callPc' = [callPc EXCEPT ![c] = "sent"]
    /\ atServer' = [atServer EXCEPT ![c] = @ \cup {NextAttempt(c)}]
    /\ UNCHANGED <<result, cancelled, done, erred>>

DialFails(c) ==
    /\ callPc[c] = "loop"
    /\ ~cancelled[c]
    /\ attempt' = [attempt EXCEPT ![c] = NextAttempt(c)]
    /\ Ends(c, "dial", NextAttempt(c))
    /\ UNCHANGED <<cancelled, serverVars>>

(* The answer to the attempt in hand arrives.                              *)
Succeeds(c) ==
    /\ callPc[c] = "sent"
    /\ attempt[c] \in done[c]
    /\ Ends(c, "2xx", attempt[c])
    /\ UNCHANGED <<attempt, cancelled, serverVars>>

Refused(c) ==
    /\ callPc[c] = "sent"
    /\ attempt[c] \notin done[c]
    /\ atServer' = [atServer EXCEPT ![c] = @ \ {attempt[c]}]
    /\ Ends(c, "4xx", attempt[c])
    /\ UNCHANGED <<attempt, cancelled, done, erred>>

ServerError(c) ==
    /\ callPc[c] = "sent"
    /\ atServer' = [atServer EXCEPT ![c] = @ \ {attempt[c]}]
    /\ erred' = [erred EXCEPT ![c] = @ \cup {attempt[c]}]
    /\ Ends(c, "5xx", attempt[c])
    /\ UNCHANGED <<attempt, cancelled, done>>

(* No answer: the server may have the attempt, or have carried it out.     *)
NoAnswer(c, ending) ==
    /\ callPc[c] = "sent"
    /\ ending = "cancelled" => cancelled[c]
    /\ Ends(c, ending, attempt[c])
    /\ UNCHANGED <<attempt, cancelled, serverVars>>

-----------------------------------------------------------------------------
(* The server, which goes on with what it has received.                    *)

CarryOut(c, a) ==
    /\ a \in atServer[c]
    /\ atServer' = [atServer EXCEPT ![c] = @ \ {a}]
    /\ done' = [done EXCEPT ![c] = @ \cup {a}]
    /\ UNCHANGED <<clientVars, cancelled, erred>>

Lose(c, a) ==
    /\ a \in atServer[c]
    /\ atServer' = [atServer EXCEPT ![c] = @ \ {a}]
    /\ UNCHANGED <<clientVars, cancelled, done, erred>>

-----------------------------------------------------------------------------
ClientStep(c) ==
    \/ GiveUp(c) \/ Send(c) \/ DialFails(c)
    \/ Succeeds(c) \/ Refused(c) \/ ServerError(c)
    \/ \E ending \in {"cut", "timeout", "cancelled"} : NoAnswer(c, ending)

Next ==
    \E c \in Calls :
        \/ Start(c) \/ Cancel(c) \/ ClientStep(c)
        \/ \E a \in Attempts : CarryOut(c, a) \/ Lose(c, a)

Spec == Init /\ [][Next]_vars

-----------------------------------------------------------------------------
(* Properties.                                                             *)

(* "A reset after send could mean the server already committed the         *)
(* create": a POST is carried out at most once, late and lost attempts     *)
(* included, not counting attempts the server itself answered with 5xx.    *)
CreatedOnce ==
    \A c \in Creates : \A a, b \in (atServer[c] \cup done[c]) \ erred[c] : a = b

(* Each POST keeps the promise of CreateOnce, where only the server's own  *)
(* 5xx answers excuse a second creation, success is never told of nothing  *)
(* made, and nothing is made after a success or a refusal was told.        *)
Told(c) ==
    CASE result[c] = "none"    -> "nothing"
      [] result[c] = "ok"      -> "success"
      [] result[c] = "refused" -> "refused"
      [] OTHER                 -> "unknown"
Promise == INSTANCE CreateOnce WITH
               made <- [c \in Creates |-> Cardinality(done[c])],
               excuses <- [c \in Creates |-> Cardinality(erred[c])],
               told <- [c \in Creates |-> Told(c)]
CreatesKeepPromise == Promise!Spec
=============================================================================
