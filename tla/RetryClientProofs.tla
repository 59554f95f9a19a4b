------------------------- MODULE RetryClientProofs --------------------------
(***************************************************************************)
(* Why a POST is carried out at most once: the loop goes on only after an  *)
(* attempt that never left the client or that the server answered 5xx.     *)
(***************************************************************************)
EXTENDS RetryClient, FiniteSetTheorems, TLAPS

(* There is an attempt left whenever the loop is entered, and attempts     *)
(* count from 1.                                                           *)
AttemptsLeft ==
    \A c \in Calls : /\ callPc[c] \in {"idle", "loop"} => attempt[c] < MaxAttempts
                     /\ callPc[c] = "sent" => attempt[c] > 0

(* What the server has of a POST and did not answer 5xx is the attempt in  *)
(* hand, and the client is not about to make another.                      *)
OnlyLast ==
    \A c \in Creates : \A a \in Attempts :
        (a \in atServer[c] \/ a \in done[c]) /\ a \notin erred[c]
            => a = attempt[c] /\ callPc[c] \in {"sent", "returned"}

IInv == TypeOK /\ AttemptsLeft /\ OnlyLast

(* The invariant holds before the first call (New, and no request yet).    *)
LEMMA InitIInv == ASSUME Init PROVE IInv
  BY CallsAssumption DEF Init, IInv, TypeOK, AttemptsLeft, OnlyLast, MaxAttempts, Results, Attempts

(* An attempt ends: the client loops or returns, and it loops only if an   *)
(* attempt is left and, for a POST, after a 5xx or while dialling.         *)
LEMMA EndsLoopsOrReturns ==
    ASSUME TypeOK, NEW c \in Calls, NEW ending \in Endings, NEW n \in Nat,
           Ends(c, ending, n)
    PROVE  /\ callPc' \in [Calls -> {"idle", "loop", "sent", "returned"}]
           /\ result' \in [Calls -> Results]
           /\ \A d \in Calls : d # c => callPc'[d] = callPc[d]
           /\ \/ callPc'[c] = "returned"
              \/ /\ callPc'[c] = "loop"
                 /\ n < MaxAttempts
                 /\ c \in Creates => ending \in {"5xx", "dial"}
  <1>1. CASE ending \in Retries(c) /\ n < MaxAttempts
    BY <1>1 DEF Ends, Retries, TypeOK
  <1>2. CASE ~(ending \in Retries(c) /\ n < MaxAttempts)
    <2>1. ResultOf(ending) \in Results
      BY DEF ResultOf, Results
    <2>. QED
      BY <1>2, <2>1 DEF Ends, Returns, TypeOK
  <1>. QED
    BY <1>1, <1>2

(* Every step of send and of the server keeps it, action by action.        *)
LEMMA NextKeepsIInv ==
    ASSUME IInv, Next
    PROVE  IInv'
  <1>. USE CallsAssumption DEF IInv, TypeOK, clientVars, serverVars
  <1>0. PICK c \in Calls :
           \/ Start(c) \/ Cancel(c) \/ ClientStep(c)
           \/ \E a \in Attempts : CarryOut(c, a) \/ Lose(c, a)
    BY DEF Next
  <1>1. CASE Start(c)
    BY <1>1 DEF Start, AttemptsLeft, OnlyLast
  <1>2. CASE Cancel(c)
    BY <1>2 DEF Cancel, AttemptsLeft, OnlyLast
  <1>3. CASE GiveUp(c)
    BY <1>3 DEF GiveUp, Returns, Results, AttemptsLeft, OnlyLast
  <1>4. CASE Send(c)
    <2>1. attempt[c] + 1 \in Attempts /\ attempt[c] + 1 \in 0 .. MaxAttempts
      BY <1>4 DEF Send, AttemptsLeft, Attempts, MaxAttempts
    <2>2. TypeOK'
      <3>1. attempt' \in [Calls -> 0 .. MaxAttempts]
        BY <1>4, <2>1 DEF Send, NextAttempt
      <3>2. atServer' \in [Calls -> SUBSET Attempts]
        BY <1>4, <2>1 DEF Send, NextAttempt
      <3>. QED
        BY <1>4, <3>1, <3>2 DEF Send
    <2>3. AttemptsLeft'
      BY <1>4, <2>1 DEF Send, NextAttempt, AttemptsLeft, Attempts, MaxAttempts
    <2>4. OnlyLast'
      BY <1>4 DEF Send, NextAttempt, OnlyLast
    <2>. QED
      BY <2>2, <2>3, <2>4
  <1>5. CASE DialFails(c)
    <2>1. attempt[c] + 1 \in Nat /\ attempt[c] + 1 \in 0 .. MaxAttempts
      BY <1>5 DEF DialFails, AttemptsLeft, MaxAttempts
    <2>2. /\ callPc' \in [Calls -> {"idle", "loop", "sent", "returned"}]
          /\ result' \in [Calls -> Results]
          /\ \A d \in Calls : d # c => callPc'[d] = callPc[d]
          /\ \/ callPc'[c] = "returned"
             \/ callPc'[c] = "loop" /\ attempt[c] + 1 < MaxAttempts
      <3>1. PICK ending \in Endings, n \in Nat : /\ ending = "dial" /\ n = attempt[c] + 1
                                               /\ Ends(c, ending, n)
        BY <1>5, <2>1 DEF DialFails, NextAttempt, Endings
      <3>. QED
        BY <3>1, EndsLoopsOrReturns
    <2>3. TypeOK'
      BY <1>5, <2>1, <2>2 DEF DialFails, NextAttempt
    <2>4. AttemptsLeft'
      BY <1>5, <2>2 DEF DialFails, NextAttempt, AttemptsLeft
    <2>5. OnlyLast'
      BY <1>5, <2>2 DEF DialFails, OnlyLast
    <2>. QED
      BY <2>3, <2>4, <2>5
  <1>6. ASSUME NEW ending \in Endings \ {"5xx", "dial"},
               callPc[c] = "sent", Ends(c, ending, attempt[c]),
               UNCHANGED <<attempt, cancelled, done, erred>>,
               atServer' \in [Calls -> SUBSET Attempts],
               \A d \in Calls : atServer'[d] \subseteq atServer[d]
        PROVE  IInv'
    <2>1. attempt[c] \in Nat
      BY DEF MaxAttempts
    <2>2. /\ callPc' \in [Calls -> {"idle", "loop", "sent", "returned"}]
          /\ result' \in [Calls -> Results]
          /\ \A d \in Calls : d # c => callPc'[d] = callPc[d]
          /\ \/ callPc'[c] = "returned"
             \/ callPc'[c] = "loop" /\ attempt[c] < MaxAttempts /\ c \notin Creates
      BY <1>6, <2>1, EndsLoopsOrReturns
    <2>3. TypeOK'
      BY <1>6, <2>2
    <2>4. AttemptsLeft'
      BY <1>6, <2>2 DEF AttemptsLeft
    <2>5. OnlyLast'
      BY <1>6, <2>2 DEF OnlyLast
    <2>. QED
      BY <2>3, <2>4, <2>5
  <1>7. CASE Succeeds(c)
    BY <1>6, <1>7 DEF Succeeds, Endings
  <1>8. CASE Refused(c)
    <2>1. /\ atServer' \in [Calls -> SUBSET Attempts]
          /\ \A d \in Calls : atServer'[d] \subseteq atServer[d]
      BY <1>8 DEF Refused
    <2>. QED
      BY <1>6, <1>8, <2>1 DEF Refused, Endings
  <1>9. CASE \E ending \in {"cut", "timeout", "cancelled"} : NoAnswer(c, ending)
    BY <1>6, <1>9 DEF NoAnswer, Endings
  <1>10. CASE ServerError(c)
    <2>1. attempt[c] \in Nat
      BY DEF MaxAttempts
    <2>2. /\ callPc' \in [Calls -> {"idle", "loop", "sent", "returned"}]
          /\ result' \in [Calls -> Results]
          /\ \A d \in Calls : d # c => callPc'[d] = callPc[d]
          /\ \/ callPc'[c] = "returned"
             \/ callPc'[c] = "loop" /\ attempt[c] < MaxAttempts
      <3>1. PICK ending \in Endings, n \in Nat : /\ ending = "5xx" /\ n = attempt[c]
                                               /\ Ends(c, ending, n)
        BY <1>10, <2>1 DEF ServerError, Endings
      <3>. QED
        BY <3>1, EndsLoopsOrReturns
    <2>3. erred'[c] = erred[c] \cup {attempt[c]} /\ \A d \in Calls : d # c => erred'[d] = erred[d]
      BY <1>10 DEF ServerError
    <2>4. atServer' \in [Calls -> SUBSET Attempts] /\ \A d \in Calls : atServer'[d] \subseteq atServer[d]
      BY <1>10 DEF ServerError
    <2>5. erred' \in [Calls -> SUBSET Attempts]
      <3>. DEFINE e == erred[c] \cup {attempt[c]}
      <3>1. attempt[c] # 0
        BY <1>10 DEF ServerError, AttemptsLeft
      <3>2. e \in SUBSET Attempts
        BY <3>1 DEF Attempts, MaxAttempts
      <3>. QED
        BY <1>10, <3>2 DEF ServerError
    <2>6. TypeOK'
      BY <1>10, <2>2, <2>4, <2>5 DEF ServerError
    <2>7. AttemptsLeft'
      BY <1>10, <2>2 DEF ServerError, AttemptsLeft
    <2>8. OnlyLast'
      BY <1>10, <2>2, <2>3, <2>4 DEF ServerError, OnlyLast
    <2>. QED
      BY <2>6, <2>7, <2>8
  <1>11. CASE \E a \in Attempts : CarryOut(c, a) \/ Lose(c, a)
    <2>1. PICK a \in Attempts : CarryOut(c, a) \/ Lose(c, a)
      BY <1>11
    <2>2. TypeOK' /\ AttemptsLeft'
      BY <2>1 DEF CarryOut, Lose, AttemptsLeft
    <2>3. OnlyLast'
      BY <2>1 DEF CarryOut, Lose, OnlyLast
    <2>. QED
      BY <2>2, <2>3
  <1>. QED
    BY <1>0, <1>1, <1>2, <1>3, <1>4, <1>5, <1>7, <1>8, <1>9, <1>10, <1>11 DEF ClientStep

(* So it holds in every state of a behaviour.                              *)
LEMMA Invariance == Spec => []IInv
  <1>1. Init => IInv
    BY InitIInv
  <1>2. IInv /\ [Next]_vars => IInv'
    <2>. SUFFICES ASSUME IInv, UNCHANGED vars PROVE IInv'
      BY NextKeepsIInv
    <2>. QED
      BY DEF vars, clientVars, serverVars, IInv, TypeOK, AttemptsLeft, OnlyLast
  <1>. QED
    BY <1>1, <1>2, PTL DEF Spec

(* Type correctness of the retry loop: no call makes more attempts than    *)
(* the policy allows.                                                      *)
THEOREM TypeCorrect == Spec => []TypeOK
  <1>1. IInv => TypeOK
    BY DEF IInv
  <1>. QED
    BY <1>1, Invariance, PTL

(* A POST is carried out at most once, whatever is lost, late or cancelled *)
(* and however many calls are under way, except for attempts that the      *)
(* server itself answered with 5xx.                                        *)
THEOREM PostedOnce == Spec => []CreatedOnce
  <1>1. IInv => CreatedOnce
    BY CallsAssumption DEF IInv, TypeOK, OnlyLast, CreatedOnce
  <1>. QED
    BY <1>1, Invariance, PTL

-----------------------------------------------------------------------------
(* The promise of CreateOnce.  What the server has answered or carried out *)
(* it no longer works on, an answer 5xx ends the attempt in hand, and the  *)
(* caller hears nothing before send returns.                               *)
AccountedFor(c) ==
    /\ atServer[c] \cap (done[c] \cup erred[c]) = {}
    /\ \A a \in atServer[c] \cup done[c] \cup erred[c] : a <= attempt[c]
    /\ callPc[c] = "sent" => attempt[c] \notin erred[c]
    /\ callPc[c] # "returned" => result[c] = "none"
    /\ result[c] \in {"ok", "refused"} => attempt[c] \notin atServer[c]

Accounted == \A c \in Calls : AccountedFor(c)

CallStep(c) ==
    \/ Start(c) \/ Cancel(c) \/ ClientStep(c)
    \/ \E a \in Attempts : CarryOut(c, a) \/ Lose(c, a)

(* One call's step leaves every other call and its attempts alone.         *)
LEMMA OthersLeftAlone ==
    ASSUME TypeOK, NEW c \in Calls, CallStep(c), NEW d \in Calls, d # c
    PROVE  /\ callPc'[d] = callPc[d]
           /\ attempt'[d] = attempt[d]
           /\ result'[d] = result[d]
           /\ atServer'[d] = atServer[d]
           /\ done'[d] = done[d]
           /\ erred'[d] = erred[d]
  <1>. USE DEF clientVars, serverVars, TypeOK
  <1>1. ASSUME NEW ending, NEW n, Ends(c, ending, n)
        PROVE  callPc'[d] = callPc[d] /\ result'[d] = result[d]
    BY <1>1 DEF Ends, Returns
  <1>2. CASE Start(c) \/ Cancel(c)
    BY <1>2 DEF Start, Cancel
  <1>3. CASE GiveUp(c) \/ Send(c)
    BY <1>3 DEF GiveUp, Returns, Send
  <1>4. CASE DialFails(c)
    BY <1>1, <1>4 DEF DialFails
  <1>5. CASE Succeeds(c)
    BY <1>1, <1>5 DEF Succeeds
  <1>6. CASE Refused(c)
    BY <1>1, <1>6 DEF Refused
  <1>7. CASE ServerError(c)
    BY <1>1, <1>7 DEF ServerError
  <1>8. CASE \E ending \in {"cut", "timeout", "cancelled"} : NoAnswer(c, ending)
    BY <1>1, <1>8 DEF NoAnswer
  <1>9. CASE \E a \in Attempts : CarryOut(c, a) \/ Lose(c, a)
    BY <1>9 DEF CarryOut, Lose
  <1>. QED
    BY <1>2, <1>3, <1>4, <1>5, <1>6, <1>7, <1>8, <1>9 DEF CallStep, ClientStep

(* How an attempt that ended leaves its call: still silent in the loop, or *)
(* returned with the result of the ending.                                 *)
LEMMA EndsAtCall ==
    ASSUME TypeOK, NEW c \in Calls, NEW ending, NEW n, Ends(c, ending, n)
    PROVE  \/ callPc'[c] = "loop" /\ result'[c] = result[c] /\ ending \in Retries(c)
           \/ callPc'[c] = "returned" /\ result'[c] = ResultOf(ending)
  BY DEF Ends, Returns, TypeOK

(* What a step does to the call it is a step of.                           *)
LEMMA StepAtCall ==
    ASSUME TypeOK, NEW c \in Calls, CallStep(c)
    PROVE  \/ /\ UNCHANGED <<attempt, result, serverVars>>
              /\ callPc'[c] # callPc[c] => callPc[c] = "idle" /\ callPc'[c] = "loop"
           \/ GiveUp(c)
           \/ Send(c)
           \/ DialFails(c)
           \/ Succeeds(c)
           \/ Refused(c)
           \/ ServerError(c)
           \/ \E ending \in {"cut", "timeout", "cancelled"} : NoAnswer(c, ending)
           \/ \E a \in Attempts : CarryOut(c, a) \/ Lose(c, a)
  BY DEF CallStep, ClientStep, Start, Cancel, clientVars, serverVars, TypeOK

(* No answer of 2xx or 4xx from an ending that is neither.                 *)
LEMMA ResultsOfEndings ==
    /\ ResultOf("2xx") = "ok"
    /\ ResultOf("4xx") = "refused"
    /\ ResultOf("5xx") = "failed"
    /\ ResultOf("dial") = "failed"
    /\ ResultOf("cut") = "failed"
    /\ ResultOf("timeout") = "failed"
    /\ ResultOf("cancelled") = "cancelled"
  BY DEF ResultOf

(* Every step keeps the accounts of the call it is a step of.              *)
LEMMA StepKeepsAccounts ==
    ASSUME TypeOK, AttemptsLeft, NEW c \in Calls, AccountedFor(c), CallStep(c)
    PROVE  AccountedFor(c)'
  <1>. USE DEF TypeOK, clientVars, serverVars
  <1>0. /\ attempt[c] \in Nat
        /\ \A a \in atServer[c] \cup done[c] \cup erred[c] : a \in Nat
    BY DEF MaxAttempts, Attempts
  <1>1. CASE /\ UNCHANGED <<attempt, result, serverVars>>
             /\ callPc'[c] # callPc[c] => callPc[c] = "idle" /\ callPc'[c] = "loop"
    BY <1>1 DEF AccountedFor
  <1>2. CASE GiveUp(c)
    BY <1>2 DEF GiveUp, Returns, AccountedFor
  <1>3. CASE Send(c)
    <2>1. /\ callPc'[c] = "sent"
          /\ attempt'[c] = attempt[c] + 1
          /\ atServer'[c] = atServer[c] \cup {attempt[c] + 1}
          /\ done'[c] = done[c] /\ erred'[c] = erred[c] /\ result'[c] = result[c]
          /\ callPc[c] = "loop"
      BY <1>3 DEF Send, NextAttempt
    <2>2. /\ attempt[c] + 1 \notin atServer[c] \cup done[c] \cup erred[c]
          /\ \A a \in atServer[c] \cup done[c] \cup erred[c] : a <= attempt[c] + 1
      BY <1>0 DEF AccountedFor
    <2>. QED
      BY <1>0, <2>1, <2>2 DEF AccountedFor
  <1>4. CASE DialFails(c)
    <2>1. /\ attempt'[c] = attempt[c] + 1
          /\ UNCHANGED serverVars
          /\ callPc[c] = "loop"
          /\ \/ callPc'[c] = "loop" /\ result'[c] = result[c]
             \/ callPc'[c] = "returned" /\ result'[c] = "failed"
      BY <1>4, EndsAtCall, ResultsOfEndings DEF DialFails, NextAttempt
    <2>2. \A a \in atServer[c] \cup done[c] \cup erred[c] : a <= attempt[c] + 1
      BY <1>0 DEF AccountedFor
    <2>. QED
      BY <2>1, <2>2 DEF AccountedFor
  <1>5. CASE Succeeds(c)
    <2>1. /\ UNCHANGED <<attempt, serverVars>>
          /\ attempt[c] \in done[c]
          /\ callPc[c] = "sent"
          /\ \/ callPc'[c] = "loop" /\ result'[c] = result[c]
             \/ callPc'[c] = "returned" /\ result'[c] = "ok"
      BY <1>5, EndsAtCall, ResultsOfEndings DEF Succeeds
    <2>. QED
      BY <2>1 DEF AccountedFor
  <1>6. CASE Refused(c)
    <2>1. /\ UNCHANGED <<attempt, done, erred>>
          /\ atServer'[c] = atServer[c] \ {attempt[c]}
          /\ callPc[c] = "sent"
          /\ \/ callPc'[c] = "loop" /\ result'[c] = result[c]
             \/ callPc'[c] = "returned" /\ result'[c] = "refused"
      BY <1>6, EndsAtCall, ResultsOfEndings DEF Refused
    <2>. QED
      BY <2>1 DEF AccountedFor
  <1>7. CASE ServerError(c)
    <2>1. /\ UNCHANGED <<attempt, done>>
          /\ atServer'[c] = atServer[c] \ {attempt[c]}
          /\ erred'[c] = erred[c] \cup {attempt[c]}
          /\ callPc[c] = "sent"
          /\ \/ callPc'[c] = "loop" /\ result'[c] = result[c]
             \/ callPc'[c] = "returned" /\ result'[c] = "failed"
      BY <1>7, EndsAtCall, ResultsOfEndings DEF ServerError
    <2>. QED
      BY <1>0, <2>1 DEF AccountedFor
  <1>8. CASE \E ending \in {"cut", "timeout", "cancelled"} : NoAnswer(c, ending)
    <2>1. /\ UNCHANGED <<attempt, serverVars>>
          /\ callPc[c] = "sent"
          /\ \/ callPc'[c] = "loop" /\ result'[c] = result[c]
             \/ callPc'[c] = "returned" /\ result'[c] \in {"failed", "cancelled"}
      BY <1>8, EndsAtCall, ResultsOfEndings DEF NoAnswer
    <2>. QED
      BY <2>1 DEF AccountedFor
  <1>9. CASE \E a \in Attempts : CarryOut(c, a) \/ Lose(c, a)
    <2>1. PICK a \in Attempts : CarryOut(c, a) \/ Lose(c, a)
      BY <1>9
    <2>2. /\ UNCHANGED <<clientVars, erred>>
          /\ a \in atServer[c]
          /\ atServer'[c] = atServer[c] \ {a}
          /\ done'[c] \in {done[c], done[c] \cup {a}}
      BY <2>1 DEF CarryOut, Lose
    <2>. QED
      BY <2>2 DEF AccountedFor
  <1>. QED
    BY StepAtCall, <1>1, <1>2, <1>3, <1>4, <1>5, <1>6, <1>7, <1>8, <1>9

PInv == IInv /\ Accounted

(* The accounts hold from the first state on.                              *)
LEMMA AccountsInvariance == Spec => []PInv
  <1>1. Init => Accounted
    BY DEF Init, Accounted, AccountedFor
  <1>2. IInv /\ Accounted /\ [Next]_vars => Accounted'
    <2>1. CASE UNCHANGED vars
      BY <2>1 DEF vars, clientVars, serverVars, Accounted, AccountedFor
    <2>2. ASSUME IInv, Accounted, Next
          PROVE  Accounted'
      <3>1. PICK c \in Calls : CallStep(c)
        BY <2>2 DEF Next, CallStep
      <3>2. AccountedFor(c)'
        BY <2>2, <3>1, StepKeepsAccounts DEF IInv, Accounted
      <3>3. ASSUME NEW d \in Calls, d # c
            PROVE  AccountedFor(d)'
        BY <2>2, <3>1, <3>3, OthersLeftAlone DEF IInv, Accounted, AccountedFor
      <3>. QED
        BY <3>2, <3>3 DEF Accounted
    <2>. QED
      BY <2>1, <2>2
  <1>. QED
    BY <1>1, <1>2, Invariance, PTL DEF Spec, PInv

(* How much is done and excused is a number, and grows by one with each    *)
(* attempt added.                                                          *)
LEMMA CountsOfAttempts ==
    ASSUME NEW S \in SUBSET Attempts
    PROVE  /\ IsFiniteSet(S)
           /\ Cardinality(S) \in Nat
           /\ (\E a \in S : TRUE) => Cardinality(S) > 0
           /\ \A a : a \notin S => Cardinality(S \cup {a}) = Cardinality(S) + 1
           /\ \A T \in SUBSET S : Cardinality(T) <= Cardinality(S)
  <1>1. IsFiniteSet(Attempts)
    <2>1. 1 \in Int /\ MaxAttempts \in Int
      BY DEF MaxAttempts
    <2>2. IsFiniteSet(1 .. MaxAttempts)
      BY <2>1, FS_Interval, Zenon
    <2>. QED
      BY <2>2 DEF Attempts
  <1>2. IsFiniteSet(S)
    BY <1>1, FS_Subset
  <1>3. Cardinality(S) \in Nat
    BY <1>2, FS_CardinalityType
  <1>4. (\E a \in S : TRUE) => Cardinality(S) > 0
    BY <1>2, <1>3, FS_EmptySet
  <1>5. \A a : a \notin S => Cardinality(S \cup {a}) = Cardinality(S) + 1
    BY <1>2, FS_AddElement
  <1>6. \A T \in SUBSET S : Cardinality(T) <= Cardinality(S)
    BY <1>2, FS_Subset
  <1>. QED
    BY <1>2, <1>3, <1>4, <1>5, <1>6

(* The three variables of CreateOnce as this module has them.              *)
Made == [c \in Creates |-> Cardinality(done[c])]
Excuses == [c \in Creates |-> Cardinality(erred[c])]
Heard == [c \in Creates |-> Told(c)]

(* What the promise allows for one POST, its three values before and after.*)
Kept(c) ==
    \/ Made'[c] = Made[c] /\ Excuses'[c] = Excuses[c] /\ Heard'[c] = Heard[c]
    \/ /\ Made[c] <= Excuses[c]
       /\ Heard[c] \notin {"success", "refused"}
       /\ Made'[c] = Made[c] + 1
       /\ Excuses'[c] = Excuses[c] /\ Heard'[c] = Heard[c]
    \/ /\ Heard[c] = "nothing"
       /\ Excuses'[c] = Excuses[c] + 1
       /\ Heard'[c] \in {"nothing", "unknown"}
       /\ Made'[c] = Made[c]
    \/ /\ Heard[c] = "nothing"
       /\ Heard'[c] \in {"success", "refused", "unknown"}
       /\ Heard'[c] = "success" => Made[c] > 0
       /\ Heard'[c] = "refused" => Made[c] <= Excuses[c]
       /\ Made'[c] = Made[c] /\ Excuses'[c] = Excuses[c]

(* One step of a POST, or of the server at work on it, keeps its promise.  *)
LEMMA StepKeepsPromise ==
    ASSUME PInv, NEW c \in Creates, CallStep(c)
    PROVE  Kept(c)
  <1>. USE DEF clientVars, serverVars
  <1>0. c \in Calls /\ TypeOK /\ AttemptsLeft /\ OnlyLast /\ AccountedFor(c)
    BY CallsAssumption DEF PInv, IInv, Accounted
  <1>1. /\ Made[c] = Cardinality(done[c]) /\ Made'[c] = Cardinality(done'[c])
        /\ Excuses[c] = Cardinality(erred[c]) /\ Excuses'[c] = Cardinality(erred'[c])
        /\ Heard[c] = Told(c) /\ Heard'[c] = Told(c)'
    BY DEF Made, Excuses, Heard
  <1>2. /\ result[c] = "none" => Told(c) = "nothing"
        /\ result'[c] = "none" => Told(c)' = "nothing"
        /\ result'[c] = "ok" => Told(c)' = "success"
        /\ result'[c] = "refused" => Told(c)' = "refused"
        /\ result'[c] \in {"failed", "cancelled"} => Told(c)' = "unknown"
        /\ result'[c] = result[c] => Told(c)' = Told(c)
        /\ Told(c) \in {"success", "refused"} => result[c] \in {"ok", "refused"}
    BY DEF Told
  <1>3. done[c] \in SUBSET Attempts /\ erred[c] \in SUBSET Attempts
    BY <1>0 DEF TypeOK
  <1>4. callPc[c] # "returned" => Told(c) = "nothing" /\ result[c] = "none"
    BY <1>0, <1>2 DEF AccountedFor
  <1>5. ASSUME done[c] \subseteq erred[c]
        PROVE  Made[c] <= Excuses[c]
    BY <1>1, <1>3, <1>5, CountsOfAttempts
  <1>6. CASE /\ UNCHANGED <<attempt, result, serverVars>>
             /\ callPc'[c] # callPc[c] => callPc[c] = "idle" /\ callPc'[c] = "loop"
    BY <1>1, <1>2, <1>6 DEF Kept
  <1>7. CASE GiveUp(c)
    <2>1. result'[c] = "cancelled" /\ UNCHANGED serverVars /\ callPc[c] = "loop"
      BY <1>0, <1>7 DEF GiveUp, Returns, TypeOK
    <2>. QED
      BY <1>1, <1>2, <1>4, <2>1 DEF Kept
  <1>8. CASE Send(c)
    BY <1>1, <1>2, <1>8 DEF Send, Kept
  <1>9. CASE DialFails(c)
    <2>1. /\ UNCHANGED serverVars /\ callPc[c] = "loop"
          /\ result'[c] = result[c] \/ result'[c] = "failed"
      BY <1>0, <1>9, EndsAtCall, ResultsOfEndings DEF DialFails
    <2>. QED
      BY <1>1, <1>2, <1>4, <2>1 DEF Kept
  <1>10. CASE Succeeds(c)
    <2>1. /\ UNCHANGED serverVars /\ callPc[c] = "sent" /\ attempt[c] \in done[c]
          /\ result'[c] = result[c] \/ result'[c] = "ok"
      BY <1>0, <1>10, EndsAtCall, ResultsOfEndings DEF Succeeds
    <2>2. Made[c] > 0
      BY <1>1, <1>3, <2>1, CountsOfAttempts
    <2>. QED
      BY <1>1, <1>2, <1>4, <2>1, <2>2 DEF Kept
  <1>11. CASE Refused(c)
    <2>1. /\ UNCHANGED <<done, erred>> /\ callPc[c] = "sent" /\ attempt[c] \notin done[c]
          /\ result'[c] = result[c] \/ result'[c] = "refused"
      BY <1>0, <1>11, EndsAtCall, ResultsOfEndings DEF Refused
    <2>2. Made[c] <= Excuses[c]
      BY <1>0, <1>3, <1>5, <2>1 DEF OnlyLast
    <2>. QED
      BY <1>1, <1>2, <1>4, <2>1, <2>2 DEF Kept
  <1>12. CASE ServerError(c)
    <2>1. /\ UNCHANGED done /\ callPc[c] = "sent"
          /\ erred'[c] = erred[c] \cup {attempt[c]}
          /\ result'[c] = result[c] \/ result'[c] = "failed"
      BY <1>0, <1>12, EndsAtCall, ResultsOfEndings DEF ServerError, TypeOK
    <2>2. attempt[c] \notin erred[c]
      BY <1>0, <2>1 DEF AccountedFor
    <2>3. Excuses'[c] = Excuses[c] + 1
      BY <1>1, <1>3, <2>1, <2>2, CountsOfAttempts
    <2>. QED
      BY <1>1, <1>2, <1>4, <2>1, <2>3 DEF Kept
  <1>13. CASE \E ending \in {"cut", "timeout", "cancelled"} : NoAnswer(c, ending)
    <2>1. /\ UNCHANGED serverVars /\ callPc[c] = "sent"
          /\ result'[c] = result[c] \/ result'[c] \in {"failed", "cancelled"}
      BY <1>0, <1>13, EndsAtCall, ResultsOfEndings DEF NoAnswer
    <2>. QED
      BY <1>1, <1>2, <1>4, <2>1 DEF Kept
  <1>14. CASE \E a \in Attempts : CarryOut(c, a)
    <2>1. PICK a \in Attempts : CarryOut(c, a)
      BY <1>14
    <2>2. /\ a \in atServer[c] /\ UNCHANGED <<clientVars, erred>>
          /\ done'[c] = done[c] \cup {a}
      BY <1>0, <2>1 DEF CarryOut, TypeOK
    <2>3. a \notin done[c] /\ a \notin erred[c]
      BY <1>0, <2>2 DEF AccountedFor
    <2>4. a = attempt[c] /\ done[c] \subseteq erred[c]
      BY <1>0, <1>3, <2>2, <2>3 DEF OnlyLast
    <2>5. Made'[c] = Made[c] + 1 /\ Made[c] <= Excuses[c]
      BY <1>1, <1>3, <1>5, <2>2, <2>3, <2>4, CountsOfAttempts
    <2>6. Told(c) \notin {"success", "refused"}
      BY <1>0, <1>2, <2>2, <2>4 DEF AccountedFor
    <2>. QED
      BY <1>1, <1>2, <2>2, <2>5, <2>6 DEF Kept
  <1>15. CASE \E a \in Attempts : Lose(c, a)
    BY <1>1, <1>2, <1>15 DEF Lose, Kept
  <1>. QED
    BY <1>0, StepAtCall, <1>6, <1>7, <1>8, <1>9, <1>10, <1>11, <1>12, <1>13, <1>14, <1>15

(* A step of some call is a step of CreateOnce, or stutters there.         *)
LEMMA StepImplementsPromise ==
    ASSUME PInv, NEW c \in Calls, CallStep(c)
    PROVE  [\E d \in Creates : Promise!Make(d) \/ Promise!Excuse(d) \/ Promise!Tell(d)]_Promise!vars
  <1>1. \A d \in Creates : d # c => /\ Made'[d] = Made[d]
                                    /\ Excuses'[d] = Excuses[d]
                                    /\ Heard'[d] = Heard[d]
    BY CallsAssumption, OthersLeftAlone DEF PInv, IInv, Made, Excuses, Heard, Told
  <1>2. /\ Made' = [d \in Creates |-> Made'[d]] /\ Made = [d \in Creates |-> Made[d]]
        /\ Excuses' = [d \in Creates |-> Excuses'[d]] /\ Excuses = [d \in Creates |-> Excuses[d]]
        /\ Heard' = [d \in Creates |-> Heard'[d]] /\ Heard = [d \in Creates |-> Heard[d]]
    BY DEF Made, Excuses, Heard
  <1>3. CASE c \notin Creates
    <2>1. Made' = Made /\ Excuses' = Excuses /\ Heard' = Heard
      BY <1>1, <1>2, <1>3
    <2>. QED
      BY <2>1 DEF Promise!vars, Made, Excuses, Heard
  <1>4. CASE c \in Creates
    <2>1. CASE Made'[c] = Made[c] /\ Excuses'[c] = Excuses[c] /\ Heard'[c] = Heard[c]
      <3>1. Made' = Made /\ Excuses' = Excuses /\ Heard' = Heard
        BY <1>1, <1>2, <2>1
      <3>. QED
        BY <3>1 DEF Promise!vars, Made, Excuses, Heard
    <2>2. CASE /\ Made[c] <= Excuses[c]
               /\ Heard[c] \notin {"success", "refused"}
               /\ Made'[c] = Made[c] + 1
               /\ Excuses'[c] = Excuses[c] /\ Heard'[c] = Heard[c]
      <3>1. Excuses' = Excuses /\ Heard' = Heard
        BY <1>1, <1>2, <2>2
      <3>2. Made' = [Made EXCEPT ![c] = Made[c] + 1]
        BY <1>1, <1>2, <2>2
      <3>3. Promise!Make(c)
        BY <2>2, <3>1, <3>2 DEF Promise!Make, Made, Excuses, Heard
      <3>. QED
        BY <1>4, <3>3
    <2>3. CASE /\ Heard[c] = "nothing"
               /\ Excuses'[c] = Excuses[c] + 1
               /\ Heard'[c] \in {"nothing", "unknown"}
               /\ Made'[c] = Made[c]
      <3>1. Made' = Made
        BY <1>1, <1>2, <2>3
      <3>2. /\ Excuses' = [Excuses EXCEPT ![c] = Excuses[c] + 1]
            /\ Heard' = [Heard EXCEPT ![c] = Heard'[c]]
        BY <1>1, <1>2, <2>3
      <3>3. Promise!Excuse(c)
        BY <2>3, <3>1, <3>2 DEF Promise!Excuse, Made, Excuses, Heard
      <3>. QED
        BY <1>4, <3>3
    <2>4. CASE /\ Heard[c] = "nothing"
               /\ Heard'[c] \in {"success", "refused", "unknown"}
               /\ Heard'[c] = "success" => Made[c] > 0
               /\ Heard'[c] = "refused" => Made[c] <= Excuses[c]
               /\ Made'[c] = Made[c] /\ Excuses'[c] = Excuses[c]
      <3>1. Made' = Made /\ Excuses' = Excuses
        BY <1>1, <1>2, <2>4
      <3>2. Heard' = [Heard EXCEPT ![c] = Heard'[c]]
        BY <1>1, <1>2, <2>4
      <3>3. Promise!Tell(c)
        BY <2>4, <3>1, <3>2 DEF Promise!Tell, Promise!Answer, Made, Excuses, Heard
      <3>. QED
        BY <1>4, <3>3
    <2>. QED
      BY <1>4, StepKeepsPromise, <2>1, <2>2, <2>3, <2>4 DEF Kept
  <1>. QED
    BY <1>3, <1>4

(* Every POST keeps the promise of CreateOnce, whatever the other calls    *)
(* do: a success told is of something made, nothing is made after success  *)
(* or refusal, and only the server's own 5xx excuse a second creation.     *)
THEOREM RetriesKeepPromise == Spec => CreatesKeepPromise
  <1>1. Init => Promise!Init
    <2>. SUFFICES ASSUME Init PROVE Promise!Init
      OBVIOUS
    <2>1. \A c \in Creates : /\ Cardinality(done[c]) = 0
                             /\ Cardinality(erred[c]) = 0
                             /\ Told(c) = "nothing"
      BY CallsAssumption, FS_EmptySet DEF Init, Told
    <2>. QED
      BY <2>1 DEF Promise!Init
  <1>2. PInv /\ [Next]_vars =>
           [\E c \in Creates : Promise!Make(c) \/ Promise!Excuse(c) \/ Promise!Tell(c)]_Promise!vars
    <2>1. CASE UNCHANGED vars
      BY <2>1 DEF vars, clientVars, serverVars, Promise!vars, Told
    <2>2. ASSUME PInv, Next
          PROVE  [\E c \in Creates : Promise!Make(c) \/ Promise!Excuse(c) \/ Promise!Tell(c)]_Promise!vars
      <3>1. PICK c \in Calls : CallStep(c)
        BY <2>2 DEF Next, CallStep
      <3>. QED
        BY <2>2, <3>1, StepImplementsPromise
    <2>. QED
      BY <2>1, <2>2
  <1>. QED
    BY <1>1, <1>2, AccountsInvariance, PTL DEF Spec, Promise!Spec, CreatesKeepPromise
=============================================================================
