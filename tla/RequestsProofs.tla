--------------------------- MODULE RequestsProofs ---------------------------
(***************************************************************************)
(* Proofs about Requests, for any number of handlers, titles, requests,    *)
(* *arr ids, failed calls and removals.                                    *)
(***************************************************************************)
EXTENDS RequestsHistory, TLAPS

USE DEF RequestsAssumption, Requests, ItemIds, Items, Apps

(* The initial state is well typed.                                        *)
LEMMA InitType == Init => TypeOK
<1> SUFFICES ASSUME Init PROVE TypeOK
  OBVIOUS
<1> USE RequestsAssumption DEF Init
<1>1. handler \in [Handlers -> HandlerState]
  BY DEF IdleHandler, HandlerState, HandlerPcs, Ops
<1>2. InHand
  BY DEF InHand, IdleHandler
<1>3. status \in [Requests -> RequestStatus] /\ title \in [Requests -> Titles \cup {NoTitle}]
  BY DEF RequestStatus
<1>4. itemTitle \in [Items -> Titles \cup {NoTitle}] /\ arrId \in [Requests -> 0 .. MaxItems]
  OBVIOUS
<1>5. /\ nextReq \in 1 .. MaxRequests + 1 /\ faults \in 0 .. MaxFaults
      /\ removals \in 0 .. MaxRemovals
  OBVIOUS
<1> QED BY <1>1, <1>2, <1>3, <1>4, <1>5 DEF TypeOK

(* An id belongs to an item of the title's app.                            *)
LEMMA ItemOfType ==
  ASSUME NEW t \in Titles, NEW i \in ItemIds PROVE ItemOf(t, i) \in Items
  BY RequestsAssumption DEF ItemOf

(* What goes on outside the handlers keeps the types.                      *)
LEMMA WorldType == TypeOK /\ World => TypeOK'
<1> SUFFICES ASSUME TypeOK, World PROVE TypeOK'
  OBVIOUS
<1> USE RequestsAssumption DEF OnlyWorld, arrVars
<1>1. CASE PutAutoApprove
  BY <1>1 DEF PutAutoApprove, TypeOK, InHand
<1>2. ASSUME NEW t \in Titles, AddedByHand(t) PROVE TypeOK'
  <2> PICK i \in ItemIds : Adds(t, i)
    BY <1>2 DEF AddedByHand
  <2>1. ItemOf(t, i) \in Items
    BY ItemOfType
  <2>2. itemTitle' \in [Items -> Titles \cup {NoTitle}] /\ present' \subseteq Items
    BY <2>1 DEF Adds, TypeOK
  <2> QED BY <1>2, <2>2 DEF AddedByHand, TypeOK, InHand
<1>3. ASSUME NEW item \in Items, RemovedByHand(item) PROVE TypeOK'
  <2>1. present' \subseteq Items /\ removals' \in 0 .. MaxRemovals
    BY <1>3 DEF RemovedByHand, TypeOK
  <2> QED BY <1>3, <2>1 DEF RemovedByHand, TypeOK, InHand
<1>4. ASSUME NEW item \in Items, Pass(item) PROVE TypeOK'
  <2>1. \/ UNCHANGED status
        \/ status' = [r \in Requests |->
                        IF Fulfils(r, item) THEN "available" ELSE status[r]]
    BY <1>4 DEF Pass
  <2>2. /\ status' \in [Requests -> RequestStatus]
        /\ \A r \in Requests : status'[r] = "absent" <=> status[r] = "absent"
    BY <2>1 DEF TypeOK, RequestStatus, Fulfils
  <2>3. InHand'
    BY <1>4, <2>2 DEF Pass, TypeOK, InHand
  <2>4. faults' \in 0 .. MaxFaults
    BY <1>4 DEF Pass, TypeOK
  <2> QED BY <1>4, <2>2, <2>3, <2>4 DEF Pass, TypeOK
<1> QED BY <1>1, <1>2, <1>3, <1>4 DEF World

(* What one step may make of a handler: a well-typed record that fits the  *)
(* rows, the title it had and, for a decision, the request it had.         *)
Fits(s, rows, n) ==
    /\ s \in HandlerState
    /\ s.pc # "idle" => s.title \in Titles
    /\ s.pc \in {"auto", "insert"} => s.op = "create"
    /\ s.pc = "search" => s.id # 0
    /\ s.pc = "update" => s.op \in {"approve", "decline"}
    /\ s.op \in {"approve", "decline"} => s.req \in 1 .. n - 1 /\ rows[s.req] = s.title

(* A step that replaces one handler's record by a fitting one keeps the     *)
(* types of all handlers.                                                   *)
LEMMA HandlersFit ==
  ASSUME TypeOK PROVE \A h \in Handlers : Fits(handler[h], title, nextReq)
  BY DEF TypeOK, InHand, Fits

(* A handler's step replaces its record by one that fits.                  *)
LEMMA HandlerFits ==
  ASSUME TypeOK, NEW h \in Handlers, HandlerStep(h)
  PROVE  \E s : handler' = [handler EXCEPT ![h] = s] /\ Fits(s, title, nextReq)
<1> USE RequestsAssumption DEF HandlerState, HandlerPcs, Ops, IdleHandler
<1> DEFINE Goal == \E s : handler' = [handler EXCEPT ![h] = s] /\ Fits(s, title, nextReq)
<1>0. Fits(handler[h], title, nextReq)
  BY HandlersFit
<1>h. handler \in [Handlers -> HandlerState]
  BY DEF TypeOK
<1>i. Fits(IdleHandler, title, nextReq)
  BY DEF Fits
<1>1. ASSUME NEW t \in Titles, NEW op \in {"create", "direct"}, NEW pc \in {"auto", "lookup"},
             Serves(h, pc, op, t, 0), pc = "auto" => op = "create"
      PROVE  Goal
  <2> DEFINE s == [pc |-> pc, op |-> op, title |-> t, req |-> 0, id |-> 0]
  <2>1. Fits(s, title, nextReq)
    BY <1>1 DEF Fits
  <2>2. handler' = [handler EXCEPT ![h] = s]
    BY <1>1 DEF Serves
  <2> HIDE DEF s
  <2> QED BY <2>1, <2>2
<1>2. ASSUME NEW r \in Requests, ApproveLoad(h, r) \/ DeclineLoad(h, r)
      PROVE  Goal
  <2>1. r \in 1 .. nextReq - 1 /\ title[r] \in Titles
    BY <1>2 DEF ApproveLoad, DeclineLoad, Approvable, Declinable, TypeOK, InHand
  <2>2. PICK pc, op : /\ Serves(h, pc, op, title[r], r)
                      /\ \/ pc = "lookup" /\ op = "approve"
                         \/ pc = "update" /\ op = "decline"
    BY <1>2 DEF ApproveLoad, DeclineLoad
  <2> DEFINE s == [pc |-> pc, op |-> op, title |-> title[r], req |-> r, id |-> 0]
  <2>3. Fits(s, title, nextReq)
    BY <2>1, <2>2 DEF Fits
  <2>4. handler' = [handler EXCEPT ![h] = s]
    BY <2>2 DEF Serves
  <2> HIDE DEF s
  <2> QED BY <2>3, <2>4
<1>3. ASSUME NEW pc \in HandlerPcs, Move(h, pc), handler[h].pc # "idle",
             pc \notin {"search", "update"},
             pc \in {"auto", "insert"} => handler[h].op = "create"
      PROVE  Goal
  <2> DEFINE s == [handler[h] EXCEPT !.pc = pc]
  <2>1. Fits(s, title, nextReq)
    BY <1>0, <1>3 DEF Fits
  <2>2. handler' = [handler EXCEPT ![h] = s]
    BY <1>3, <1>h DEF Move
  <2> HIDE DEF s
  <2> QED BY <2>1, <2>2
<1>4. ASSUME NEW pc, NEW i \in 0 .. MaxItems, Answers(h, pc, i), handler[h].pc # "idle",
             pc \in {"search", AfterAdd(h), AfterFailure(h)}, pc = "search" => i # 0
      PROVE  Goal
  <2>1. CASE pc = "idle"
    BY <1>4, <2>1, <1>i DEF Answers
  <2>2. CASE pc # "idle"
    <3> DEFINE s == [handler[h] EXCEPT !.pc = pc, !.id = i]
    <3>1. Fits(s, title, nextReq)
      BY <1>0, <1>4, <2>2 DEF Fits, AfterAdd, AfterFailure
    <3>2. handler' = [handler EXCEPT ![h] = s]
      BY <1>4, <2>2, <1>h DEF Answers
    <3> HIDE DEF s
    <3> QED BY <3>1, <3>2
  <2> QED BY <2>1, <2>2
<1>a. AfterAdd(h) # "search" /\ AfterFailure(h) # "search"
  BY DEF AfterAdd, AfterFailure
<1>5. CASE ReadAutoApprove(h)
  <2>1. handler[h].pc = "auto" /\ handler[h].op = "create"
    BY <1>0, <1>5 DEF Fits, ReadAutoApprove
  <2>2. Move(h, "lookup") \/ Move(h, "insert")
    BY <1>5 DEF ReadAutoApprove
  <2> QED BY <2>1, <2>2, <1>3
<1>6. CASE Lookup(h)
  <2>1. \/ \E i \in ItemIds : Answers(h, "search", i)
        \/ Answers(h, AfterFailure(h), 0)
        \/ Move(h, "add")
    BY <1>6 DEF Lookup, ArrFails
  <2>2. handler[h].pc = "lookup"
    BY <1>6 DEF Lookup
  <2> QED BY <2>1, <2>2, <1>3, <1>4, <1>a
<1>7. CASE Search(h)
  <2>1. Answers(h, AfterAdd(h), handler[h].id) \/ Answers(h, AfterFailure(h), 0)
    BY <1>7 DEF Search, ArrFails
  <2>2. handler[h].id \in 0 .. MaxItems /\ handler[h].pc = "search"
    BY <1>0, <1>7 DEF Fits, Search
  <2> QED BY <2>1, <2>2, <1>4, <1>a
<1>8. CASE Add(h)
  <2>1. \/ \E i \in ItemIds : Answers(h, AfterAdd(h), i)
        \/ Answers(h, AfterFailure(h), 0)
    BY <1>8 DEF Add, ArrFails
  <2>2. handler[h].pc = "add"
    BY <1>8 DEF Add
  <2> QED BY <2>1, <2>2, <1>4, <1>a
<1>9. CASE CreateInsert(h) \/ ApproveUpdate(h) \/ DeclineUpdate(h) \/ Abandon(h)
  <2>1. handler' = [handler EXCEPT ![h] = IdleHandler]
    BY <1>9 DEF CreateInsert, ApproveUpdate, DeclineUpdate, Abandon, Ends
  <2> QED BY <2>1, <1>i
<1>10. ASSUME NEW t \in Titles, CreateFind(h, t) \/ DirectAdd(h, t) PROVE Goal
  BY <1>10, <1>1 DEF CreateFind, DirectAdd
<1> QED BY <1>2, <1>5, <1>6, <1>7, <1>8, <1>9, <1>10 DEF HandlerStep

(* The handlers' steps keep the types.                                     *)
LEMMA HandlerType == ASSUME TypeOK, NEW h \in Handlers, HandlerStep(h) PROVE TypeOK'
<1> USE RequestsAssumption DEF OnlyHandler, Reads, tableVars
<1>1. PICK s : handler' = [handler EXCEPT ![h] = s] /\ Fits(s, title, nextReq)
  BY HandlerFits
<1>2. /\ handler' \in [Handlers -> HandlerState]
      /\ \A g \in Handlers : Fits(handler'[g], title, nextReq)
  <2>1. s \in HandlerState
    BY <1>1 DEF Fits
  <2> QED BY <1>1, <2>1, HandlersFit DEF TypeOK
<1>3. CASE CreateInsert(h)
  <2>1. handler[h].title \in Titles /\ handler[h].id \in 0 .. MaxItems
    BY <1>3, HandlersFit DEF CreateInsert, Fits, HandlerState
  <2>2. /\ status' \in [Requests -> RequestStatus]
        /\ title' \in [Requests -> Titles \cup {NoTitle}]
        /\ arrId' \in [Requests -> 0 .. MaxItems]
        /\ nextReq' \in 1 .. MaxRequests + 1
    BY <1>3, <2>1 DEF CreateInsert, TypeOK, RequestStatus
  <2>3. \A r \in Requests : /\ r >= nextReq' <=> title'[r] = NoTitle
                            /\ r >= nextReq' <=> status'[r] = "absent"
    BY <1>3, <2>1 DEF CreateInsert, TypeOK, InHand
  <2>4. \A r \in 1 .. nextReq - 1 : r \in 1 .. nextReq' - 1 /\ title'[r] = title[r]
    BY <1>3 DEF CreateInsert, TypeOK
  <2>5. InHand'
    BY <1>2, <2>3, <2>4 DEF InHand, Fits
  <2> QED BY <1>2, <1>3, <2>2, <2>5 DEF CreateInsert, TypeOK
<1>4. CASE ApproveUpdate(h) \/ DeclineUpdate(h)
  <2>1. /\ handler[h].req \in 1 .. nextReq - 1
        /\ handler[h].id \in 0 .. MaxItems
    BY <1>4, HandlersFit DEF ApproveUpdate, DeclineUpdate, Fits, HandlerState
  <2>2. PICK new \in {"approved", "declined"} :
           status' = [status EXCEPT ![handler[h].req] = new]
    BY <1>4 DEF ApproveUpdate, DeclineUpdate
  <2>3. /\ status' \in [Requests -> RequestStatus]
        /\ \A r \in Requests : status'[r] = "absent" <=> status[r] = "absent"
    BY <2>1, <2>2 DEF TypeOK, RequestStatus, InHand
  <2>4. arrId' \in [Requests -> 0 .. MaxItems]
    BY <1>4, <2>1 DEF ApproveUpdate, DeclineUpdate, TypeOK
  <2>5. title' = title /\ nextReq' = nextReq
    BY <1>4 DEF ApproveUpdate, DeclineUpdate
  <2>6. InHand'
    BY <1>2, <2>3, <2>5 DEF TypeOK, InHand, Fits
  <2> QED BY <1>2, <1>4, <2>3, <2>4, <2>6 DEF ApproveUpdate, DeclineUpdate, TypeOK
<1>5. ASSUME UNCHANGED <<tableVars, autoApprove, passed, removals>>,
             itemTitle' \in [Items -> Titles \cup {NoTitle}], present' \subseteq Items,
             searched' \subseteq Items, faults' \in 0 .. MaxFaults
      PROVE  TypeOK'
  <2>1. InHand'
    BY <1>2, <1>5 DEF TypeOK, InHand, Fits
  <2> QED BY <1>2, <1>5, <2>1 DEF TypeOK
<1>6. CASE Search(h)
  <2>1. ItemOf(handler[h].title, handler[h].id) \in Items
    BY <1>6, HandlersFit, ItemOfType DEF Search, Fits, HandlerState
  <2>2. searched' \subseteq Items
    BY <1>6, <2>1 DEF Search, TypeOK
  <2>3. UNCHANGED <<tableVars, autoApprove, passed, removals, itemTitle, present>>
    BY <1>6 DEF Search
  <2>4. faults' \in 0 .. MaxFaults
    BY <1>6 DEF Search, ArrFails, TypeOK
  <2> QED BY <1>5, <2>2, <2>3, <2>4 DEF TypeOK
<1>7. CASE Add(h)
  <2> DEFINE t == handler[h].title
  <2>1. t \in Titles
    BY <1>7, HandlersFit DEF Add, Fits
  <2>2. \/ \E i \in ItemIds : Adds(t, i) /\ searched' = searched \cup {ItemOf(t, i)}
        \/ UNCHANGED <<itemTitle, present, searched>>
    BY <1>7 DEF Add
  <2>3. /\ itemTitle' \in [Items -> Titles \cup {NoTitle}]
        /\ present' \subseteq Items
        /\ searched' \subseteq Items
    <3>1. ASSUME NEW i \in ItemIds, Adds(t, i), searched' = searched \cup {ItemOf(t, i)}
          PROVE  /\ itemTitle' \in [Items -> Titles \cup {NoTitle}]
                 /\ present' \subseteq Items
                 /\ searched' \subseteq Items
      <4>1. ItemOf(t, i) \in Items
        BY <2>1, ItemOfType
      <4> QED BY <2>1, <3>1, <4>1 DEF Adds, TypeOK
    <3> QED BY <2>2, <3>1 DEF TypeOK
  <2>4. faults' \in 0 .. MaxFaults
    BY <1>7 DEF Add, ArrFails, TypeOK
  <2>5. UNCHANGED <<tableVars, autoApprove, passed, removals>>
    BY <1>7 DEF Add
  <2> QED BY <1>5, <2>3, <2>4, <2>5
<1>8. CASE \/ \E t \in Titles : CreateFind(h, t) \/ DirectAdd(h, t)
           \/ \E r \in Requests : ApproveLoad(h, r) \/ DeclineLoad(h, r)
           \/ ReadAutoApprove(h) \/ Lookup(h) \/ Abandon(h)
  <2>1. /\ Reads
        /\ UNCHANGED faults \/ (faults < MaxFaults /\ faults' = faults + 1)
    BY <1>8 DEF CreateFind, DirectAdd, ApproveLoad, DeclineLoad, ReadAutoApprove, Lookup,
                Abandon, ArrFails
  <2>2. faults' \in 0 .. MaxFaults
    BY <2>1 DEF TypeOK
  <2> QED BY <1>5, <2>1, <2>2 DEF TypeOK
<1> QED BY <1>3, <1>4, <1>6, <1>7, <1>8 DEF HandlerStep

(* Every variable keeps its type, rows exist exactly below nextReq, and a  *)
(* handler that decides on a request holds an existing row and its title.  *)
THEOREM TypeCorrect == Spec => []TypeOK
<1>1. TypeOK /\ [Next]_vars => TypeOK'
  <2> SUFFICES ASSUME TypeOK, [Next]_vars PROVE TypeOK'
    OBVIOUS
  <2>1. CASE UNCHANGED vars
    BY <2>1 DEF vars, tableVars, arrVars, TypeOK, InHand
  <2> QED BY <2>1, WorldType, HandlerType DEF Next
<1> QED BY InitType, <1>1, PTL DEF Spec

-----------------------------------------------------------------------------
(* Why an approved request was added.  ApprovedWasAdded is not inductive:  *)
(* the row is written one step after *arr answered, and a search is asked  *)
(* one step after the lookup, so what a handler carries in between belongs *)
(* to the invariant.                                                       *)
Known(t, i) == i # 0 /\ itemTitle[ItemOf(t, i)] = t
Added(t, i) == Known(t, i) /\ ItemOf(t, i) \in searched

Carries(s) ==
    /\ s.pc = "auto" => s.id = 0
    /\ s.pc = "search" => Known(s.title, s.id)
    /\ s.pc \in {"insert", "update"} /\ s.id # 0 => Added(s.title, s.id)
    /\ s.pc = "update" /\ s.op = "approve" => s.id # 0

HandlersCarry == \A h \in Handlers : Carries(handler[h])
RowsAdded ==
    \A r \in Requests : status[r] \in {"approved", "available"} => Added(title[r], arrId[r])

AddedInv == HandlersCarry /\ RowsAdded

(* *arr never gives an id to a second title, and nothing is un-searched or *)
(* un-passed.                                                              *)
LEMMA ItemsKept ==
  ASSUME TypeOK, [Next]_vars
  PROVE  /\ \A x \in Items : itemTitle[x] # NoTitle => itemTitle'[x] = itemTitle[x]
         /\ searched \subseteq searched' /\ passed \subseteq passed'
<1> DEFINE Goal == /\ \A x \in Items : itemTitle[x] # NoTitle => itemTitle'[x] = itemTitle[x]
                   /\ searched \subseteq searched' /\ passed \subseteq passed'
<1>1. ASSUME NEW t, NEW i \in ItemIds, Adds(t, i), searched \subseteq searched', UNCHANGED passed
      PROVE  Goal
  BY <1>1 DEF Adds, TypeOK
<1>2. CASE World
  BY <1>1, <1>2 DEF World, PutAutoApprove, AddedByHand, RemovedByHand, Pass, OnlyWorld, arrVars
<1>3. ASSUME NEW h \in Handlers, HandlerStep(h) PROVE Goal
  <2> USE DEF OnlyHandler, Reads
  <2>1. CASE Add(h)
    <3>1. \/ \E i \in ItemIds : Adds(handler[h].title, i) /\ searched \subseteq searched'
          \/ UNCHANGED <<itemTitle, searched>>
      BY <2>1 DEF Add
    <3>2. UNCHANGED passed
      BY <2>1 DEF Add
    <3> QED BY <1>1, <3>1, <3>2
  <2>2. CASE Search(h)
    BY <2>2 DEF Search
  <2>3. CASE ~Add(h) /\ ~Search(h)
    BY <1>3, <2>3 DEF HandlerStep, CreateFind, DirectAdd, ApproveLoad, DeclineLoad,
                      ReadAutoApprove, Lookup, CreateInsert, ApproveUpdate, DeclineUpdate,
                      Abandon
  <2> QED BY <2>1, <2>2, <2>3
<1>4. CASE UNCHANGED vars
  BY <1>4 DEF vars, arrVars
<1> QED BY <1>2, <1>3, <1>4 DEF Next

(* What was added stays added.                                             *)
LEMMA AddedKept ==
  ASSUME TypeOK, [Next]_vars, NEW t \in Titles, NEW i \in 0 .. MaxItems
  PROVE  (Known(t, i) => Known(t, i)') /\ (Added(t, i) => Added(t, i)')
<1>1. i # 0 => ItemOf(t, i) \in Items
  BY RequestsAssumption, ItemOfType
<1> QED BY RequestsAssumption, <1>1, ItemsKept DEF Known, Added, ItemOf

(* What the acting handler carries after its step.                         *)
LEMMA ActorCarries ==
  ASSUME TypeOK, AddedInv, NEW h \in Handlers, HandlerStep(h)
  PROVE  Carries(handler[h])'
<1> USE RequestsAssumption DEF OnlyHandler, Reads
<1>0. /\ handler \in [Handlers -> HandlerState] /\ handler[h] \in HandlerState
      /\ Carries(handler[h])
  BY DEF TypeOK, AddedInv, HandlersCarry
<1>t. PICK t : t = handler[h].title
  OBVIOUS
<1>i. ASSUME handler'[h] = IdleHandler PROVE Carries(handler[h])'
  BY <1>i DEF Carries, IdleHandler
<1>1. ASSUME NEW pc, NEW op, NEW u, NEW r, Serves(h, pc, op, u, r), pc # "search",
             pc = "update" => op # "approve"
      PROVE  Carries(handler[h])'
  <2>1. handler'[h] = [pc |-> pc, op |-> op, title |-> u, req |-> r, id |-> 0]
    BY <1>0, <1>1 DEF Serves
  <2> QED BY <1>1, <2>1 DEF Carries
<1>2. CASE \E u \in Titles : CreateFind(h, u) \/ DirectAdd(h, u)
  BY <1>1, <1>2 DEF CreateFind, DirectAdd
<1>3. CASE \E r \in Requests : ApproveLoad(h, r) \/ DeclineLoad(h, r)
  BY <1>1, <1>3 DEF ApproveLoad, DeclineLoad
<1>4. CASE ReadAutoApprove(h)
  <2>1. PICK pc \in {"lookup", "insert"} : handler' = [handler EXCEPT ![h].pc = pc]
    BY <1>4 DEF ReadAutoApprove, Move
  <2>2. handler'[h] = [handler[h] EXCEPT !.pc = pc] /\ handler[h].id = 0
    BY <1>0, <1>4, <2>1 DEF ReadAutoApprove, Carries
  <2> QED BY <1>0, <2>2 DEF Carries, HandlerState
<1>5. ASSUME NEW pc, NEW i \in 0 .. MaxItems, Answers(h, pc, i), pc # "auto",
             pc = "search" => Known(t, i)',
             pc # "search" /\ i # 0 => Added(t, i)',
             pc = "update" => i # 0
      PROVE  Carries(handler[h])'
  <2>1. CASE pc = "idle"
    BY <1>0, <1>5, <2>1, <1>i DEF Answers
  <2>2. CASE pc # "idle"
    <3>1. handler'[h] = [handler[h] EXCEPT !.pc = pc, !.id = i]
      BY <1>0, <1>5, <2>2 DEF Answers
    <3>2. /\ handler'[h].pc = pc /\ handler'[h].id = i
          /\ handler'[h].title = t
      BY <1>0, <1>t, <3>1 DEF HandlerState
    <3> QED BY <1>5, <3>2 DEF Carries, Known, Added
  <2> QED BY <2>1, <2>2
<1>f. Answers(h, AfterFailure(h), 0) => Carries(handler[h])'
  BY <1>5 DEF AfterFailure
<1>a. AfterAdd(h) \notin {"auto", "search"}
  BY DEF AfterAdd
<1>6. CASE Lookup(h)
  <2>1. ASSUME NEW i \in ItemIds, Answers(h, "search", i), itemTitle[ItemOf(t, i)] = t
        PROVE  Carries(handler[h])'
    <3>1. Known(t, i)'
      BY <1>t, <1>6, <2>1 DEF Lookup, Known
    <3> QED BY <1>5, <2>1, <3>1
  <2>2. CASE Move(h, "add")
    <3>1. handler'[h] = [handler[h] EXCEPT !.pc = "add"]
      BY <1>0, <2>2 DEF Move
    <3> QED BY <1>0, <3>1 DEF Carries, HandlerState
  <2> QED BY <1>t, <1>6, <2>1, <2>2, <1>f DEF Lookup, ArrFails
<1>7. CASE Search(h)
  <2> PICK i : i = handler[h].id
    OBVIOUS
  <2>1. i \in 0 .. MaxItems /\ Known(t, i)
    BY <1>0, <1>t, <1>7 DEF Search, HandlerState, Carries
  <2>2. CASE Answers(h, AfterAdd(h), i) /\ searched' = searched \cup {ItemOf(t, i)}
    <3>1. Added(t, i)'
      BY <1>7, <2>1, <2>2 DEF Search, Known, Added
    <3>2. i # 0
      BY <2>1 DEF Known
    <3> QED BY <1>5, <2>1, <2>2, <3>1, <3>2, <1>a
  <2> QED BY <1>t, <1>7, <2>2, <1>f DEF Search, ArrFails
<1>8. CASE Add(h)
  <2>1. ASSUME NEW i \in ItemIds, Adds(t, i), searched' = searched \cup {ItemOf(t, i)},
               Answers(h, AfterAdd(h), i)
        PROVE  Carries(handler[h])'
    <3>1. t \in Titles
      BY <1>t, <1>8, HandlersFit DEF Add, Fits
    <3>2. ItemOf(t, i) \in Items
      BY <3>1, ItemOfType
    <3>3. Added(t, i)'
      BY <2>1, <3>2 DEF Adds, Known, Added, TypeOK
    <3> QED BY <1>5, <2>1, <3>3, <1>a
  <2> QED BY <1>t, <1>8, <2>1, <1>f DEF Add, ArrFails
<1>9. CASE CreateInsert(h) \/ ApproveUpdate(h) \/ DeclineUpdate(h) \/ Abandon(h)
  <2>1. handler'[h] = IdleHandler
    BY <1>0, <1>9 DEF CreateInsert, ApproveUpdate, DeclineUpdate, Abandon, Ends
  <2> QED BY <2>1, <1>i
<1> QED BY <1>2, <1>3, <1>4, <1>6, <1>7, <1>8, <1>9 DEF HandlerStep

(* The rows: only CreateInsert and ApproveUpdate approve, with an id the   *)
(* handler carries.                                                        *)
LEMMA RowsStayAdded == ASSUME TypeOK, AddedInv, [Next]_vars PROVE RowsAdded'
<1> USE RequestsAssumption DEF OnlyHandler, Reads, tableVars
<1> DEFINE Shown == {"approved", "available"}
<1>0. \A r \in Requests : status[r] \in Shown =>
          /\ title[r] \in Titles /\ arrId[r] \in 0 .. MaxItems
          /\ Added(title[r], arrId[r])
  BY DEF AddedInv, RowsAdded, TypeOK, InHand
<1>1. ASSUME NEW r \in Requests,
             title'[r] = title[r], arrId'[r] = arrId[r], status'[r] \in Shown => status[r] \in Shown
      PROVE  status'[r] \in Shown => Added(title[r], arrId[r])'
  <2> PICK t, i : t = title[r] /\ i = arrId[r]
    OBVIOUS
  <2> QED BY <1>0, <1>1, AddedKept
<1>2. CASE World \/ UNCHANGED vars
  <2>1. /\ UNCHANGED <<title, arrId>>
        /\ \A r \in Requests : status'[r] \in Shown => status[r] \in Shown
    BY <1>2 DEF World, PutAutoApprove, AddedByHand, RemovedByHand, Pass, OnlyWorld, vars,
                Fulfils, TypeOK
  <2> QED BY <1>1, <2>1 DEF RowsAdded
<1>3. ASSUME NEW h \in Handlers, HandlerStep(h) PROVE RowsAdded'
  <2>0. Fits(handler[h], title, nextReq) /\ Carries(handler[h])
    BY HandlersFit DEF AddedInv, HandlersCarry
  <2>1. CASE CreateInsert(h)
    <3> PICK n, t, i : n = nextReq /\ t = handler[h].title /\ i = handler[h].id
      OBVIOUS
    <3>1. t \in Titles /\ i \in 0 .. MaxItems /\ (i # 0 => Added(t, i))
      BY <2>0, <2>1 DEF CreateInsert, Fits, HandlerState, Carries
    <3>2. i # 0 => Added(t, i)'
      BY <3>1, AddedKept
    <3>3. /\ title'[n] = t /\ arrId'[n] = i
          /\ status'[n] \in Shown => i # 0
      BY <2>1 DEF CreateInsert, TypeOK
    <3>4. \A r \in Requests \ {n} :
              title'[r] = title[r] /\ arrId'[r] = arrId[r] /\ status'[r] = status[r]
      BY <2>1 DEF CreateInsert, TypeOK
    <3>5. \A r \in Requests \ {n} : status'[r] \in Shown => Added(title[r], arrId[r])'
      BY <1>1, <3>4
    <3>6. status'[n] \in Shown => Added(title[n], arrId[n])'
      BY <3>2, <3>3 DEF Added, Known, ItemOf
    <3> QED BY <3>5, <3>6 DEF RowsAdded
  <2>2. CASE ApproveUpdate(h)
    <3> PICK q, t, i : q = handler[h].req /\ t = handler[h].title /\ i = handler[h].id
      OBVIOUS
    <3>1. /\ t \in Titles /\ i \in 0 .. MaxItems /\ i # 0 /\ Added(t, i)
          /\ q \in Requests /\ title[q] = t
      BY <2>0, <2>2 DEF ApproveUpdate, Fits, HandlerState, Carries, TypeOK
    <3>2. Added(t, i)'
      BY <3>1, AddedKept
    <3>3. title'[q] = t /\ arrId'[q] = i
      BY <2>2, <3>1 DEF ApproveUpdate, TypeOK
    <3>4. \A r \in Requests \ {q} :
              title'[r] = title[r] /\ arrId'[r] = arrId[r] /\ status'[r] = status[r]
      BY <2>2 DEF ApproveUpdate, TypeOK
    <3>5. \A r \in Requests \ {q} : status'[r] \in Shown => Added(title[r], arrId[r])'
      BY <1>1, <3>4
    <3>6. Added(title[q], arrId[q])'
      BY <3>2, <3>3 DEF Added, Known, ItemOf
    <3> QED BY <3>5, <3>6 DEF RowsAdded
  <2>3. CASE ~CreateInsert(h) /\ ~ApproveUpdate(h)
    <3>1. /\ UNCHANGED <<title, arrId>>
          /\ \A r \in Requests : status'[r] \in Shown => status[r] \in Shown
      BY <1>3, <2>3 DEF HandlerStep, CreateFind, DirectAdd, ApproveLoad, DeclineLoad,
                        ReadAutoApprove, Lookup, Search, Add, DeclineUpdate, Abandon, TypeOK
    <3> QED BY <1>1, <3>1 DEF RowsAdded
  <2> QED BY <2>1, <2>2, <2>3
<1> QED BY <1>2, <1>3 DEF Next

(* The other handlers keep what they carry.                                *)
LEMMA HandlersStillCarry == ASSUME TypeOK, AddedInv, [Next]_vars PROVE HandlersCarry'
<1> USE RequestsAssumption
<1>1. ASSUME NEW g \in Handlers, UNCHANGED handler[g] PROVE Carries(handler[g])'
  <2> PICK t, i : t = handler[g].title /\ i = handler[g].id
    OBVIOUS
  <2>1. Carries(handler[g]) /\ Fits(handler[g], title, nextReq)
    BY HandlersFit DEF AddedInv, HandlersCarry
  <2>2. handler[g].pc # "idle" =>
            (Known(t, i) => Known(t, i)') /\ (Added(t, i) => Added(t, i)')
    BY <2>1, AddedKept DEF Fits, HandlerState
  <2> QED BY <1>1, <2>1, <2>2 DEF Carries
<1>2. CASE World \/ UNCHANGED vars
  <2>1. UNCHANGED handler
    BY <1>2 DEF World, PutAutoApprove, AddedByHand, RemovedByHand, Pass, OnlyWorld, vars
  <2> QED BY <1>1, <2>1 DEF HandlersCarry
<1>3. ASSUME NEW h \in Handlers, HandlerStep(h) PROVE HandlersCarry'
  <2>1. \A g \in Handlers \ {h} : UNCHANGED handler[g]
    BY <1>3, HandlerFits DEF TypeOK
  <2> QED BY <1>1, <1>3, <2>1, ActorCarries DEF HandlersCarry
<1> QED BY <1>2, <1>3 DEF Next

(* A request shown as approved or available was added to the right app and *)
(* searched, with its own title's id in arr_id, so that the next pass of   *)
(* that title can find it: whatever approvals, declines, direct adds,      *)
(* abandoned handlers, lost answers and removals interleave.               *)
THEOREM ApprovedAdded == Spec => []ApprovedWasAdded
<1>1. Init => AddedInv
  BY DEF Init, AddedInv, HandlersCarry, RowsAdded, Carries, IdleHandler
<1>2. TypeOK /\ AddedInv /\ [Next]_vars => AddedInv'
  BY RowsStayAdded, HandlersStillCarry DEF AddedInv
<1>3. AddedInv => ApprovedWasAdded
  BY DEF AddedInv, RowsAdded, Added, Known, ApprovedWasAdded
<1> QED BY <1>1, <1>2, <1>3, TypeCorrect, PTL DEF Spec

(* A request shown as available has seen a file of its own title pass: no  *)
(* handler writes the status "available", and the pass of a movie never    *)
(* fulfils a series that has the same number in the other app.             *)
THEOREM AvailablePassed == Spec => []AvailableWasPassed
<1>1. Init => AvailableWasPassed
  BY DEF Init, AvailableWasPassed
<1>2. TypeOK /\ AvailableWasPassed /\ [Next]_vars => AvailableWasPassed'
  <2> SUFFICES ASSUME TypeOK, AvailableWasPassed, [Next]_vars PROVE AvailableWasPassed'
    OBVIOUS
  <2> USE DEF AvailableWasPassed, ItemOf
  <2>1. passed \subseteq passed'
    BY ItemsKept
  <2>2. ASSUME UNCHANGED <<title, arrId>>,
               \A r \in Requests : status'[r] = "available" => status[r] = "available"
        PROVE  AvailableWasPassed'
    BY <2>1, <2>2
  <2>3. ASSUME NEW item \in Items, Pass(item) PROVE AvailableWasPassed'
    BY <2>1, <2>3 DEF Pass, OnlyWorld, Fulfils, TypeOK
  <2>4. ASSUME NEW h \in Handlers, CreateInsert(h) \/ ApproveUpdate(h) PROVE AvailableWasPassed'
    <3> PICK q \in Requests :
          /\ status'[q] # "available"
          /\ \A r \in Requests \ {q} : /\ title'[r] = title[r] /\ arrId'[r] = arrId[r]
                                       /\ status'[r] = status[r]
      <4>1. CASE CreateInsert(h)
        BY <4>1 DEF CreateInsert, TypeOK
      <4>2. CASE ApproveUpdate(h)
        <5>1. handler[h].req \in Requests
          BY <4>2, HandlersFit, RequestsAssumption DEF ApproveUpdate, Fits, TypeOK
        <5> QED BY <4>2, <5>1 DEF ApproveUpdate, TypeOK
      <4> QED BY <2>4, <4>1, <4>2
    <3> QED BY <2>1
  <2>5. ASSUME NEW h \in Handlers, HandlerStep(h), ~CreateInsert(h), ~ApproveUpdate(h)
        PROVE  AvailableWasPassed'
    <3>1. /\ UNCHANGED <<title, arrId>>
          /\ \A r \in Requests : status'[r] = "available" => status[r] = "available"
      BY <2>5 DEF HandlerStep, CreateFind, DirectAdd, ApproveLoad, DeclineLoad, OnlyHandler,
                  ReadAutoApprove, Lookup, Search, Add, DeclineUpdate, Abandon, TypeOK, Reads,
                  tableVars
    <3> QED BY <2>2, <3>1
  <2>6. CASE UNCHANGED vars
    BY <2>6 DEF vars, tableVars, arrVars
  <2>7. CASE World
    <3>1. UNCHANGED <<title, arrId>>
      BY <2>7 DEF World, PutAutoApprove, AddedByHand, RemovedByHand, Pass, OnlyWorld
    <3> QED BY <2>2, <2>3, <2>7, <3>1 DEF World, PutAutoApprove, AddedByHand, RemovedByHand
  <2> QED BY <2>3, <2>4, <2>5, <2>6, <2>7 DEF Next
<1> QED BY <1>1, <1>2, TypeCorrect, PTL DEF Spec

-----------------------------------------------------------------------------
(* A request that nobody else decides about meanwhile is decided once.     *)

(* What the handler has read of an uncontested row still holds when it     *)
(* writes it.                                                              *)
Undecided(h) ==
    handler[h].req \notin contested =>
        /\ handler[h].op = "approve" => status[handler[h].req] \in Approvable
        /\ handler[h].op = "decline" => status[handler[h].req] \in Declinable

(* The record holds every conflict, and a row stays in it no longer than   *)
(* somebody decides about it.                                              *)
Recorded ==
    /\ Conflicts \subseteq contested
    /\ contested \subseteq {r \in Requests : Deciders(r) # {}}

DecidesOnce == Recorded /\ \A h \in Handlers : Undecided(h)

(* A handler decides about the row it loaded, if the row allowed it.       *)
LEMMA SameDecision ==
  ASSUME TypeOK, NEW h \in Handlers, HandlerStep(h)
  PROVE  LET s == handler'[h]
         IN  \/ s.op \notin {"approve", "decline"}
             \/ s.op = handler[h].op /\ s.req = handler[h].req
             \/ s.op = "approve" /\ status[s.req] \in Approvable
             \/ s.op = "decline" /\ status[s.req] \in Declinable
<1> DEFINE Goal == \/ handler'[h].op \notin {"approve", "decline"}
                   \/ handler'[h].op = handler[h].op /\ handler'[h].req = handler[h].req
                   \/ handler'[h].op = "approve" /\ status[handler'[h].req] \in Approvable
                   \/ handler'[h].op = "decline" /\ status[handler'[h].req] \in Declinable
<1>0. handler \in [Handlers -> HandlerState] /\ handler[h] \in HandlerState
  BY DEF TypeOK
<1>i. handler' = [handler EXCEPT ![h] = IdleHandler] => Goal
  BY <1>0 DEF IdleHandler
<1>1. ASSUME NEW pc, NEW op, NEW t, NEW r, Serves(h, pc, op, t, r),
             op = "approve" => status[r] \in Approvable,
             op = "decline" => status[r] \in Declinable
      PROVE  Goal
  <2>1. handler'[h].op = op /\ handler'[h].req = r
    BY <1>0, <1>1 DEF Serves
  <2> QED BY <1>1, <2>1
<1>2. ASSUME NEW pc, Move(h, pc) PROVE Goal
  <2>1. handler'[h] = [handler[h] EXCEPT !.pc = pc]
    BY <1>0, <1>2 DEF Move
  <2>2. handler'[h].op = handler[h].op /\ handler'[h].req = handler[h].req
    BY <1>0, <2>1 DEF HandlerState
  <2> QED BY <2>2
<1>3. ASSUME NEW pc, NEW i, Answers(h, pc, i) PROVE Goal
  <2>1. CASE pc = "idle"
    BY <1>3, <2>1, <1>i DEF Answers
  <2>2. CASE pc # "idle"
    <3>1. handler'[h] = [handler[h] EXCEPT !.pc = pc, !.id = i]
      BY <1>0, <1>3, <2>2 DEF Answers
    <3>2. handler'[h].op = handler[h].op /\ handler'[h].req = handler[h].req
      BY <1>0, <3>1 DEF HandlerState
    <3> QED BY <3>2
  <2> QED BY <2>1, <2>2
<1>4. CASE \E t \in Titles : CreateFind(h, t) \/ DirectAdd(h, t)
  BY <1>1, <1>4 DEF CreateFind, DirectAdd
<1>5. CASE \E r \in Requests : ApproveLoad(h, r) \/ DeclineLoad(h, r)
  BY <1>1, <1>5 DEF ApproveLoad, DeclineLoad
<1>6. CASE ReadAutoApprove(h) \/ Lookup(h)
  BY <1>2, <1>3, <1>6 DEF ReadAutoApprove, Lookup, ArrFails
<1>7. CASE Search(h) \/ Add(h)
  BY <1>3, <1>7 DEF Search, Add, ArrFails
<1>8. CASE CreateInsert(h) \/ ApproveUpdate(h) \/ DeclineUpdate(h) \/ Abandon(h)
  BY <1>8, <1>i DEF CreateInsert, ApproveUpdate, DeclineUpdate, Abandon, Ends
<1> QED BY <1>4, <1>5, <1>6, <1>7, <1>8 DEF HandlerStep

(* Outside the handlers, a pass makes approved requests available.         *)
LEMMA WorldDecides ==
  ASSUME TypeOK, World
  PROVE  /\ UNCHANGED handler
         /\ \/ UNCHANGED status
            \/ \E item \in Items :
                  status' = [r \in Requests |->
                                IF Fulfils(r, item) THEN "available" ELSE status[r]]
<1>1. CASE \E item \in Items : Pass(item)
  BY <1>1 DEF Pass, OnlyWorld
<1>2. CASE ~\E item \in Items : Pass(item)
  BY <1>2 DEF World, PutAutoApprove, AddedByHand, RemovedByHand, OnlyWorld
<1> QED BY <1>1, <1>2

(* What a handler writes in the status column.                             *)
Writes(h) == CreateInsert(h) \/ ApproveUpdate(h) \/ DeclineUpdate(h)

(* The other steps of the handlers leave it alone.                         *)
LEMMA OnlyWritesWrite ==
  ASSUME NEW h \in Handlers, HandlerStep(h), ~Writes(h)
  PROVE  UNCHANGED status
BY DEF HandlerStep, Writes, CreateFind, DirectAdd, ApproveLoad, DeclineLoad, ReadAutoApprove,
       Lookup, Search, Add, Abandon, Reads, tableVars

(* A write ends its handler, and a decision writes the row it was about.   *)
LEMMA WriteEnds ==
  ASSUME TypeOK, NEW h \in Handlers, Writes(h)
  PROVE  /\ handler' = [handler EXCEPT ![h] = IdleHandler]
         /\ handler'[h].op = "none"
         /\ \A r \in Requests : status[r] # "absent" /\ ~Decides(h, r) => status'[r] = status[r]
<1>1. handler' = [handler EXCEPT ![h] = IdleHandler]
  BY DEF Writes, CreateInsert, ApproveUpdate, DeclineUpdate, Ends
<1>2. handler'[h].op = "none"
  BY <1>1 DEF TypeOK, IdleHandler
<1>3. ASSUME NEW r \in Requests, status[r] # "absent", ~Decides(h, r)
      PROVE  status'[r] = status[r]
  <2>1. CASE CreateInsert(h)
    BY <1>3, <2>1 DEF CreateInsert, TypeOK, InHand
  <2>2. CASE ApproveUpdate(h) \/ DeclineUpdate(h)
    BY <1>3, <2>2 DEF ApproveUpdate, DeclineUpdate, Decides, TypeOK
  <2> QED BY <2>1, <2>2 DEF Writes
<1> QED BY <1>1, <1>2, <1>3

(* Every step keeps what a deciding handler has read of an uncontested     *)
(* row: to write it, another would have to hold it too.                    *)
LEMMA DecidesOnceStep ==
  ASSUME TypeOK, TypeOK', DecidesOnce, HistoryNext
  PROVE  DecidesOnce'
<1>h. \A g \in Handlers : handler[g].op \in {"approve", "decline"} =>
         handler[g].req \in Requests /\ status[handler[g].req] # "absent"
  BY RequestsAssumption DEF TypeOK, InHand
<1>i. \A g \in Handlers : handler'[g].op \in {"approve", "decline"} =>
         handler'[g].req \in Requests
  BY RequestsAssumption DEF TypeOK, InHand
<1>c. contested' = Conflicts' \cup {r \in contested : Deciders(r)' # {}}
  BY DEF HistoryNext
<1>1. Recorded'
  <2>1. Conflicts' \subseteq {r \in Requests : Deciders(r)' # {}}
    BY DEF Conflicts
  <2>2. contested \subseteq Requests
    BY DEF DecidesOnce, Recorded
  <2> QED BY <1>c, <2>1, <2>2 DEF Recorded
<1>2. ASSUME NEW g \in Handlers, handler'[g].op \in {"approve", "decline"},
             handler'[g].req \notin contested', handler'[g].op = handler[g].op,
             handler'[g].req = handler[g].req
      PROVE  /\ handler[g].req \notin contested
             /\ handler[g].op = "approve" => status[handler[g].req] \in Approvable
             /\ handler[g].op = "decline" => status[handler[g].req] \in Declinable
  <2>1. g \in Deciders(handler[g].req)'
    BY <1>2 DEF Deciders, Decides
  <2>2. handler[g].req \notin contested
    BY <1>2, <1>c, <2>1
  <2> QED BY <2>2 DEF DecidesOnce, Undecided
<1>3. ASSUME NEW g \in Handlers, handler'[g].op \in {"approve", "decline"},
             handler'[g].req \notin contested'
      PROVE  /\ handler'[g].op = "approve" => status'[handler'[g].req] \in Approvable
             /\ handler'[g].op = "decline" => status'[handler'[g].req] \in Declinable
  <2>1. CASE World
    <3>1. \A r \in Requests : status[r] # "approved" => status'[r] = status[r]
      BY <2>1, WorldDecides DEF Fulfils
    <3>2. UNCHANGED handler
      BY <2>1, WorldDecides
    <3> QED BY <1>h, <1>2, <1>3, <3>1, <3>2 DEF Approvable, Declinable
  <2>2. ASSUME NEW h \in Handlers, HandlerStep(h), g # h
        PROVE  /\ handler'[g].op = "approve" => status'[handler'[g].req] \in Approvable
               /\ handler'[g].op = "decline" => status'[handler'[g].req] \in Declinable
    <3> DEFINE q == handler[g].req
    <3>1. handler'[g] = handler[g]
      BY <2>2, HandlerFits DEF TypeOK
    <3>2. q \in Requests /\ status[q] # "absent" /\ q \notin contested
      BY <1>h, <1>2, <1>3, <3>1
    <3>3. ~Decides(h, q)
      <4>1. Decides(g, q)
        BY <1>3, <3>1 DEF Decides
      <4> QED BY <2>2, <3>2, <4>1 DEF DecidesOnce, Recorded, Conflicts, Deciders
    <3>4. status'[q] = status[q]
      <4>1. CASE Writes(h)
        BY <3>2, <3>3, <4>1, WriteEnds
      <4>2. CASE ~Writes(h)
        BY <2>2, <4>2, OnlyWritesWrite
      <4> QED BY <4>1, <4>2
    <3> QED BY <1>2, <1>3, <3>1, <3>4
  <2>3. ASSUME HandlerStep(g)
        PROVE  /\ handler'[g].op = "approve" => status'[handler'[g].req] \in Approvable
               /\ handler'[g].op = "decline" => status'[handler'[g].req] \in Declinable
    <3>1. ~Writes(g)
      BY <1>3, WriteEnds
    <3>2. UNCHANGED status
      BY <2>3, <3>1, OnlyWritesWrite
    <3> QED BY <1>2, <1>3, <2>3, <3>2, SameDecision
  <2> QED BY <2>1, <2>2, <2>3 DEF HistoryNext, Next
<1>4. ASSUME NEW g \in Handlers PROVE Undecided(g)'
  BY <1>3 DEF Undecided
<1> QED BY <1>1, <1>4 DEF DecidesOnce

(* The status column and the record move as the lifecycle allows.          *)
LEMMA LifecycleStep ==
  ASSUME TypeOK, TypeOK', DecidesOnce, HistoryNext
  PROVE  Lifecycle!Next
<1>c. contested' = Conflicts' \cup {r \in contested : Deciders(r)' # {}}
  BY DEF HistoryNext
<1>r. contested' \subseteq Requests
  BY <1>c DEF Conflicts, DecidesOnce, Recorded
<1>1. ASSUME UNCHANGED status PROVE Lifecycle!Next
  BY <1>1, <1>r DEF Lifecycle!Next, Lifecycle!Look
<1>2. ASSUME World, ~UNCHANGED status PROVE Lifecycle!Next
  <2> PICK item \in Items : status' = [r \in Requests |->
                              IF Fulfils(r, item) THEN "available" ELSE status[r]]
    BY <1>2, WorldDecides
  <2> DEFINE done == {r \in Requests : Fulfils(r, item)}
  <2>1. done \in SUBSET {r \in Requests : status[r] = "approved"}
    BY DEF Fulfils
  <2>2. status' = [r \in Requests |-> IF r \in done THEN "available" ELSE status[r]]
    OBVIOUS
  <2> HIDE DEF done
  <2>3. Lifecycle!Fulfil
    BY <2>1, <2>2 DEF Lifecycle!Fulfil
  <2>4. UNCHANGED contested
    <3>1. handler' = handler
      BY <1>2, WorldDecides
    <3>2. Conflicts' = Conflicts /\ \A r \in Requests : Deciders(r)' = Deciders(r)
      BY <3>1 DEF Conflicts, Deciders, Decides
    <3> QED BY <1>c, <3>2 DEF DecidesOnce, Recorded
  <2> QED BY <2>3, <2>4 DEF Lifecycle!Next
<1>3. ASSUME NEW h \in Handlers, HandlerStep(h), ~UNCHANGED status PROVE Lifecycle!Next
  <2>1. Writes(h)
    BY <1>3, OnlyWritesWrite
  <2>2. contested' \subseteq contested
    <3>1. handler' = [handler EXCEPT ![h] = IdleHandler]
      BY <2>1, WriteEnds
    <3>2. \A g \in Handlers, r \in Requests : Decides(g, r)' => Decides(g, r)
      BY <3>1 DEF Decides, IdleHandler, TypeOK
    <3>3. Conflicts' \subseteq Conflicts
      BY <3>2 DEF Conflicts, Deciders
    <3> QED BY <1>c, <3>3 DEF DecidesOnce, Recorded
  <2> PICK q : q = handler[h].req
    OBVIOUS
  <2>3. CASE CreateInsert(h)
    <3>1. nextReq \in Requests /\ status[nextReq] = "absent"
      BY <2>3 DEF CreateInsert, TypeOK, InHand
    <3>2. PICK s \in {"pending", "approved"} : status' = [status EXCEPT ![nextReq] = s]
      BY <2>3 DEF CreateInsert
    <3>3. Lifecycle!Submit(nextReq)
      BY <3>1, <3>2 DEF Lifecycle!Submit, Lifecycle!Move
    <3> QED BY <2>2, <3>1, <3>3 DEF Lifecycle!Next
  <2>4. ASSUME ApproveUpdate(h) \/ DeclineUpdate(h)
        PROVE  q \in Requests /\ status[q] \in RequestStatus \ {"absent"}
    BY <2>4, RequestsAssumption DEF ApproveUpdate, DeclineUpdate, TypeOK, InHand
  <2>5. ASSUME q \in contested, ApproveUpdate(h) \/ DeclineUpdate(h) PROVE Lifecycle!Next
    <3>1. PICK s \in {"approved", "declined"} : status' = [status EXCEPT ![q] = s]
      BY <2>5 DEF ApproveUpdate, DeclineUpdate
    <3>2. Lifecycle!Overrule(q)
      BY <2>4, <2>5, <3>1
         DEF Lifecycle!Overrule, Lifecycle!Move, RequestStatus, Lifecycle!RequestStatus
    <3> QED BY <2>2, <2>4, <2>5, <3>2 DEF Lifecycle!Next
  <2>6. ASSUME q \notin contested, ApproveUpdate(h) PROVE Lifecycle!Next
    <3>1. status[q] \in {"pending", "declined"} /\ status' = [status EXCEPT ![q] = "approved"]
      BY <2>6 DEF ApproveUpdate, DecidesOnce, Undecided, Approvable
    <3>2. Lifecycle!Approve(q)
      BY <3>1 DEF Lifecycle!Approve, Lifecycle!Move
    <3> QED BY <2>2, <2>4, <2>6, <3>2 DEF Lifecycle!Next
  <2>7. ASSUME q \notin contested, DeclineUpdate(h) PROVE Lifecycle!Next
    <3>1. status[q] \in {"pending"} /\ status' = [status EXCEPT ![q] = "declined"]
      BY <2>7 DEF DeclineUpdate, DecidesOnce, Undecided, Declinable
    <3>2. Lifecycle!Decline(q)
      BY <3>1 DEF Lifecycle!Decline, Lifecycle!Move
    <3> QED BY <2>2, <2>4, <2>7, <3>2 DEF Lifecycle!Next
  <2> QED BY <2>1, <2>3, <2>5, <2>6, <2>7 DEF Writes
<1> QED BY <1>1, <1>2, <1>3 DEF HistoryNext, Next

(* However the handlers interleave, a viewer is told what RequestLifecycle *)
(* promises: a request is decided once, an approved one is never declined  *)
(* or approved again, and an available one stays so, unless two managers   *)
(* were deciding about that very request at the same time.                 *)
THEOREM RequestsImplementsLifecycle == HistorySpec => RequestLifecycle
<1> DEFINE Inv == TypeOK /\ DecidesOnce
<1>1. HistorySpec => Spec
  <2>1. HistoryInit => Init
    BY DEF HistoryInit
  <2>2. [HistoryNext]_<<vars, contested>> => [Next]_vars
    BY DEF HistoryNext
  <2> QED BY <2>1, <2>2, PTL DEF HistorySpec, Spec
<1>2. HistoryInit => DecidesOnce /\ Lifecycle!Init
  <2> SUFFICES ASSUME HistoryInit PROVE DecidesOnce /\ Lifecycle!Init
    OBVIOUS
  <2>1. \A h \in Handlers : handler[h].op = "none"
    BY DEF HistoryInit, Init, IdleHandler
  <2>2. Conflicts = {} /\ contested = {}
    BY <2>1 DEF HistoryInit, Conflicts, Deciders, Decides
  <2>3. DecidesOnce
    BY <2>1, <2>2 DEF DecidesOnce, Recorded, Undecided
  <2>4. Lifecycle!Init
    BY DEF HistoryInit, Init, Lifecycle!Init
  <2> QED BY <2>3, <2>4
<1>3. ASSUME TypeOK, TypeOK', DecidesOnce, [HistoryNext]_<<vars, contested>>
      PROVE  DecidesOnce' /\ [Lifecycle!Next]_<<status, contested>>
  <2>1. CASE HistoryNext
    BY <1>3, <2>1, DecidesOnceStep, LifecycleStep
  <2>2. CASE UNCHANGED <<vars, contested>>
    <3>1. UNCHANGED <<status, handler, contested>>
      BY <2>2 DEF vars, tableVars
    <3>2. Conflicts' = Conflicts /\ \A r \in Requests : Deciders(r)' = Deciders(r)
      BY <3>1 DEF Conflicts, Deciders, Decides
    <3>3. Recorded'
      BY <1>3, <3>1, <3>2 DEF Recorded, DecidesOnce
    <3>4. \A h \in Handlers : Undecided(h)'
      BY <1>3, <3>1 DEF DecidesOnce, Undecided
    <3> QED BY <3>1, <3>3, <3>4 DEF DecidesOnce
  <2> QED BY <1>3, <2>1, <2>2
<1> QED BY <1>1, <1>2, <1>3, TypeCorrect, PTL
     DEF HistorySpec, RequestLifecycle, Lifecycle!Spec
=============================================================================
