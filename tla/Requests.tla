------------------------------ MODULE Requests ------------------------------
(***************************************************************************)
(* Viewers' requests: the create, approve and decline handlers of          *)
(* pelicula-server over the requests table, the title they add to Radarr   *)
(* or Sonarr on the way, and the pipeline's MarkRequestsAvailable.         *)
(*                                                                         *)
(* A handler is a goroutine that reads the table, talks to *arr and writes *)
(* the table; each statement and each *arr call is one step, and handlers  *)
(* interleave between them.                                                *)
(***************************************************************************)
EXTENDS Naturals

CONSTANTS
    Handlers,       \* HTTP handler goroutines
    Titles,         \* the movies and series people ask for
    NoTitle,        \* "no title"
    AppOf,          \* [Titles -> Apps]: movies go to radarr, series to sonarr
    MaxRequests,    \* bound: rows ever inserted in the requests table
    MaxItems,       \* bound: ids one *arr app ever hands out
    MaxFaults,      \* bound: failed *arr calls and failed fulfilments
    MaxRemovals     \* bound: titles an admin removes in the *arr interface

Apps == {"radarr", "sonarr"}

ASSUME RequestsAssumption ==
    /\ MaxRequests \in Nat \ {0}
    /\ MaxItems \in Nat \ {0}
    /\ MaxFaults \in Nat
    /\ MaxRemovals \in Nat
    /\ NoTitle \notin Titles
    /\ AppOf \in [Titles -> Apps]

VARIABLES
    status,         \* requests.status per id, "absent" = no such row
    title,          \* what the row asks for (media_type and tmdb_id/tvdb_id)
    arrId,          \* requests.arr_id, 0 = none
    nextReq,        \* AUTOINCREMENT
    autoApprove,    \* the setting auto_approve_requests
    itemTitle,      \* *arr: the title each id was given to
    present,        \* *arr: the items in the library now, <<app, id>>
    searched,       \* *arr: the items a search was asked for
    passed,         \* the items of which the pipeline passed an import
    handler,        \* local state of each handler goroutine
    faults,         \* failed calls so far
    removals        \* removed titles so far

tableVars == <<status, title, arrId, nextReq>>
arrVars == <<itemTitle, present, searched, passed>>
vars == <<tableVars, autoApprove, arrVars, handler, faults, removals>>

Requests == 1 .. MaxRequests
ItemIds == 1 .. MaxItems
Items == Apps \X ItemIds
RequestStatus == {"absent", "pending", "approved", "declined", "available"}

Ops == {"none", "create", "approve", "decline", "direct"}
HandlerPcs == {"idle", "auto", "lookup", "search", "add", "insert", "update"}
HandlerState == [pc : HandlerPcs, op : Ops, title : Titles \cup {NoTitle},
                 req : 0 .. MaxRequests, id : 0 .. MaxItems]
IdleHandler == [pc |-> "idle", op |-> "none", title |-> NoTitle, req |-> 0, id |-> 0]

(* The item a row or a handler refers to by id: ids of the two apps        *)
(* overlap, so the id means nothing without the title's app.               *)
ItemOf(t, i) == <<AppOf[t], i>>

(* A handler past its first step has a title or a row in hand, and rows    *)
(* below nextReq, and only those, exist.                                   *)
InHand ==
    /\ \A r \in Requests : /\ r >= nextReq <=> title[r] = NoTitle
                           /\ r >= nextReq <=> status[r] = "absent"
    /\ \A h \in Handlers :
          /\ handler[h].pc # "idle" => handler[h].title \in Titles
          /\ handler[h].pc \in {"auto", "insert"} => handler[h].op = "create"
          /\ handler[h].pc = "search" => handler[h].id # 0
          /\ handler[h].pc = "update" => handler[h].op \in {"approve", "decline"}
          /\ handler[h].op \in {"approve", "decline"} =>
                /\ handler[h].req \in 1 .. nextReq - 1
                /\ title[handler[h].req] = handler[h].title

TypeOK ==
    /\ status \in [Requests -> RequestStatus]
    /\ title \in [Requests -> Titles \cup {NoTitle}]
    /\ arrId \in [Requests -> 0 .. MaxItems]
    /\ nextReq \in 1 .. MaxRequests + 1
    /\ autoApprove \in BOOLEAN
    /\ itemTitle \in [Items -> Titles \cup {NoTitle}]
    /\ present \subseteq Items
    /\ searched \subseteq Items
    /\ passed \subseteq Items
    /\ handler \in [Handlers -> HandlerState]
    /\ faults \in 0 .. MaxFaults
    /\ removals \in 0 .. MaxRemovals
    /\ InHand

Init ==
    /\ status = [r \in Requests |-> "absent"]
    /\ title = [r \in Requests |-> NoTitle]
    /\ arrId = [r \in Requests |-> 0]
    /\ nextReq = 1
    /\ autoApprove = FALSE
    /\ itemTitle = [i \in Items |-> NoTitle]
    /\ present = {}
    /\ searched = {}
    /\ passed = {}
    /\ handler = [h \in Handlers |-> IdleHandler]
    /\ faults = 0
    /\ removals = 0

-----------------------------------------------------------------------------
(* The world outside the handlers.                                         *)

OnlyWorld == UNCHANGED <<title, arrId, nextReq, handler>>

PutAutoApprove ==
    /\ autoApprove' = ~autoApprove
    /\ OnlyWorld /\ UNCHANGED <<status, arrVars, faults, removals>>

(* An app gives a new id to a title it does not have.                      *)
Absent(t) == \A i \in ItemIds : ItemOf(t, i) \in present => itemTitle[ItemOf(t, i)] # t
Adds(t, i) ==
    /\ Absent(t)
    /\ itemTitle[ItemOf(t, i)] = NoTitle
    /\ \A k \in ItemIds : k < i => itemTitle[ItemOf(t, k)] # NoTitle
    /\ itemTitle' = [itemTitle EXCEPT ![ItemOf(t, i)] = t]
    /\ present' = present \cup {ItemOf(t, i)}

(* Somebody adds a title in the *arr interface, without a search.          *)
AddedByHand(t) ==
    /\ \E i \in ItemIds : Adds(t, i)
    /\ OnlyWorld
    /\ UNCHANGED <<status, autoApprove, searched, passed, faults, removals>>

(* Somebody removes an item there; ids are not used again.                 *)
RemovedByHand(item) ==
    /\ item \in present
    /\ removals < MaxRemovals
    /\ removals' = removals + 1
    /\ present' = present \ {item}
    /\ OnlyWorld
    /\ UNCHANGED <<status, autoApprove, itemTitle, searched, passed, faults>>

(* A job for an imported file of the item passes.  MarkRequestsAvailable   *)
(* matches on media type and arr_id; if it fails the worker carries on.    *)
FulfilsAnyApp(r, item) == status[r] = "approved" /\ arrId[r] = item[2]
Fulfils(r, item) == status[r] = "approved" /\ ItemOf(title[r], arrId[r]) = item
Pass(item) ==
    /\ item \in present
    /\ passed' = passed \cup {item}
    /\ \/ /\ status' = [r \in Requests |->
                           IF Fulfils(r, item) THEN "available" ELSE status[r]]
          /\ UNCHANGED faults
       \/ faults < MaxFaults /\ faults' = faults + 1 /\ UNCHANGED status
    /\ OnlyWorld
    /\ UNCHANGED <<autoApprove, itemTitle, present, searched, removals>>

-----------------------------------------------------------------------------
(* How the three handlers, and POST /api/search/add, start.                *)

OnlyHandler == UNCHANGED <<autoApprove, passed, removals>>
Reads == OnlyHandler /\ UNCHANGED <<tableVars, itemTitle, present, searched>>
Move(h, pc) == handler' = [handler EXCEPT ![h].pc = pc]
Ends(h) == handler' = [handler EXCEPT ![h] = IdleHandler]
Serves(h, pc, op, t, r) ==
    handler' = [handler EXCEPT ![h] =
                   [pc |-> pc, op |-> op, title |-> t, req |-> r, id |-> 0]]

(* FindOpenRequest: an open request for the title is a 409.                *)
Open == {"pending", "approved"}
CreateFind(h, t) ==
    /\ handler[h].pc = "idle"
    /\ \A r \in Requests : title[r] = t => status[r] \notin Open
    /\ Serves(h, "auto", "create", t, 0)
    /\ Reads /\ UNCHANGED faults

(* The title is added right away if auto_approve_requests is set; a read   *)
(* error means no, the default.                                            *)
ReadAutoApprove(h) ==
    /\ handler[h].pc = "auto"
    /\ \/ autoApprove /\ Move(h, "lookup") /\ UNCHANGED faults
       \/ ~autoApprove /\ Move(h, "insert") /\ UNCHANGED faults
       \/ faults < MaxFaults /\ faults' = faults + 1 /\ Move(h, "insert")
    /\ Reads

(* loadRequest, then the check that the status allows an approval.         *)
Approvable == {"pending", "declined"}
ApproveLoad(h, r) ==
    /\ handler[h].pc = "idle"
    /\ status[r] \in Approvable
    /\ Serves(h, "lookup", "approve", title[r], r)
    /\ Reads /\ UNCHANGED faults

(* The same for a decline.                                                 *)
DeclinableWhenOpen == {"pending", "approved"}
Declinable == {"pending"}
DeclineLoad(h, r) ==
    /\ handler[h].pc = "idle"
    /\ status[r] \in Declinable
    /\ Serves(h, "update", "decline", title[r], r)
    /\ Reads /\ UNCHANGED faults

DirectAdd(h, t) ==
    /\ handler[h].pc = "idle"
    /\ Serves(h, "lookup", "direct", t, 0)
    /\ Reads /\ UNCHANGED faults

-----------------------------------------------------------------------------
(* addToArr, and what the handlers do when it has answered.                *)

(* With the id in hand the row is written.                                 *)
AfterAdd(h) ==
    CASE handler[h].op = "create"  -> "insert"
      [] handler[h].op = "approve" -> "update"
      [] OTHER                     -> "idle"

(* If *arr fails, a create still stores the request, as pending; the other *)
(* handlers answer 502 (or 404) and leave the row alone.                   *)
AfterFailureIgnored(h) == AfterAdd(h)
AfterFailureAnyway(h) == IF handler[h].op = "create" THEN "insert" ELSE "update"
AfterFailure(h) == IF handler[h].op = "create" THEN "insert" ELSE "idle"

Answers(h, pc, i) ==
    handler' = [handler EXCEPT ![h] =
                   IF pc = "idle" THEN IdleHandler ELSE [@ EXCEPT !.pc = pc, !.id = i]]
ArrFails(h) ==
    /\ faults < MaxFaults
    /\ faults' = faults + 1
    /\ Answers(h, AfterFailure(h), 0)

(* LookupMovieByTmdbID or LookupSeries tells whether the title has an id.  *)
Lookup(h) ==
    /\ handler[h].pc = "lookup"
    /\ LET t == handler[h].title
       IN  \/ \E i \in ItemIds : /\ ItemOf(t, i) \in present
                                 /\ itemTitle[ItemOf(t, i)] = t
                                 /\ Answers(h, "search", i)
                                 /\ UNCHANGED faults
           \/ Absent(t) /\ Move(h, "add") /\ UNCHANGED faults
           \/ ArrFails(h)
    /\ Reads

(* MoviesSearch or SeriesSearch for an item already in the library.        *)
Search(h) ==
    /\ handler[h].pc = "search"
    /\ \/ /\ searched' = searched \cup {ItemOf(handler[h].title, handler[h].id)}
          /\ Answers(h, AfterAdd(h), handler[h].id)
          /\ UNCHANGED faults
       \/ ArrFails(h) /\ UNCHANGED searched
    /\ OnlyHandler /\ UNCHANGED <<tableVars, itemTitle, present>>

(* AddMovie or AddSeries, with a search.  *arr refuses a title that was    *)
(* added since the lookup, and an added title's answer may get lost: a     *)
(* POST that may have arrived is not sent again.                           *)
Add(h) ==
    /\ handler[h].pc = "add"
    /\ LET t == handler[h].title
       IN  \/ \E i \in ItemIds :
                 /\ Adds(t, i)
                 /\ searched' = searched \cup {ItemOf(t, i)}
                 /\ \/ Answers(h, AfterAdd(h), i) /\ UNCHANGED faults
                    \/ ArrFails(h)
           \/ /\ ~Absent(t)
              /\ Answers(h, AfterFailure(h), 0)
              /\ UNCHANGED <<itemTitle, present, searched, faults>>
           \/ ArrFails(h) /\ UNCHANGED <<itemTitle, present, searched>>
    /\ OnlyHandler /\ UNCHANGED tableVars

-----------------------------------------------------------------------------
(* How they end.                                                           *)

(* CreateRequest: approved if the title was added, pending otherwise.      *)
CreateInsert(h) ==
    /\ handler[h].pc = "insert"
    /\ nextReq \in Requests
    /\ status' = [status EXCEPT ![nextReq] =
                     IF handler[h].id # 0 THEN "approved" ELSE "pending"]
    /\ title' = [title EXCEPT ![nextReq] = handler[h].title]
    /\ arrId' = [arrId EXCEPT ![nextReq] = handler[h].id]
    /\ nextReq' = nextReq + 1
    /\ Ends(h)
    /\ OnlyHandler /\ UNCHANGED <<itemTitle, present, searched, faults>>

(* UpdateRequestStatus looks at the id only, not at the status it replaces. *)
ApproveUpdate(h) ==
    /\ handler[h].pc = "update"
    /\ handler[h].op = "approve"
    /\ status' = [status EXCEPT ![handler[h].req] = "approved"]
    /\ arrId' = [arrId EXCEPT ![handler[h].req] =
                    IF handler[h].id # 0 THEN handler[h].id ELSE @]
    /\ Ends(h)
    /\ OnlyHandler
    /\ UNCHANGED <<title, nextReq, itemTitle, present, searched, faults>>

DeclineUpdate(h) ==
    /\ handler[h].pc = "update"
    /\ handler[h].op = "decline"
    /\ status' = [status EXCEPT ![handler[h].req] = "declined"]
    /\ Ends(h)
    /\ OnlyHandler
    /\ UNCHANGED <<title, arrId, nextReq, itemTitle, present, searched, faults>>

(* The client goes away, a statement fails or the process dies: the        *)
(* handler does nothing more.                                              *)
Abandon(h) ==
    /\ handler[h].pc # "idle"
    /\ Ends(h)
    /\ Reads /\ UNCHANGED faults

-----------------------------------------------------------------------------
World ==
    \/ PutAutoApprove
    \/ \E t \in Titles : AddedByHand(t)
    \/ \E item \in Items : RemovedByHand(item) \/ Pass(item)

HandlerStep(h) ==
    \/ \E t \in Titles : CreateFind(h, t) \/ DirectAdd(h, t)
    \/ \E r \in Requests : ApproveLoad(h, r) \/ DeclineLoad(h, r)
    \/ ReadAutoApprove(h) \/ Lookup(h) \/ Search(h) \/ Add(h)
    \/ CreateInsert(h) \/ ApproveUpdate(h) \/ DeclineUpdate(h) \/ Abandon(h)

Next == World \/ \E h \in Handlers : HandlerStep(h)

Spec == Init /\ [][Next]_vars

-----------------------------------------------------------------------------
(* Properties.                                                             *)

(* An approved request was "added to Radarr/Sonarr": its arr_id is an item *)
(* of its own title in the right app, and a search was asked for it, so    *)
(* that a pass of that item can fulfil it.  Holds however approvals,       *)
(* declines, direct adds, lost answers and removals interleave.            *)
ApprovedWasAdded ==
    \A r \in Requests : status[r] \in {"approved", "available"} =>
        /\ arrId[r] # 0
        /\ itemTitle[ItemOf(title[r], arrId[r])] = title[r]
        /\ ItemOf(title[r], arrId[r]) \in searched

(* A request is shown as available only if a file of its own title passed, *)
(* although the two apps hand out the same ids.                            *)
AvailableWasPassed ==
    \A r \in Requests : status[r] = "available" =>
        ItemOf(title[r], arrId[r]) \in passed

(* A request "that is already approved or fulfilled may not be approved    *)
(* twice".                                                                 *)
NotApprovedTwice ==
    [][\A h \in Handlers : ApproveUpdate(h) =>
          status[handler[h].req] \notin {"approved", "available"}]_vars
=============================================================================
