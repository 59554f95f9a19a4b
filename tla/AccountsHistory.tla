-------------------------- MODULE AccountsHistory ---------------------------
(***************************************************************************)
(* Accounts with a record of which handlers have met, and what may be      *)
(* relied upon where none have.  Nothing but regMu keeps handlers apart,   *)
(* and the record keeps nobody from anything: every behaviour of Accounts  *)
(* is one of these.                                                        *)
(***************************************************************************)
EXTENDS Accounts

VARIABLES
    crowded,        \* the names that two handlers ever worked on at once
    rivals          \* somebody who demotes or deletes a user has met another

historyVars == <<crowded, rivals>>

(* From a handler's arrival to its answer.                                 *)
WorksOn(h, n) == handler[h].pc # "idle" /\ handler[h].name = n
Crowd == {n \in Names : \E g, h \in Handlers : g # h /\ WorksOn(g, n) /\ WorksOn(h, n)}

Demotes(h) == handler[h].pc \in {"find", "setrole", "deluser", "delrole"}
Meet == \E g, h \in Handlers : g # h /\ Demotes(g) /\ Demotes(h)

HistoryTypeOK == TypeOK /\ crowded \subseteq Names /\ rivals \in BOOLEAN

HistoryInit == Init /\ crowded = {} /\ rivals = FALSE
HistoryNext ==
    /\ Next
    /\ crowded' = crowded \cup Crowd'
    /\ rivals' = (Meet' \/ (rivals /\ \E h \in Handlers : Demotes(h)'))
HistorySpec == HistoryInit /\ [][HistoryNext]_<<vars, historyVars>>

-----------------------------------------------------------------------------
(* Properties.                                                             *)

(* The copy of the role in a session is the stored role: SetRole updates   *)
(* live sessions, DeleteRole removes them, and a login stores what it      *)
(* read.  Of a crowded name it need not be: a login may store the role it  *)
(* read before a concurrent change.                                        *)
SessionsFollowRoles ==
    \A s \in Tokens :
        session[s] # NoSession /\ session[s].name \notin crowded =>
            session[s].role = role[session[s].name]

(* handleDeleteUser leaves neither a role nor a session of the user behind *)
(* when no call fails, unless the user was logging in meanwhile.           *)
NoOrphans ==
    faults = 0 =>
        \A n \in Names \ crowded :
            role[n] # "none" \/ (\E s \in Tokens : session[s].name = n) =>
                \/ account[n] # 0
                \/ \E h \in Handlers : handler[h].pc = "delrole" /\ handler[h].name = n

(* Nobody may demote or delete themselves, so there is always an           *)
(* administrator left, whatever else goes on: unless two of them demote    *)
(* each other at once, one acts on a stale session (of a crowded name), or *)
(* a deletion was cut short, leaving a session of an account that is gone. *)
AdminRemains ==
    [][faults = 0 /\ crowded = {} /\ ~rivals /\ (\E n \in Names : role[n] = "admin") =>
           \E n \in Names : role'[n] = "admin"]_vars

(* Whoever redeemed an invite keeps the role it grants until an            *)
(* administrator changes it, or the name, deleted in between, redeems      *)
(* another invite: later logins do not fall back to the default.  Of two   *)
(* handlers at work on one name, a login may.                              *)
InvitedRoleKept ==
    [][\A c \in Codes :
          /\ inviteState[c] = "used"
          /\ usedBy[c] \notin crowded
          /\ role[usedBy[c]] = inviteRole[c]
          /\ role'[usedBy[c]] # inviteRole[c]
          => \E h \in Handlers : /\ handler[h].name = usedBy[c]
                                 /\ handler[h].pc \in {"setrole", "delrole", "grant"}]_vars
=============================================================================
