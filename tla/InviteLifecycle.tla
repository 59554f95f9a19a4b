-------------------------- MODULE InviteLifecycle --------------------------
(***************************************************************************)
(* What an invite promises to whoever shares one: it is "a one-time        *)
(* registration code".  While open it may be redeemed by one name, expire  *)
(* or be revoked; it is never open again, and who redeemed it never        *)
(* changes.                                                                *)
(***************************************************************************)
CONSTANTS Codes, Names, NoName

VARIABLES inviteState,            \* "absent", "open", "expired", "used", "deleted"
          usedBy                  \* the name that redeemed it, NoName = nobody

inviteVars == <<inviteState, usedBy>>

Init ==
    /\ inviteState = [c \in Codes |-> "absent"]
    /\ usedBy = [c \in Codes |-> NoName]

Move(c, from, to) ==
    /\ inviteState[c] \in from
    /\ inviteState' = [inviteState EXCEPT ![c] = to]

Issue(c)  == Move(c, {"absent"}, "open") /\ UNCHANGED usedBy
Expire(c) == Move(c, {"open"}, "expired") /\ UNCHANGED usedBy
Revoke(c) == Move(c, {"open", "expired", "used"}, "deleted") /\ UNCHANGED usedBy
Redeem(c) ==
    /\ Move(c, {"open"}, "used")
    /\ \E n \in Names : usedBy' = [usedBy EXCEPT ![c] = n]

Next == \E c \in Codes : Issue(c) \/ Expire(c) \/ Revoke(c) \/ Redeem(c)

Spec == Init /\ [][Next]_inviteVars
=============================================================================
