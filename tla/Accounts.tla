------------------------------ MODULE Accounts ------------------------------
(***************************************************************************)
(* Accounts of pelicula-server: Jellyfin holds the accounts, the store a   *)
(* role per username, a session per login (with a copy of the role) and    *)
(* the invites.  Handlers log users in, redeem invites, change roles,      *)
(* delete users and manage invites; each store transaction and each        *)
(* Jellyfin call is one step, and handlers interleave between them.        *)
(***************************************************************************)
EXTENDS Naturals

CONSTANTS
    Handlers,       \* HTTP handler goroutines
    NoHandler,      \* "regMu is free"
    Names,          \* usernames
    NoName,         \* "no name"
    Owner,          \* JELLYFIN_ADMIN_USER, the administrator of the first start
    Codes,          \* bound: the invites ever issued
    NoCode,         \* "no invite"
    Tokens,         \* bound: the sessions that are live at the same time
    GrantRoles,     \* the roles given by invites and by administrators
    MaxAccounts,    \* bound: Jellyfin accounts ever created
    MaxFaults       \* bound: failed calls and handlers that end early

Roles == {"viewer", "manager", "admin"}

ASSUME AccountsAssumption ==
    /\ NoHandler \notin Handlers
    /\ NoName \notin Names
    /\ Owner \in Names
    /\ NoCode \notin Codes
    /\ GrantRoles \subseteq Roles
    /\ MaxAccounts \in Nat \ {0}
    /\ MaxFaults \in Nat

VARIABLES
    account,        \* Jellyfin: the id of each name's account, 0 = none
    nextAccount,    \* Jellyfin: ids are never used again
    role,           \* the roles table, "none" = no row
    session,        \* the sessions table by token
    inviteState,    \* the invites table: open, expired, used or gone
    inviteRole,     \* the role each invite grants
    usedBy,         \* invites.used_by
    made,           \* the accounts created on each invite
    regMu,          \* the handler that holds Auth.regMu
    handler,        \* local state of each handler goroutine
    faults          \* failed calls so far

jellyfinVars == <<account, nextAccount, made>>
inviteVars == <<inviteState, inviteRole, usedBy>>
vars == <<jellyfinVars, role, session, inviteVars, regMu, handler, faults>>

AccountIds == 1 .. MaxAccounts
InviteStates == {"absent", "open", "expired", "used", "deleted"}
SessionRow == [name : Names \cup {NoName}, role : Roles]
NoSession == [name |-> NoName, role |-> "viewer"]

Ops == {"none", "login", "register", "setrole", "delete", "invite", "revoke"}
(* Where a registration holds regMu before it signs the new user in.       *)
RedeemPcs == {"check", "create", "use", "grant", "signin"}
SignInPcs == {"role", "default", "session"}
AdminPcs == {"find", "setrole", "deluser", "delrole", "issue", "revoke"}
HandlerState == [pc : {"idle", "lock"} \cup RedeemPcs \cup SignInPcs \cup AdminPcs,
                 op : Ops, name : Names \cup {NoName}, code : Codes \cup {NoCode},
                 role : Roles, id : 0 .. MaxAccounts]
IdleHandler == [pc |-> "idle", op |-> "none", name |-> NoName, code |-> NoCode,
                role |-> "viewer", id |-> 0]

(* A handler past its first step has the name or the invite it works on.   *)
InHand ==
    \A h \in Handlers :
        /\ handler[h].pc \in RedeemPcs \cup {"lock"} => handler[h].op = "register"
        /\ handler[h].op = "register" => handler[h].code \in Codes
        /\ handler[h].pc \in {"issue", "revoke"} => handler[h].code \in Codes
        /\ handler[h].pc \notin {"idle", "issue", "revoke"} => handler[h].name \in Names

TypeOK ==
    /\ account \in [Names -> 0 .. MaxAccounts]
    /\ nextAccount \in 1 .. MaxAccounts + 1
    /\ role \in [Names -> Roles \cup {"none"}]
    /\ session \in [Tokens -> SessionRow]
    /\ inviteState \in [Codes -> InviteStates]
    /\ inviteRole \in [Codes -> Roles]
    /\ usedBy \in [Codes -> Names \cup {NoName}]
    /\ made \in [Codes -> SUBSET AccountIds]
    /\ regMu \in Handlers \cup {NoHandler}
    /\ handler \in [Handlers -> HandlerState]
    /\ faults \in 0 .. MaxFaults
    /\ InHand

(* Autowire has created the owner's account; nobody has logged in yet.     *)
Init ==
    /\ account = [n \in Names |-> IF n = Owner THEN 1 ELSE 0]
    /\ nextAccount = 2
    /\ role = [n \in Names |-> "none"]
    /\ session = [s \in Tokens |-> NoSession]
    /\ inviteState = [c \in Codes |-> "absent"]
    /\ inviteRole = [c \in Codes |-> "viewer"]
    /\ usedBy = [c \in Codes |-> NoName]
    /\ made = [c \in Codes |-> {}]
    /\ regMu = NoHandler
    /\ handler = [h \in Handlers |-> IdleHandler]
    /\ faults = 0

-----------------------------------------------------------------------------
(* Time, cookies and Jellyfin's own interface.                             *)

(* A session expires or is logged out.                                     *)
SessionEnds(s) ==
    /\ session[s] # NoSession
    /\ session' = [session EXCEPT ![s] = NoSession]
    /\ UNCHANGED <<jellyfinVars, role, inviteVars, regMu, handler, faults>>

InviteExpires(c) ==
    /\ inviteState[c] = "open"
    /\ inviteState' = [inviteState EXCEPT ![c] = "expired"]
    /\ UNCHANGED <<jellyfinVars, role, session, inviteRole, usedBy, regMu,
                   handler, faults>>

(* Jellyfin gives a name it does not know a new account.                   *)
NewAccount(n) ==
    /\ account[n] = 0
    /\ nextAccount \in AccountIds
    /\ account' = [account EXCEPT ![n] = nextAccount]
    /\ nextAccount' = nextAccount + 1

(* Somebody adds a user in Jellyfin itself.                                *)
AddedInJellyfin(n) ==
    /\ NewAccount(n)
    /\ UNCHANGED <<made, role, session, inviteVars, regMu, handler, faults>>

-----------------------------------------------------------------------------
(* Parts the handlers share.                                               *)

Move(h, pc) == handler' = [handler EXCEPT ![h].pc = pc] /\ UNCHANGED regMu

(* A handler answers; a registration's deferred Unlock runs.               *)
Ends(h) ==
    /\ handler' = [handler EXCEPT ![h] = IdleHandler]
    /\ regMu' = IF regMu = h THEN NoHandler ELSE regMu

(* Store.SetRole: the row and every live session of the name.              *)
SetRoleRowOnly(n, r) == role' = [role EXCEPT ![n] = r] /\ UNCHANGED session
SetRole(n, r) ==
    /\ role' = [role EXCEPT ![n] = r]
    /\ session' = [s \in Tokens |-> IF session[s].name = n
                                    THEN [session[s] EXCEPT !.role = r]
                                    ELSE session[s]]

NothingStored == UNCHANGED <<role, session, inviteVars>>
NoCallFailed == UNCHANGED <<jellyfinVars, faults>>

(* A request arrives.                                                      *)
Serves(h, pc, op, n, c, r) ==
    /\ handler[h].pc = "idle"
    /\ handler' = [handler EXCEPT ![h] = [pc |-> pc, op |-> op, name |-> n,
                                          code |-> c, role |-> r, id |-> 0]]
    /\ UNCHANGED regMu
    /\ NothingStored /\ NoCallFailed

(* The client goes away, a call fails or the process dies.                 *)
Abandon(h) ==
    /\ handler[h].pc # "idle"
    /\ faults < MaxFaults
    /\ faults' = faults + 1
    /\ Ends(h)
    /\ NothingStored /\ UNCHANGED jellyfinVars

-----------------------------------------------------------------------------
(* POST /api/auth/login, and the session both it and a registration start. *)

(* The role of a user without a stored one: Jellyfin says whether the      *)
(* account, the owner's first one only, is an administrator's.             *)
DefaultForgotten(n) == role[n]
Default(n) == IF account[n] = 1 THEN "admin" ELSE "viewer"

(* AuthenticateByName accepted the password.                               *)
Login(h, n) ==
    /\ account[n] # 0
    /\ Serves(h, "role", "login", n, NoCode, Default(n))

(* startSession: the stored role, or else the default.                     *)
KnownRoleIgnored(n) == FALSE
KnownRole(n) == role[n] # "none"
ReadRole(h) ==
    /\ handler[h].pc = "role"
    /\ LET n == handler[h].name
       IN  handler' = IF KnownRole(n)
                      THEN [handler EXCEPT ![h].pc = "session", ![h].role = role[n]]
                      ELSE [handler EXCEPT ![h].pc = "default"]
    /\ UNCHANGED regMu
    /\ NothingStored /\ NoCallFailed

StoreDefault(h) ==
    /\ handler[h].pc = "default"
    /\ SetRole(handler[h].name, handler[h].role)
    /\ Move(h, "session")
    /\ UNCHANGED inviteVars /\ NoCallFailed

CreateSession(h) ==
    /\ handler[h].pc = "session"
    /\ \E s \in Tokens :
          /\ session[s] = NoSession
          /\ session' = [session EXCEPT ![s] =
                            [name |-> handler[h].name, role |-> handler[h].role]]
    /\ Ends(h)
    /\ UNCHANGED <<role, inviteVars>> /\ NoCallFailed

-----------------------------------------------------------------------------
(* POST /api/register.                                                     *)

Register(h, c, n) == Serves(h, "lock", "register", n, c, "viewer")

(* regMu.Lock.                                                             *)
LockFreeAlways == TRUE
LockFree == regMu = NoHandler
LockRegistration(h) ==
    /\ handler[h].pc = "lock"
    /\ LockFree
    /\ regMu' = h
    /\ handler' = [handler EXCEPT ![h].pc = "check"]
    /\ NothingStored /\ NoCallFailed

(* liveInvite: anything but an open invite is a 410.                       *)
CheckInvite(h) ==
    /\ handler[h].pc = "check"
    /\ LET c == handler[h].code
       IN  \/ /\ inviteState[c] = "open"
              /\ handler' = [handler EXCEPT ![h].pc = "create", ![h].role = inviteRole[c]]
              /\ UNCHANGED regMu
           \/ inviteState[c] # "open" /\ Ends(h)
    /\ NothingStored /\ NoCallFailed

(* Jellyfin creates the account; or creates it, but its answer is lost, or *)
(* the password cannot be set and the account not be removed again (503);  *)
(* or creates none: the name is taken (409) or Jellyfin is away (503).     *)
CreateUser(h) ==
    /\ handler[h].pc = "create"
    /\ LET n == handler[h].name
           c == handler[h].code
       IN  \/ /\ NewAccount(n)
              /\ made' = [made EXCEPT ![c] = @ \cup {nextAccount}]
              /\ \/ Move(h, "use") /\ UNCHANGED faults
                 \/ faults < MaxFaults /\ faults' = faults + 1 /\ Ends(h)
           \/ Ends(h) /\ NoCallFailed
    /\ NothingStored

(* UseInvite checks again in its WHERE clause: an invite that expired or   *)
(* was revoked since is a 410, and the account stays.                      *)
UsableIfExpired(c) == inviteState[c] \in {"open", "expired"}
Usable(c) == inviteState[c] = "open"
UseInvite(h) ==
    /\ handler[h].pc = "use"
    /\ LET c == handler[h].code
       IN  \/ /\ Usable(c)
              /\ inviteState' = [inviteState EXCEPT ![c] = "used"]
              /\ usedBy' = [usedBy EXCEPT ![c] = handler[h].name]
              /\ Move(h, "grant")
           \/ ~Usable(c) /\ Ends(h) /\ UNCHANGED <<inviteState, usedBy>>
    /\ UNCHANGED <<role, session, inviteRole>> /\ NoCallFailed

GrantRole(h) ==
    /\ handler[h].pc = "grant"
    /\ SetRole(handler[h].name, handler[h].role)
    /\ Move(h, "signin")
    /\ UNCHANGED inviteVars /\ NoCallFailed

(* AuthenticateByName for the new user; if it fails the answer is still a  *)
(* 201, without a session.                                                 *)
SignIn(h) ==
    /\ handler[h].pc = "signin"
    /\ LET n == handler[h].name
       IN  \/ /\ account[n] # 0
              /\ handler' = [handler EXCEPT ![h].pc = "role", ![h].role = Default(n)]
              /\ UNCHANGED regMu
           \/ Ends(h)
    /\ NothingStored /\ NoCallFailed

-----------------------------------------------------------------------------
(* What administrators do.  Guard reads the session once, at the start.    *)

Admin(s) == session[s].name # NoName /\ session[s].role = "admin"

(* Nobody changes or deletes their own account.                            *)
SelfAllowed(s, n) == TRUE
NotSelf(s, n) == session[s].name # n
ChangeRole(h, s, n, r) ==
    Admin(s) /\ NotSelf(s, n) /\ Serves(h, "find", "setrole", n, NoCode, r)
DeleteUser(h, s, n) ==
    Admin(s) /\ NotSelf(s, n) /\ Serves(h, "find", "delete", n, NoCode, "viewer")
(* newInviteCode: sixteen random bytes nobody has, or ever had.            *)
Fresh(c) ==
    /\ inviteState[c] = "absent"
    /\ \A h \in Handlers : handler[h].pc = "issue" => handler[h].code # c
IssueInvite(h, s, c, r) ==
    Admin(s) /\ Fresh(c) /\ Serves(h, "issue", "invite", NoName, c, r)
RevokeInvite(h, s, c) ==
    Admin(s) /\ Serves(h, "revoke", "revoke", NoName, c, "viewer")

(* jellyfinUsers: the account behind the name, or a 404.                   *)
FindUser(h) ==
    /\ handler[h].pc = "find"
    /\ LET n == handler[h].name
       IN  \/ account[n] = 0 /\ Ends(h)
           \/ /\ account[n] # 0
              /\ handler' = [handler EXCEPT ![h].id = account[n],
                   ![h].pc = IF handler[h].op = "delete" THEN "deluser" ELSE "setrole"]
              /\ UNCHANGED regMu
    /\ NothingStored /\ NoCallFailed

StoreRole(h) ==
    /\ handler[h].pc = "setrole"
    /\ SetRole(handler[h].name, handler[h].role)
    /\ Ends(h)
    /\ UNCHANGED inviteVars /\ NoCallFailed

(* Jellyfin deletes by id: an account that is gone is an error (502), also *)
(* if its name has a new one.  The answer may be lost.                     *)
AfterDeletionKept == "idle"
AfterDeletion == "delrole"
DeleteAccount(h) ==
    /\ handler[h].pc = "deluser"
    /\ LET n == handler[h].name
       IN  \/ /\ account[n] = handler[h].id
              /\ account' = [account EXCEPT ![n] = 0]
              /\ \/ Move(h, AfterDeletion) /\ UNCHANGED faults
                 \/ faults < MaxFaults /\ faults' = faults + 1 /\ Ends(h)
           \/ account[n] # handler[h].id /\ Ends(h) /\ UNCHANGED <<account, faults>>
    /\ UNCHANGED <<nextAccount, made>> /\ NothingStored

(* Store.DeleteRole: the row and the sessions of the name.                 *)
DeleteRole(h) ==
    /\ handler[h].pc = "delrole"
    /\ role' = [role EXCEPT ![handler[h].name] = "none"]
    /\ session' = [s \in Tokens |-> IF session[s].name = handler[h].name
                                    THEN NoSession ELSE session[s]]
    /\ Ends(h)
    /\ UNCHANGED inviteVars /\ NoCallFailed

StoreInvite(h) ==
    /\ handler[h].pc = "issue"
    /\ LET c == handler[h].code
       IN  /\ inviteState' = [inviteState EXCEPT ![c] = "open"]
           /\ inviteRole' = [inviteRole EXCEPT ![c] = handler[h].role]
    /\ Ends(h)
    /\ UNCHANGED <<usedBy, role, session>> /\ NoCallFailed

(* A revoked invite is deleted; an unknown one is a 404.                   *)
DeleteInvite(h) ==
    /\ handler[h].pc = "revoke"
    /\ LET c == handler[h].code
       IN  inviteState' = IF inviteState[c] = "absent" THEN inviteState
                          ELSE [inviteState EXCEPT ![c] = "deleted"]
    /\ Ends(h)
    /\ UNCHANGED <<inviteRole, usedBy, role, session>> /\ NoCallFailed

-----------------------------------------------------------------------------
World ==
    \/ \E s \in Tokens : SessionEnds(s)
    \/ \E c \in Codes : InviteExpires(c)
    \/ \E n \in Names : AddedInJellyfin(n)

Arrives(h) ==
    \/ \E n \in Names : Login(h, n)
    \/ \E c \in Codes, n \in Names : Register(h, c, n)
    \/ \E s \in Tokens, n \in Names :
          DeleteUser(h, s, n) \/ \E r \in GrantRoles : ChangeRole(h, s, n, r)
    \/ \E s \in Tokens, c \in Codes :
          RevokeInvite(h, s, c) \/ \E r \in GrantRoles : IssueInvite(h, s, c, r)

HandlerStep(h) ==
    \/ ReadRole(h) \/ StoreDefault(h) \/ CreateSession(h)
    \/ LockRegistration(h) \/ CheckInvite(h) \/ CreateUser(h) \/ UseInvite(h)
    \/ GrantRole(h) \/ SignIn(h)
    \/ FindUser(h) \/ StoreRole(h) \/ DeleteAccount(h) \/ DeleteRole(h)
    \/ StoreInvite(h) \/ DeleteInvite(h)

Next == World \/ \E h \in Handlers : Arrives(h) \/ HandlerStep(h) \/ Abandon(h)

Spec == Init /\ [][Next]_vars

-----------------------------------------------------------------------------
(* Properties.                                                             *)

(* Invites live as InviteLifecycle promises: UseInvite runs several calls  *)
(* after liveInvite looked, and meanwhile the invite may have been used,   *)
(* have expired or have been revoked.                                      *)
Invites == INSTANCE InviteLifecycle
InviteLifecycle == Invites!Spec

(* regMu: "the check-invite, create-user, use-invite sequence cannot       *)
(* create two Jellyfin users for one invite", as long as no call fails     *)
(* between creating the user and spending the invite.                      *)
OneUserPerInvite ==
    faults = 0 => \A c \in Codes : \A i, j \in made[c] : i = j
=============================================================================
