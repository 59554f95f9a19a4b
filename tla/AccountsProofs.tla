--------------------------- MODULE AccountsProofs ---------------------------
(***************************************************************************)
(* Theorems about Accounts, for any number of handlers, names, invites,    *)
(* sessions, accounts and failures.                                        *)
(***************************************************************************)
EXTENDS AccountsHistory, TLAPS

-----------------------------------------------------------------------------
(* Types.                                                                  *)

(* InHand, for one handler.                                                *)
Fits(r) ==
    /\ r.pc \in RedeemPcs \cup {"lock"} => r.op = "register"
    /\ r.op = "register" => r.code \in Codes
    /\ r.pc \in {"issue", "revoke"} => r.code \in Codes
    /\ r.pc \notin {"idle", "issue", "revoke"} => r.name \in Names

(* The initial state is well typed.                                        *)
LEMMA InitType == Init => TypeOK
<1> SUFFICES ASSUME Init PROVE TypeOK
  OBVIOUS
<1>1. IdleHandler \in HandlerState /\ Fits(IdleHandler)
  BY AccountsAssumption DEF IdleHandler, HandlerState, Fits, RedeemPcs, SignInPcs, AdminPcs, Ops, Roles
<1>2. handler \in [Handlers -> HandlerState] /\ InHand
  BY <1>1 DEF Init, InHand, Fits
<1>3. session \in [Tokens -> SessionRow]
  BY DEF Init, NoSession, SessionRow, Roles
<1>4. account \in [Names -> 0 .. MaxAccounts] /\ nextAccount \in 1 .. MaxAccounts + 1
  BY AccountsAssumption DEF Init
<1> QED
  BY <1>2, <1>3, <1>4, AccountsAssumption DEF Init, TypeOK, Roles, InviteStates, AccountIds

(* Replacing one handler's record by a fitting one keeps InHand.           *)
LEMMA HandlerFits ==
  ASSUME TypeOK, NEW h \in Handlers, NEW r \in HandlerState, Fits(r),
         handler' = [handler EXCEPT ![h] = r]
  PROVE  handler' \in [Handlers -> HandlerState] /\ InHand'
<1>1. \A g \in Handlers : handler'[g] = IF g = h THEN r ELSE handler[g]
  BY DEF TypeOK
<1>2. \A g \in Handlers : Fits(handler'[g])
  BY <1>1 DEF TypeOK, InHand, Fits
<1> QED BY <1>2 DEF TypeOK, InHand, Fits

(* A handler that answers leaves a well-typed state of the handlers.       *)
LEMMA EndsType ==
  ASSUME TypeOK, NEW h \in Handlers, Ends(h)
  PROVE  /\ handler' \in [Handlers -> HandlerState] /\ InHand'
         /\ regMu' \in Handlers \cup {NoHandler}
<1>1. IdleHandler \in HandlerState /\ Fits(IdleHandler)
  BY AccountsAssumption DEF IdleHandler, HandlerState, Fits, RedeemPcs, SignInPcs, AdminPcs, Ops, Roles
<1>2. handler' \in [Handlers -> HandlerState] /\ InHand'
  BY <1>1, HandlerFits DEF Ends
<1> QED BY <1>2 DEF Ends, TypeOK

(* So does one that goes on with a step that fits.                         *)
LEMMA MoveType ==
  ASSUME TypeOK, NEW h \in Handlers, NEW pc, Move(h, pc),
         [handler[h] EXCEPT !.pc = pc] \in HandlerState,
         Fits([handler[h] EXCEPT !.pc = pc])
  PROVE  /\ handler' \in [Handlers -> HandlerState] /\ InHand'
         /\ regMu' \in Handlers \cup {NoHandler}
<1>1. handler' = [handler EXCEPT ![h] = [handler[h] EXCEPT !.pc = pc]]
  BY DEF Move, TypeOK
<1>2. handler' \in [Handlers -> HandlerState] /\ InHand'
  BY <1>1, HandlerFits
<1> QED BY <1>2 DEF Move, TypeOK

(* SetRole keeps the types of both tables.                                 *)
LEMMA SetRoleType ==
  ASSUME TypeOK, NEW n, NEW r \in Roles, SetRole(n, r)
  PROVE  role' \in [Names -> Roles \cup {"none"}] /\ session' \in [Tokens -> SessionRow]
BY DEF TypeOK, SetRole, SessionRow

(* Jellyfin's ids stay within bounds.                                      *)
LEMMA NewAccountType ==
  ASSUME TypeOK, NEW n, NewAccount(n)
  PROVE  /\ account' \in [Names -> 0 .. MaxAccounts]
         /\ nextAccount' \in 1 .. MaxAccounts + 1
         /\ nextAccount \in AccountIds
<1>1. nextAccount \in 1 .. MaxAccounts /\ nextAccount' = nextAccount + 1
  BY DEF NewAccount, AccountIds
<1>2. nextAccount \in 0 .. MaxAccounts /\ nextAccount' \in 1 .. MaxAccounts + 1
  BY <1>1, AccountsAssumption
<1>3. account' \in [Names -> 0 .. MaxAccounts]
  BY <1>2 DEF TypeOK, NewAccount
<1> QED BY <1>1, <1>2, <1>3 DEF AccountIds

(* Time, cookies and Jellyfin's own interface keep the types.              *)
LEMMA WorldType == TypeOK /\ World => TypeOK'
<1> SUFFICES ASSUME TypeOK, World PROVE TypeOK'
  OBVIOUS
<1> USE DEF jellyfinVars, inviteVars
<1>1. CASE \E s \in Tokens : SessionEnds(s)
  BY <1>1 DEF SessionEnds, TypeOK, InHand, SessionRow, NoSession, Roles
<1>2. CASE \E c \in Codes : InviteExpires(c)
  BY <1>2 DEF InviteExpires, TypeOK, InHand, InviteStates
<1>3. CASE \E n \in Names : AddedInJellyfin(n)
  BY <1>3, NewAccountType DEF AddedInJellyfin, TypeOK, InHand
<1> QED BY <1>1, <1>2, <1>3 DEF World

(* A request that arrives starts with a fitting record.                    *)
LEMMA ArrivalType ==
  ASSUME TypeOK, NEW h \in Handlers, Arrives(h)
  PROVE  TypeOK'
<1> USE DEF jellyfinVars, inviteVars, NothingStored, NoCallFailed
<1>1. ASSUME NEW r \in HandlerState, Fits(r), handler' = [handler EXCEPT ![h] = r],
             UNCHANGED regMu, NothingStored, NoCallFailed
      PROVE  TypeOK'
  <2>1. handler' \in [Handlers -> HandlerState] /\ InHand'
    BY <1>1, HandlerFits
  <2> QED BY <1>1, <2>1 DEF TypeOK
<1>4. ASSUME NEW pc \in {"role", "lock", "find", "issue", "revoke"}, NEW op \in Ops,
             NEW n \in Names \cup {NoName}, NEW c \in Codes \cup {NoCode}, NEW k \in Roles,
             pc \in {"role", "lock", "find"} => n \in Names,
             pc \in {"lock", "issue", "revoke"} => c \in Codes,
             op = "register" <=> pc = "lock",
             Serves(h, pc, op, n, c, k)
      PROVE  TypeOK'
  <2> DEFINE r == [pc |-> pc, op |-> op, name |-> n, code |-> c, role |-> k, id |-> 0]
  <2>1. r \in HandlerState /\ Fits(r)
    BY <1>4, AccountsAssumption
    DEF HandlerState, Fits, RedeemPcs, SignInPcs, AdminPcs
  <2>2. handler' = [handler EXCEPT ![h] = r]
    BY <1>4 DEF Serves
  <2>3. UNCHANGED regMu /\ NothingStored /\ NoCallFailed
    BY <1>4 DEF Serves
  <2> QED BY <1>1, <2>1, <2>2, <2>3
<1>2. CASE \E n \in Names : Login(h, n)
  <2>1. \A n \in Names : Default(n) \in Roles
    BY DEF Default, Roles
  <2> QED BY <1>2, <1>4, <2>1 DEF Login, Ops
<1>3. CASE \E c \in Codes, n \in Names : Register(h, c, n)
  BY <1>3, <1>4 DEF Register, Ops, Roles
<1>5. CASE \E s \in Tokens, n \in Names :
              DeleteUser(h, s, n) \/ \E k \in GrantRoles : ChangeRole(h, s, n, k)
  BY <1>4, <1>5, AccountsAssumption DEF DeleteUser, ChangeRole, Ops, Roles
<1>6. CASE \E s \in Tokens, c \in Codes :
              RevokeInvite(h, s, c) \/ \E k \in GrantRoles : IssueInvite(h, s, c, k)
  BY <1>4, <1>6, AccountsAssumption DEF RevokeInvite, IssueInvite, Ops, Roles
<1> QED BY <1>2, <1>3, <1>5, <1>6 DEF Arrives

(* The steps of the handlers keep the types.                               *)
LEMMA StepType ==
  ASSUME TypeOK, NEW h \in Handlers, HandlerStep(h) \/ Abandon(h)
  PROVE  TypeOK'
<1> USE DEF jellyfinVars, inviteVars, NothingStored, NoCallFailed
<1> DEFINE HandlerOK == /\ handler' \in [Handlers -> HandlerState] /\ InHand'
                        /\ regMu' \in Handlers \cup {NoHandler}
           At(pc) == [handler[h] EXCEPT !.pc = pc]
<1>h. /\ handler[h] \in HandlerState /\ Fits(handler[h])
      /\ handler[h].role \in Roles
      /\ handler[h].pc \notin {"idle", "issue", "revoke"} => handler[h].name \in Names
      /\ handler[h].op = "register" => handler[h].code \in Codes
      /\ handler[h].pc \in RedeemPcs => handler[h].code \in Codes
  BY DEF TypeOK, InHand, Fits, HandlerState
<1>e. Ends(h) => HandlerOK
  BY EndsType
<1>m. ASSUME NEW pc \in RedeemPcs \cup SignInPcs \cup AdminPcs, Move(h, pc),
             pc \in RedeemPcs => handler[h].op = "register",
             pc \notin {"issue", "revoke"}, handler[h].name \in Names
      PROVE  HandlerOK
  <2>1. At(pc) \in HandlerState /\ Fits(At(pc))
    BY <1>h, <1>m DEF HandlerState, Fits, RedeemPcs, SignInPcs, AdminPcs
  <2> QED BY <1>m, <2>1, MoveType
<1>r. ASSUME NEW pc \in RedeemPcs \cup SignInPcs \cup AdminPcs, NEW k \in Roles,
             handler' = [handler EXCEPT ![h].pc = pc, ![h].role = k], UNCHANGED regMu,
             pc \in RedeemPcs => handler[h].op = "register",
             pc \notin {"issue", "revoke"}, handler[h].name \in Names
      PROVE  HandlerOK
  <2> DEFINE r == [handler[h] EXCEPT !.pc = pc, !.role = k]
  <2>1. r \in HandlerState /\ Fits(r)
    BY <1>h, <1>r DEF HandlerState, Fits, RedeemPcs, SignInPcs, AdminPcs
  <2>2. handler' = [handler EXCEPT ![h] = r]
    BY <1>r DEF TypeOK
  <2> QED BY <1>r, <2>1, <2>2, HandlerFits DEF TypeOK
<1>f. faults < MaxFaults /\ faults' = faults + 1 => faults' \in 0 .. MaxFaults
  BY AccountsAssumption DEF TypeOK
<1>1. CASE Abandon(h)
  BY <1>1, <1>e, <1>f DEF Abandon, TypeOK
<1>2. CASE ReadRole(h)
  <2>1. CASE KnownRole(handler[h].name)
    <3>1. PICK k \in Roles : k = role[handler[h].name]
      BY <1>2, <1>h, <2>1 DEF ReadRole, KnownRole, TypeOK
    <3>2. /\ handler' = [handler EXCEPT ![h].pc = "session", ![h].role = k]
          /\ UNCHANGED regMu /\ handler[h].name \in Names
      BY <1>2, <1>h, <2>1, <3>1 DEF ReadRole
    <3>3. "session" \in RedeemPcs \cup SignInPcs \cup AdminPcs /\ "session" \notin RedeemPcs
      BY DEF SignInPcs, RedeemPcs, AdminPcs
    <3>4. HandlerOK
      BY <1>r, <3>2, <3>3
    <3> QED BY <1>2, <3>4 DEF ReadRole, TypeOK
  <2>2. CASE ~KnownRole(handler[h].name)
    <3>1. HandlerOK
      BY <1>2, <1>h, <1>m, <2>2 DEF ReadRole, Move, SignInPcs, RedeemPcs, AdminPcs
    <3> QED BY <1>2, <3>1 DEF ReadRole, TypeOK
  <2> QED BY <2>1, <2>2
<1>3. CASE StoreDefault(h)
  <2>1. HandlerOK
    BY <1>3, <1>h, <1>m DEF StoreDefault, SignInPcs, RedeemPcs, AdminPcs
  <2>2. role' \in [Names -> Roles \cup {"none"}] /\ session' \in [Tokens -> SessionRow]
    BY <1>3, <1>h, SetRoleType DEF StoreDefault
  <2> QED BY <1>3, <2>1, <2>2 DEF StoreDefault, TypeOK
<1>4. CASE CreateSession(h)
  <2>1. session' \in [Tokens -> SessionRow]
    BY <1>4, <1>h DEF CreateSession, TypeOK, SessionRow
  <2> QED BY <1>4, <1>e, <2>1 DEF CreateSession, TypeOK
<1>5. CASE LockRegistration(h)
  <2> DEFINE r == [handler[h] EXCEPT !.pc = "check"]
  <2>1. r \in HandlerState /\ Fits(r)
    BY <1>5, <1>h DEF LockRegistration, HandlerState, Fits, RedeemPcs, SignInPcs, AdminPcs
  <2>2. handler' = [handler EXCEPT ![h] = r]
    BY <1>5 DEF LockRegistration, TypeOK
  <2>3. handler' \in [Handlers -> HandlerState] /\ InHand'
    BY <2>1, <2>2, HandlerFits
  <2> QED BY <1>5, <2>3 DEF LockRegistration, TypeOK
<1>6. CASE CheckInvite(h)
  <2>1. handler[h].op = "register" /\ inviteRole[handler[h].code] \in Roles
    BY <1>6, <1>h DEF CheckInvite, TypeOK, Fits, RedeemPcs
  <2>2. HandlerOK
    BY <1>6, <1>h, <1>e, <1>r, <2>1 DEF CheckInvite, RedeemPcs, SignInPcs, AdminPcs
  <2> QED BY <1>6, <2>2 DEF CheckInvite, TypeOK
<1>7. CASE CreateUser(h)
  <2>1. handler[h].op = "register" /\ handler[h].name \in Names
    BY <1>7, <1>h DEF CreateUser, Fits, RedeemPcs
  <2>2. HandlerOK
    BY <1>7, <1>e, <1>m, <2>1 DEF CreateUser, RedeemPcs, SignInPcs, AdminPcs
  <2>3. CASE NewAccount(handler[h].name)
             /\ made' = [made EXCEPT ![handler[h].code] = @ \cup {nextAccount}]
    <3>1. made' \in [Codes -> SUBSET AccountIds]
      BY <2>3, NewAccountType DEF TypeOK
    <3>2. faults' \in 0 .. MaxFaults
      BY <1>7, <1>f DEF CreateUser, TypeOK
    <3> QED BY <1>7, <2>2, <2>3, <3>1, <3>2, NewAccountType DEF CreateUser, TypeOK
  <2>4. CASE NoCallFailed
    BY <1>7, <2>2, <2>4 DEF CreateUser, TypeOK
  <2> QED BY <1>7, <2>3, <2>4 DEF CreateUser
<1>8. CASE UseInvite(h)
  <2>1. handler[h].op = "register" /\ handler[h].name \in Names
    BY <1>8, <1>h DEF UseInvite, Fits, RedeemPcs
  <2>2. HandlerOK
    BY <1>8, <1>e, <1>m, <2>1 DEF UseInvite, RedeemPcs, SignInPcs, AdminPcs
  <2> QED BY <1>8, <2>1, <2>2 DEF UseInvite, TypeOK, InviteStates
<1>9. CASE GrantRole(h)
  <2>1. HandlerOK
    BY <1>9, <1>h, <1>m DEF GrantRole, Fits, RedeemPcs, SignInPcs, AdminPcs
  <2>2. role' \in [Names -> Roles \cup {"none"}] /\ session' \in [Tokens -> SessionRow]
    BY <1>9, <1>h, SetRoleType DEF GrantRole
  <2> QED BY <1>9, <2>1, <2>2 DEF GrantRole, TypeOK
<1>10. CASE SignIn(h)
  <2>1. Default(handler[h].name) \in Roles
    BY DEF Default, Roles
  <2>2. HandlerOK
    BY <1>10, <1>h, <1>e, <1>r, <2>1 DEF SignIn, RedeemPcs, SignInPcs, AdminPcs
  <2> QED BY <1>10, <2>2 DEF SignIn, TypeOK
<1>11. CASE FindUser(h)
  <2> DEFINE r == [handler[h] EXCEPT !.id = account[handler[h].name],
                     !.pc = IF handler[h].op = "delete" THEN "deluser" ELSE "setrole"]
  <2>1. r \in HandlerState /\ Fits(r)
    BY <1>11, <1>h DEF FindUser, TypeOK, HandlerState, Fits, RedeemPcs, SignInPcs, AdminPcs
  <2>2. handler' = [handler EXCEPT ![h] = r] => handler' \in [Handlers -> HandlerState] /\ InHand'
    BY <2>1, HandlerFits
  <2>3. CASE Ends(h)
    BY <1>11, <1>e, <2>3 DEF FindUser, TypeOK
  <2>4. CASE ~Ends(h)
    <3>1. handler' = [handler EXCEPT ![h] = r] /\ UNCHANGED regMu
      BY <1>11, <2>4 DEF FindUser, TypeOK
    <3> QED BY <1>11, <2>2, <3>1 DEF FindUser, TypeOK
  <2> QED BY <2>3, <2>4
<1>12. CASE StoreRole(h)
  <2>1. role' \in [Names -> Roles \cup {"none"}] /\ session' \in [Tokens -> SessionRow]
    BY <1>12, <1>h, SetRoleType DEF StoreRole
  <2> QED BY <1>12, <1>e, <2>1 DEF StoreRole, TypeOK
<1>13. CASE DeleteAccount(h)
  <2>1. HandlerOK
    BY <1>13, <1>h, <1>e, <1>m DEF DeleteAccount, AfterDeletion, RedeemPcs, SignInPcs, AdminPcs
  <2>2. account' \in [Names -> 0 .. MaxAccounts]
    BY <1>13, AccountsAssumption DEF DeleteAccount, TypeOK
  <2>3. faults' \in 0 .. MaxFaults
    BY <1>13, <1>f DEF DeleteAccount, TypeOK
  <2> QED BY <1>13, <2>1, <2>2, <2>3 DEF DeleteAccount, TypeOK
<1>14. CASE DeleteRole(h)
  BY <1>14, <1>e DEF DeleteRole, TypeOK, SessionRow, NoSession, Roles
<1>15. CASE StoreInvite(h)
  BY <1>15, <1>h, <1>e DEF StoreInvite, TypeOK, InviteStates
<1>16. CASE DeleteInvite(h)
  BY <1>16, <1>h, <1>e DEF DeleteInvite, TypeOK, InviteStates
<1> QED
  BY <1>1, <1>2, <1>3, <1>4, <1>5, <1>6, <1>7, <1>8, <1>9, <1>10, <1>11, <1>12, <1>13,
     <1>14, <1>15, <1>16 DEF HandlerStep

(* Every variable keeps its type, and a handler past its first step has    *)
(* the name or the invite it works on.                                     *)
THEOREM TypeCorrect == Spec => []TypeOK
<1>1. TypeOK /\ [Next]_vars => TypeOK'
  <2> SUFFICES ASSUME TypeOK, [Next]_vars PROVE TypeOK'
    OBVIOUS
  <2>1. CASE UNCHANGED vars
    BY <2>1 DEF vars, jellyfinVars, inviteVars, TypeOK, InHand
  <2>2. CASE Next
    BY <2>2, WorldType, ArrivalType, StepType DEF Next
  <2> QED BY <2>1, <2>2
<1> QED BY <1>1, InitType, PTL DEF Spec

-----------------------------------------------------------------------------
(* One user per invite.                                                    *)

(* Between regMu.Lock and the sign-in a registration holds regMu.          *)
LockHeld == \A h \in Handlers : handler[h].pc \in RedeemPcs => regMu = h

(* A code on its way into the table is not there yet and nobody else's.    *)
IssueFresh ==
    \A h \in Handlers : handler[h].pc = "issue" =>
        /\ inviteState[handler[h].code] = "absent"
        /\ \A g \in Handlers : handler[g].pc = "issue" /\ handler[g].code = handler[h].code
                              => g = h

(* Accounts are only created on invites that were in the table.            *)
Issued ==
    /\ \A h \in Handlers : handler[h].pc \in {"create", "use"} =>
          inviteState[handler[h].code] # "absent"
    /\ \A c \in Codes : made[c] # {} => inviteState[c] # "absent"

(* As long as no call failed: nobody creates a second account, and an open *)
(* invite with an account is about to be spent.                            *)
Unspent ==
    faults = 0 =>
        /\ \A h \in Handlers : handler[h].pc = "create" => made[handler[h].code] = {}
        /\ \A c \in Codes : made[c] # {} /\ inviteState[c] = "open" =>
              \E h \in Handlers : handler[h].pc = "use" /\ handler[h].code = c

RedeemInv == LockHeld /\ IssueFresh /\ Issued /\ Unspent /\ OneUserPerInvite

(* A step of a handler changes the record of that handler only, and no     *)
(* failure is forgotten.                                                   *)
LEMMA OneHandlerMoves ==
  ASSUME TypeOK, NEW h \in Handlers, Arrives(h) \/ HandlerStep(h) \/ Abandon(h)
  PROVE  /\ \A g \in Handlers : g # h => handler'[g] = handler[g]
         /\ faults' = 0 => faults = 0
<1> USE DEF jellyfinVars, inviteVars, NothingStored, NoCallFailed, Move, Ends, TypeOK
<1>f. faults \in Nat /\ faults + 1 # 0
  BY AccountsAssumption
<1>1. CASE Arrives(h)
  BY <1>1 DEF Arrives, Serves, Login, Register, ChangeRole, DeleteUser, IssueInvite,
              RevokeInvite
<1>2. CASE Abandon(h)
  BY <1>2, <1>f DEF Abandon
<1>3. CASE ReadRole(h) \/ StoreDefault(h) \/ CreateSession(h)
  BY <1>3 DEF ReadRole, StoreDefault, CreateSession
<1>4. CASE LockRegistration(h) \/ CheckInvite(h) \/ UseInvite(h) \/ GrantRole(h) \/ SignIn(h)
  BY <1>4 DEF LockRegistration, CheckInvite, UseInvite, GrantRole, SignIn
<1>5. CASE CreateUser(h) \/ DeleteAccount(h)
  BY <1>5, <1>f DEF CreateUser, DeleteAccount
<1>6. CASE FindUser(h) \/ StoreRole(h) \/ DeleteRole(h) \/ StoreInvite(h) \/ DeleteInvite(h)
  BY <1>6 DEF FindUser, StoreRole, DeleteRole, StoreInvite, DeleteInvite
<1> QED BY <1>1, <1>2, <1>3, <1>4, <1>5, <1>6 DEF HandlerStep

(* What a handler's step that touches neither invites nor accounts made on *)
(* them, and enters none of the steps the invariant is about, keeps.       *)
LEMMA QuietStep ==
  ASSUME TypeOK, RedeemInv, NEW h \in Handlers,
         \A g \in Handlers : g # h => handler'[g] = handler[g],
         faults' = 0 => faults = 0,
         UNCHANGED <<inviteState, made>>,
         handler[h].pc # "use" \/ faults' # 0 \/ inviteState[handler[h].code] # "open",
         handler'[h].pc \notin {"issue", "create", "use"},
         regMu' = regMu \/ (regMu = h /\ handler'[h].pc = "idle") \/ regMu' = h,
         handler'[h].pc \in RedeemPcs => regMu' = h,
         regMu' = h => regMu \in {h, NoHandler}
  PROVE  RedeemInv'
<1> USE AccountsAssumption DEF RedeemPcs
<1>1. LockHeld'
  BY DEF RedeemInv, LockHeld
<1>2. IssueFresh'
  BY DEF RedeemInv, IssueFresh
<1>3. Issued'
  BY DEF RedeemInv, Issued
<1>4. Unspent'
  BY DEF RedeemInv, Unspent
<1>5. OneUserPerInvite'
  BY DEF RedeemInv, OneUserPerInvite
<1> QED BY <1>1, <1>2, <1>3, <1>4, <1>5 DEF RedeemInv

(* A request that arrives keeps the invariant: a new code is fresh.        *)
LEMMA ArrivalRedeem ==
  ASSUME TypeOK, RedeemInv, NEW h \in Handlers, Arrives(h)
  PROVE  RedeemInv'
<1> USE DEF jellyfinVars, inviteVars, NothingStored, NoCallFailed
<1>0. /\ \A g \in Handlers : g # h => handler'[g] = handler[g]
      /\ faults' = 0 => faults = 0
  BY OneHandlerMoves
<1>1. ASSUME NEW pc, NEW op, NEW n, NEW c, NEW r, Serves(h, pc, op, n, c, r),
             pc \notin RedeemPcs \cup {"issue"}
      PROVE  RedeemInv'
  <2>1. handler[h].pc = "idle" /\ handler'[h].pc = pc
    BY <1>1 DEF Serves, TypeOK
  <2> QED BY <1>0, <1>1, <2>1, QuietStep DEF Serves, RedeemPcs
<1>2. CASE \E n \in Names : Login(h, n)
  BY <1>1, <1>2 DEF Login, RedeemPcs
<1>3. CASE \E c \in Codes, n \in Names : Register(h, c, n)
  BY <1>1, <1>3 DEF Register, RedeemPcs
<1>4. CASE \E s \in Tokens, n \in Names :
              DeleteUser(h, s, n) \/ \E r \in GrantRoles : ChangeRole(h, s, n, r)
  BY <1>1, <1>4 DEF DeleteUser, ChangeRole, RedeemPcs
<1>5. CASE \E s \in Tokens, c \in Codes : RevokeInvite(h, s, c)
  BY <1>1, <1>5 DEF RevokeInvite, RedeemPcs
<1>6. CASE \E s \in Tokens, c \in Codes, r \in GrantRoles : IssueInvite(h, s, c, r)
  <2> PICK c \in Codes : Fresh(c) /\ \E r : Serves(h, "issue", "invite", NoName, c, r)
    BY <1>6 DEF IssueInvite
  <2>1. handler[h].pc = "idle" /\ handler'[h].pc = "issue" /\ handler'[h].code = c
    BY DEF Serves, TypeOK
  <2>2. LockHeld'
    BY <1>0, <2>1 DEF RedeemInv, LockHeld, RedeemPcs, Serves
  <2>3. IssueFresh'
    BY <1>0, <2>1 DEF RedeemInv, IssueFresh, Fresh, Serves
  <2>4. Issued'
    BY <1>0, <2>1 DEF RedeemInv, Issued, Serves
  <2>5. Unspent'
    BY <1>0, <2>1 DEF RedeemInv, Unspent, Serves
  <2>6. OneUserPerInvite'
    BY DEF RedeemInv, OneUserPerInvite, Serves
  <2> QED BY <2>2, <2>3, <2>4, <2>5, <2>6 DEF RedeemInv
<1> QED BY <1>2, <1>3, <1>4, <1>5, <1>6 DEF Arrives

(* The steps that have nothing to do with the accounts on invites.         *)
LEMMA OtherRedeem ==
  ASSUME TypeOK, RedeemInv, NEW h \in Handlers,
         \/ ReadRole(h) \/ StoreDefault(h) \/ CreateSession(h)
         \/ LockRegistration(h) \/ GrantRole(h) \/ SignIn(h)
         \/ FindUser(h) \/ StoreRole(h) \/ DeleteAccount(h) \/ DeleteRole(h)
         \/ Abandon(h)
  PROVE  RedeemInv'
<1> USE DEF jellyfinVars, inviteVars, NothingStored, NoCallFailed
<1>0. /\ \A g \in Handlers : g # h => handler'[g] = handler[g]
      /\ faults' = 0 => faults = 0
  BY OneHandlerMoves DEF HandlerStep
<1>1. UNCHANGED <<inviteState, made>>
  BY DEF ReadRole, StoreDefault, CreateSession, LockRegistration, GrantRole, SignIn,
         FindUser, StoreRole, DeleteAccount, DeleteRole, Abandon
<1>2. handler[h].pc # "use" \/ faults' # 0
  BY AccountsAssumption DEF ReadRole, StoreDefault, CreateSession, LockRegistration,
     GrantRole, SignIn, FindUser, StoreRole, DeleteAccount, DeleteRole, Abandon, TypeOK
<1>3. CASE Ends(h)
  <2>1. handler'[h].pc = "idle"
    BY <1>3 DEF Ends, TypeOK, IdleHandler
  <2>2. /\ regMu' = regMu \/ regMu = h
        /\ regMu' = h => regMu \in {h, NoHandler}
    BY <1>3 DEF Ends
  <2> QED BY <1>0, <1>1, <1>2, <2>1, <2>2, QuietStep DEF RedeemPcs
<1>4. CASE LockRegistration(h)
  <2>1. handler'[h].pc = "check" /\ regMu' = h /\ regMu = NoHandler
    BY <1>4 DEF LockRegistration, LockFree, TypeOK
  <2> QED BY <1>0, <1>1, <1>2, <2>1, QuietStep DEF RedeemPcs
<1>5. CASE GrantRole(h)
  <2>1. handler'[h].pc = "signin" /\ regMu' = regMu /\ regMu = h
    BY <1>5 DEF GrantRole, Move, TypeOK, RedeemInv, LockHeld, RedeemPcs
  <2> QED BY <1>0, <1>1, <1>2, <2>1, QuietStep DEF RedeemPcs
<1>6. CASE ~Ends(h) /\ ~LockRegistration(h) /\ ~GrantRole(h)
  <2> DEFINE Goes == /\ handler'[h].pc \in {"role", "session", "default", "deluser",
                                             "setrole", "delrole"}
                     /\ regMu' = regMu
  <2>1. ReadRole(h) => Goes
    BY DEF ReadRole, TypeOK
  <2>2. StoreDefault(h) => Goes
    BY DEF StoreDefault, Move, TypeOK
  <2>r. handler[h] \in HandlerState
    BY DEF TypeOK
  <2>3. ASSUME SignIn(h) PROVE Goes
    <3> PICK r : /\ handler' = [handler EXCEPT ![h].pc = "role", ![h].role = r]
                 /\ regMu' = regMu
      BY <1>6, <2>3 DEF SignIn
    <3>1. handler'[h] = [handler[h] EXCEPT !.pc = "role", !.role = r]
      BY DEF TypeOK
    <3> QED BY <2>r, <3>1 DEF HandlerState
  <2>4. ASSUME FindUser(h) PROVE Goes
    <3> PICK i, pc : /\ pc \in {"deluser", "setrole"} /\ regMu' = regMu
                     /\ handler' = [handler EXCEPT ![h].id = i, ![h].pc = pc]
      BY <1>6, <2>4 DEF FindUser
    <3>1. handler'[h] = [handler[h] EXCEPT !.id = i, !.pc = pc]
      BY DEF TypeOK
    <3> QED BY <2>r, <3>1 DEF HandlerState
  <2>5. ASSUME DeleteAccount(h) PROVE Goes
    <3>1. Move(h, "delrole")
      BY <1>6, <2>5 DEF DeleteAccount, AfterDeletion
    <3> QED BY <3>1 DEF Move, TypeOK
  <2>6. Goes
    BY <1>6, <2>1, <2>2, <2>3, <2>4, <2>5 DEF CreateSession, StoreRole, DeleteRole, Abandon
  <2> QED BY <1>0, <1>1, <1>2, <2>6, QuietStep DEF RedeemPcs
<1> QED BY <1>3, <1>4, <1>5, <1>6

(* The steps on invites: what liveInvite saw, CreateUser and UseInvite     *)
(* rely on, because no other registration runs in between.                 *)
LEMMA InviteRedeem ==
  ASSUME TypeOK, RedeemInv, NEW h \in Handlers,
         \/ CheckInvite(h) \/ CreateUser(h) \/ UseInvite(h)
         \/ StoreInvite(h) \/ DeleteInvite(h)
  PROVE  RedeemInv'
<1> USE AccountsAssumption DEF NothingStored, NoCallFailed, jellyfinVars, inviteVars
<1> PICK c : c = handler[h].code
  OBVIOUS
<1>0. /\ \A g \in Handlers : g # h => handler'[g] = handler[g]
      /\ faults' = 0 => faults = 0
      /\ handler[h].pc \in RedeemPcs \cup {"issue", "revoke"} => c \in Codes
  <2>1. HandlerStep(h)
    BY DEF HandlerStep
  <2> QED BY <2>1, OneHandlerMoves DEF TypeOK, InHand
<1>e. Ends(h) => handler'[h].pc = "idle" /\ (regMu' = regMu \/ regMu = h)
                 /\ (regMu' = h => regMu \in {h, NoHandler})
  BY DEF Ends, TypeOK, IdleHandler
<1>q. ASSUME Ends(h), UNCHANGED <<inviteState, made>>,
             handler[h].pc # "use" \/ inviteState[c] # "open"
      PROVE  RedeemInv'
  BY <1>0, <1>e, <1>q, QuietStep DEF RedeemPcs
<1>h. handler[h].pc \in RedeemPcs =>
        /\ regMu = h
        /\ \A g \in Handlers : g # h => handler[g].pc \notin RedeemPcs
  BY DEF RedeemInv, LockHeld
<1>1. CASE CheckInvite(h)
  <2>1. CASE ~Ends(h)
    <3>a. /\ handler[h].pc = "check" /\ inviteState[c] = "open"
          /\ handler' = [handler EXCEPT ![h].pc = "create", ![h].role = inviteRole[c]]
          /\ UNCHANGED <<regMu, inviteState, made, faults>>
      BY <1>1, <2>1 DEF CheckInvite
    <3>b. handler[h] \in HandlerState
      BY DEF TypeOK
    <3>c. handler'[h] = [handler[h] EXCEPT !.pc = "create", !.role = inviteRole[c]]
      BY <3>a DEF TypeOK
    <3>d. handler'[h].pc = "create" /\ handler'[h].code = c
      BY <3>b, <3>c DEF HandlerState
    <3>e. c \in Codes
      BY <1>0, <3>a DEF RedeemPcs
    <3>1. /\ handler[h].pc = "check" /\ c \in Codes /\ inviteState[c] = "open"
          /\ handler'[h].pc = "create" /\ handler'[h].code = c
          /\ UNCHANGED <<regMu, inviteState, made, faults>>
      BY <3>a, <3>d, <3>e
    <3>2. LockHeld' /\ IssueFresh' /\ Issued' /\ OneUserPerInvite'
      BY <1>0, <1>h, <3>1
      DEF RedeemInv, LockHeld, IssueFresh, Issued, OneUserPerInvite, RedeemPcs
    <3>3. faults = 0 => made[c] = {}
      BY <1>h, <3>1 DEF RedeemInv, Unspent, RedeemPcs
    <3>4. Unspent'
      BY <1>0, <1>h, <3>1, <3>3 DEF RedeemInv, Unspent, RedeemPcs
    <3> QED BY <3>2, <3>4 DEF RedeemInv
  <2>2. CASE Ends(h)
    BY <1>1, <1>q, <2>2 DEF CheckInvite
  <2> QED BY <2>1, <2>2
<1>2. CASE CreateUser(h)
  <2>1. CASE Ends(h) /\ UNCHANGED made
    BY <1>2, <1>q, <2>1 DEF CreateUser
  <2>2. CASE made' # made
    <3>1. /\ handler[h].pc = "create" /\ c \in Codes /\ UNCHANGED inviteState
          /\ made' = [made EXCEPT ![c] = @ \cup {nextAccount}]
      BY <1>0, <1>2, <2>2 DEF CreateUser, RedeemPcs
    <3>2. \/ faults' # 0 /\ Ends(h)
          \/ Move(h, "use") /\ UNCHANGED faults
      BY <1>2, <2>2 DEF CreateUser, TypeOK
    <3>3. /\ handler'[h].pc \in {"use", "idle"}
          /\ handler'[h].pc = "use" => handler'[h].code = c /\ regMu' = regMu
          /\ regMu' = regMu \/ handler'[h].pc = "idle"
          /\ faults' = 0 => handler'[h].pc = "use"
      <4>1. CASE faults' # 0 /\ Ends(h)
        BY <1>e, <4>1
      <4>2. CASE Move(h, "use") /\ UNCHANGED faults
        BY <4>2 DEF Move, TypeOK
      <4> QED BY <3>2, <4>1, <4>2
    <3>4. LockHeld' /\ IssueFresh'
      BY <1>0, <1>h, <3>1, <3>3 DEF RedeemInv, LockHeld, IssueFresh, RedeemPcs
    <3>5. inviteState[c] # "absent"
      BY <3>1 DEF RedeemInv, Issued
    <3>6. \A d \in Codes : made'[d] = IF d = c THEN made[c] \cup {nextAccount} ELSE made[d]
      BY <3>1 DEF TypeOK
    <3>7. Issued'
      BY <1>0, <3>1, <3>3, <3>5, <3>6 DEF RedeemInv, Issued
    <3>8. faults' = 0 => made[c] = {}
      BY <1>0, <3>1 DEF RedeemInv, Unspent
    <3>9. OneUserPerInvite'
      BY <1>0, <3>6, <3>8 DEF RedeemInv, OneUserPerInvite
    <3>10. Unspent'
      BY <1>0, <1>h, <3>1, <3>3, <3>6 DEF RedeemInv, Unspent, RedeemPcs
    <3> QED BY <3>4, <3>7, <3>9, <3>10 DEF RedeemInv
  <2>3. CASE UNCHANGED made /\ ~Ends(h)
    <3>1. nextAccount \in made[c] /\ handler[h].pc = "create" /\ c \in Codes
      BY <1>0, <1>2, <2>3 DEF CreateUser, TypeOK, RedeemPcs
    <3>2. faults # 0
      BY <3>1 DEF RedeemInv, Unspent
    <3>3. Move(h, "use") /\ UNCHANGED <<faults, inviteState>>
      BY <1>2, <2>3 DEF CreateUser
    <3>4. handler'[h].pc = "use" /\ handler'[h].code = c /\ regMu' = regMu
      BY <3>3 DEF Move, TypeOK
    <3>5. inviteState[c] # "absent"
      BY <3>1 DEF RedeemInv, Issued
    <3>6. LockHeld' /\ IssueFresh' /\ Issued' /\ OneUserPerInvite'
      BY <1>0, <1>h, <2>3, <3>1, <3>2, <3>3, <3>4, <3>5
      DEF RedeemInv, LockHeld, IssueFresh, Issued, OneUserPerInvite, RedeemPcs
    <3> QED BY <3>2, <3>3, <3>6 DEF RedeemInv, Unspent
  <2> QED BY <2>1, <2>2, <2>3
<1>3. CASE UseInvite(h)
  <2>1. CASE ~Usable(c)
    <3>1. Ends(h) /\ UNCHANGED <<inviteState, made>> /\ inviteState[c] # "open"
      BY <1>3, <2>1 DEF UseInvite, Usable
    <3> QED BY <1>q, <3>1
  <2>2. CASE Usable(c)
    <3>a. /\ handler[h].pc = "use" /\ inviteState[c] = "open"
          /\ inviteState' = [inviteState EXCEPT ![c] = "used"]
          /\ UNCHANGED <<made, faults>>
          /\ Move(h, "grant")
      BY <1>3, <2>2 DEF UseInvite, Usable
    <3>b. handler'[h].pc = "grant" /\ regMu' = regMu
      BY <3>a DEF Move, TypeOK
    <3>c. c \in Codes
      BY <1>0, <3>a DEF RedeemPcs
    <3>1. /\ handler[h].pc = "use" /\ c \in Codes /\ inviteState[c] = "open"
          /\ inviteState' = [inviteState EXCEPT ![c] = "used"]
          /\ UNCHANGED <<made, faults>>
          /\ handler'[h].pc = "grant" /\ regMu' = regMu
      BY <3>a, <3>b, <3>c
    <3>2. \A d \in Codes : inviteState'[d] = IF d = c THEN "used" ELSE inviteState[d]
      BY <3>1 DEF TypeOK
    <3>3. \A g \in Handlers : g # h => handler'[g].pc \notin RedeemPcs
      BY <1>0, <1>h, <3>1 DEF RedeemPcs
    <3>4. LockHeld'
      BY <1>h, <3>1, <3>3 DEF LockHeld, RedeemPcs
    <3>5. \A g \in Handlers : handler'[g].pc = "issue" =>
             g # h /\ handler[g].pc = "issue" /\ handler[g].code \in Codes
      BY <1>0, <3>1 DEF TypeOK, InHand
    <3>6. IssueFresh'
      BY <1>0, <3>1, <3>2, <3>5 DEF RedeemInv, IssueFresh
    <3>7. Issued'
      BY <3>1, <3>2, <3>3 DEF RedeemInv, Issued, RedeemPcs
    <3>8. Unspent'
      BY <1>h, <3>1, <3>2, <3>3 DEF RedeemInv, Unspent, RedeemPcs
    <3>9. OneUserPerInvite'
      BY <3>1 DEF RedeemInv, OneUserPerInvite
    <3> QED BY <3>4, <3>6, <3>7, <3>8, <3>9 DEF RedeemInv
  <2> QED BY <2>1, <2>2
<1>4. ASSUME NEW s \in InviteStates \ {"absent"}, c \in Codes, Ends(h),
             s = "open" => handler[h].pc = "issue",
             handler[h].pc \in {"issue", "revoke"},
             handler[h].pc = "revoke" => inviteState[c] # "absent",
             inviteState' = [inviteState EXCEPT ![c] = s], UNCHANGED <<made, faults>>
      PROVE  RedeemInv'
  <2>1. \A d \in Codes : inviteState'[d] = IF d = c THEN s ELSE inviteState[d]
    BY <1>4 DEF TypeOK
  <2>2. \A g \in Handlers : handler'[g].pc # "idle" => g # h /\ handler'[g] = handler[g]
    BY <1>0, <1>4, <1>e
  <2>3. LockHeld'
    BY <1>4, <1>e, <2>2 DEF RedeemInv, LockHeld, RedeemPcs, Ends
  <2>4. \A g \in Handlers : handler'[g].pc \in {"create", "use", "issue"} =>
           handler'[g].code \in Codes
    BY <2>2 DEF TypeOK, InHand, RedeemPcs
  <2>5. Issued'
    BY <1>4, <2>1, <2>2, <2>4 DEF RedeemInv, Issued
  <2>6. OneUserPerInvite'
    BY <1>4 DEF RedeemInv, OneUserPerInvite
  <2>7. handler[h].pc = "issue" => inviteState[c] = "absent" /\ made[c] = {}
    BY <1>4 DEF RedeemInv, IssueFresh, Issued
  <2>8. Unspent'
    BY <1>0, <1>4, <2>1, <2>2, <2>4, <2>7 DEF RedeemInv, Unspent
  <2>9. IssueFresh'
    <3>1. ASSUME NEW g \in Handlers, handler'[g].pc = "issue"
          PROVE  /\ g # h /\ handler[g].pc = "issue" /\ handler'[g] = handler[g]
                 /\ handler[g].code \in Codes \ {c}
      <4>1. g # h /\ handler'[g] = handler[g]
        BY <2>2, <3>1
      <4>2. handler[g].pc = "issue" /\ handler[g].code \in Codes
        BY <2>4, <3>1, <4>1
      <4> QED BY <1>4, <4>1, <4>2 DEF RedeemInv, IssueFresh
    <3> QED BY <2>1, <3>1 DEF RedeemInv, IssueFresh
  <2> QED BY <2>3, <2>5, <2>6, <2>8, <2>9 DEF RedeemInv
<1>5. CASE StoreInvite(h)
  <2>1. "open" \in InviteStates \ {"absent"}
    BY DEF InviteStates
  <2>2. /\ handler[h].pc = "issue" /\ Ends(h) /\ UNCHANGED <<made, faults>>
        /\ inviteState' = [inviteState EXCEPT ![c] = "open"]
    BY <1>5 DEF StoreInvite
  <2> QED BY <1>0, <1>4, <2>1, <2>2
<1>6. CASE DeleteInvite(h)
  <2>1. CASE inviteState[c] = "absent"
    BY <1>6, <1>q, <2>1 DEF DeleteInvite
  <2>2. CASE inviteState[c] # "absent"
    BY <1>0, <1>4, <1>6, <2>2 DEF DeleteInvite, InviteStates
  <2> QED BY <2>1, <2>2
<1> QED BY <1>1, <1>2, <1>3, <1>5, <1>6

(* Nobody has an account on an invite at the start.                        *)
LEMMA InitRedeem == Init => RedeemInv
<1> SUFFICES ASSUME Init PROVE RedeemInv
  OBVIOUS
<1>1. \A h \in Handlers : handler[h].pc = "idle"
  BY DEF Init, IdleHandler
<1>2. \A c \in Codes : made[c] = {}
  BY DEF Init
<1> QED BY <1>1, <1>2 DEF RedeemInv, LockHeld, IssueFresh, Issued, Unspent,
                          OneUserPerInvite, RedeemPcs

(* Time, cookies and Jellyfin's own interface keep the invariant.          *)
LEMMA WorldRedeem ==
  ASSUME TypeOK, RedeemInv, World
  PROVE  RedeemInv'
<1> USE DEF jellyfinVars, inviteVars
<1>1. handler' = handler /\ regMu' = regMu /\ made' = made /\ faults' = faults
  BY DEF World, SessionEnds, InviteExpires, AddedInJellyfin
<1>2. \/ UNCHANGED inviteState
      \/ \E c \in Codes : /\ inviteState[c] = "open"
                          /\ inviteState' = [inviteState EXCEPT ![c] = "expired"]
  BY DEF World, SessionEnds, InviteExpires, AddedInJellyfin
<1>3. ASSUME NEW c \in Codes
      PROVE  /\ inviteState[c] = "absent" => inviteState'[c] = "absent"
             /\ inviteState[c] # "absent" => inviteState'[c] # "absent"
             /\ inviteState'[c] = "open" => inviteState[c] = "open"
  BY <1>2 DEF TypeOK
<1>4. \A h \in Handlers : handler[h].pc \in {"create", "use", "issue"} =>
         handler[h].code \in Codes
  BY DEF TypeOK, InHand, RedeemPcs
<1>5. LockHeld' /\ OneUserPerInvite'
  BY <1>1 DEF RedeemInv, LockHeld, OneUserPerInvite
<1>6. IssueFresh'
  BY <1>1, <1>3, <1>4 DEF RedeemInv, IssueFresh
<1>7. Issued'
  BY <1>1, <1>3, <1>4 DEF RedeemInv, Issued
<1>8. Unspent'
  BY <1>1, <1>3 DEF RedeemInv, Unspent
<1> QED BY <1>5, <1>6, <1>7, <1>8 DEF RedeemInv

(* Every step keeps the invariant.                                         *)
LEMMA NextRedeem ==
  ASSUME TypeOK, RedeemInv, [Next]_vars
  PROVE  RedeemInv'
<1>1. CASE World
  BY <1>1, WorldRedeem
<1>2. ASSUME NEW h \in Handlers, Arrives(h) \/ HandlerStep(h) \/ Abandon(h)
      PROVE  RedeemInv'
  BY <1>2, ArrivalRedeem, OtherRedeem, InviteRedeem DEF HandlerStep
<1>3. CASE UNCHANGED vars
  BY <1>3 DEF vars, jellyfinVars, inviteVars, RedeemInv, LockHeld, IssueFresh, Issued,
              Unspent, OneUserPerInvite
<1> QED BY <1>1, <1>2, <1>3 DEF Next

(* regMu does what its comment says: as long as no call fails between the  *)
(* creation of a user and UseInvite, no invite has two Jellyfin users.     *)
THEOREM OneUser == Spec => []OneUserPerInvite
<1>1. RedeemInv => OneUserPerInvite
  BY DEF RedeemInv
<1>2. TypeOK /\ RedeemInv /\ [Next]_vars => RedeemInv'
  BY NextRedeem
<1> QED BY <1>1, <1>2, InitRedeem, TypeCorrect, PTL DEF Spec

-----------------------------------------------------------------------------
(* The invites table implements InviteLifecycle.                           *)

(* A step maps to one of the invite's, or to none.                         *)
LEMMA InviteStep ==
  ASSUME TypeOK, IssueFresh, [Next]_vars
  PROVE  [Invites!Next]_Invites!inviteVars
<1> SUFFICES ASSUME ~UNCHANGED <<inviteState, usedBy>> PROVE Invites!Next
  BY DEF Invites!inviteVars
<1> USE DEF Invites!Next, Invites!Move
<1>1. CASE World
  <2> PICK c \in Codes : InviteExpires(c)
    BY <1>1 DEF World, SessionEnds, AddedInJellyfin, inviteVars
  <2>1. Invites!Expire(c)
    BY DEF InviteExpires, Invites!Expire
  <2> QED BY <2>1
<1>2. ASSUME NEW h \in Handlers, Arrives(h) \/ HandlerStep(h) \/ Abandon(h)
      PROVE  Invites!Next
  <2>1. UseInvite(h) \/ StoreInvite(h) \/ DeleteInvite(h)
    <3> USE DEF inviteVars, NothingStored
    <3>1. ~Arrives(h) /\ ~Abandon(h)
      BY DEF Arrives, Serves, Login, Register, ChangeRole, DeleteUser, IssueInvite,
             RevokeInvite, Abandon
    <3>2. ~ReadRole(h) /\ ~StoreDefault(h) /\ ~CreateSession(h) /\ ~LockRegistration(h)
          /\ ~CheckInvite(h) /\ ~CreateUser(h) /\ ~GrantRole(h) /\ ~SignIn(h)
      BY DEF ReadRole, StoreDefault, CreateSession, LockRegistration, CheckInvite,
             CreateUser, GrantRole, SignIn
    <3>3. ~FindUser(h) /\ ~StoreRole(h) /\ ~DeleteAccount(h) /\ ~DeleteRole(h)
      BY DEF FindUser, StoreRole, DeleteAccount, DeleteRole
    <3> QED BY <1>2, <3>1, <3>2, <3>3 DEF HandlerStep
  <2> PICK c : c = handler[h].code
    OBVIOUS
  <2>2. c \in Codes /\ handler[h] \in HandlerState
    BY <2>1 DEF UseInvite, StoreInvite, DeleteInvite, TypeOK, InHand, RedeemPcs
  <2>3. CASE UseInvite(h)
    <3>1. handler[h].name \in Names
      BY <2>3 DEF UseInvite, TypeOK, InHand
    <3>2. Invites!Redeem(c)
      BY <2>3, <3>1 DEF UseInvite, Usable, Invites!Redeem
    <3> QED BY <2>2, <3>2
  <2>4. CASE StoreInvite(h)
    <3>1. Invites!Issue(c)
      BY <2>4 DEF StoreInvite, IssueFresh, Invites!Issue
    <3> QED BY <2>2, <3>1
  <2>5. CASE DeleteInvite(h)
    <3>1. /\ inviteState' = [inviteState EXCEPT ![c] = "deleted"] /\ UNCHANGED usedBy
          /\ inviteState[c] # "absent"
      BY <2>5 DEF DeleteInvite
    <3>2. inviteState[c] # "deleted"
      BY <3>1 DEF TypeOK
    <3>3. inviteState[c] \in {"open", "expired", "used"}
      BY <2>2, <3>1, <3>2 DEF TypeOK, InviteStates
    <3>4. Invites!Revoke(c)
      BY <3>1, <3>3 DEF Invites!Revoke
    <3> QED BY <2>2, <3>4
  <2> QED BY <2>1, <2>3, <2>4, <2>5
<1>3. CASE UNCHANGED vars
  BY <1>3 DEF vars, inviteVars
<1> QED BY <1>1, <1>2, <1>3 DEF Next

(* UseInvite's WHERE clause spends only an open invite, an invite is used  *)
(* by one name and never opens again, whatever handlers do in between.     *)
THEOREM AccountsImplementsInvites == Spec => InviteLifecycle
<1>1. Init => Invites!Init
  BY DEF Init, Invites!Init
<1>2. TypeOK /\ RedeemInv /\ [Next]_vars => RedeemInv'
  BY NextRedeem
<1>3. TypeOK /\ RedeemInv /\ [Next]_vars => [Invites!Next]_Invites!inviteVars
  BY InviteStep DEF RedeemInv
<1> QED BY <1>1, <1>2, <1>3, InitRedeem, TypeCorrect, PTL
        DEF Spec, InviteLifecycle, Invites!Spec

-----------------------------------------------------------------------------
(* What may be relied upon for a name that no two handlers work on at once. *)

(* An invite that is used up was used by somebody.                         *)
UsedByKnown == \A c \in Codes : inviteState[c] = "used" => usedBy[c] \in Names

(* A live session is somebody's.                                           *)
Known == \A s \in Tokens : session[s] = NoSession \/ session[s].name \in Names

(* The two promises, for one name.                                         *)
FollowsOn(n) == \A s \in Tokens : session[s].name = n => session[s].role = role[n]
OrphanlessOn(n) ==
    faults = 0 /\ (role[n] # "none" \/ \E s \in Tokens : session[s].name = n) =>
        \/ account[n] # 0
        \/ \E h \in Handlers : handler[h].pc = "delrole" /\ handler[h].name = n
AgreesOn(n) == FollowsOn(n) /\ OrphanlessOn(n)

(* What a handler has read still holds when it acts on it: the role for    *)
(* its session, that there was none, and the account behind the name.      *)
Ready(h) ==
    /\ handler[h].pc = "session" => handler[h].role = role[handler[h].name]
    /\ handler[h].pc = "default" => role[handler[h].name] = "none"
    /\ handler[h].pc \in {"role", "default", "session", "use", "grant", "setrole"} =>
           account[handler[h].name] # 0
    /\ faults = 0 /\ handler[h].pc \in {"use", "grant"} => role[handler[h].name] = "none"
Prepared(h) == handler[h].name \notin crowded => Ready(h)

(* There is an administrator besides the user a handler is about to demote *)
(* or delete.                                                              *)
OtherAdmin(h) == \E a \in Names : a # handler[h].name /\ role[a] = "admin"
Guarded(h) == faults = 0 /\ crowded = {} /\ ~rivals /\ Demotes(h) => OtherAdmin(h)

Recorded == Crowd \subseteq crowded /\ (Meet => rivals)

HistoryInv ==
    /\ Recorded
    /\ UsedByKnown /\ Known
    /\ \A n \in Names \ crowded : AgreesOn(n)
    /\ \A h \in Handlers : Prepared(h) /\ Guarded(h)

(* Nobody else works on a name that has not been crowded.                  *)
LEMMA AloneOn ==
  ASSUME Recorded, NEW n \in Names \ crowded, NEW g \in Handlers, NEW h \in Handlers,
         g # h, WorksOn(g, n)
  PROVE  ~WorksOn(h, n)
BY DEF Recorded, Crowd

(* A handler that is idle begins, and one that is not idle has begun.      *)
LEMMA OnlyArrivals ==
  ASSUME TypeOK, NEW h \in Handlers, handler[h].pc = "idle"
  PROVE  ~HandlerStep(h) /\ ~Abandon(h)
BY DEF HandlerStep, ReadRole, StoreDefault, CreateSession, LockRegistration, CheckInvite,
       CreateUser, UseInvite, GrantRole, SignIn, FindUser, StoreRole, DeleteAccount,
       DeleteRole, StoreInvite, DeleteInvite, Abandon

(* The steps that change a role, and when they do.                         *)
LEMMA RoleChanges ==
  ASSUME TypeOK, [Next]_vars, NEW n \in Names, role'[n] # role[n]
  PROVE  \E h \in Handlers :
            /\ handler[h].name = n
            /\ handler[h].pc \in {"default", "grant", "setrole", "delrole"}
<1> USE DEF jellyfinVars, inviteVars, NothingStored
<1>1. ~UNCHANGED vars /\ ~World
  BY DEF vars, World, SessionEnds, InviteExpires, AddedInJellyfin
<1>2. PICK h \in Handlers : Arrives(h) \/ HandlerStep(h) \/ Abandon(h)
  BY <1>1 DEF Next
<1>3. ~Arrives(h)
  BY DEF Arrives, Serves, Login, Register, ChangeRole, DeleteUser, IssueInvite, RevokeInvite
<1>4. ~Abandon(h) /\ ~ReadRole(h) /\ ~CreateSession(h) /\ ~LockRegistration(h) /\ ~CheckInvite(h)
      /\ ~CreateUser(h) /\ ~UseInvite(h) /\ ~SignIn(h)
  BY DEF Abandon, ReadRole, CreateSession, LockRegistration, CheckInvite, CreateUser,
         UseInvite, SignIn
<1>5. ~FindUser(h) /\ ~DeleteAccount(h) /\ ~StoreInvite(h) /\ ~DeleteInvite(h)
  BY DEF FindUser, DeleteAccount, StoreInvite, DeleteInvite
<1>6. StoreDefault(h) \/ GrantRole(h) \/ StoreRole(h) \/ DeleteRole(h)
  BY <1>2, <1>3, <1>4, <1>5 DEF HandlerStep
<1> QED BY <1>6 DEF TypeOK, StoreDefault, GrantRole, StoreRole, DeleteRole, SetRole

(* A handler's step leaves the rows of all other names alone, and a        *)
(* request's arrival leaves every row alone.                               *)
LEMMA OnlyItsName ==
  ASSUME TypeOK, NEW h \in Handlers, Arrives(h) \/ HandlerStep(h) \/ Abandon(h),
         NEW n \in Names, ~WorksOn(h, n)
  PROVE  /\ role'[n] = role[n]
         /\ account'[n] = account[n]
         /\ \A s \in Tokens : session'[s].name = n => session'[s] = session[s]
<1> USE DEF jellyfinVars, inviteVars, NothingStored, NoCallFailed
<1> DEFINE Goal == /\ role'[n] = role[n]
                   /\ account'[n] = account[n]
                   /\ \A s \in Tokens : session'[s].name = n => session'[s] = session[s]
<1>1. ASSUME UNCHANGED <<account, role, session>> PROVE Goal
  BY <1>1
<1>2. CASE Arrives(h)
  BY <1>1, <1>2 DEF Arrives, Serves, Login, Register, ChangeRole, DeleteUser, IssueInvite,
                    RevokeInvite
<1>3. CASE Abandon(h)
  BY <1>1, <1>3 DEF Abandon
<1>4. CASE ReadRole(h) \/ LockRegistration(h) \/ CheckInvite(h) \/ UseInvite(h) \/ SignIn(h)
  BY <1>1, <1>4 DEF ReadRole, LockRegistration, CheckInvite, UseInvite, SignIn
<1>5. CASE FindUser(h) \/ StoreInvite(h) \/ DeleteInvite(h)
  BY <1>1, <1>5 DEF FindUser, StoreInvite, DeleteInvite
<1>6. CASE HandlerStep(h) /\ handler[h].name # n
  <2>1. ASSUME NEW r \in Roles, SetRole(handler[h].name, r), UNCHANGED account PROVE Goal
    <3>1. role'[n] = role[n] /\ account'[n] = account[n]
      BY <1>6, <2>1 DEF SetRole, TypeOK
    <3>2. ASSUME NEW s \in Tokens, session'[s].name = n PROVE session'[s] = session[s]
      <4>1. session'[s] = IF session[s].name = handler[h].name
                          THEN [session[s] EXCEPT !.role = r] ELSE session[s]
        BY <2>1 DEF SetRole
      <4>2. session[s] \in SessionRow
        BY DEF TypeOK
      <4>3. session[s].name # handler[h].name
        BY <1>6, <3>2, <4>1, <4>2 DEF SessionRow
      <4> QED BY <4>1, <4>3
    <3> QED BY <3>1, <3>2
  <2>2. handler[h].role \in Roles
    BY DEF TypeOK, HandlerState
  <2>3. CASE StoreDefault(h) \/ GrantRole(h) \/ StoreRole(h)
    BY <2>1, <2>2, <2>3 DEF StoreDefault, GrantRole, StoreRole
  <2>4. CASE CreateSession(h)
    <3>1. UNCHANGED <<account, role>>
      BY <2>4 DEF CreateSession
    <3>2. PICK t \in Tokens :
             session' = [session EXCEPT ![t] =
                            [name |-> handler[h].name, role |-> handler[h].role]]
      BY <2>4 DEF CreateSession
    <3>3. \A s \in Tokens : session'[s] =
             IF s = t THEN [name |-> handler[h].name, role |-> handler[h].role]
                      ELSE session[s]
      BY <3>2 DEF TypeOK
    <3> QED BY <1>6, <3>1, <3>3
  <2>5. CASE CreateUser(h)
    BY <1>6, <2>5 DEF CreateUser, NewAccount, TypeOK
  <2>6. CASE DeleteAccount(h)
    BY <1>6, <2>6 DEF DeleteAccount, TypeOK
  <2>7. CASE DeleteRole(h)
    <3>1. role'[n] = role[n] /\ account'[n] = account[n]
      BY <1>6, <2>7 DEF DeleteRole, TypeOK
    <3>2. \A s \in Tokens : session'[s] = IF session[s].name = handler[h].name
                                          THEN NoSession ELSE session[s]
      BY <2>7 DEF DeleteRole
    <3> QED BY <3>1, <3>2, AccountsAssumption DEF NoSession
  <2> QED BY <1>4, <1>5, <1>6, <2>3, <2>4, <2>5, <2>6, <2>7 DEF HandlerStep
<1>7. CASE HandlerStep(h) /\ handler[h].name = n
  BY <1>7, OnlyArrivals DEF WorksOn
<1> QED BY <1>2, <1>3, <1>6, <1>7

(* So it keeps what holds of another name.                                 *)
LEMMA OthersAgree ==
  ASSUME TypeOK, NEW h \in Handlers, Arrives(h) \/ HandlerStep(h) \/ Abandon(h),
         NEW n \in Names, ~WorksOn(h, n), AgreesOn(n)
  PROVE  AgreesOn(n)'
<1>1. /\ role'[n] = role[n] /\ account'[n] = account[n]
      /\ \A s \in Tokens : session'[s].name = n => session'[s] = session[s]
  BY OnlyItsName
<1>2. /\ \A g \in Handlers : g # h => handler'[g] = handler[g]
      /\ faults' = 0 => faults = 0
  BY OneHandlerMoves
<1>3. FollowsOn(n)'
  BY <1>1 DEF AgreesOn, FollowsOn
<1>4. OrphanlessOn(n)'
  BY <1>1, <1>2 DEF AgreesOn, OrphanlessOn, WorksOn
<1> QED BY <1>3, <1>4 DEF AgreesOn

LEMMA OthersReady ==
  ASSUME TypeOK, NEW h \in Handlers, Arrives(h) \/ HandlerStep(h) \/ Abandon(h),
         NEW g \in Handlers, g # h, ~WorksOn(h, handler[g].name), Ready(g)
  PROVE  Ready(g)'
<1>1. /\ handler'[g] = handler[g]
      /\ faults' = 0 => faults = 0
  BY OneHandlerMoves
<1>2. CASE handler[g].name \in Names
  <2>1. role'[handler[g].name] = role[handler[g].name]
        /\ account'[handler[g].name] = account[handler[g].name]
    BY <1>2, OnlyItsName
  <2> QED BY <1>1, <2>1 DEF Ready
<1>3. CASE handler[g].name \notin Names
  <2>1. handler[g].pc \in {"idle", "issue", "revoke"}
    BY <1>3 DEF TypeOK, InHand
  <2> QED BY <1>1, <2>1 DEF Ready
<1> QED BY <1>2, <1>3

(* A step that leaves accounts, roles and sessions alone keeps what holds  *)
(* of a name, unless it forgets to delete a role.                          *)
LEMMA AgreeStands ==
  ASSUME TypeOK, NEW n \in Names, AgreesOn(n), NEW h \in Handlers,
         UNCHANGED <<account, role, session>>,
         \A g \in Handlers : g # h => handler'[g] = handler[g],
         faults' = 0 => faults = 0,
         handler[h].pc = "delrole" => faults' # 0
  PROVE  AgreesOn(n)'
<1>1. FollowsOn(n)'
  BY DEF AgreesOn, FollowsOn
<1>2. OrphanlessOn(n)'
  BY DEF AgreesOn, OrphanlessOn
<1> QED BY <1>1, <1>2 DEF AgreesOn

(* SetRole of a user with an account.                                      *)
LEMMA SetRoleAgrees ==
  ASSUME TypeOK, NEW n \in Names, NEW r \in Roles, SetRole(n, r),
         account[n] # 0, UNCHANGED account
  PROVE  AgreesOn(n)'
<1>1. role'[n] = r
  BY DEF SetRole, TypeOK
<1>2. ASSUME NEW s \in Tokens, session'[s].name = n PROVE session'[s].role = r
  <2>1. session'[s] = IF session[s].name = n THEN [session[s] EXCEPT !.role = r]
                                             ELSE session[s]
    BY DEF SetRole
  <2>2. session[s] \in SessionRow
    BY DEF TypeOK
  <2> QED BY <1>2, <2>1, <2>2 DEF SessionRow
<1> QED BY <1>1, <1>2 DEF AgreesOn, FollowsOn, OrphanlessOn

(* A request that needs an account starts with one.                        *)
LEMMA ArrivalReady ==
  ASSUME TypeOK, NEW h \in Handlers, Arrives(h)
  PROVE  UNCHANGED <<account, role, session, faults>> /\ Ready(h)'
<1> USE DEF jellyfinVars, inviteVars, NothingStored, NoCallFailed
<1>1. ASSUME NEW pc, NEW op, NEW n, NEW c, NEW r, Serves(h, pc, op, n, c, r),
             pc \in {"role", "lock", "find", "issue", "revoke"},
             pc = "role" => account[n] # 0
      PROVE  UNCHANGED <<account, role, session, faults>> /\ Ready(h)'
  <2>1. handler'[h].pc = pc /\ handler'[h].name = n
    BY <1>1 DEF Serves, TypeOK
  <2>2. UNCHANGED <<account, role, session, faults>>
    BY <1>1 DEF Serves
  <2> QED BY <1>1, <2>1, <2>2 DEF Ready
<1>2. CASE \E n \in Names : Login(h, n)
  BY <1>1, <1>2 DEF Login
<1>3. CASE \E c \in Codes, n \in Names : Register(h, c, n)
  BY <1>1, <1>3 DEF Register
<1>4. CASE \E s \in Tokens, n \in Names :
              DeleteUser(h, s, n) \/ \E r \in GrantRoles : ChangeRole(h, s, n, r)
  BY <1>1, <1>4 DEF DeleteUser, ChangeRole
<1>5. CASE \E s \in Tokens, c \in Codes :
              RevokeInvite(h, s, c) \/ \E r \in GrantRoles : IssueInvite(h, s, c, r)
  BY <1>1, <1>5 DEF RevokeInvite, IssueInvite
<1> QED BY <1>2, <1>3, <1>4, <1>5 DEF Arrives

(* A handler that has answered relies on nothing.                          *)
LEMMA EndsReady ==
  ASSUME TypeOK, NEW h \in Handlers, Ends(h)
  PROVE  handler'[h].pc = "idle" /\ Ready(h)'
<1>1. handler'[h].pc = "idle"
  BY DEF Ends, TypeOK, IdleHandler
<1> QED BY <1>1 DEF Ready

(* One that moves on works on the same user.                               *)
LEMMA MovesOn ==
  ASSUME TypeOK, NEW h \in Handlers, NEW pc, Move(h, pc)
  PROVE  /\ handler'[h].pc = pc /\ handler'[h].name = handler[h].name
         /\ handler'[h].role = handler[h].role
<1>1. handler[h] \in HandlerState /\ handler'[h] = [handler[h] EXCEPT !.pc = pc]
  BY DEF Move, TypeOK
<1> QED BY <1>1 DEF HandlerState

(* Steps that read, or that write nothing but invites.                     *)
Reads(h) ==
    \/ ReadRole(h) \/ LockRegistration(h) \/ CheckInvite(h) \/ UseInvite(h) \/ SignIn(h)
    \/ FindUser(h) \/ StoreInvite(h) \/ DeleteInvite(h) \/ Abandon(h)

(* They leave accounts, roles and sessions alone, and what they have read  *)
(* of them is so.                                                          *)
LEMMA ReadingReady ==
  ASSUME TypeOK, NEW h \in Handlers, Ready(h), Reads(h)
  PROVE  /\ UNCHANGED <<account, role, session>>
         /\ handler[h].pc = "delrole" => faults' # 0
         /\ Ready(h)'
<1> USE DEF jellyfinVars, inviteVars, NothingStored, NoCallFailed
<1>h. handler[h] \in HandlerState
  BY DEF TypeOK
<1>1. CASE ReadRole(h)
  <2> DEFINE n == handler[h].name
  <2>1. handler[h].pc = "role" /\ UNCHANGED <<account, role, session, faults>>
    BY <1>1 DEF ReadRole
  <2>2. CASE KnownRole(n)
    <3>1. handler'[h] = [handler[h] EXCEPT !.pc = "session", !.role = role[n]]
      BY <1>1, <2>2 DEF ReadRole, TypeOK
    <3>2. handler'[h].pc = "session" /\ handler'[h].name = n /\ handler'[h].role = role[n]
      BY <1>h, <3>1 DEF HandlerState
    <3> QED BY <2>1, <3>2 DEF Ready
  <2>3. CASE ~KnownRole(n)
    <3>1. Move(h, "default")
      BY <1>1, <2>3 DEF ReadRole, Move
    <3>2. handler'[h].pc = "default" /\ handler'[h].name = n /\ role[n] = "none"
      BY <2>3, <3>1, MovesOn DEF KnownRole
    <3> QED BY <2>1, <3>2 DEF Ready
  <2> QED BY <2>2, <2>3
<1>2. CASE LockRegistration(h)
  <2>1. handler'[h] = [handler[h] EXCEPT !.pc = "check"]
    BY <1>2 DEF LockRegistration, TypeOK
  <2>2. handler'[h].pc = "check"
    BY <1>h, <2>1 DEF HandlerState
  <2> QED BY <1>2, <2>2 DEF LockRegistration, Ready
<1>3. CASE CheckInvite(h)
  <2>1. CASE Ends(h)
    BY <1>3, <2>1, EndsReady DEF CheckInvite
  <2>2. CASE ~Ends(h)
    <3>1. handler'[h] = [handler[h] EXCEPT !.pc = "create",
                                           !.role = inviteRole[handler[h].code]]
      BY <1>3, <2>2 DEF CheckInvite, TypeOK
    <3>2. handler'[h].pc = "create"
      BY <1>h, <3>1 DEF HandlerState
    <3> QED BY <1>3, <3>2 DEF CheckInvite, Ready
  <2> QED BY <2>1, <2>2
<1>4. CASE UseInvite(h)
  <2>1. handler[h].pc = "use" /\ UNCHANGED <<account, role, session, faults>>
    BY <1>4 DEF UseInvite
  <2>2. CASE Ends(h)
    BY <2>1, <2>2, EndsReady
  <2>3. CASE Move(h, "grant")
    <3>1. handler'[h].pc = "grant" /\ handler'[h].name = handler[h].name
      BY <2>3, MovesOn
    <3> QED BY <2>1, <3>1 DEF Ready
  <2> QED BY <1>4, <2>2, <2>3 DEF UseInvite
<1>5. CASE SignIn(h)
  <2>1. handler[h].pc = "signin" /\ UNCHANGED <<account, role, session, faults>>
    BY <1>5 DEF SignIn
  <2>2. CASE Ends(h)
    BY <2>1, <2>2, EndsReady
  <2>3. CASE ~Ends(h)
    <3>1. handler'[h] = [handler[h] EXCEPT !.pc = "role", !.role = Default(handler[h].name)]
          /\ account[handler[h].name] # 0
      BY <1>5, <2>3 DEF SignIn, TypeOK
    <3>2. handler'[h].pc = "role" /\ handler'[h].name = handler[h].name
      BY <1>h, <3>1 DEF HandlerState
    <3> QED BY <2>1, <3>1, <3>2 DEF Ready
  <2> QED BY <2>2, <2>3
<1>6. CASE FindUser(h)
  <2>1. handler[h].pc = "find" /\ UNCHANGED <<account, role, session, faults>>
    BY <1>6 DEF FindUser
  <2>2. CASE Ends(h)
    BY <2>1, <2>2, EndsReady
  <2>3. CASE ~Ends(h)
    <3> PICK pc \in {"deluser", "setrole"} :
             pc = IF handler[h].op = "delete" THEN "deluser" ELSE "setrole"
      OBVIOUS
    <3>1. account[handler[h].name] # 0
          /\ handler'[h] = [handler[h] EXCEPT !.id = account[handler[h].name], !.pc = pc]
      BY <1>6, <2>3 DEF FindUser, TypeOK
    <3>2. handler'[h].pc = pc /\ handler'[h].name = handler[h].name
      BY <1>h, <3>1 DEF HandlerState
    <3> QED BY <2>1, <3>1, <3>2 DEF Ready
  <2> QED BY <2>2, <2>3
<1>7. CASE StoreInvite(h) \/ DeleteInvite(h)
  BY <1>7, EndsReady DEF StoreInvite, DeleteInvite
<1>8. CASE Abandon(h)
  <2>1. faults' # 0
    BY <1>8 DEF Abandon, TypeOK
  <2> QED BY <1>8, <2>1, EndsReady DEF Abandon
<1> QED BY <1>1, <1>2, <1>3, <1>4, <1>5, <1>6, <1>7, <1>8 DEF Reads

(* The steps that write accounts, roles or sessions, taken by the only     *)
(* handler at work on the name, keep the tables in agreement about it.     *)
LEMMA WritingAgrees ==
  ASSUME TypeOK, NEW n \in Names, AgreesOn(n), NEW h \in Handlers, handler[h].name = n,
         Ready(h), HandlerStep(h), ~Reads(h),
         \A g \in Handlers : g # h => ~WorksOn(g, n)
  PROVE  AgreesOn(n)' /\ Ready(h)'
<1> USE DEF jellyfinVars, inviteVars, NothingStored, NoCallFailed
<1>h. handler[h] \in HandlerState /\ handler[h].role \in Roles
  BY DEF TypeOK, HandlerState
<1>d. \A g \in Handlers : handler[g].pc = "delrole" /\ handler[g].name = n => g = h
  BY DEF WorksOn
<1>f. faults' = 0 => faults = 0
  BY OneHandlerMoves
<1>s. ASSUME handler[h].pc \in {"default", "grant", "setrole"},
             SetRole(n, handler[h].role), UNCHANGED <<account, faults>>
      PROVE  AgreesOn(n)' /\ role'[n] = handler[h].role /\ account'[n] # 0
  <2>1. account[n] # 0
    BY <1>s DEF Ready
  <2>2. AgreesOn(n)'
    BY <1>h, <1>s, <2>1, SetRoleAgrees
  <2> QED BY <1>s, <2>1, <2>2 DEF SetRole, TypeOK
<1>1. CASE StoreDefault(h)
  <2>1. handler[h].pc = "default" /\ SetRole(n, handler[h].role) /\ UNCHANGED <<account, faults>>
    BY <1>1 DEF StoreDefault
  <2>2. /\ handler'[h].pc = "session" /\ handler'[h].name = n
        /\ handler'[h].role = handler[h].role
    BY <1>1, MovesOn DEF StoreDefault
  <2>3. AgreesOn(n)' /\ role'[n] = handler[h].role /\ account'[n] # 0
    BY <1>s, <2>1
  <2> QED BY <2>2, <2>3 DEF Ready
<1>2. CASE GrantRole(h)
  <2>1. handler[h].pc = "grant" /\ SetRole(n, handler[h].role) /\ UNCHANGED <<account, faults>>
    BY <1>2 DEF GrantRole
  <2>2. handler'[h].pc = "signin"
    BY <1>2, MovesOn DEF GrantRole
  <2> QED BY <1>s, <2>1, <2>2 DEF Ready
<1>3. CASE StoreRole(h)
  <2>1. handler[h].pc = "setrole" /\ SetRole(n, handler[h].role) /\ UNCHANGED <<account, faults>>
    BY <1>3 DEF StoreRole
  <2> QED BY <1>3, <1>s, <2>1, EndsReady DEF StoreRole
<1>4. CASE CreateSession(h)
  <2>1. /\ handler[h].pc = "session" /\ account[n] # 0
        /\ handler[h].role = role[n]
        /\ UNCHANGED <<account, role, faults>>
    BY <1>4 DEF CreateSession, Ready
  <2>2. PICK s \in Tokens : session' = [session EXCEPT ![s] = [name |-> n, role |-> role[n]]]
    BY <1>4, <2>1 DEF CreateSession
  <2>3. \A t \in Tokens : session'[t] = IF t = s THEN [name |-> n, role |-> role[n]]
                                                 ELSE session[t]
    BY <2>2 DEF TypeOK
  <2>4. FollowsOn(n)'
    BY <2>1, <2>3 DEF AgreesOn, FollowsOn
  <2> QED BY <1>4, <2>1, <2>4, EndsReady DEF CreateSession, AgreesOn, OrphanlessOn
<1>5. CASE CreateUser(h)
  <2>1. handler[h].pc = "create" /\ UNCHANGED <<role, session>>
    BY <1>5 DEF CreateUser
  <2>2. FollowsOn(n)'
    BY <2>1 DEF AgreesOn, FollowsOn
  <2>3. CASE NewAccount(n)
    <3>1. account[n] = 0 /\ account'[n] # 0
      BY <2>3, AccountsAssumption DEF NewAccount, TypeOK, AccountIds
    <3>2. faults = 0 => role[n] = "none"
      BY <1>d, <2>1, <3>1 DEF AgreesOn, OrphanlessOn
    <3>3. AgreesOn(n)'
      BY <2>2, <3>1 DEF AgreesOn, OrphanlessOn
    <3>4. CASE Move(h, "use")
      <4>1. handler'[h].pc = "use" /\ handler'[h].name = n
        BY <3>4, MovesOn
      <4> QED BY <1>f, <2>1, <3>1, <3>2, <3>3, <4>1 DEF Ready
    <3>5. CASE Ends(h)
      BY <3>3, <3>5, EndsReady
    <3> QED BY <1>5, <3>4, <3>5 DEF CreateUser
  <2>4. CASE ~NewAccount(n)
    <3>1. Ends(h) /\ UNCHANGED account
      BY <1>5, <2>4 DEF CreateUser
    <3>2. \A g \in Handlers : g # h => handler'[g] = handler[g]
      BY OneHandlerMoves
    <3>3. AgreesOn(n)'
      BY <1>f, <2>1, <3>1, <3>2, AgreeStands
    <3> QED BY <3>1, <3>3, EndsReady
  <2> QED BY <2>3, <2>4
<1>6. CASE DeleteAccount(h)
  <2>1. handler[h].pc = "deluser" /\ UNCHANGED <<role, session>>
    BY <1>6 DEF DeleteAccount
  <2>2. FollowsOn(n)'
    BY <2>1 DEF AgreesOn, FollowsOn
  <2>3. CASE Move(h, "delrole")
    <3>1. handler'[h].pc = "delrole" /\ handler'[h].name = n
      BY <2>3, MovesOn
    <3> QED BY <2>2, <3>1 DEF AgreesOn, OrphanlessOn, Ready
  <2>4. CASE Ends(h) /\ faults' # 0
    BY <2>2, <2>4, EndsReady DEF AgreesOn, OrphanlessOn
  <2>5. CASE Ends(h) /\ UNCHANGED <<account, faults>>
    <3>1. OrphanlessOn(n)'
      BY <1>d, <2>1, <2>5 DEF AgreesOn, OrphanlessOn
    <3> QED BY <2>2, <2>5, <3>1, EndsReady DEF AgreesOn
  <2>6. faults < MaxFaults /\ faults' = faults + 1 => faults' # 0
    BY DEF TypeOK
  <2> QED BY <1>6, <2>3, <2>4, <2>5, <2>6 DEF DeleteAccount, AfterDeletion
<1>7. CASE DeleteRole(h)
  <2>1. role'[n] = "none"
    BY <1>7 DEF DeleteRole, TypeOK
  <2>2. \A s \in Tokens : session'[s] = IF session[s].name = n THEN NoSession ELSE session[s]
    BY <1>7 DEF DeleteRole
  <2>3. \A s \in Tokens : session'[s].name # n
    BY <2>2, AccountsAssumption DEF NoSession
  <2> QED BY <1>7, <2>1, <2>3, EndsReady DEF DeleteRole, AgreesOn, FollowsOn, OrphanlessOn
<1> QED BY <1>1, <1>2, <1>3, <1>4, <1>5, <1>6, <1>7 DEF HandlerStep, Reads

(* Time, cookies and Jellyfin's own interface keep the tables in agreement *)
(* and what handlers have read.                                            *)
LEMMA WorldAgrees ==
  ASSUME TypeOK, World
  PROVE  /\ UNCHANGED <<role, handler, faults>>
         /\ \A n \in Names : AgreesOn(n) => AgreesOn(n)'
         /\ \A h \in Handlers : Ready(h) => Ready(h)'
<1> USE DEF jellyfinVars, inviteVars
<1>1. UNCHANGED <<role, handler, faults>>
  BY DEF World, SessionEnds, InviteExpires, AddedInJellyfin
<1>2. \A s \in Tokens : session'[s] \in {session[s], NoSession}
  BY DEF TypeOK, World, SessionEnds, InviteExpires, AddedInJellyfin
<1>3. \A n \in Names : account[n] # 0 => account'[n] # 0
  BY DEF TypeOK, World, SessionEnds, InviteExpires, AddedInJellyfin, NewAccount, AccountIds
<1>4. ASSUME NEW n \in Names, AgreesOn(n) PROVE AgreesOn(n)'
  <2>1. \A s \in Tokens : session'[s].name = n => session'[s] = session[s]
    BY <1>2, AccountsAssumption DEF NoSession
  <2> QED BY <1>1, <1>3, <1>4, <2>1 DEF AgreesOn, FollowsOn, OrphanlessOn
<1>5. ASSUME NEW h \in Handlers, Ready(h) PROVE Ready(h)'
  <2>1. handler[h].pc \in {"role", "default", "session", "use", "grant", "setrole"} =>
           handler[h].name \in Names
    BY DEF TypeOK, InHand
  <2> QED BY <1>1, <1>3, <1>5, <2>1 DEF Ready
<1> QED BY <1>1, <1>4, <1>5

(* Sessions are only ever started for a name.                              *)
LEMMA KnownHolds ==
  ASSUME TypeOK, Known, [Next]_vars
  PROVE  Known'
<1> USE DEF jellyfinVars, inviteVars, NothingStored, NoCallFailed
<1>1. ASSUME UNCHANGED session PROVE Known'
  BY <1>1 DEF Known
<1>2. CASE UNCHANGED vars
  BY <1>1, <1>2 DEF vars
<1>3. CASE World
  <2>1. \A s \in Tokens : session'[s] \in {session[s], NoSession}
    BY <1>3 DEF TypeOK, World, SessionEnds, InviteExpires, AddedInJellyfin
  <2> QED BY <2>1 DEF Known
<1>4. ASSUME NEW h \in Handlers, HandlerStep(h) PROVE Known'
  <2>1. handler[h].role \in Roles
    BY DEF TypeOK, HandlerState
  <2>2. handler[h].pc \notin {"idle", "issue", "revoke"} => handler[h].name \in Names
    BY DEF TypeOK, InHand
  <2>3. CASE StoreDefault(h) \/ GrantRole(h) \/ StoreRole(h)
    <3>1. SetRole(handler[h].name, handler[h].role) /\ handler[h].name \in Names
      BY <2>2, <2>3 DEF StoreDefault, GrantRole, StoreRole
    <3>2. ASSUME NEW s \in Tokens PROVE session'[s] = NoSession \/ session'[s].name \in Names
      <4>1. session'[s] = IF session[s].name = handler[h].name
                          THEN [session[s] EXCEPT !.role = handler[h].role] ELSE session[s]
        BY <3>1 DEF SetRole
      <4>2. session[s] \in SessionRow
        BY DEF TypeOK
      <4> QED BY <3>1, <4>1, <4>2 DEF Known, SessionRow
    <3> QED BY <3>2 DEF Known
  <2>4. CASE CreateSession(h)
    <3>1. handler[h].name \in Names
      BY <2>2, <2>4 DEF CreateSession
    <3> QED BY <2>4, <3>1 DEF CreateSession, Known, TypeOK
  <2>5. CASE DeleteRole(h)
    BY <2>5 DEF DeleteRole, Known
  <2>6. CASE ~(StoreDefault(h) \/ GrantRole(h) \/ StoreRole(h) \/ CreateSession(h)
               \/ DeleteRole(h))
    <3>1. UNCHANGED session
      BY <1>4, <2>6 DEF HandlerStep, ReadRole, LockRegistration, CheckInvite, CreateUser,
           UseInvite, SignIn, FindUser, DeleteAccount, StoreInvite, DeleteInvite
    <3> QED BY <1>1, <3>1
  <2> QED BY <2>3, <2>4, <2>5, <2>6
<1>5. ASSUME NEW h \in Handlers, Arrives(h) \/ Abandon(h) PROVE Known'
  <2>1. UNCHANGED session
    BY <1>5 DEF Abandon, Arrives, Serves, Login, Register, ChangeRole, DeleteUser,
         IssueInvite, RevokeInvite
  <2> QED BY <1>1, <2>1
<1> QED BY <1>2, <1>3, <1>4, <1>5 DEF Next

(* Only UseInvite marks an invite used, and it names the user it was for.  *)
LEMMA UsedByHolds ==
  ASSUME TypeOK, IssueFresh, UsedByKnown, [Next]_vars
  PROVE  UsedByKnown'
<1>1. [Invites!Next]_Invites!inviteVars
  BY InviteStep
<1> QED
  BY <1>1 DEF TypeOK, UsedByKnown, Invites!Next, Invites!inviteVars, Invites!Issue, Invites!Expire,
              Invites!Redeem, Invites!Revoke, Invites!Move

(* A handler that goes on works on the same name.                          *)
LEMMA KeepsName ==
  ASSUME TypeOK, NEW h \in Handlers, HandlerStep(h) \/ Abandon(h), ~Ends(h)
  PROVE  handler'[h].name = handler[h].name
<1>h. handler[h] \in HandlerState
  BY DEF TypeOK
<1>1. ASSUME NEW pc, Move(h, pc) PROVE handler'[h].name = handler[h].name
  BY <1>1, MovesOn
<1>2. ASSUME NEW pc, NEW r,
             \/ handler'[h] = [handler[h] EXCEPT !.pc = pc]
             \/ handler'[h] = [handler[h] EXCEPT !.pc = pc, !.role = r]
             \/ handler'[h] = [handler[h] EXCEPT !.id = r, !.pc = pc]
      PROVE  handler'[h].name = handler[h].name
  BY <1>h, <1>2 DEF HandlerState
<1>3. CASE StoreDefault(h) \/ GrantRole(h) \/ UseInvite(h) \/ CreateUser(h) \/ DeleteAccount(h)
  BY <1>1, <1>3 DEF StoreDefault, GrantRole, UseInvite, CreateUser, DeleteAccount
<1>4. CASE ReadRole(h)
  <2>1. \/ handler'[h] = [handler[h] EXCEPT !.pc = "session", !.role = role[handler[h].name]]
        \/ handler'[h] = [handler[h] EXCEPT !.pc = "default"]
    BY <1>4 DEF ReadRole, TypeOK
  <2> QED BY <1>2, <2>1
<1>6. CASE LockRegistration(h) \/ CheckInvite(h)
  <2>1. \/ handler'[h] = [handler[h] EXCEPT !.pc = "check"]
        \/ handler'[h] = [handler[h] EXCEPT !.pc = "create",
                                            !.role = inviteRole[handler[h].code]]
    BY <1>6 DEF LockRegistration, CheckInvite, TypeOK
  <2> QED BY <1>2, <2>1
<1>7. CASE SignIn(h)
  <2>1. handler'[h] = [handler[h] EXCEPT !.pc = "role", !.role = Default(handler[h].name)]
    BY <1>7 DEF SignIn, TypeOK
  <2> QED BY <1>2, <2>1
<1>8. CASE FindUser(h)
  <2>1. handler'[h] = [handler[h] EXCEPT !.id = account[handler[h].name],
                           !.pc = IF handler[h].op = "delete" THEN "deluser" ELSE "setrole"]
    BY <1>8 DEF FindUser, TypeOK
  <2> QED BY <1>2, <2>1
<1>5. CASE \/ CreateSession(h) \/ StoreRole(h) \/ DeleteRole(h) \/ StoreInvite(h)
           \/ DeleteInvite(h) \/ Abandon(h)
  BY <1>5 DEF CreateSession, StoreRole, DeleteRole, StoreInvite, DeleteInvite, Abandon
<1> QED BY <1>3, <1>4, <1>5, <1>6, <1>7, <1>8 DEF HandlerStep

(* The role of another user stands while a handler is about to demote or   *)
(* delete one, unless a second such handler is at work.                    *)
LEMMA RoleStands ==
  ASSUME TypeOK, HistoryInv, [Next]_vars, faults = 0, crowded = {}, ~rivals,
         NEW h \in Handlers, Demotes(h),
         NEW a \in Names, a # handler[h].name, role[a] = "admin"
  PROVE  role'[a] = "admin"
<1> SUFFICES ASSUME role'[a] # role[a] PROVE FALSE
  OBVIOUS
<1>1. PICK g \in Handlers : /\ handler[g].name = a
                            /\ handler[g].pc \in {"default", "grant", "setrole", "delrole"}
  BY RoleChanges
<1>2. Ready(g)
  BY DEF HistoryInv, Prepared
<1>3. Demotes(g) /\ g # h
  BY <1>1, <1>2 DEF Ready, Demotes
<1> QED BY <1>3 DEF HistoryInv, Recorded, Meet

(* A request to demote or delete comes from another administrator, and     *)
(* goes on with the same user.                                             *)
LEMMA DemotesOn ==
  ASSUME TypeOK, Known, crowded = {}, \A n \in Names \ crowded : AgreesOn(n),
         NEW h \in Handlers, Arrives(h) \/ HandlerStep(h) \/ Abandon(h), Demotes(h)'
  PROVE  \/ /\ \E a \in Names : a # handler'[h].name /\ role[a] = "admin"
            /\ UNCHANGED role
         \/ Demotes(h) /\ handler'[h].name = handler[h].name
<1> USE DEF jellyfinVars, inviteVars, NothingStored, NoCallFailed
<1>h. handler[h] \in HandlerState
  BY DEF TypeOK
<1>1. ASSUME NEW pc, NEW op, NEW n, NEW c, NEW r, Serves(h, pc, op, n, c, r)
      PROVE  handler'[h].pc = pc /\ handler'[h].name = n /\ UNCHANGED role
  BY <1>1 DEF Serves, TypeOK
<1>2. CASE Arrives(h)
  <2>1. ~\E n \in Names : Login(h, n)
    BY <1>1 DEF Login, Demotes
  <2>2. ~\E c \in Codes, n \in Names : Register(h, c, n)
    BY <1>1 DEF Register, Demotes
  <2>3. ~\E s \in Tokens, c \in Codes :
             RevokeInvite(h, s, c) \/ \E r \in GrantRoles : IssueInvite(h, s, c, r)
    BY <1>1 DEF RevokeInvite, IssueInvite, Demotes
  <2>4. PICK s \in Tokens, n \in Names :
           DeleteUser(h, s, n) \/ \E r \in GrantRoles : ChangeRole(h, s, n, r)
    BY <1>2, <2>1, <2>2, <2>3 DEF Arrives
  <2>5. /\ Admin(s) /\ NotSelf(s, n)
        /\ handler'[h].name = n /\ UNCHANGED role
    BY <1>1, <2>4 DEF DeleteUser, ChangeRole
  <2>6. session[s].name \in Names
    BY <2>5 DEF Admin, Known, NoSession
  <2>7. role[session[s].name] = "admin"
    BY <2>5, <2>6 DEF Admin, AgreesOn, FollowsOn
  <2> QED BY <2>5, <2>6, <2>7 DEF NotSelf
<1>3. ASSUME Ends(h) PROVE FALSE
  BY <1>3, EndsReady DEF Demotes
<1>4. CASE FindUser(h)
  <2>1. PICK pc : handler'[h] = [handler[h] EXCEPT !.id = account[handler[h].name], !.pc = pc]
    BY <1>3, <1>4 DEF FindUser, TypeOK
  <2>2. handler'[h].name = handler[h].name
    BY <1>h, <2>1 DEF HandlerState
  <2> QED BY <1>4, <2>2 DEF FindUser, Demotes
<1>5. CASE DeleteAccount(h)
  <2>1. Move(h, "delrole")
    BY <1>3, <1>5 DEF DeleteAccount, AfterDeletion
  <2> QED BY <1>5, <2>1, MovesOn DEF DeleteAccount, Demotes
<1>6. CASE StoreDefault(h) \/ GrantRole(h) \/ UseInvite(h) \/ CreateUser(h)
  <2>1. Move(h, "session") \/ Move(h, "signin") \/ Move(h, "grant") \/ Move(h, "use")
    BY <1>3, <1>6 DEF StoreDefault, GrantRole, UseInvite, CreateUser
  <2> QED BY <2>1, MovesOn DEF Demotes
<1>7. ~ReadRole(h) /\ ~LockRegistration(h) /\ ~CheckInvite(h) /\ ~SignIn(h)
  <2>1. ASSUME NEW pc \in {"session", "default", "check", "create", "role"}, NEW r,
               \/ handler'[h] = [handler[h] EXCEPT !.pc = pc]
               \/ handler'[h] = [handler[h] EXCEPT !.pc = pc, !.role = r]
        PROVE  FALSE
    <3>1. handler'[h].pc = pc
      BY <1>h, <2>1 DEF HandlerState
    <3> QED BY <3>1 DEF Demotes
  <2>2. ASSUME ReadRole(h) PROVE FALSE
    <3>1. \/ handler'[h] = [handler[h] EXCEPT !.pc = "session", !.role = role[handler[h].name]]
          \/ handler'[h] = [handler[h] EXCEPT !.pc = "default"]
      BY <2>2 DEF ReadRole, TypeOK
    <3> QED BY <2>1, <3>1
  <2>3. ASSUME LockRegistration(h) \/ CheckInvite(h) PROVE FALSE
    <3>1. \/ handler'[h] = [handler[h] EXCEPT !.pc = "check"]
          \/ handler'[h] = [handler[h] EXCEPT !.pc = "create",
                                              !.role = inviteRole[handler[h].code]]
      BY <1>3, <2>3 DEF LockRegistration, CheckInvite, TypeOK
    <3> QED BY <2>1, <3>1
  <2>4. ASSUME SignIn(h) PROVE FALSE
    <3>1. handler'[h] = [handler[h] EXCEPT !.pc = "role", !.role = Default(handler[h].name)]
      BY <1>3, <2>4 DEF SignIn, TypeOK
    <3> QED BY <2>1, <3>1
  <2> QED BY <2>2, <2>3, <2>4
<1>8. CASE \/ CreateSession(h) \/ StoreRole(h) \/ DeleteRole(h) \/ StoreInvite(h)
           \/ DeleteInvite(h) \/ Abandon(h)
  BY <1>3, <1>8 DEF CreateSession, StoreRole, DeleteRole, StoreInvite, DeleteInvite, Abandon
<1> QED BY <1>2, <1>4, <1>5, <1>6, <1>7, <1>8 DEF HandlerStep

(* Whatever the handlers do, the promises stand for every name that has    *)
(* not been crowded.                                                       *)
LEMMA HistoryStep ==
  ASSUME TypeOK, HistoryInv, IssueFresh, HistoryNext
  PROVE  HistoryInv'
<1>n. Next /\ [Next]_vars
  BY DEF HistoryNext
<1>c. /\ crowded' = crowded \cup Crowd'
      /\ rivals' = (Meet' \/ (rivals /\ \E h \in Handlers : Demotes(h)'))
  BY DEF HistoryNext
<1>r. Recorded'
  <2>1. Crowd' \subseteq crowded'
    BY <1>c
  <2>2. Meet' => rivals'
    BY <1>c, Zenon
  <2> QED BY <2>1, <2>2 DEF Recorded
<1>k. UsedByKnown' /\ Known'
  BY <1>n, UsedByHolds, KnownHolds DEF HistoryInv
<1>1. ASSUME NEW n \in Names \ crowded' PROVE AgreesOn(n)'
  <2>1. n \in Names \ crowded /\ AgreesOn(n)
    BY <1>c DEF HistoryInv
  <2>2. CASE World
    BY <2>1, <2>2, WorldAgrees
  <2>3. ASSUME NEW h \in Handlers, Arrives(h) \/ HandlerStep(h) \/ Abandon(h), WorksOn(h, n)
        PROVE  AgreesOn(n)'
    <3>1. Ready(h) /\ handler[h].name = n
      BY <2>1, <2>3 DEF HistoryInv, Prepared, WorksOn
    <3>2. \A g \in Handlers : g # h => ~WorksOn(g, n)
      BY <2>1, <2>3, AloneOn DEF HistoryInv
    <3>3. ~Arrives(h)
      BY <2>3 DEF WorksOn, Arrives, Serves, Login, Register, ChangeRole, DeleteUser,
                  IssueInvite, RevokeInvite
    <3>4. CASE Reads(h)
      <4>1. /\ UNCHANGED <<account, role, session>>
            /\ handler[h].pc = "delrole" => faults' # 0
        BY <3>1, <3>4, ReadingReady
      <4>2. /\ \A g \in Handlers : g # h => handler'[g] = handler[g]
            /\ faults' = 0 => faults = 0
        BY <2>3, OneHandlerMoves
      <4> QED BY <2>1, <4>1, <4>2, AgreeStands
    <3>5. CASE HandlerStep(h) /\ ~Reads(h)
      BY <2>1, <3>1, <3>2, <3>5, WritingAgrees
    <3> QED BY <2>3, <3>3, <3>4, <3>5 DEF Reads
  <2>4. ASSUME NEW h \in Handlers, Arrives(h) \/ HandlerStep(h) \/ Abandon(h), ~WorksOn(h, n)
        PROVE  AgreesOn(n)'
    BY <2>1, <2>4, OthersAgree
  <2> QED BY <1>n, <2>2, <2>3, <2>4 DEF Next
<1>2. ASSUME NEW g \in Handlers PROVE Prepared(g)'
  <2> SUFFICES ASSUME handler'[g].name \notin crowded' PROVE Ready(g)'
    BY DEF Prepared
  <2>1. CASE World
    <3>1. UNCHANGED handler
      BY <2>1, WorldAgrees
    <3>2. Ready(g)
      BY <1>c, <3>1 DEF HistoryInv, Prepared
    <3> QED BY <2>1, <3>2, WorldAgrees
  <2>2. CASE Arrives(g)
    BY <2>2, ArrivalReady
  <2>3. ASSUME HandlerStep(g) \/ Abandon(g) PROVE Ready(g)'
    <3>1. handler[g].pc # "idle"
      BY <2>3, OnlyArrivals
    <3>2. CASE Ends(g)
      BY <3>2, EndsReady
    <3>3. CASE ~Ends(g)
      <4>1. handler'[g].name = handler[g].name
        BY <2>3, <3>3, KeepsName
      <4>2. Ready(g) /\ handler[g].name \notin crowded
        BY <1>c, <4>1 DEF HistoryInv, Prepared
      <4>3. CASE Reads(g)
        BY <4>2, <4>3, ReadingReady
      <4>4. CASE HandlerStep(g) /\ ~Reads(g)
        <5>1. handler[g].name \in Names
          <6>1. handler[g].pc \notin {"idle", "issue", "revoke"}
            BY <3>1, <4>4 DEF Reads, HandlerStep, StoreDefault, CreateSession, CreateUser,
                 GrantRole, StoreRole, DeleteAccount, DeleteRole
          <6> QED BY <6>1 DEF TypeOK, InHand
        <5>2. AgreesOn(handler[g].name)
          BY <4>2, <5>1 DEF HistoryInv
        <5>3. WorksOn(g, handler[g].name)
          BY <3>1 DEF WorksOn
        <5>4. \A h \in Handlers : h # g => ~WorksOn(h, handler[g].name)
          BY <4>2, <5>1, <5>3, AloneOn DEF HistoryInv
        <5> QED BY <4>2, <4>4, <5>1, <5>2, <5>4, WritingAgrees
      <4> QED BY <2>3, <4>3, <4>4 DEF Reads
    <3> QED BY <3>2, <3>3
  <2>4. ASSUME NEW h \in Handlers, Arrives(h) \/ HandlerStep(h) \/ Abandon(h), h # g
        PROVE  Ready(g)'
    <3>1. handler'[g] = handler[g]
      BY <2>4, OneHandlerMoves
    <3>2. Ready(g) /\ handler[g].name \notin crowded
      BY <1>c, <3>1 DEF HistoryInv, Prepared
    <3>3. CASE WorksOn(h, handler[g].name)
      <4>1. handler[g].pc = "idle" \/ handler[g].name \notin Names
        BY <2>4, <3>2, <3>3 DEF HistoryInv, Recorded, Crowd, WorksOn
      <4>2. handler[g].pc \in {"idle", "issue", "revoke"}
        BY <4>1 DEF TypeOK, InHand
      <4> QED BY <3>1, <4>2 DEF Ready
    <3>4. CASE ~WorksOn(h, handler[g].name)
      BY <2>4, <3>2, <3>4, OthersReady
    <3> QED BY <3>3, <3>4
  <2> QED BY <1>n, <2>1, <2>2, <2>3, <2>4 DEF Next
<1>3. ASSUME NEW h \in Handlers PROVE Guarded(h)'
  <2> SUFFICES ASSUME faults' = 0, crowded' = {}, ~rivals', Demotes(h)'
               PROVE  \E a \in Names : a # handler'[h].name /\ role'[a] = "admin"
    BY DEF Guarded, OtherAdmin
  <2>1. crowded = {} /\ ~rivals
    BY <1>c
  <2>2. faults = 0
    BY <1>n, OneHandlerMoves, WorldAgrees DEF Next
  <2>3. ASSUME Demotes(h), handler'[h].name = handler[h].name
        PROVE  \E a \in Names : a # handler'[h].name /\ role'[a] = "admin"
    <3>1. PICK a \in Names : a # handler[h].name /\ role[a] = "admin"
      BY <2>1, <2>2, <2>3 DEF HistoryInv, Guarded, OtherAdmin
    <3>2. role'[a] = "admin"
      BY <1>n, <2>1, <2>2, <2>3, <3>1, RoleStands
    <3> QED BY <2>3, <3>1, <3>2
  <2>4. CASE UNCHANGED <<handler>> \/ handler'[h] = handler[h]
    BY <2>3, <2>4 DEF Demotes
  <2>5. CASE Arrives(h) \/ HandlerStep(h) \/ Abandon(h)
    BY <2>1, <2>3, <2>5, DemotesOn DEF HistoryInv
  <2>6. CASE World
    BY <2>4, <2>6, WorldAgrees
  <2>7. ASSUME NEW g \in Handlers, Arrives(g) \/ HandlerStep(g) \/ Abandon(g), g # h
        PROVE  handler'[h] = handler[h]
    BY <2>7, OneHandlerMoves
  <2> QED BY <1>n, <2>4, <2>5, <2>6, <2>7 DEF Next
<1> QED BY <1>r, <1>k, <1>1, <1>2, <1>3 DEF HistoryInv

(* Nobody has logged in at first, and no handler is at work.               *)
LEMMA InitHistory == HistoryInit => HistoryInv
<1> SUFFICES ASSUME HistoryInit PROVE HistoryInv
  OBVIOUS
<1>1. \A h \in Handlers : handler[h].pc = "idle"
  BY DEF HistoryInit, Init, IdleHandler
<1>2. \A s \in Tokens : session[s] = NoSession
  BY DEF HistoryInit, Init
<1>3. \A n \in Names : role[n] = "none"
  BY DEF HistoryInit, Init
<1>4. UsedByKnown /\ Known
  BY <1>2 DEF HistoryInit, Init, UsedByKnown, Known
<1>5. \A h \in Handlers : Prepared(h) /\ Guarded(h)
  BY <1>1 DEF Prepared, Ready, Guarded, Demotes
<1>6. \A n \in Names : AgreesOn(n)
  BY <1>2, <1>3, AccountsAssumption DEF AgreesOn, FollowsOn, OrphanlessOn, NoSession
<1>7. Recorded
  BY <1>1 DEF Recorded, Crowd, Meet, WorksOn, Demotes
<1> QED BY <1>4, <1>5, <1>6, <1>7 DEF HistoryInv

(* Behaviours with a record are behaviours of Accounts, and keep the       *)
(* invariant.                                                              *)
LEMMA HistoryInvariant == HistorySpec => Spec /\ [](TypeOK /\ HistoryInv)
<1>1. HistoryInit => Init
  BY DEF HistoryInit
<1>2. [HistoryNext]_<<vars, historyVars>> => [Next]_vars
  BY DEF HistoryNext
<1>3. ASSUME TypeOK, RedeemInv, HistoryInv, [HistoryNext]_<<vars, historyVars>>
      PROVE  HistoryInv'
  <2>1. CASE HistoryNext
    BY <1>3, <2>1, HistoryStep DEF RedeemInv
  <2>2. CASE UNCHANGED <<vars, historyVars>>
    BY <1>3, <2>2 DEF vars, historyVars, jellyfinVars, inviteVars, HistoryInv, Recorded, Crowd,
         Meet, WorksOn, Demotes, UsedByKnown, Known, AgreesOn, FollowsOn, OrphanlessOn,
         Prepared, Ready, Guarded, OtherAdmin
  <2> QED BY <1>3, <2>1, <2>2
<1>4. TypeOK /\ RedeemInv /\ [Next]_vars => RedeemInv'
  BY NextRedeem
<1>5. HistorySpec => Spec
  BY <1>1, <1>2, PTL DEF HistorySpec, Spec
<1>6. Spec => []RedeemInv
  BY <1>4, InitRedeem, TypeCorrect, PTL DEF Spec
<1>7. HistorySpec => []HistoryInv
  BY <1>3, <1>5, <1>6, InitHistory, TypeCorrect, PTL DEF HistorySpec
<1> QED BY <1>5, <1>7, TypeCorrect, PTL

(* However handlers interleave, the copy of the role in every live session *)
(* of a name is the stored role, unless two handlers worked on that name   *)
(* at once: SetRole and DeleteRole reach every session, and a login stores *)
(* what it read.                                                           *)
THEOREM RolesFollowed == HistorySpec => []SessionsFollowRoles
<1>1. HistoryInv => SessionsFollowRoles
  BY DEF HistoryInv, Known, AgreesOn, FollowsOn, SessionsFollowRoles
<1> QED BY <1>1, HistoryInvariant, PTL

(* As long as no call fails, handleDeleteUser leaves neither a role nor a  *)
(* session of a user whose Jellyfin account is gone, unless another        *)
(* handler worked on that name at the same time.                           *)
THEOREM NothingLeftBehind == HistorySpec => []NoOrphans
<1>1. HistoryInv => NoOrphans
  BY DEF HistoryInv, AgreesOn, OrphanlessOn, NoOrphans
<1> QED BY <1>1, HistoryInvariant, PTL

(* Nobody may demote or delete themselves, so whenever an administrator    *)
(* loses the role another one still has it, if only one handler demotes or *)
(* deletes at a time.                                                      *)
THEOREM AnAdminRemains == HistorySpec => AdminRemains
<1>1. ASSUME TypeOK, HistoryInv, [HistoryNext]_<<vars, historyVars>>
      PROVE  [faults = 0 /\ crowded = {} /\ ~rivals /\ (\E n \in Names : role[n] = "admin") =>
                 \E n \in Names : role'[n] = "admin"]_vars
  <2> SUFFICES ASSUME [Next]_vars, faults = 0, crowded = {}, ~rivals,
                      NEW n \in Names, role[n] = "admin"
               PROVE  \E a \in Names : role'[a] = "admin"
    BY <1>1 DEF HistoryNext
  <2>1. CASE role'[n] = role[n]
    BY <2>1
  <2>2. CASE role'[n] # role[n]
    <3>1. PICK h \in Handlers :
             /\ handler[h].name = n
             /\ handler[h].pc \in {"default", "grant", "setrole", "delrole"}
      BY <1>1, <2>2, RoleChanges
    <3>2. Ready(h)
      BY <1>1 DEF HistoryInv, Prepared
    <3>3. Demotes(h)
      BY <3>1, <3>2 DEF Ready, Demotes
    <3>4. PICK a \in Names : a # handler[h].name /\ role[a] = "admin"
      BY <1>1, <3>3 DEF HistoryInv, Guarded, OtherAdmin
    <3> QED BY <1>1, <3>3, <3>4, RoleStands
  <2> QED BY <2>1, <2>2
<1> QED BY <1>1, HistoryInvariant, PTL DEF HistorySpec, AdminRemains

(* Whoever redeemed an invite keeps the role it grants until an            *)
(* administrator changes it: startSession's default does not replace it,   *)
(* unless two handlers worked on the name at once.                         *)
THEOREM InvitedRoleStays == HistorySpec => InvitedRoleKept
<1> DEFINE Kept(c) ==
      /\ inviteState[c] = "used"
      /\ usedBy[c] \notin crowded
      /\ role[usedBy[c]] = inviteRole[c]
      /\ role'[usedBy[c]] # inviteRole[c]
      => \E h \in Handlers : /\ handler[h].name = usedBy[c]
                             /\ handler[h].pc \in {"setrole", "delrole", "grant"}
<1>1. ASSUME TypeOK, HistoryInv, [HistoryNext]_<<vars, historyVars>>
      PROVE  [\A c \in Codes : Kept(c)]_vars
  <2> SUFFICES ASSUME [Next]_vars, NEW c \in Codes, inviteState[c] = "used",
                      usedBy[c] \notin crowded,
                      role[usedBy[c]] = inviteRole[c], role'[usedBy[c]] # inviteRole[c]
               PROVE  \E h \in Handlers : /\ handler[h].name = usedBy[c]
                                          /\ handler[h].pc \in {"setrole", "delrole", "grant"}
    BY <1>1 DEF HistoryNext
  <2>1. usedBy[c] \in Names /\ role[usedBy[c]] # "none"
    BY <1>1 DEF HistoryInv, UsedByKnown, TypeOK, Roles
  <2>2. PICK h \in Handlers :
           /\ handler[h].name = usedBy[c]
           /\ handler[h].pc \in {"default", "grant", "setrole", "delrole"}
    BY <1>1, <2>1, RoleChanges
  <2>3. handler[h].pc # "default"
    BY <1>1, <2>1, <2>2 DEF HistoryInv, Prepared, Ready
  <2> QED BY <2>2, <2>3
<1> QED BY <1>1, HistoryInvariant, PTL DEF HistorySpec, InvitedRoleKept
=============================================================================
