SPECIFICATION MCSpec
CONSTANTS
  NoHandler = NoHandler  NoName = NoName  NoCode = NoCode
  owner = owner  ann = ann
  Owner = owner
  c1 = c1  c2 = c2  t1 = t1  t2 = t2
  GrantRoles = {"viewer", "admin"}
  h1 = h1  h2 = h2
  Handlers = {h1, h2}
  Names = {owner, ann}
  Codes = {c1, c2}
  Tokens = {t1, t2}
  MaxAccounts = 3
  MaxFaults = 1
INVARIANTS TypeOK OneUserPerInvite SessionsFollowRoles NoOrphans
PROPERTIES InviteLifecycle AdminRemains InvitedRoleKept
SYMMETRY Symmetry
