----------------------------- MODULE MCPipeline -----------------------------
(* Small instances of Pipeline for TLC.  Four files: f1 and f2 replace one *)
(* another at the same path, f3 replaces either at another path, f4        *)
(* belongs to another title.  f1 is too small for its title's runtime, f3  *)
(* (in the cfgs) cannot be read.                                           *)
EXTENDS Pipeline, TLC

CONSTANTS f1, f2, f3, f4,         \* files
          m1, m2,                 \* titles
          p1, p3, p4              \* paths

AllPathOf == f1 :> p1 @@ f2 :> p1 @@ f3 :> p3 @@ f4 :> p4
AllTitleOf == f1 :> m1 @@ f2 :> m1 @@ f3 :> m1 @@ f4 :> m2

MCPathOf == [f \in Files |-> AllPathOf[f]]
MCTitleOf == [f \in Files |-> AllTitleOf[f]]
MCFullSize == [known \in BOOLEAN |-> IF known THEN Files \ {f1} ELSE Files]
MCAlways == {TRUE}
MCVaries == BOOLEAN
=============================================================================
