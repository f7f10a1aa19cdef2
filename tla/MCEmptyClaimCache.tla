------------------------- MODULE MCEmptyClaimCache -------------------------
(* Instance of EmptyClaimCache for TLC. *)
EXTENDS EmptyClaimCache
CONSTANTS r1
OneRuntime == [t \in Tasks |-> r1]
=============================================================================
