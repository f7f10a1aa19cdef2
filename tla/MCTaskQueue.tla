---------------------------- MODULE MCTaskQueue ----------------------------
(* Small instances of TaskQueue for TLC. *)
EXTENDS TaskQueue, TLC

CONSTANTS a1, a2, r1, r2, k1, k2, kc, kp, c1, c2, s1, s2

(* requests and slots are interchangeable where no liveness is checked *)
Symmetry == Permutations({c1, c2}) \cup Permutations({s1, s2})

(* claim: an agent of capacity 1 with an issue and a chat session, one of capacity 2
   with autopilot runs and the same issue, on which it is the fallback; both slots are on
   one of the two runtimes *)
ClaimAgentOf  == (k1 :> a1) @@ (kc :> a1) @@ (k2 :> a2) @@ (kp :> a2)
ClaimKind     == (k1 :> "issue") @@ (kc :> "chat") @@ (k2 :> "issue") @@ (kp :> "autopilot")
ClaimPri      == (k1 :> 1) @@ (kc :> 2) @@ (k2 :> 1) @@ (kp :> 0)
ClaimFallback == (k1 :> k2) @@ (kc :> None) @@ (k2 :> None) @@ (kp :> None)
ClaimMax      == (a1 :> 1) @@ (a2 :> 2)
ClaimHome     == [a \in {a1, a2} |-> r1]
OneAgentHome  == [a \in {a1} |-> r1]
TwoSlots      == [s \in {s1, s2} |-> r1]

(* one agent with an issue and a chat session, one slot *)
PairAgentOf   == [k \in {k1, kc} |-> a1]
PairKind      == (k1 :> "issue") @@ (kc :> "chat")
PairPri       == (k1 :> 1) @@ (kc :> 2)
PairFallback  == [k \in {k1, kc} |-> None]
OneAtATime    == [a \in {a1} |-> 1]
OneSlot       == [s \in {s1} |-> r1]

(* chat only *)
ChatAgentOf   == [k \in {kc} |-> a1]
ChatKind      == [k \in {kc} |-> "chat"]
ChatPri       == [k \in {kc} |-> 2]
ChatFallback  == [k \in {kc} |-> None]

(* routed: comments on one issue are routed to a2 with a1, the assignee, as the
   fallback; each agent has a runtime of its own and may move *)
RoutedAgentOf  == (k1 :> a1) @@ (k2 :> a2)
RoutedKind     == [k \in {k1, k2} |-> "issue"]
RoutedPri      == [k \in {k1, k2} |-> 1]
RoutedFallback == (k1 :> None) @@ (k2 :> k1)
TwoAgentsMax   == [a \in {a1, a2} |-> 1]
TwoAgentsHome  == (a1 :> r1) @@ (a2 :> r2)
TwoRuntimes    == (s1 :> r1) @@ (s2 :> r2)
=============================================================================
