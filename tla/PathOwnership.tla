--------------------------- MODULE PathOwnership ---------------------------
(***************************************************************************)
(* What the path locks of a daemon promise to the task runs that use local *)
(* directories: at most one run uses a directory at a time.                *)
(***************************************************************************)
CONSTANTS Runs, DirOf
VARIABLES asking,   \* the runs that wait for their directory
          using     \* the runs that use it

ownershipVars == <<asking, using>>

OwnershipInit == asking = {} /\ using = {}

Ask(t) == t \notin asking \cup using /\ asking' = asking \cup {t} /\ UNCHANGED using

Enter(t) ==
  /\ t \in asking
  /\ \A u \in using : DirOf[u] # DirOf[t]
  /\ asking' = asking \ {t}
  /\ using' = using \cup {t}

GiveUp(t) == t \in asking /\ asking' = asking \ {t} /\ UNCHANGED using

Leave(t) == t \in using /\ using' = using \ {t} /\ UNCHANGED asking

(* the process ends *)
Vanish == asking' = {} /\ using' = {}

OwnershipNext ==
  \/ Vanish
  \/ \E t \in Runs : Ask(t) \/ Enter(t) \/ GiveUp(t) \/ Leave(t)

OwnershipSpec == OwnershipInit /\ [][OwnershipNext]_ownershipVars
=============================================================================
