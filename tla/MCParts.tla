------------------------------- MODULE MCParts -------------------------------
(* Two components of the machine a user works on that share no state, the path locks
   of the daemon and the daemon manager of the desktop app, each explored by itself: a
   behaviour is one of the part it has chosen, the other part stays as it is initially.
   Initially neither part has an enabled action of its fairness, so the fairness of the
   part that is not chosen asks nothing. *)
EXTENDS LocalPathLock, DesktopDaemon

VARIABLE part

MCDirOf == [t \in Runs |-> CHOOSE d \in Dirs : TRUE]

vars == <<part, lockVars, daemonVars>>

PartsInit ==
  /\ part \in {"lock", "desktop"}
  /\ LockInit /\ DesktopInit
  /\ part # "lock" => endless = {}
  /\ part # "desktop" => proc = "off"

PartsNext ==
  \/ part = "lock" /\ LockNext /\ UNCHANGED <<part, daemonVars>>
  \/ part = "desktop" /\ DesktopNext /\ UNCHANGED <<part, lockVars>>

PartsSpec == PartsInit /\ [][PartsNext]_vars /\ LockFairness /\ DesktopFairness
=============================================================================
