------------------------ MODULE LocalPathLockProofs ------------------------
(***************************************************************************)
(* Proofs about the path locks for any number of runs and directories: the *)
(* mutex belongs to the run that owns the path or to the helper that has   *)
(* just locked it, hence the locker implements the ownership of paths.     *)
(***************************************************************************)
EXTENDS LocalPathLock, TLAPS

(* A goroutine that has the mutex is the one the mutex names *)
MutexNamesKeeper ==
  \A t \in Runs :
    /\ pc[t] \in Owning => mutex[DirOf[t]] = t /\ helper[t] = "none"
    /\ helper[t] = "locked" => mutex[DirOf[t]] = t
    /\ pc[t] \in {"try", "onWait"} => helper[t] = "none"

PathLockInv == PathLockTypeOK /\ MutexNamesKeeper /\ LockHasKeeper /\ HolderIsOwner

LEMMA InitPathLockInv == LockInit => PathLockInv
<1> SUFFICES ASSUME LockInit PROVE PathLockInv
  OBVIOUS
<1> USE PathLockAssumption DEF LockInit
<1>1. PathLockTypeOK
  BY DEF PathLockTypeOK, Helpers, RowStatuses
<1>2. MutexNamesKeeper
  BY DEF MutexNamesKeeper, Owning
<1>3. LockHasKeeper /\ HolderIsOwner
  BY DEF LockHasKeeper, HolderIsOwner
<1> QED BY <1>1, <1>2, <1>3 DEF PathLockInv

(* Types *)
LEMMA NextTypeOK == PathLockTypeOK /\ [LockNext]_lockVars => PathLockTypeOK'
<1> SUFFICES ASSUME PathLockTypeOK, [LockNext]_lockVars PROVE PathLockTypeOK'
  OBVIOUS
<1> USE PathLockAssumption DEF PathLockTypeOK, Helpers, RowStatuses, Waiting, Owning
<1>1. CASE UNCHANGED lockVars
  BY <1>1 DEF lockVars
<1>2. CASE Shutdown
  BY <1>2 DEF Shutdown
<1>3. CASE Exit
  BY <1>3 DEF Exit
<1>4. ASSUME NEW t \in Runs, Acquire(t) PROVE PathLockTypeOK'
  <2>1. CASE Arrive(t) BY <2>1 DEF Arrive, Goto
  <2>2. CASE TryLock(t) BY <2>2 DEF TryLock, Goto
  <2>3. CASE Stamp(t) BY <2>3 DEF Stamp, Goto
  <2>4. CASE OnWait(t) BY <2>4 DEF OnWait, Goto
  <2>5. CASE HelperLocks(t) BY <2>5 DEF HelperLocks
  <2>6. CASE Won(t) BY <2>6 DEF Won, Goto
  <2>7. CASE WatcherPolls(t) BY <2>7 DEF WatcherPolls
  <2>8. CASE Lost(t) BY <2>8 DEF Lost, Goto
  <2>9. CASE CleanUp(t) BY <2>9 DEF CleanUp, Unlock
  <2>10. CASE ReportLost(t) BY <2>10 DEF ReportLost, Goto, Ended
  <2> QED BY <1>4, <2>1, <2>2, <2>3, <2>4, <2>5, <2>6, <2>7, <2>8, <2>9, <2>10 DEF Acquire
<1>5. ASSUME NEW t \in Runs, RunAndRelease(t) PROVE PathLockTypeOK'
  <2>1. CASE StartTask(t) BY <2>1 DEF StartTask, Goto
  <2>2. CASE RunEnds(t) BY <2>2 DEF RunEnds, Goto, Ended
  <2>3. CASE ClearHolder(t) BY <2>3 DEF ClearHolder, Goto
  <2>4. CASE Release(t) BY <2>4 DEF Release, Goto, Unlock
  <2> QED BY <1>5, <2>1, <2>2, <2>3, <2>4 DEF RunAndRelease
<1>6. ASSUME NEW t \in Runs, EndTask(t) PROVE PathLockTypeOK'
  BY <1>6 DEF EndTask, Ended
<1> QED BY <1>1, <1>2, <1>3, <1>4, <1>5, <1>6 DEF LockNext

(* The steps that touch neither mutex, holder nor helper, and move a run inside the
   part of its code where it has, or has not, the path *)
LEMMA QuietStep ==
  ASSUME PathLockInv, PathLockTypeOK', NEW t \in Runs,
         UNCHANGED <<mutex, holderID, helper>>,
         \A u \in Runs : u # t => pc'[u] = pc[u],
         pc'[t] \in {"prepare", "run", "clear"} <=> pc[t] \in {"prepare", "run", "clear"},
         pc'[t] \in Owning <=> pc[t] \in Owning,
         pc'[t] \in {"try", "onWait"} => helper[t] = "none"
  PROVE  MutexNamesKeeper' /\ LockHasKeeper' /\ HolderIsOwner'
BY DEF PathLockInv, PathLockTypeOK, MutexNamesKeeper, LockHasKeeper, HolderIsOwner

LEMMA NextMutex == PathLockInv /\ [LockNext]_lockVars
                     => MutexNamesKeeper' /\ LockHasKeeper' /\ HolderIsOwner'
<1> SUFFICES ASSUME PathLockInv, [LockNext]_lockVars
             PROVE  MutexNamesKeeper' /\ LockHasKeeper' /\ HolderIsOwner'
  OBVIOUS
<1>0. PathLockTypeOK'
  BY NextTypeOK DEF PathLockInv
<1> USE PathLockAssumption DEF PathLockInv
<1>1. CASE UNCHANGED lockVars \/ Shutdown
  BY <1>1 DEF lockVars, Shutdown, MutexNamesKeeper, LockHasKeeper, HolderIsOwner
<1>2. CASE Exit
  BY <1>2 DEF Exit, MutexNamesKeeper, LockHasKeeper, HolderIsOwner, Owning
<1>3. ASSUME NEW t \in Runs, Acquire(t)
      PROVE  MutexNamesKeeper' /\ LockHasKeeper' /\ HolderIsOwner'
  <2>1. CASE Arrive(t)
    BY <2>1, <1>0, QuietStep DEF Arrive, Goto, PathLockTypeOK, Owning
  <2>2. CASE TryLock(t)
    <3>1. CASE mutex[DirOf[t]] # NoRun
      BY <2>2, <3>1, <1>0, QuietStep
         DEF TryLock, Goto, PathLockTypeOK, Owning, MutexNamesKeeper
    <3>2. CASE mutex[DirOf[t]] = NoRun
      BY <2>2, <3>2 DEF TryLock, Goto, PathLockTypeOK, Owning, MutexNamesKeeper,
                        LockHasKeeper, HolderIsOwner
    <3> QED BY <3>1, <3>2
  <2>3. CASE Stamp(t)
    BY <2>3 DEF Stamp, Goto, PathLockTypeOK, Owning, MutexNamesKeeper, LockHasKeeper,
                HolderIsOwner
  <2>4. CASE OnWait(t)
    BY <2>4 DEF OnWait, Goto, PathLockTypeOK, Owning, MutexNamesKeeper, LockHasKeeper,
                HolderIsOwner
  <2>5. CASE HelperLocks(t)
    BY <2>5 DEF HelperLocks, PathLockTypeOK, Owning, MutexNamesKeeper, LockHasKeeper,
                HolderIsOwner
  <2>6. CASE Won(t)
    BY <2>6 DEF Won, Goto, PathLockTypeOK, Owning, MutexNamesKeeper, LockHasKeeper,
                HolderIsOwner
  <2>7. CASE WatcherPolls(t)
    BY <2>7 DEF WatcherPolls, MutexNamesKeeper, LockHasKeeper, HolderIsOwner
  <2>8. CASE Lost(t)
    BY <2>8, <1>0, QuietStep DEF Lost, Goto, PathLockTypeOK, Owning
  <2>9. CASE CleanUp(t)
    BY <2>9 DEF CleanUp, Unlock, PathLockTypeOK, Owning, MutexNamesKeeper,
                LockHasKeeper, HolderIsOwner
  <2>10. CASE ReportLost(t)
    BY <2>10, <1>0, QuietStep DEF ReportLost, Goto, PathLockTypeOK, Owning
  <2> QED BY <1>3, <2>1, <2>2, <2>3, <2>4, <2>5, <2>6, <2>7, <2>8, <2>9, <2>10 DEF Acquire
<1>4. ASSUME NEW t \in Runs, RunAndRelease(t)
      PROVE  MutexNamesKeeper' /\ LockHasKeeper' /\ HolderIsOwner'
  <2>1. CASE StartTask(t)
    BY <2>1, <1>0, QuietStep DEF StartTask, Goto, PathLockTypeOK, Owning
  <2>2. CASE RunEnds(t)
    BY <2>2, <1>0, QuietStep DEF RunEnds, Goto, PathLockTypeOK, Owning
  <2>3. CASE ClearHolder(t)
    BY <2>3 DEF ClearHolder, Goto, PathLockTypeOK, Owning, MutexNamesKeeper,
                LockHasKeeper, HolderIsOwner
  <2>4. CASE Release(t)
    BY <2>4 DEF Release, Unlock, Goto, PathLockTypeOK, Owning, MutexNamesKeeper,
                LockHasKeeper, HolderIsOwner
  <2> QED BY <1>4, <2>1, <2>2, <2>3, <2>4 DEF RunAndRelease
<1>5. ASSUME NEW t \in Runs, EndTask(t)
      PROVE  MutexNamesKeeper' /\ LockHasKeeper' /\ HolderIsOwner'
  BY <1>5 DEF EndTask, MutexNamesKeeper, LockHasKeeper, HolderIsOwner
<1> QED BY <1>1, <1>2, <1>3, <1>4, <1>5 DEF LockNext

(* The inductive invariant: types, who keeps a mutex, whom the holder hint names *)
THEOREM PathLockInvariant == LockSpec => []PathLockInv
<1>1. PathLockInv /\ [LockNext]_lockVars => PathLockInv'
  BY NextTypeOK, NextMutex DEF PathLockInv
<1> QED BY InitPathLockInv, <1>1, PTL DEF LockSpec

(* acquireLocalDirectoryLockIfNeeded never leaves a path locked that nobody will
   release *)
THEOREM LockIsKept == LockSpec => []LockHasKeeper
<1>1. PathLockInv => LockHasKeeper
  BY DEF PathLockInv
<1> QED BY PathLockInvariant, <1>1, PTL

(* The holder that Holder and onWait report owns the path *)
THEOREM HolderOwns == LockSpec => []HolderIsOwner
<1>1. PathLockInv => HolderIsOwner
  BY DEF PathLockInv
<1> QED BY PathLockInvariant, <1>1, PTL

-----------------------------------------------------------------------------
(* Refinement: asking and using are the images of the abstract variables *)

LEMMA InitRefines == LockInit => PO!OwnershipInit
BY DEF LockInit, PO!OwnershipInit, Waiting, Owning

(* A step that changes the pc of one run only, from one value to another *)
LEMMA MoveRefines ==
  ASSUME NEW t \in Runs, NEW from, NEW to, PathLockTypeOK, Goto(t, from, to),
         \/ from \in Waiting /\ to \in Waiting
         \/ from \in Owning /\ to \in Owning
         \/ from \notin Waiting \cup Owning /\ to \notin Owning
         \/ from \in Waiting /\ to \notin Waiting \cup Owning
         \/ from \in Owning /\ to \notin Waiting \cup Owning
         \/ /\ from \in Waiting /\ to \in Owning
            /\ \A u \in Runs : pc[u] \in Owning => DirOf[u] # DirOf[t]
  PROVE  [PO!OwnershipNext]_(PO!ownershipVars)
<1> DEFINE A == {u \in Runs : pc[u] \in Waiting}
           B == {u \in Runs : pc[u] \in Owning}
<1>1. pc[t] = from /\ pc'[t] = to /\ \A u \in Runs : u # t => pc'[u] = pc[u]
  BY DEF Goto, PathLockTypeOK
<1>2. \A s : ~(s \in Waiting /\ s \in Owning)
  BY DEF Waiting, Owning
<1>3. CASE (from \in Waiting /\ to \in Waiting) \/ (from \in Owning /\ to \in Owning)
  <2>1. A' = A /\ B' = B
    BY <1>1, <1>2, <1>3
  <2> QED BY <2>1 DEF PO!ownershipVars
<1>4. CASE from \notin Waiting \cup Owning /\ to \notin Owning
  <2>1. CASE to \in Waiting
    <3>1. t \notin A \cup B /\ A' = A \cup {t} /\ B' = B
      BY <1>1, <1>2, <1>4, <2>1
    <3> QED BY <3>1 DEF PO!OwnershipNext, PO!Ask
  <2>2. CASE to \notin Waiting
    <3>1. A' = A /\ B' = B
      BY <1>1, <1>2, <1>4, <2>2
    <3> QED BY <3>1 DEF PO!ownershipVars
  <2> QED BY <2>1, <2>2
<1>5. CASE from \in Waiting /\ to \notin Waiting \cup Owning
  <2>1. t \in A /\ A' = A \ {t} /\ B' = B
    BY <1>1, <1>2, <1>5
  <2> QED BY <2>1 DEF PO!OwnershipNext, PO!GiveUp
<1>6. CASE from \in Owning /\ to \notin Waiting \cup Owning
  <2>1. t \in B /\ B' = B \ {t} /\ A' = A
    BY <1>1, <1>2, <1>6
  <2> QED BY <2>1 DEF PO!OwnershipNext, PO!Leave
<1>7. CASE /\ from \in Waiting /\ to \in Owning
           /\ \A u \in Runs : pc[u] \in Owning => DirOf[u] # DirOf[t]
  <2>1. t \in A /\ A' = A \ {t} /\ B' = B \cup {t}
    BY <1>1, <1>2, <1>7
  <2>2. \A u \in B : DirOf[u] # DirOf[t]
    BY <1>7
  <2> QED BY <2>1, <2>2 DEF PO!OwnershipNext, PO!Enter
<1> QED BY <1>3, <1>4, <1>5, <1>6, <1>7

LEMMA NextRefines ==
  PathLockInv /\ [LockNext]_lockVars => [PO!OwnershipNext]_(PO!ownershipVars)
<1> SUFFICES ASSUME PathLockInv, [LockNext]_lockVars
             PROVE  [PO!OwnershipNext]_(PO!ownershipVars)
  OBVIOUS
<1> USE PathLockAssumption DEF PathLockInv
<1>1. ASSUME UNCHANGED pc PROVE [PO!OwnershipNext]_(PO!ownershipVars)
  BY <1>1 DEF PO!ownershipVars
<1>2. CASE UNCHANGED lockVars \/ Shutdown
  BY <1>1, <1>2 DEF lockVars, Shutdown
<1>3. CASE Exit
  <2>1. {t \in Runs : pc'[t] \in Waiting} = {} /\ {t \in Runs : pc'[t] \in Owning} = {}
    BY <1>3 DEF Exit, Waiting, Owning
  <2> QED BY <2>1 DEF PO!OwnershipNext, PO!Vanish
<1>4. ASSUME NEW t \in Runs, Acquire(t) \/ RunAndRelease(t) \/ EndTask(t)
      PROVE  [PO!OwnershipNext]_(PO!ownershipVars)
  <2>1. CASE HelperLocks(t) \/ WatcherPolls(t) \/ CleanUp(t) \/ EndTask(t)
    BY <1>1, <2>1 DEF HelperLocks, WatcherPolls, CleanUp, EndTask
  <2>2. CASE Arrive(t)
    <3>1. Goto(t, "out", "try") BY <2>2 DEF Arrive
    <3> QED BY <3>1, MoveRefines DEF Waiting, Owning
  <2>3. CASE TryLock(t)
    <3>1. CASE Goto(t, "try", "onWait")
      BY <3>1, MoveRefines DEF Waiting
    <3>2. CASE mutex[DirOf[t]] = NoRun /\ Goto(t, "try", "stamp")
      <4>1. \A u \in Runs : pc[u] \in Owning => DirOf[u] # DirOf[t]
        BY <3>2 DEF MutexNamesKeeper
      <4> QED BY <3>2, <4>1, MoveRefines DEF Waiting, Owning
    <3> QED BY <2>3, <3>1, <3>2 DEF TryLock
  <2>4. CASE Won(t)
    <3>1. Goto(t, "select", "stamp") /\ helper[t] = "locked"
      BY <2>4 DEF Won
    <3>2. pc[t] \notin Owning
      BY <3>1 DEF Goto, Owning
    <3>3. \A u \in Runs : pc[u] \in Owning => DirOf[u] # DirOf[t]
      BY <3>1, <3>2 DEF MutexNamesKeeper
    <3> QED BY <3>1, <3>3, MoveRefines DEF Waiting, Owning
  <2>5. CASE OnWait(t)
    <3>1. Goto(t, "onWait", "select") BY <2>5 DEF OnWait
    <3> QED BY <3>1, MoveRefines DEF Waiting
  <2>6. CASE Lost(t)
    <3>1. Goto(t, "select", "out") \/ Goto(t, "select", "report") BY <2>6 DEF Lost
    <3> QED BY <3>1, MoveRefines DEF Waiting, Owning
  <2>7. CASE ReportLost(t)
    <3>1. Goto(t, "report", "out") BY <2>7 DEF ReportLost
    <3> QED BY <3>1, MoveRefines DEF Waiting, Owning
  <2>8. CASE Stamp(t)
    <3>1. Goto(t, "stamp", "prepare") BY <2>8 DEF Stamp
    <3> QED BY <3>1, MoveRefines DEF Owning
  <2>9. CASE StartTask(t)
    <3>1. Goto(t, "prepare", "run") \/ Goto(t, "prepare", "clear") BY <2>9 DEF StartTask
    <3> QED BY <3>1, MoveRefines DEF Owning
  <2>10. CASE RunEnds(t)
    <3>1. Goto(t, "run", "clear") BY <2>10 DEF RunEnds
    <3> QED BY <3>1, MoveRefines DEF Owning
  <2>11. CASE ClearHolder(t)
    <3>1. Goto(t, "clear", "unlock") BY <2>11 DEF ClearHolder
    <3> QED BY <3>1, MoveRefines DEF Owning
  <2>12. CASE Release(t)
    <3>1. Goto(t, "unlock", "out") BY <2>12 DEF Release
    <3> QED BY <3>1, MoveRefines DEF Waiting, Owning
  <2> QED BY <1>4, <2>1, <2>2, <2>3, <2>4, <2>5, <2>6, <2>7, <2>8, <2>9, <2>10, <2>11,
             <2>12 DEF Acquire, RunAndRelease
<1> QED BY <1>2, <1>3, <1>4 DEF LockNext

(* The path locks implement the ownership of directories: at most one run uses a
   directory, whichever way the waits, cancellations and releases interleave *)
THEOREM LockRefinesOwnership == LockSpec => OneRunPerPath
<1>1. LockInit => PO!OwnershipInit
  BY InitRefines
<1>2. PathLockInv /\ [LockNext]_lockVars => [PO!OwnershipNext]_(PO!ownershipVars)
  BY NextRefines
<1> QED BY PathLockInvariant, <1>1, <1>2, PTL DEF LockSpec, OneRunPerPath, PO!OwnershipSpec
=============================================================================
