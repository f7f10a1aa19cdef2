--------------------------- MODULE LocalPathLock ---------------------------
(***************************************************************************)
(* LocalPathLocker of the daemon and the goroutine of a task that needs a  *)
(* local directory: acquireLocalDirectoryLockIfNeeded, the run and the     *)
(* deferred release.  A waiter hands the blocking Lock of the path mutex   *)
(* to a helper goroutine, which cannot be cancelled and outlives it.       *)
(***************************************************************************)
CONSTANTS
  Runs,      \* slots for the task runs that want a local directory
  Dirs,
  DirOf,     \* the directory of a run
  MayHang,   \* the runs whose agent may be one that never ends by itself
  NoRun

ASSUME PathLockAssumption ==
  DirOf \in [Runs -> Dirs] /\ MayHang \subseteq Runs /\ NoRun \notin Runs

VARIABLES
  mutex,     \* pathLockEntry.mu: the run that locked it, by itself or by its helper
  holderID,  \* pathLockEntry.holderID, NoRun for ""
  pc,        \* where the goroutine of a run is
  helper,    \* its helper goroutine in Acquire
  polled,    \* cancelledByPoll is closed
  status,    \* the row of the task on the server; "over" for the terminal states
  endless,   \* the runs whose agent never ends by itself: AgentTimeout is 0
  down       \* the context of the daemon is cancelled

lockVars == <<mutex, holderID, pc, helper, polled, status, endless, down>>

Waiting == {"try", "onWait", "select"}
Owning == {"stamp", "prepare", "run", "clear", "unlock"}
Helpers == {"none", "locking", "locked"}
RowStatuses == {"dispatched", "waiting_local_directory", "running", "over"}

PathLockTypeOK ==
  /\ mutex \in [Dirs -> Runs \cup {NoRun}]
  /\ holderID \in [Dirs -> Runs \cup {NoRun}]
  /\ pc \in [Runs -> {"out", "report"} \cup Waiting \cup Owning]
  /\ helper \in [Runs -> Helpers]
  /\ polled \in [Runs -> BOOLEAN]
  /\ status \in [Runs -> RowStatuses]
  /\ endless \in SUBSET MayHang
  /\ down \in BOOLEAN

LockInit ==
  /\ mutex = [d \in Dirs |-> NoRun]
  /\ holderID = [d \in Dirs |-> NoRun]
  /\ pc = [t \in Runs |-> "out"]
  /\ helper = [t \in Runs |-> "none"]
  /\ polled = [t \in Runs |-> FALSE]
  /\ status = [t \in Runs |-> "over"]
  /\ endless \in SUBSET MayHang
  /\ down = FALSE

Goto(t, from, to) == pc[t] = from /\ pc' = [pc EXCEPT ![t] = to]
Unlock(t) == mutex' = [mutex EXCEPT ![DirOf[t]] = NoRun]
Ended(t) == status' = [status EXCEPT ![t] = "over"]

-----------------------------------------------------------------------------
(* Acquire *)

(* handleTask starts for a claimed task; a slot is used again once nothing of its
   former task is left *)
Arrive(t) ==
  /\ Goto(t, "out", "try") /\ helper[t] = "none" /\ ~down
  /\ status' = [status EXCEPT ![t] = "dispatched"]
  /\ UNCHANGED <<mutex, holderID, helper, polled, endless, down>>

TryLock_Unchecked(t) ==  \* mutant: the path counts as free while nobody is stamped
  /\ \/ holderID[DirOf[t]] = NoRun /\ Goto(t, "try", "stamp")
        /\ mutex' = [mutex EXCEPT ![DirOf[t]] = t]
     \/ holderID[DirOf[t]] # NoRun /\ Goto(t, "try", "onWait") /\ UNCHANGED mutex
  /\ UNCHANGED <<holderID, helper, polled, status, endless, down>>
TryLock(t) ==
  /\ \/ mutex[DirOf[t]] = NoRun /\ Goto(t, "try", "stamp")
        /\ mutex' = [mutex EXCEPT ![DirOf[t]] = t]
     \/ mutex[DirOf[t]] # NoRun /\ Goto(t, "try", "onWait") /\ UNCHANGED mutex
  /\ UNCHANGED <<holderID, helper, polled, status, endless, down>>

Stamp(t) ==
  /\ Goto(t, "stamp", "prepare")
  /\ holderID' = [holderID EXCEPT ![DirOf[t]] = t]
  /\ UNCHANGED <<mutex, helper, polled, status, endless, down>>

(* the post of the waiting state may fail, the wait goes on; then the helper starts *)
OnWait(t) ==
  /\ Goto(t, "onWait", "select")
  /\ \/ status[t] = "dispatched"
        /\ status' = [status EXCEPT ![t] = "waiting_local_directory"]
     \/ UNCHANGED status
  /\ helper' = [helper EXCEPT ![t] = "locking"]
  /\ UNCHANGED <<mutex, holderID, polled, endless, down>>

HelperLocks(t) ==
  /\ helper[t] = "locking" /\ mutex[DirOf[t]] = NoRun
  /\ helper' = [helper EXCEPT ![t] = "locked"]
  /\ mutex' = [mutex EXCEPT ![DirOf[t]] = t]
  /\ UNCHANGED <<holderID, pc, polled, status, endless, down>>

(* case <-acquired; it may be taken although the context is cancelled too *)
Won(t) ==
  /\ Goto(t, "select", "stamp") /\ helper[t] = "locked"
  /\ helper' = [helper EXCEPT ![t] = "none"]
  /\ polled' = [polled EXCEPT ![t] = FALSE]
  /\ UNCHANGED <<mutex, holderID, status, endless, down>>

(* the watcher that onWait starts *)
WatcherPolls(t) ==
  /\ pc[t] = "select" /\ status[t] = "over" /\ ~polled[t]
  /\ polled' = [polled EXCEPT ![t] = TRUE]
  /\ UNCHANGED <<mutex, holderID, pc, helper, status, endless, down>>

(* case <-ctx.Done(); silent when the server has ended the task *)
Lost_Detached(t) ==  \* mutant: the helper of a lost wait is forgotten
  /\ polled[t] \/ down
  /\ Goto(t, "select", IF polled[t] THEN "out" ELSE "report")
  /\ polled' = [polled EXCEPT ![t] = FALSE]
  /\ helper' = [helper EXCEPT ![t] = "none"]
  /\ UNCHANGED <<mutex, holderID, status, endless, down>>
Lost(t) ==
  /\ polled[t] \/ down
  /\ Goto(t, "select", IF polled[t] THEN "out" ELSE "report")
  /\ polled' = [polled EXCEPT ![t] = FALSE]
  /\ UNCHANGED <<mutex, holderID, helper, status, endless, down>>

(* the clean-up goroutine of a waiter that gave up *)
CleanUp_Forgotten(t) ==  \* mutant: nobody waits for the helper of a lost wait
  FALSE /\ UNCHANGED lockVars /\ helper[t] = "locked"
CleanUp(t) ==
  /\ pc[t] \in {"report", "out"} /\ helper[t] = "locked"
  /\ helper' = [helper EXCEPT ![t] = "none"]
  /\ Unlock(t)
  /\ UNCHANGED <<holderID, pc, polled, status, endless, down>>

(* reportTerminalTask outlives the context; when it fails the sweeper of the server
   ends the task *)
ReportLost(t) ==
  /\ Goto(t, "report", "out")
  /\ Ended(t)
  /\ UNCHANGED <<mutex, holderID, helper, polled, endless, down>>

-----------------------------------------------------------------------------
(* The run and the release *)

StartTask(t) ==
  /\ \/ status[t] # "over" /\ Goto(t, "prepare", "run")
        /\ status' = [status EXCEPT ![t] = "running"]
     \/ status[t] = "over" /\ Goto(t, "prepare", "clear") /\ UNCHANGED status
  /\ UNCHANGED <<mutex, holderID, helper, polled, endless, down>>

(* the agent ends, or is interrupted, and the result is reported *)
RunEnds(t) ==
  /\ Goto(t, "run", "clear")
  /\ t \notin endless \/ status[t] = "over" \/ down
  /\ Ended(t)
  /\ UNCHANGED <<mutex, holderID, helper, polled, endless, down>>

ClearHolder_AfterUnlock(t) ==  \* mutant: the releaser unlocks before it clears
  /\ Goto(t, "clear", "unlock")
  /\ Unlock(t)
  /\ UNCHANGED <<holderID, helper, polled, status, endless, down>>
ClearHolder(t) ==
  /\ Goto(t, "clear", "unlock")
  /\ holderID' = [holderID EXCEPT ![DirOf[t]] = NoRun]
  /\ UNCHANGED <<mutex, helper, polled, status, endless, down>>

Release(t) ==
  /\ Goto(t, "unlock", "out")
  /\ Unlock(t)
  /\ UNCHANGED <<holderID, helper, polled, status, endless, down>>

-----------------------------------------------------------------------------
(* The environment *)

(* the server cancels, fails or deletes the task *)
EndTask(t) ==
  /\ pc[t] # "out" /\ status[t] # "over" /\ Ended(t)
  /\ UNCHANGED <<mutex, holderID, pc, helper, polled, endless, down>>

Shutdown ==
  /\ ~down /\ down' = TRUE
  /\ UNCHANGED <<mutex, holderID, pc, helper, polled, status, endless>>

(* the process ends, drained or not, and is started again *)
Exit ==
  /\ mutex' = [d \in Dirs |-> NoRun]
  /\ holderID' = [d \in Dirs |-> NoRun]
  /\ pc' = [t \in Runs |-> "out"]
  /\ helper' = [t \in Runs |-> "none"]
  /\ polled' = [t \in Runs |-> FALSE]
  /\ status' = [t \in Runs |-> "over"]
  /\ down' = FALSE
  /\ UNCHANGED endless

Acquire(t) ==
  \/ Arrive(t) \/ TryLock(t) \/ Stamp(t) \/ OnWait(t) \/ HelperLocks(t) \/ Won(t)
  \/ WatcherPolls(t) \/ Lost(t) \/ CleanUp(t) \/ ReportLost(t)
RunAndRelease(t) == StartTask(t) \/ RunEnds(t) \/ ClearHolder(t) \/ Release(t)

LockNext ==
  \/ Shutdown
  \/ Exit
  \/ \E t \in Runs : Acquire(t) \/ RunAndRelease(t) \/ EndTask(t)

(* the steps of the goroutine of a run, which are enabled one or two at a time *)
Goroutine(t) ==
  TryLock(t) \/ Stamp(t) \/ OnWait(t) \/ Won(t) \/ Lost(t) \/ ReportLost(t) \/ RunAndRelease(t)

(* Goroutines run; a Go mutex hands itself to a waiter that starves, so a helper that
   sees the mutex free again and again gets it in the end *)
LockFairness ==
  \A t \in Runs :
    /\ WF_lockVars(Goroutine(t)) /\ WF_lockVars(WatcherPolls(t)) /\ WF_lockVars(CleanUp(t))
    /\ SF_lockVars(HelperLocks(t))

LockSpec == LockInit /\ [][LockNext]_lockVars
LockFairSpec == LockSpec /\ LockFairness

-----------------------------------------------------------------------------
(* Properties *)

(* The locker implements the ownership of directories: at most one run is between
   its lock and its unlock, whatever helpers of lost waits are still under way *)
PO == INSTANCE PathOwnership WITH
        asking <- {t \in Runs : pc[t] \in Waiting},
        using <- {t \in Runs : pc[t] \in Owning}
OneRunPerPath == PO!OwnershipSpec

(* Nobody leaves a path locked behind: a locked mutex has a run that will release it
   or a helper whose wait is still on or will be cleaned up *)
LockHasKeeper ==
  \A d \in Dirs : mutex[d] # NoRun =>
    LET t == mutex[d] IN DirOf[t] = d /\ (pc[t] \in Owning \/ helper[t] = "locked")

(* The holder the wait_reason names is the run that owns the path: a releaser never
   wipes the name of its successor, and no lost waiter is named *)
HolderIsOwner ==
  \A d \in Dirs : holderID[d] # NoRun =>
    mutex[d] = holderID[d] /\ pc[holderID[d]] \in {"prepare", "run", "clear"}

(* A wait ends, with the path or without it, unless an endless run keeps the path; it
   ends in any case once the server has ended the task.  The helper of a lost wait
   never keeps the path *)
WaitEnds ==
  \A t \in Runs :
    pc[t] \in Waiting /\ (status[t] = "over" \/ \A u \in endless : DirOf[u] # DirOf[t])
      ~> pc[t] \notin Waiting
=============================================================================
