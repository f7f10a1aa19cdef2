------------------------------ MODULE TaskQueue ------------------------------
(***************************************************************************)
(* agent_task_queue: the table through which the server hands agent runs   *)
(* to daemons, the claim requests that dispatch its rows, the daemons that *)
(* execute them, and the sweeper that fails abandoned ones.  A row is      *)
(* identified by its position in `task`, which is also its created_at      *)
(* order.  A "key" is what ClaimAgentTask serializes on: an (issue, agent) *)
(* pair, a chat session, or an agent's quick-create or autopilot runs.     *)
(***************************************************************************)
EXTENDS Naturals, Sequences, FiniteSets

CONSTANTS
  Agents, Runtimes, Keys,
  AgentOf,      \* [Keys -> Agents]
  KindOf,       \* [Keys -> {"issue", "chat", "quick", "autopilot"}]
  PriOf,        \* [Keys -> Nat]: priority the rows of a key are inserted with
  CommentKeys,  \* keys whose tasks carry a comment plan (claim writes a receipt)
  FallbackOf,   \* [Keys -> Keys \cup {None}]: assignee fallback of a routed comment
  MaxConcurrent,\* [Agents -> Nat]: agent.max_concurrent_tasks
  HomeOf,       \* [Agents -> Runtimes]: agent.runtime_id at the start
  Requests,     \* claim requests the server can be serving at once
  Slots,        \* daemon task slots
  SlotRt,       \* [Slots -> Runtimes]
  MaxAttempts,  \* column default of max_attempts
  NetMax,       \* providerNetworkMaxAttempts
  Reasons,      \* failure reasons the daemons report
  Faults,       \* fault kinds this instance allows
  MaxRoots,     \* bound: rows inserted other than by retry
  None

Retryable == {"offline", "recovery", "timeout", "network", "transient"}
AllReasons == Retryable \cup {"none", "agent_error", "queued_expired"}
AllFaults == {"lost", "finalize", "abort", "slow", "stall", "giveup", "crash",
              "partition", "ttl", "move", "cancel"}

ASSUME ConstantsAssumption ==
  /\ AgentOf \in [Keys -> Agents]
  /\ KindOf \in [Keys -> {"issue", "chat", "quick", "autopilot"}]
  /\ PriOf \in [Keys -> Nat]
  /\ CommentKeys \subseteq Keys
  /\ FallbackOf \in [Keys -> Keys \cup {None}]
  /\ MaxConcurrent \in [Agents -> Nat]
  /\ HomeOf \in [Agents -> Runtimes]
  /\ SlotRt \in [Slots -> Runtimes]
  /\ MaxAttempts \in Nat /\ NetMax \in Nat /\ MaxRoots \in Nat
  /\ Reasons \subseteq AllReasons \ {"none"}
  /\ Faults \subseteq AllFaults
  /\ None \notin Keys /\ None \notin Agents /\ None \notin Requests
  /\ None \notin Runtimes

VARIABLES
  task,    \* the rows, oldest first
  home,    \* agent.runtime_id
  lock,    \* the request holding the agent row FOR UPDATE, or None
  req,     \* claim requests in progress
  exec,    \* what each daemon slot is doing
  up,      \* whether the daemon process of a runtime is alive
  online,  \* agent_runtime.status = 'online'
  marked,  \* the sweeper has flipped a runtime offline in this tick
  batch,   \* failed rows whose post-failure pipeline has not run yet
  routing  \* routed primaries whose fallback insert is still outstanding

vars == <<task, home, lock, req, exec, up, online, marked, batch, routing>>

Active      == {"dispatched", "running", "waiting"}
Pending     == {"queued", "dispatched"}
Terminal    == {"completed", "failed", "cancelled"}
Statuses    == Active \cup Terminal \cup {"queued", "deferred"}
FbCancellable == {"deferred", "queued", "dispatched", "waiting"}

Rows == [status : Statuses, key : Keys, rt : Runtimes, pri : Nat,
         attempt : Nat, max : Nat, parent : Nat, esc : Nat,
         lapsed : BOOLEAN, due : BOOLEAN, reason : AllReasons]

(* task: the row the request works on; cur: the dispatched_at it read is still the
   row's; late: the daemon has stopped waiting for the answer *)
IdleReq == [pc |-> "idle", rt |-> None, todo |-> {}, agent |-> None,
            task |-> 0, cur |-> FALSE, late |-> FALSE]
IdleExec == [phase |-> "idle", task |-> 0, reason |-> "none"]
ToFailing(x, why) == [x EXCEPT !.phase = "failing", !.reason = why]

Ids == DOMAIN task
Row(k) == [status |-> "queued", key |-> k, rt |-> home[AgentOf[k]],
           pri |-> PriOf[k], attempt |-> 1, max |-> MaxAttempts,
           parent |-> 0, esc |-> 0, lapsed |-> FALSE, due |-> FALSE,
           reason |-> "none"]
Roots == Cardinality({t \in Ids : task[t].parent = 0})

(* idx_one_pending_task_per_issue_agent: a row may not become queued while
   another row of the same (issue, agent) is queued or dispatched. *)
Conflict_QueuedOnly(k) ==  \* mutant: the index covers queued rows only
  /\ KindOf[k] = "issue"
  /\ \E t \in Ids : task[t].key = k /\ task[t].status = "queued"
Conflict(k) ==
  /\ KindOf[k] = "issue"
  /\ \E t \in Ids : task[t].key = k /\ task[t].status \in Pending

(* retryAttemptCeiling, retryDelayForAttempt, retryEligible *)
Ceiling(reason, max) ==
  IF max > 1 /\ reason = "network" /\ max < NetMax THEN NetMax ELSE max
Delayed(reason, attempt) == reason = "network" /\ attempt + 1 >= NetMax
Eligible_OffByOne(reason, row) ==  \* mutant: attempt compared with <=
  /\ reason \in Retryable
  /\ row.attempt <= Ceiling(reason, row.max)
  /\ KindOf[row.key] \in {"issue", "chat"}
Eligible(reason, row) ==
  /\ reason \in Retryable
  /\ row.attempt < Ceiling(reason, row.max)
  /\ KindOf[row.key] \in {"issue", "chat"}

(* CreateRetryTask: an immediate chat retry outranks fresh messages *)
RetryPri_Inherited(p) == p.pri  \* mutant: no GREATEST(priority, 3)
RetryPri(p) == IF KindOf[p.key] = "chat" /\ p.pri < 3 THEN 3 ELSE p.pri
RetryRow(t, reason) ==
  LET p == task[t] IN
  [status |-> IF Delayed(reason, p.attempt) THEN "deferred" ELSE "queued",
   key |-> p.key, rt |-> p.rt,
   pri |-> RetryPri(p),
   attempt |-> p.attempt + 1, max |-> Ceiling(reason, p.max), parent |-> t,
   esc |-> 0, lapsed |-> FALSE, due |-> FALSE, reason |-> "none"]
(* a change of status ends the lapse; FailAgentTask records the reason *)
To(row, status) == [row EXCEPT !.status = status, !.lapsed = FALSE]
Failed_Unclassified(row, why) ==  \* mutant: the raw text instead of a reason
  [To(row, "failed") EXCEPT !.reason = "exit status 1"]
Failed(row, why) == [To(row, "failed") EXCEPT !.reason = why]

(* CancelDeferredEscalationsForTask / ...ForIssueAgent applied to rows ts *)
CancelFallbacks_DeferredOnly(ts, primaries) ==  \* mutant: misses promoted rows
  [u \in DOMAIN ts |->
     IF ts[u].esc \in primaries /\ ts[u].status = "deferred"
     THEN To(ts[u], "cancelled") ELSE ts[u]]
CancelFallbacks(ts, primaries) ==
  [u \in DOMAIN ts |->
     IF ts[u].esc \in primaries /\ ts[u].status \in FbCancellable
     THEN To(ts[u], "cancelled") ELSE ts[u]]
OfKey(k) == {t \in Ids : task[t].key = k}

Init ==
  /\ task = <<>>
  /\ home = HomeOf
  /\ lock = [a \in Agents |-> None]
  /\ req = [c \in Requests |-> IdleReq]
  /\ exec = [e \in Slots |-> IdleExec]
  /\ up = [r \in Runtimes |-> TRUE]
  /\ online = [r \in Runtimes |-> TRUE]
  /\ marked = FALSE
  /\ batch = {}
  /\ routing = {}

-----------------------------------------------------------------------------
(* Producers: enqueue, cancel, rerun, agent reassignment *)

Enqueue(k) ==
  /\ Roots < MaxRoots
  /\ ~Conflict(k)
  /\ task' = Append(task, Row(k))
  /\ routing' = IF FallbackOf[k] = None THEN routing
                ELSE routing \cup {Len(task) + 1}
  /\ UNCHANGED <<home, lock, req, exec, up, online, marked, batch>>

(* second insert of enqueueSingleCommentTrigger; its error is only logged *)
EnqueueDeferredAssigneeFallback(t) ==
  /\ t \in routing
  /\ routing' = routing \ {t}
  /\ \/ /\ Roots < MaxRoots
        /\ task[t].status = "queued" \/ "slow" \in Faults
        /\ task' = Append(task, [Row(FallbackOf[task[t].key]) EXCEPT
                                   !.status = "deferred", !.esc = t])
     \/ task' = task
  /\ UNCHANGED <<home, lock, req, exec, up, online, marked, batch>>

CancelTask(t) ==
  /\ "cancel" \in Faults
  /\ task[t].status \notin Terminal
  /\ task' = [task EXCEPT ![t] = To(@, "cancelled")]
  /\ UNCHANGED <<home, lock, req, exec, up, online, marked, batch, routing>>

(* UpdateAgent moves later rows to another runtime; existing rows stay *)
MoveAgent(a, r) ==
  /\ "move" \in Faults
  /\ home[a] # r
  /\ home' = [home EXCEPT ![a] = r]
  /\ UNCHANGED <<task, lock, req, exec, up, online, marked, batch, routing>>

-----------------------------------------------------------------------------
(* Time *)

FireAt(t) ==
  /\ task[t].status = "deferred" /\ ~task[t].due
  /\ task' = [task EXCEPT ![t].due = TRUE]
  /\ UNCHANGED <<home, lock, req, exec, up, online, marked, batch, routing>>

(* dispatched_at is older than claimResponseRecoveryWindow and the prepare lease
   has expired.  A slot preparing the row keeps extending unless it stalls; a
   request still holding it has outlived the daemon's client timeout. *)
Lapse(t) ==
  /\ task[t].status = "dispatched" /\ ~task[t].lapsed
  /\ (\E e \in Slots : exec[e].task = t) => "stall" \in Faults
  /\ (\E c \in Requests : req[c].task = t) => "slow" \in Faults
  /\ task' = [task EXCEPT ![t].lapsed = TRUE]
  /\ req' = [c \in Requests |-> IF req[c].task = t
                               THEN [req[c] EXCEPT !.late = TRUE] ELSE req[c]]
  /\ UNCHANGED <<home, lock, exec, up, online, marked, batch, routing>>

-----------------------------------------------------------------------------
(* A claim request: ClaimTaskForRuntime, ClaimTask, FinalizeTaskClaim *)

DueOf(r) == {t \in Ids : /\ task[t].status = "deferred" /\ task[t].due
                         /\ task[t].rt = r}
(* one UPDATE for all due rows: any index violation fails it as a whole *)
PromotionFits(r) ==
  \A t \in DueOf(r) : KindOf[task[t].key] = "issue" =>
    /\ ~Conflict(task[t].key)
    /\ \A u \in DueOf(r) \ {t} : task[u].key # task[t].key

Poll(c, r) ==
  /\ req[c].pc = "idle" /\ up[r]
  /\ \E e \in Slots : SlotRt[e] = r /\ exec[e].phase = "idle"
  /\ PromotionFits(r)  \* otherwise the request ends with a 500
  /\ task' = [t \in Ids |-> IF t \in DueOf(r)
                            THEN To(task[t], "queued")
                            ELSE task[t]]
  /\ req' = [req EXCEPT ![c] = [IdleReq EXCEPT !.pc = "reclaim", !.rt = r]]
  /\ UNCHANGED <<home, lock, exec, up, online, marked, batch, routing>>

(* dispatched_at = now() on row t by request c: no other request's dispatched_at
   equals the row's any more *)
Redispatched(c, t, q) ==
  [d \in Requests |-> IF d = c THEN q
                      ELSE IF req[d].task = t THEN [req[d] EXCEPT !.cur = FALSE]
                      ELSE req[d]]

Reclaimable(r) == {t \in Ids : task[t].status = "dispatched" /\ task[t].lapsed
                                /\ task[t].rt = r}
ReclaimStale(c) ==
  /\ req[c].pc = "reclaim"
  /\ IF Reclaimable(req[c].rt) = {}
     THEN /\ req' = [req EXCEPT ![c].pc = "list"]
          /\ task' = task
     ELSE \E t \in Reclaimable(req[c].rt) :
            /\ \A u \in Reclaimable(req[c].rt) : task[u].pri <= task[t].pri
            /\ task' = [task EXCEPT ![t].lapsed = FALSE]
            /\ req' = Redispatched(c, t, [req[c] EXCEPT !.pc = "build",
                                            !.task = t, !.cur = TRUE])
  /\ UNCHANGED <<home, lock, exec, up, online, marked, batch, routing>>

ListCandidates(c) ==
  /\ req[c].pc = "list"
  /\ LET found == {AgentOf[task[t].key] : t \in
                    {u \in Ids : task[u].status = "queued"
                                 /\ task[u].rt = req[c].rt}} IN
     req' = [req EXCEPT ![c] = IF found = {} THEN IdleReq
                               ELSE [@ EXCEPT !.pc = "loop", !.todo = found]]
  /\ UNCHANGED <<task, home, lock, exec, up, online, marked, batch, routing>>

(* GetAgentForClaimUpdate then CountRunningTasks; at capacity the transaction
   ends and the loop goes on.  The loop order (priority) is left open. *)
Running_CountsQueued(a) ==  \* mutant: waiting rows use up capacity
  {t \in Ids : AgentOf[task[t].key] = a /\ task[t].status \in Active \cup {"queued"}}
Running(a) == {t \in Ids : AgentOf[task[t].key] = a /\ task[t].status \in Active}
LockAgent_NoLock(c, a) ==  \* mutant: counted before the agent row is locked
  /\ req[c].pc = "loop" /\ a \in req[c].todo
  /\ req' = [req EXCEPT ![c] =
       [@ EXCEPT !.pc = IF Cardinality(Running(a)) >= MaxConcurrent[a]
                        THEN @ ELSE "take", !.todo = @ \ {a}, !.agent = a]]
  /\ UNCHANGED <<task, home, lock, exec, up, online, marked, batch, routing>>
LockAgent(c, a) ==
  /\ req[c].pc = "loop" /\ a \in req[c].todo
  /\ lock[a] = None
  /\ IF Cardinality(Running(a)) >= MaxConcurrent[a]
     THEN /\ req' = [req EXCEPT ![c].todo = @ \ {a}]
          /\ lock' = lock
     ELSE /\ req' = [req EXCEPT ![c] = [@ EXCEPT !.pc = "take", !.agent = a,
                                             !.todo = req[c].todo \ {a}]]
          /\ lock' = [lock EXCEPT ![a] = c]
  /\ UNCHANGED <<task, home, exec, up, online, marked, batch, routing>>

LoopDone(c) ==
  /\ req[c].pc = "loop" /\ req[c].todo = {}
  /\ req' = [req EXCEPT ![c] = IdleReq]
  /\ UNCHANGED <<task, home, lock, exec, up, online, marked, batch, routing>>

(* the NOT EXISTS of ClaimAgentTask: autopilot-only rows never serialize *)
Claimable_IgnoresWaiting(a) ==  \* mutant: a parked row does not block its key
  {t \in Ids : /\ task[t].status = "queued" /\ AgentOf[task[t].key] = a
               /\ \/ KindOf[task[t].key] = "autopilot"
                  \/ \A u \in Ids : task[u].key = task[t].key
                                      => task[u].status \notin Active \ {"waiting"}}
Claimable(a) ==
  {t \in Ids : /\ task[t].status = "queued" /\ AgentOf[task[t].key] = a
               /\ \/ KindOf[task[t].key] = "autopilot"
                  \/ \A u \in Ids : task[u].key = task[t].key
                                      => task[u].status \notin Active}

(* the SELECT of ClaimAgentTask, evaluated on its snapshot *)
SelectTask(c) ==
  LET a == req[c].agent IN
  /\ req[c].pc = "take"
  /\ \/ /\ Claimable(a) = {}
        /\ req' = [req EXCEPT ![c] = [@ EXCEPT !.pc = "loop", !.agent = None]]
        /\ lock' = [lock EXCEPT ![a] = None]
     \/ \E t \in Claimable(a) :
          /\ \A u \in Claimable(a) :
               \/ task[u].pri < task[t].pri
               \/ task[u].pri = task[t].pri /\ t <= u
          /\ req' = [req EXCEPT ![c] = [@ EXCEPT !.pc = "commit", !.task = t]]
          /\ lock' = lock
  /\ UNCHANGED <<task, home, exec, up, online, marked, batch, routing>>

(* its UPDATE and the commit: the row is re-checked under its lock.  A row of
   another runtime stays dispatched and the request drops it. *)
Take(c) ==
  LET t == req[c].task
      loop == [req[c] EXCEPT !.pc = "loop", !.agent = None, !.task = 0] IN
  /\ req[c].pc = "commit"
  /\ lock' = [lock EXCEPT ![req[c].agent] = None]
  /\ IF task[t].status = "queued"
     THEN /\ task' = [task EXCEPT ![t] = To(@, "dispatched")]
          /\ req' = Redispatched(c, t,
               IF task[t].rt = req[c].rt
               THEN [loop EXCEPT !.pc = "build", !.todo = {}, !.task = t,
                                 !.cur = TRUE]
               ELSE loop)
     ELSE task' = task /\ req' = [req EXCEPT ![c] = loop]
  /\ UNCHANGED <<home, exec, up, online, marked, batch, routing>>

(* FinalizeTaskClaim: for a comment-backed task the receipt is a CAS on the row
   still being this very dispatch *)
ReceiptFits(c) ==
  LET t == req[c].task IN
  task[t].key \in CommentKeys =>
    task[t].status = "dispatched" /\ req[c].cur /\ task[t].rt = req[c].rt

Deliver(c, e) ==
  /\ req[c].pc = "build" /\ ~req[c].late
  /\ ReceiptFits(c)
  /\ up[req[c].rt] /\ SlotRt[e] = req[c].rt /\ exec[e].phase = "idle"
  /\ exec' = [exec EXCEPT ![e] = [phase |-> "prepare", task |-> req[c].task,
                                  reason |-> "none"]]
  /\ req' = [req EXCEPT ![c] = IdleReq]
  /\ UNCHANGED <<task, home, lock, up, online, marked, batch, routing>>

(* the answer reaches nobody *)
LoseResponse(c) ==
  /\ req[c].pc = "build"
  /\ ReceiptFits(c)
  /\ \/ "lost" \in Faults \/ req[c].late \/ ~up[req[c].rt]
     \/ \A e \in Slots : SlotRt[e] = req[c].rt => exec[e].phase # "idle"
  /\ req' = [req EXCEPT ![c] = IdleReq]
  /\ UNCHANGED <<task, home, lock, exec, up, online, marked, batch, routing>>

FinalizeFails(c) ==
  /\ req[c].pc = "build"
  /\ ~ReceiptFits(c) \/ "finalize" \in Faults
  /\ req' = [req EXCEPT ![c].pc = "requeue"]
  /\ UNCHANGED <<task, home, lock, exec, up, online, marked, batch, routing>>

(* RequeueAgentTaskAfterClaimFailure: compare-and-set on dispatched_at *)
Requeue_NoCAS(c) ==  \* mutant: whatever dispatch the row is on
  /\ req[c].pc = "requeue"
  /\ LET t == req[c].task IN
     task' = IF task[t].status = "dispatched"
             THEN [task EXCEPT ![t] = To(@, "queued")]
             ELSE task
  /\ req' = [req EXCEPT ![c] = IdleReq]
  /\ UNCHANGED <<home, lock, exec, up, online, marked, batch, routing>>
Requeue(c) ==
  /\ req[c].pc = "requeue"
  /\ LET t == req[c].task IN
     task' = IF task[t].status = "dispatched" /\ req[c].cur
             THEN [task EXCEPT ![t] = To(@, "queued")]
             ELSE task
  /\ req' = [req EXCEPT ![c] = IdleReq]
  /\ UNCHANGED <<home, lock, exec, up, online, marked, batch, routing>>

(* the serving process dies, or the request context ends with the connection:
   its transaction rolls back *)
Abort(c) ==
  /\ req[c].pc # "idle"
  /\ "abort" \in Faults \/ req[c].late
  /\ req' = [req EXCEPT ![c] = IdleReq]
  /\ lock' = [a \in Agents |-> IF lock[a] = c THEN None ELSE lock[a]]
  /\ UNCHANGED <<task, home, exec, up, online, marked, batch, routing>>

-----------------------------------------------------------------------------
(* A daemon slot: handleTask, runTask, reportTaskResult *)

ExtendTaskPrepareLease(e) ==
  LET t == exec[e].task IN
  /\ exec[e].phase \in {"prepare", "parked"}
  /\ task[t].status \in {"dispatched", "waiting"}
  /\ task[t].rt = SlotRt[e] /\ task[t].lapsed
  /\ task' = [task EXCEPT ![t].lapsed = FALSE]
  /\ UNCHANGED <<home, lock, req, exec, up, online, marked, batch, routing>>

(* the row is parked only from dispatched; a refusal is ignored by the daemon *)
MarkTaskWaitingLocalDirectory(e) ==
  LET t == exec[e].task IN
  /\ exec[e].phase = "prepare"
  /\ exec' = [exec EXCEPT ![e].phase = "parked"]
  /\ task' = IF task[t].status = "dispatched"
             THEN [task EXCEPT ![t] = To(@, "waiting")]
             ELSE task
  /\ UNCHANGED <<home, lock, req, up, online, marked, batch, routing>>

(* the WHERE clauses of StartAgentTask and FailAgentTask *)
StartTakes_AnyUnfinished(row) == row.status # "completed"  \* mutant
StartTakes(row) == row.status \in {"dispatched", "waiting"}
FailTakes_AlsoFailed(row) == row.status \in Active \cup {"failed"}  \* mutant
FailTakes(row) == row.status \in Active

(* StartAgentTask.  A refusal makes the slot report a failure of the task. *)
StartTask(e) ==
  LET t == exec[e].task
      starts == StartTakes(task[t]) IN
  /\ exec[e].phase \in {"prepare", "parked"}
  /\ task' = IF starts THEN [task EXCEPT ![t] = To(@, "running")]
             ELSE task
  /\ exec' = IF starts THEN [exec EXCEPT ![e].phase = "starting"]
             ELSE [exec EXCEPT ![e] = ToFailing(@, "agent_error")]
  /\ UNCHANGED <<home, lock, req, up, online, marked, batch, routing>>

(* cancelDeferredEscalationsForTask, a second statement of the start request,
   and the answer, without which the slot reports a failure *)
CancelEscalations(e) ==
  /\ exec[e].phase = "starting"
  /\ \/ exec' = [exec EXCEPT ![e].phase = "running"]
     \/ /\ "lost" \in Faults
        /\ exec' = [exec EXCEPT ![e] = ToFailing(@, "agent_error")]
  /\ \/ task' = CancelFallbacks(task, {exec[e].task})
     \/ "abort" \in Faults /\ task' = task
  /\ UNCHANGED <<home, lock, req, up, online, marked, batch, routing>>

(* an agent-authored comment answers the escalations of its (issue, agent) *)
AgentComments(e) ==
  /\ exec[e].phase = "running"
  /\ KindOf[task[exec[e].task].key] = "issue"
  /\ task' = CancelFallbacks(task, OfKey(task[exec[e].task].key))
  /\ task' # task
  /\ UNCHANGED <<home, lock, req, exec, up, online, marked, batch, routing>>

AgentEnds(e) ==
  /\ \/ /\ exec[e].phase = "running"
        /\ exec' = [exec EXCEPT ![e].phase = "completing"]
     \/ /\ exec[e].phase \in {"prepare", "parked", "running"}
        /\ \E why \in Reasons :
             exec' = [exec EXCEPT ![e] = ToFailing(@, why)]
  /\ UNCHANGED <<task, home, lock, req, up, online, marked, batch, routing>>

(* watchTaskCancellation sees a terminal row *)
Interrupt(e) ==
  /\ exec[e].phase \in {"prepare", "parked", "running"}
  /\ task[exec[e].task].status \in Terminal
  /\ exec' = [exec EXCEPT ![e] = IdleExec]
  /\ UNCHANGED <<task, home, lock, req, up, online, marked, batch, routing>>

(* CompleteTask: a row that is not running is taken as already finalized *)
CompleteTask(e) ==
  LET t == exec[e].task IN
  /\ exec[e].phase = "completing"
  /\ task' = IF task[t].status = "running"
             THEN [task EXCEPT ![t] = To(@, "completed")] ELSE task
  /\ exec' = [exec EXCEPT ![e] = IdleExec]
  /\ UNCHANGED <<home, lock, req, up, online, marked, batch, routing>>

(* CreateRetryTask inside FailTask's transaction hits the unique index *)
RetryBlocked(t, why) ==
  /\ Eligible(why, task[t])
  /\ RetryRow(t, why).status = "queued"
  /\ KindOf[task[t].key] = "issue"
  /\ \E u \in Ids \ {t} : task[u].key = task[t].key /\ task[u].status \in Pending

(* FailTask's transaction: the failed parent and its retry commit together *)
FailWithRetry_Later(t, why) ==  \* mutant: the retry is left to a later transaction
  [task EXCEPT ![t] = Failed(@, why)]
FailWithRetry(t, why) ==
  Append([task EXCEPT ![t] = Failed(@, why)], RetryRow(t, why))

(* without a retry it posts a system comment, which counts as an agent answer *)
FailWithoutRetry(t, why) ==
  LET failed == [task EXCEPT ![t] = Failed(@, why)] IN
  IF KindOf[task[t].key] = "issue"
  THEN CancelFallbacks(failed, OfKey(task[t].key)) ELSE failed

FailTask(e) ==
  LET t == exec[e].task
      why == exec[e].reason IN
  /\ exec[e].phase = "failing"
  /\ \/ ~FailTakes(task[t]) /\ task' = task  \* already finalized
     \/ /\ FailTakes(task[t])
        /\ Eligible(why, task[t]) /\ ~RetryBlocked(t, why)
        /\ task' = FailWithRetry(t, why)
     \/ /\ FailTakes(task[t])
        /\ ~Eligible(why, task[t])
        /\ task' = FailWithoutRetry(t, why)
  /\ exec' = [exec EXCEPT ![e] = IdleExec]
  /\ UNCHANGED <<home, lock, req, up, online, marked, batch, routing>>

(* the callback's retry schedule is exhausted: the row keeps its status *)
GiveUp(e) ==
  /\ exec[e].phase \in {"completing", "failing"}
  /\ \/ "giveup" \in Faults
     \/ /\ exec[e].phase = "failing"
        /\ task[exec[e].task].status \in Active
        /\ RetryBlocked(exec[e].task, exec[e].reason)
  /\ exec' = [exec EXCEPT ![e] = IdleExec]
  /\ UNCHANGED <<task, home, lock, req, up, online, marked, batch, routing>>

(* a start request being served ends on the server whatever the daemon does *)
DaemonCrash(r) ==
  /\ "crash" \in Faults
  /\ up[r]
  /\ \A e \in Slots : SlotRt[e] = r => exec[e].phase # "starting"
  /\ up' = [up EXCEPT ![r] = FALSE]
  /\ req' = [c \in Requests |-> IF req[c].rt = r
                               THEN [req[c] EXCEPT !.late = TRUE] ELSE req[c]]
  /\ exec' = [e \in Slots |-> IF SlotRt[e] = r THEN IdleExec ELSE exec[e]]
  /\ UNCHANGED <<task, home, lock, online, marked, batch, routing>>

(* registration (online) and RecoverOrphans *)
DaemonStart(r) ==
  LET orphans == {t \in Ids : task[t].rt = r /\ task[t].status \in Active} IN
  /\ ~up[r]
  /\ up' = [up EXCEPT ![r] = TRUE]
  /\ online' = [online EXCEPT ![r] = TRUE]
  /\ task' = [t \in Ids |-> IF t \in orphans THEN Failed(task[t], "recovery")
                            ELSE task[t]]
  /\ batch' = batch \cup orphans
  /\ UNCHANGED <<home, lock, req, exec, marked, routing>>

Heartbeat(r) ==
  /\ up[r] /\ ~online[r]
  /\ online' = [online EXCEPT ![r] = TRUE]
  /\ UNCHANGED <<task, home, lock, req, exec, up, marked, batch, routing>>

-----------------------------------------------------------------------------
(* The sweeper *)

MarkRuntimesOffline(r) ==
  /\ online[r]
  /\ ~up[r] \/ "partition" \in Faults
  /\ online' = [online EXCEPT ![r] = FALSE]
  /\ marked' = TRUE
  /\ UNCHANGED <<task, home, lock, req, exec, up, batch, routing>>

FailTasksForOfflineRuntimes ==
  LET orphans == {t \in Ids : ~online[task[t].rt] /\ task[t].status \in Active} IN
  /\ marked
  /\ marked' = FALSE
  /\ task' = [t \in Ids |-> IF t \in orphans THEN Failed(task[t], "offline")
                            ELSE task[t]]
  /\ batch' = batch \cup orphans
  /\ UNCHANGED <<home, lock, req, exec, up, online, routing>>

Stale_DispatchedOnly(t) ==  \* mutant: running rows are left to the offline sweep
  task[t].status = "dispatched" /\ task[t].lapsed
Stale(t) ==
  \/ task[t].status = "dispatched" /\ task[t].lapsed
  \/ task[t].status = "running" /\ ~online[task[t].rt]
FailStaleTask(t) ==
  /\ Stale(t)
  /\ task' = [task EXCEPT ![t] = Failed(@, "timeout")]
  /\ batch' = batch \cup {t}
  /\ UNCHANGED <<home, lock, req, exec, up, online, marked, routing>>

ExpireStaleQueuedTask(t) ==
  /\ "ttl" \in Faults
  /\ task[t].status = "queued"
  /\ task' = [task EXCEPT ![t] = Failed(@, "queued_expired")]
  /\ batch' = batch \cup {t}
  /\ UNCHANGED <<home, lock, req, exec, up, online, marked, routing>>

(* HandleFailedTasks -> MaybeRetryFailedTask: a retry that the unique index
   refuses is logged and dropped *)
HandleFailedTask(t) ==
  LET why == task[t].reason IN
  /\ t \in batch
  /\ batch' = batch \ {t}
  /\ task' = IF Eligible(why, task[t]) /\ ~RetryBlocked(t, why)
             THEN Append(task, RetryRow(t, why)) ELSE task
  /\ UNCHANGED <<home, lock, req, exec, up, online, marked, routing>>

SweeperCrash ==
  /\ "crash" \in Faults
  /\ marked \/ batch # {}
  /\ marked' = FALSE /\ batch' = {}
  /\ UNCHANGED <<task, home, lock, req, exec, up, online, routing>>

-----------------------------------------------------------------------------
ReqStep(c) == \/ ReclaimStale(c) \/ ListCandidates(c) \/ LoopDone(c)
              \/ SelectTask(c) \/ Take(c)
              \/ \E a \in Agents : LockAgent(c, a)
              \/ \E e \in Slots : Deliver(c, e)
              \/ LoseResponse(c) \/ FinalizeFails(c) \/ Requeue(c)
SlotStep(e) == \/ StartTask(e) \/ CancelEscalations(e) \/ AgentEnds(e)
               \/ Interrupt(e) \/ CompleteTask(e) \/ FailTask(e) \/ GiveUp(e)
SweepStep == \/ \E r \in Runtimes : MarkRuntimesOffline(r)
             \/ FailTasksForOfflineRuntimes
             \/ \E t \in Ids : FailStaleTask(t) \/ HandleFailedTask(t)

Next ==
  \/ \E k \in Keys : Enqueue(k)
  \/ \E t \in Ids : \/ EnqueueDeferredAssigneeFallback(t) \/ CancelTask(t)
                    \/ FireAt(t) \/ Lapse(t) \/ ExpireStaleQueuedTask(t)
  \/ \E a \in Agents, r \in Runtimes : MoveAgent(a, r)
  \/ \E c \in Requests : \/ ReqStep(c) \/ Abort(c)
                         \/ \E r \in Runtimes : Poll(c, r)
  \/ \E e \in Slots : \/ SlotStep(e) \/ ExtendTaskPrepareLease(e)
                      \/ MarkTaskWaitingLocalDirectory(e) \/ AgentComments(e)
  \/ \E r \in Runtimes : DaemonCrash(r) \/ DaemonStart(r) \/ Heartbeat(r)
  \/ SweepStep
  \/ SweeperCrash

Spec == Init /\ [][Next]_vars

(* Scheduling the code provides: daemons poll while they run, requests and slots make
   progress, clocks advance and every part of a sweeper tick runs; a network that keeps
   recovering does not lose every answer or callback.  Nothing makes an operator cancel,
   a daemon crash or come back. *)
Fairness ==
  /\ \A c \in Requests : /\ WF_vars(ReqStep(c))
                         /\ SF_vars(\E e \in Slots : Deliver(c, e))
                         /\ \A r \in Runtimes : SF_vars(Poll(c, r))
  /\ \A e \in Slots : WF_vars(SlotStep(e)) /\ SF_vars(CompleteTask(e) \/ FailTask(e))
  /\ WF_vars(\E t \in Ids : FireAt(t))
  /\ WF_vars(\E t \in Ids : Lapse(t))
  /\ WF_vars(\E t \in Ids : EnqueueDeferredAssigneeFallback(t))
  /\ \A r \in Runtimes : WF_vars(~up[r] /\ MarkRuntimesOffline(r))
  /\ WF_vars(FailTasksForOfflineRuntimes)
  /\ WF_vars(\E t \in Ids : FailStaleTask(t))
  /\ WF_vars(\E t \in Ids : HandleFailedTask(t))
FairSpec == Spec /\ Fairness

-----------------------------------------------------------------------------
(* Properties *)

ReqStates ==
  [pc : {"idle", "reclaim", "list", "loop", "take", "commit", "build", "requeue"},
   rt : Runtimes \cup {None}, todo : SUBSET Agents,
   agent : Agents \cup {None}, task : Nat, cur : BOOLEAN, late : BOOLEAN]
SlotStates ==
  [phase : {"idle", "prepare", "parked", "starting", "running", "completing",
            "failing"},
   task : Nat, reason : AllReasons]

(* Every variable stays in its set. *)
TypeOK ==
  /\ task \in Seq(Rows)
  /\ home \in [Agents -> Runtimes]
  /\ lock \in [Agents -> Requests \cup {None}]
  /\ req \in [Requests -> ReqStates]
  /\ exec \in [Slots -> SlotStates]
  /\ up \in [Runtimes -> BOOLEAN] /\ online \in [Runtimes -> BOOLEAN]
  /\ marked \in BOOLEAN
  /\ batch \subseteq Ids /\ routing \subseteq Ids

(* Two rows of one serialization key are never active together, whichever
   requests claimed them (the NOT EXISTS of ClaimAgentTask under the agent row
   lock), and whatever requeues, reclaims and waits happen in between. *)
SerializedPerKey ==
  \A t, u \in Ids :
    /\ t # u /\ task[t].key = task[u].key
    /\ KindOf[task[t].key] # "autopilot"
    => ~(task[t].status \in Active /\ task[u].status \in Active)

(* Concurrent claim requests never dispatch an agent beyond
   max_concurrent_tasks: the count and the claim are under one row lock. *)
CapacityRespected ==
  \A a \in Agents : Cardinality(Running(a)) <= MaxConcurrent[a]

(* A failed row is retried at most once, although a callback, the sweeper, an
   orphan recovery and a duplicate callback may all report its failure. *)
RetriedOnce ==
  \A t, u \in Ids : t # u => task[t].parent = 0 \/ task[t].parent # task[u].parent

(* A failure a daemon reported with a retryable reason is committed together
   with its retry: no state has the failed parent without the child. *)
CallbackFailureKeepsRetry ==
  \A t \in Ids :
    /\ task[t].status = "failed"
    /\ task[t].reason \in {"network", "transient"} /\ Eligible(task[t].reason, task[t])
    => \E u \in Ids : task[u].parent = t

(* One row is never worked on by two slots, although a lost answer is delivered
   again and a request that outlived its window may still try to deliver or to
   requeue it: the late request's receipt and its dispatched_at CAS both miss.
   Assumes that slots extend their prepare lease in time (no "stall"). *)
ExclusiveExecution ==
  \A e, f \in Slots :
    /\ e # f /\ exec[e].phase # "idle" /\ exec[f].phase # "idle"
    => exec[e].task # exec[f].task

(* An immediate chat retry that FailTask created waits at the head of its session:
   no message sent after the failed turn is claimed before it (the retry commits
   with the failure, at a priority above fresh messages). *)
RetryNotOvertaken ==
  [][\A t, u \in Ids :
       /\ task[t].status = "queued" /\ task'[t].status = "dispatched"
       /\ task[u].status = "queued" /\ task[u].parent \in 1..(t - 1)
       /\ task[task[u].parent].reason \in {"network", "transient"}
       /\ task[u].attempt < NetMax
       /\ task[t].parent = 0 /\ task[u].key = task[t].key
       => KindOf[task[t].key] # "chat"]_vars

(* The same as CreateRetryTask's comment states it, the deferred attempt
   included: "this leaves no window for a newer input task to jump ahead". *)
ChatTurnsInOrder ==
  [][\A t, u \in Ids :
       /\ task[t].status = "queued" /\ task'[t].status = "dispatched"
       /\ task[u].status \in {"queued", "deferred"}
       /\ task[u].parent \in 1..(t - 1)
       /\ task[t].parent = 0 /\ task[u].key = task[t].key
       => KindOf[task[t].key] # "chat"]_vars

(* An automatic retry chain never outgrows its budget: MaxAttempts, or NetMax once
   the provider network failed, and none at all where retry is disabled. *)
RetryBudget ==
  \A t \in Ids :
    /\ task[t].attempt <= task[t].max \/ task[t].attempt = 1
    /\ task[t].max > MaxAttempts =>
         \E u \in 1..(t - 1) : task[u].key = task[t].key /\ task[u].reason = "network"

(* Rows of one (issue, agent) that wait or were just dispatched: never two,
   whichever of enqueue, retry, promotion and requeue put them there. *)
OnePendingPerIssueAgent ==
  \A t, u \in Ids :
    /\ t # u /\ task[t].key = task[u].key /\ KindOf[task[t].key] = "issue"
    => ~(task[t].status \in Pending /\ task[u].status \in Pending)

(* Once the routed agent has acknowledged its task, the assignee's fallback for
   it no longer waits to run (deferred, queued or claimed), except while the
   start request is between its two statements. *)
FallbackYields ==
  \A u \in Ids :
    LET t == task[u].esc IN
    /\ t # 0 /\ task[u].status \in FbCancellable
    /\ task[t].status \in {"running", "completed"}
    => \E e \in Slots : exec[e].phase = "starting" /\ exec[e].task = t

(* No late callback, retry, sweep or claim moves a row out of a terminal status. *)
TerminalIsFinal ==
  [][\A t \in Ids : task[t].status \in Terminal
        => task'[t].status = task[t].status /\ task'[t].reason = task[t].reason]_vars

(* Every row eventually ends: claims, lost answers, reclaims, retries, deferrals and
   sweeps leave none behind while daemons poll and agents end.  When a daemon is gone
   for good, rows nobody works on (queued, deferred, parked) wait for its return, and
   those it worked on still end, even if the sweeper died between marking its runtime
   offline and failing the runtime's rows.  What is left is a row whose callback a live
   daemon gave up: its heartbeats keep the sweeper away from it. *)
EveryTaskEnds ==
  \A t \in 1..(MaxRoots * NetMax) :
    (t \in Ids) ~> /\ t \in Ids
                    /\ \/ task[t].status \in Terminal
                       \/ /\ task[t].status \in {"queued", "deferred", "waiting"}
                          /\ ~up[task[t].rt]
                       \/ /\ "giveup" \in Faults
                          /\ task[t].status \in {"running", "waiting"} /\ up[task[t].rt]
                          /\ \A e \in Slots : exec[e].task # t

(* "retries and the fail, gap flag, and retry land exactly once": a failure a
   daemon reports reaches the row. *)
FailureLands ==
  \A e \in Slots, t \in 1..(MaxRoots * NetMax) :
    (exec[e].phase = "failing" /\ exec[e].task = t)
      ~> (t \in Ids /\ task[t].status \in Terminal)
=============================================================================
