------------------------- MODULE TaskQueueRowProofs -------------------------
(***************************************************************************)
(* Proofs about the rows of TaskQueue: how a row's status may change, what *)
(* a retry chain may look like, which rows may wait side by side, and that *)
(* a row is worked on by one slot at a time.                               *)
(***************************************************************************)
EXTENDS TaskQueueProofs

-----------------------------------------------------------------------------
(* How a step changes the rows it finds, and which rows it adds *)

SomeLapse == \E t \in Ids : Lapse(t)
SomePoll == \E c \in Requests, r \in Runtimes : Poll(c, r)
SomeRequeue == \E c \in Requests : Requeue(c)
SomeTake == \E c \in Requests : Take(c)
SomeStart == \E e \in Slots : StartTask(e)

(* the changes of status that are no failure *)
Arrow(from, to) ==
  \/ to = "cancelled"
  \/ from = "deferred" /\ to = "queued" /\ SomePoll
  \/ from = "queued" /\ to = "dispatched" /\ SomeTake
  \/ from = "dispatched" /\ to = "queued" /\ SomeRequeue
  \/ from = "dispatched" /\ to = "waiting"
  \/ from \in {"dispatched", "waiting"} /\ to = "running" /\ SomeStart
  \/ from = "running" /\ to = "completed"

(* A row keeps its identity.  It changes its status along an arrow or by failing,
   never from a terminal status, and only failing gives it a reason. *)
Changed(old, new) ==
  /\ new.key = old.key /\ new.attempt = old.attempt /\ new.max = old.max
  /\ new.parent = old.parent /\ new.esc = old.esc /\ new.pri = old.pri
  /\ \/ new.status = old.status /\ new.reason = old.reason
     \/ /\ old.status \notin Terminal
        /\ Arrow(old.status, new.status) /\ new.reason = old.reason
     \/ old.status \notin Terminal /\ new.status = "failed"
  /\ new.lapsed => new.status = old.status /\ (old.lapsed \/ SomeLapse)

(* what only a daemon's callback reports *)
Reported == {"network", "transient"}

(* A first attempt, and a fallback: the one is queued where the index admits it, the
   other deferred for a routed row. *)
Inserted(row) ==
  /\ row.parent = 0 /\ row.attempt = 1 /\ row.max = MaxAttempts
  /\ row.pri = PriOf[row.key]
  /\ \/ row.status = "queued" /\ row.esc = 0 /\ ~Conflict(row.key)
     \/ /\ row.status = "deferred" /\ row.esc \in Ids
        /\ task[row.esc].status = "queued" \/ "slow" \in Faults
RetryOf(t, u) ==
  LET why == task'[t].reason IN
  /\ task'[t].status = "failed" /\ task'[u] = RetryRow(t, why)
  /\ Eligible(why, task[t]) /\ ~RetryBlocked(t, why)
  /\ \/ t \in batch \ batch'
     \/ task[t].status \in Active /\ batch' = batch

(* t fails in this step *)
Fails(t) == task[t].status # "failed" /\ task'[t].status = "failed"

(* At most one row is added, an inserted one or the retry of a row that fails in
   this step or leaves the sweeper's batch; the batch gains only rows that fail for
   a reason of the server's. *)
HistoryStep ==
  /\ \A t \in Ids : t \in Ids' /\ Changed(task[t], task'[t])
  /\ \A t \in batch' :
       t \in batch \/ (t \in Ids /\ Fails(t) /\ task'[t].reason \notin Reported)
  /\ \A u \in Ids' \ Ids :
       /\ u = Len(task) + 1
       /\ task'[u].reason = "none" /\ task'[u].status \in {"queued", "deferred"}
       /\ Inserted(task'[u]) \/ \E t \in Ids : RetryOf(t, u)
  /\ \A t \in Ids : Fails(t) /\ task'[t].reason \in Reported =>
       \/ ~Eligible(task'[t].reason, task[t])
       \/ \E u \in Ids' \ Ids : task'[u].parent = t

LEMMA ToChanged ==
  ASSUME NEW row \in Rows, NEW st \in Statuses, row.status \notin Terminal,
         Arrow(row.status, st)
  PROVE Changed(row, To(row, st))
  BY DEF Changed, To, Rows

LEMMA FailedChanged ==
  ASSUME NEW row \in Rows, NEW why \in AllReasons, row.status \notin Terminal
  PROVE /\ Changed(row, Failed(row, why)) /\ Failed(row, why).reason = why
        /\ Failed(row, why).status = "failed"
  BY DEF Changed, Failed, To, Rows

LEMMA SameChanged ==
  ASSUME NEW row PROVE Changed(row, row)
  BY DEF Changed

LEMMA CancelChanged ==
  ASSUME NEW ts \in Seq(Rows), NEW ps, NEW u \in DOMAIN ts
  PROVE Changed(ts[u], CancelFallbacks(ts, ps)[u])
<1>1. ts[u] \in Rows
  BY RowsFcn
<1>2. CASE ts[u].esc \in ps /\ ts[u].status \in FbCancellable
  <2>1. CancelFallbacks(ts, ps)[u] = To(ts[u], "cancelled")
    BY <1>2 DEF CancelFallbacks
  <2>2. ts[u].status \notin Terminal /\ Arrow(ts[u].status, "cancelled")
        /\ "cancelled" \in Statuses
    BY <1>2 DEF FbCancellable, Terminal, Arrow, Statuses
  <2> QED BY <1>1, <2>1, <2>2, ToChanged
<1>3. CASE ~(ts[u].esc \in ps /\ ts[u].status \in FbCancellable)
  BY <1>3, SameChanged DEF CancelFallbacks
<1> QED BY <1>2, <1>3

(* Every row of the table is a row before and after the change. *)
LEMMA MapHistory ==
  ASSUME Ids' = Ids, \A t \in Ids : Changed(task[t], task'[t]),
         \A t \in batch' :
           t \in batch \/ (t \in Ids /\ Fails(t) /\ task'[t].reason \notin Reported),
         \A t \in Ids : Fails(t) => \/ task'[t].reason \notin Reported
                                    \/ ~Eligible(task'[t].reason, task[t])
  PROVE HistoryStep
  BY DEF HistoryStep

LEMMA SteadyHistory ==
  ASSUME task' = task, batch' \subseteq batch
  PROVE HistoryStep
<1>1. Ids' = Ids
  BY DEF Ids
<1>2. \A t \in Ids : Changed(task[t], task'[t]) /\ ~Fails(t)
  BY SameChanged DEF Fails
<1> QED BY <1>1, <1>2, MapHistory

LEMMA UpdateHistory ==
  ASSUME task \in Seq(Rows), NEW t \in Ids, NEW row \in Rows,
         Changed(task[t], row), task' = [task EXCEPT ![t] = row],
         batch' \subseteq batch \cup {u \in {t} : Fails(t)},
         row.status = "failed" /\ task[t].status # "failed"
           => row.reason \notin Reported
  PROVE HistoryStep
<1>1. Ids' = Ids /\ \A u \in Ids : task'[u] = IF u = t THEN row ELSE task[u]
  BY UpdateRow DEF Ids
<1>2. \A u \in Ids : Changed(task[u], task'[u])
  BY <1>1, SameChanged
<1>3. \A u \in Ids : Fails(u) => u = t /\ task'[u].reason \notin Reported
  BY <1>1 DEF Fails
<1> QED BY <1>1, <1>2, <1>3, MapHistory

LEMMA ToHistory ==
  ASSUME task \in Seq(Rows), NEW t \in Ids, NEW st \in Statuses \ {"failed"},
         task[t].status \notin Terminal, Arrow(task[t].status, st),
         task' = [task EXCEPT ![t] = To(@, st)], batch' = batch
  PROVE HistoryStep
<1>1. task[t] \in Rows
  BY RowsFcn DEF Ids
<1> DEFINE row == To(task[t], st)
<1>2. row \in Rows /\ row.status = st /\ Changed(task[t], row)
  BY <1>1, ToType, ToChanged
<1>3. task' = [task EXCEPT ![t] = row]
  OBVIOUS
<1> HIDE DEF row
<1> QED BY <1>2, <1>3, UpdateHistory

LEMMA FlagHistory ==
  ASSUME task \in Seq(Rows), NEW t \in Ids, NEW b \in BOOLEAN, batch' = batch,
         \/ task' = [task EXCEPT ![t].due = b]
         \/ task' = [task EXCEPT ![t].lapsed = b] /\ (b => SomeLapse)
  PROVE HistoryStep
<1>1. task[t] \in Rows
  BY RowsFcn DEF Ids
<1>2. CASE task' = [task EXCEPT ![t].due = b]
  <2>1. DEFINE row == [task[t] EXCEPT !.due = b]
  <2>2. row \in Rows /\ Changed(task[t], row) /\ row.status = task[t].status
    BY <1>1 DEF Rows, Changed
  <2>3. task' = [task EXCEPT ![t] = row]
    BY <1>2
  <2> HIDE DEF row
  <2> QED BY <2>2, <2>3, UpdateHistory
<1>3. CASE task' = [task EXCEPT ![t].lapsed = b] /\ (b => SomeLapse)
  <2>1. DEFINE row == [task[t] EXCEPT !.lapsed = b]
  <2>2. row \in Rows /\ Changed(task[t], row) /\ row.status = task[t].status
    BY <1>1, <1>3 DEF Rows, Changed
  <2>3. task' = [task EXCEPT ![t] = row]
    BY <1>3
  <2> HIDE DEF row
  <2> QED BY <2>2, <2>3, UpdateHistory
<1> QED BY <1>2, <1>3

(* the reasons the server itself gives *)
Swept == {"offline", "recovery", "timeout", "queued_expired"}

LEMMA FailHistory ==
  ASSUME task \in Seq(Rows), NEW S \in SUBSET Ids, NEW why \in Swept,
         \A t \in S : task[t].status \notin Terminal,
         task' = [t \in Ids |-> IF t \in S THEN Failed(task[t], why) ELSE task[t]],
         batch' \subseteq batch \cup S
  PROVE HistoryStep
<1>1. why \in AllReasons /\ why \notin Reported
  BY DEF Swept, AllReasons, Retryable, Reported
<1>2. \A t \in Ids : task[t] \in Rows
  BY RowsFcn DEF Ids
<1>3. Ids' = Ids
  BY DEF Ids
<1>4. \A t \in S : /\ Changed(task[t], task'[t]) /\ Fails(t)
                   /\ task'[t].reason \notin Reported
  BY <1>1, <1>2, FailedChanged DEF Fails, Terminal
<1>5. \A t \in Ids \ S : Changed(task[t], task'[t]) /\ ~Fails(t)
  BY SameChanged DEF Fails
<1> QED BY <1>3, <1>4, <1>5, MapHistory

LEMMA InsertHistory ==
  ASSUME task \in Seq(Rows), NEW row \in Rows, task' = Append(task, row),
         Inserted(row), row.reason = "none", row.status \in {"queued", "deferred"},
         batch' = batch
  PROVE HistoryStep
<1>1. /\ Ids' = Ids \cup {Len(task) + 1} /\ task'[Len(task) + 1] = row
      /\ \A t \in Ids : task'[t] = task[t]
  BY AppendRow DEF Ids
<1>2. \A t \in Ids : Changed(task[t], task'[t]) /\ ~Fails(t)
  BY <1>1, SameChanged DEF Fails
<1> QED BY <1>1, <1>2 DEF HistoryStep

LEMMA SameLength ==
  ASSUME NEW ts \in Seq(Rows), NEW us \in Seq(Rows), DOMAIN ts = DOMAIN us
  PROVE Len(ts) = Len(us)
  BY RowsFcn

(* What the sweeper hands to its pipeline has failed. *)
BatchFailed == \A t \in batch : task[t].status = "failed"

LEMMA ProducerHistory ==
  ASSUME ConstantsAssumption, TypeInv,
         \/ \E k \in Keys : Enqueue(k)
         \/ \E t \in Ids : EnqueueDeferredAssigneeFallback(t) \/ CancelTask(t)
  PROVE HistoryStep
<1>1. home \in [Agents -> Runtimes] /\ task \in Seq(Rows)
  BY DEF TypeInv, TypeOK
<1>2. \A k \in Keys : Row(k) \in Rows
  BY <1>1, RowType
<1>3. ASSUME NEW k \in Keys, Enqueue(k) PROVE HistoryStep
  <2>1. DEFINE row == Row(k)
  <2>2. row \in Rows /\ Inserted(row) /\ row.status = "queued" /\ row.reason = "none"
    BY <1>2, <1>3 DEF Inserted, Row, Enqueue
  <2>3. task' = Append(task, row) /\ batch' = batch
    BY <1>3 DEF Enqueue
  <2> HIDE DEF row
  <2> QED BY <1>1, <2>2, <2>3, InsertHistory
<1>4. ASSUME NEW t \in Ids, EnqueueDeferredAssigneeFallback(t) PROVE HistoryStep
  <2>1. batch' = batch
    BY <1>4 DEF EnqueueDeferredAssigneeFallback
  <2>2. CASE task' = task
    BY <2>1, <2>2, SteadyHistory
  <2>3. CASE task' # task
    <3>1. DEFINE k == FallbackOf[task[t].key]
                 row == [Row(k) EXCEPT !.status = "deferred", !.esc = t]
    <3>2. task[t] \in Rows /\ t \in Nat
      BY <1>1, RowsFcn DEF Ids
    <3>3. k \in Keys
      BY <1>4, <3>2 DEF TypeInv, Held, ConstantsAssumption, Rows,
                        EnqueueDeferredAssigneeFallback
    <3>4. Row(k) \in Rows
      BY <1>2, <3>3
    <3>5. /\ row \in Rows /\ Inserted(row)
          /\ row.status = "deferred" /\ row.reason = "none"
      BY <1>4, <2>3, <3>2, <3>4 DEF Inserted, Row, Rows, Statuses,
                                         EnqueueDeferredAssigneeFallback
    <3>6. task' = Append(task, row)
      BY <1>4, <2>3 DEF EnqueueDeferredAssigneeFallback
    <3> HIDE DEF row
    <3> QED BY <1>1, <2>1, <3>5, <3>6, InsertHistory
  <2> QED BY <2>2, <2>3
<1>5. ASSUME NEW t \in Ids, CancelTask(t) PROVE HistoryStep
  <2>1. /\ task[t].status \notin Terminal /\ batch' = batch
        /\ task' = [task EXCEPT ![t] = To(@, "cancelled")]
    BY <1>5 DEF CancelTask
  <2>2. "cancelled" \in Statuses \ {"failed"} /\ Arrow(task[t].status, "cancelled")
    BY DEF Statuses, Terminal, Arrow
  <2> QED BY <1>1, <2>1, <2>2, ToHistory
<1> QED BY <1>3, <1>4, <1>5

LEMMA TimeHistory ==
  ASSUME TypeInv, NEW t \in Ids, FireAt(t) \/ Lapse(t)
  PROVE HistoryStep
<1>1. task \in Seq(Rows)
  BY DEF TypeInv, TypeOK
<1>2. CASE FireAt(t)
  BY <1>1, <1>2, FlagHistory DEF FireAt
<1>3. CASE Lapse(t)
  <2>1. SomeLapse
    BY <1>3 DEF SomeLapse
  <2>2. task' = [task EXCEPT ![t].lapsed = TRUE] /\ batch' = batch
    BY <1>3 DEF Lapse
  <2> QED BY <1>1, <2>1, <2>2, FlagHistory
<1> QED BY <1>2, <1>3

LEMMA PollHistory ==
  ASSUME TypeInv, NEW c \in Requests, NEW r \in Runtimes, Poll(c, r)
  PROVE HistoryStep
<1>1. task \in Seq(Rows)
  BY DEF TypeInv, TypeOK
<1>2. \A t \in Ids : task[t] \in Rows
  BY <1>1, RowsFcn DEF Ids
<1>3. /\ task' = [t \in Ids |-> IF t \in DueOf(r) THEN To(task[t], "queued")
                                ELSE task[t]]
      /\ batch' = batch
  BY DEF Poll
<1>4. Ids' = Ids
  BY <1>3 DEF Ids
<1>7. SomePoll
  BY DEF SomePoll
<1>5. \A t \in DueOf(r) : /\ task[t].status = "deferred"
                          /\ To(task[t], "queued").status = "queued"
                          /\ Changed(task[t], To(task[t], "queued"))
  BY <1>2, <1>7, ToChanged, ToType DEF DueOf, Terminal, Arrow, Statuses
<1>6. \A t \in Ids : Changed(task[t], task'[t]) /\ ~Fails(t)
  BY <1>3, <1>5, SameChanged DEF Fails
<1> QED BY <1>3, <1>4, <1>6, MapHistory

LEMMA ReqHistory ==
  ASSUME TypeInv, NEW c \in Requests, ReqStep(c) \/ Abort(c)
  PROVE HistoryStep
<1>1. task \in Seq(Rows)
  BY DEF TypeInv, TypeOK
<1>2. batch' = batch
  BY DEF ReqStep, ReclaimStale, ListCandidates, LoopDone, SelectTask, Take,
         LockAgent, Deliver, LoseResponse, FinalizeFails, Requeue, Abort
<1>3. CASE task' = task
  BY <1>2, <1>3, SteadyHistory
<1>4. {"queued", "dispatched"} \subseteq Statuses \ {"failed"}
      /\ {"queued", "dispatched"} \cap Terminal = {}
  BY DEF Statuses, Active, Terminal
<1>5. CASE ReclaimStale(c) /\ task' # task
  <2>1. PICK t \in Ids : task' = [task EXCEPT ![t].lapsed = FALSE]
    BY <1>5 DEF ReclaimStale, Reclaimable
  <2> QED BY <1>1, <1>2, <2>1, FlagHistory
<1>6. CASE Take(c) /\ task' # task
  <2>1. /\ req[c].task \in Ids /\ task[req[c].task].status = "queued"
        /\ task' = [task EXCEPT ![req[c].task] = To(@, "dispatched")]
    BY <1>6 DEF TypeInv, Held, Take
  <2>2. Arrow("queued", "dispatched")
    BY <1>6 DEF Arrow, SomeTake
  <2> QED BY <1>1, <1>2, <1>4, <2>1, <2>2, ToHistory
<1>7. CASE Requeue(c) /\ task' # task
  <2>1. /\ req[c].task \in Ids /\ task[req[c].task].status = "dispatched"
        /\ task' = [task EXCEPT ![req[c].task] = To(@, "queued")]
    BY <1>7 DEF TypeInv, Held, Requeue
  <2>2. Arrow("dispatched", "queued")
    BY <1>7 DEF Arrow, SomeRequeue
  <2> QED BY <1>1, <1>2, <1>4, <2>1, <2>2, ToHistory
<1>8. CASE \/ ListCandidates(c) \/ LoopDone(c) \/ SelectTask(c)
           \/ \E a \in Agents : LockAgent(c, a)
           \/ \E e \in Slots : Deliver(c, e)
           \/ LoseResponse(c) \/ FinalizeFails(c) \/ Abort(c)
  BY <1>3, <1>8 DEF ListCandidates, LoopDone, SelectTask, LockAgent, Deliver,
                    LoseResponse, FinalizeFails, Abort
<1> QED BY <1>3, <1>5, <1>6, <1>7, <1>8 DEF ReqStep

(* FailTask's transaction: the failure with its retry, or without one. *)
LEMMA FailHistoryStep ==
  ASSUME ConstantsAssumption, task \in Seq(Rows), NEW t \in Ids,
         NEW why \in AllReasons, FailTakes(task[t]), batch' = batch,
         \/ /\ Eligible(why, task[t]) /\ ~RetryBlocked(t, why)
            /\ task' = FailWithRetry(t, why)
         \/ ~Eligible(why, task[t]) /\ task' = FailWithoutRetry(t, why)
  PROVE HistoryStep
<1>1. task[t] \in Rows /\ task[t].status \notin Terminal
  BY RowsFcn DEF Ids, FailTakes, Active, Terminal
<1>2. DEFINE row == Failed(task[t], why)
             failed == [task EXCEPT ![t] = row]
<1>3. /\ row \in Rows /\ row.status = "failed" /\ row.reason = why
      /\ Changed(task[t], row)
  BY <1>1, FailedType, FailedChanged
<1>4. /\ failed \in Seq(Rows) /\ DOMAIN failed = Ids
      /\ \A u \in Ids : failed[u] = IF u = t THEN row ELSE task[u]
  <2> HIDE DEF row
  <2> QED BY <1>3, UpdateRow DEF Ids
<1>5. task[t].status # "failed" /\ task[t].status \in Active
  BY <1>1 DEF Terminal, FailTakes
<1>6. CASE /\ Eligible(why, task[t]) /\ ~RetryBlocked(t, why)
           /\ task' = FailWithRetry(t, why)
  <2>1. DEFINE child == RetryRow(t, why)
               n == Len(task) + 1
  <2>2. child \in Rows /\ child.status \in {"queued", "deferred"}
    BY RetryRowType
  <2>3. child.parent = t /\ child.reason = "none"
    BY DEF RetryRow
  <2>4. task' = Append(failed, child)
    BY <1>6 DEF FailWithRetry
  <2>5. Len(failed) = Len(task)
    <3> HIDE DEF failed
    <3> QED BY <1>4, SameLength DEF Ids
  <2>6. /\ Ids' = Ids \cup {n} /\ task'[n] = child /\ n \notin Ids
        /\ \A u \in Ids : task'[u] = failed[u]
    <3> HIDE DEF child, failed
    <3> QED BY <1>4, <2>2, <2>4, <2>5, AppendRow DEF Ids
  <2>7. \A u \in Ids : Changed(task[u], task'[u])
    <3> HIDE DEF row, failed, child
    <3> QED BY <1>3, <1>4, <2>6, SameChanged
  <2>8. \A u \in Ids : Fails(u) => u = t
    <3> HIDE DEF row, failed, child
    <3> QED BY <1>4, <2>6 DEF Fails
  <2>9. RetryOf(t, n)
    <3>1. task'[t] = row
      <4> HIDE DEF row, failed, child
      <4> QED BY <1>4, <2>6
    <3>2. task'[t].status = "failed" /\ task'[t].reason = why
      <4> HIDE DEF row, failed, child
      <4> QED BY <1>3, <3>1
    <3> QED BY <1>5, <1>6, <2>6, <3>2 DEF RetryOf
  <2> HIDE DEF child, failed, row, n
  <2> QED BY <1>6, <2>2, <2>3, <2>6, <2>7, <2>8, <2>9 DEF HistoryStep, n
<1>7. CASE ~Eligible(why, task[t]) /\ task' = FailWithoutRetry(t, why)
  <2>1. DEFINE ps == OfKey(task[t].key)
  <2>2. task' = failed \/ task' = CancelFallbacks(failed, ps)
    BY <1>7 DEF FailWithoutRetry
  <2> HIDE DEF failed, ps, row
  <2>3. Ids' = Ids
    BY <1>4, <2>2, CancelFallbacksType DEF Ids
  <2>4. task'[t] = row
    <3>1. failed[t].status \notin FbCancellable
      BY <1>3, <1>4 DEF FbCancellable
    <3> QED BY <1>4, <2>2, <3>1 DEF CancelFallbacks
  <2>5. \A u \in Ids \ {t} : Changed(task[u], task'[u]) /\ ~Fails(u)
    <3> TAKE u \in Ids \ {t}
    <3>1. failed[u] = task[u]
      BY <1>4
    <3>2. CASE task' = failed
      BY <3>1, <3>2, SameChanged DEF Fails
    <3>3. CASE task' = CancelFallbacks(failed, ps)
      <4>1. Changed(failed[u], task'[u])
        BY <1>4, <3>3, CancelChanged
      <4>2. task'[u] = failed[u] \/ task'[u].status = "cancelled"
        BY <1>4, <3>3, CancelFallbacksType
      <4> QED BY <3>1, <4>1, <4>2 DEF Fails
    <3> QED BY <2>2, <3>2, <3>3
  <2>6. Changed(task[t], task'[t]) /\ task'[t].reason = why
    BY <1>3, <2>4
  <2>7. \A u \in Ids : Changed(task[u], task'[u])
    BY <2>5, <2>6
  <2>8. \A u \in Ids : Fails(u) => u = t
    BY <2>5
  <2> QED BY <1>7, <2>3, <2>6, <2>7, <2>8, MapHistory
<1> QED BY <1>6, <1>7

LEMMA CancelFallbacksHistory ==
  ASSUME task \in Seq(Rows), NEW ps, task' = CancelFallbacks(task, ps),
         batch' = batch
  PROVE HistoryStep
<1>1. Ids' = Ids
  BY CancelFallbacksType DEF Ids
<1>2. \A u \in Ids : Changed(task[u], task'[u])
  BY CancelChanged DEF Ids
<1>3. \A u \in Ids : task'[u] = task[u] \/ task'[u].status = "cancelled"
  BY CancelFallbacksType DEF Ids
<1>4. \A u \in Ids : ~Fails(u)
  BY <1>3 DEF Fails
<1> QED BY <1>1, <1>2, <1>4, MapHistory

LEMMA SlotHistory ==
  ASSUME ConstantsAssumption, TypeInv, NEW e \in Slots,
         \/ SlotStep(e) \/ ExtendTaskPrepareLease(e)
         \/ MarkTaskWaitingLocalDirectory(e) \/ AgentComments(e)
  PROVE HistoryStep
<1>1. /\ task \in Seq(Rows)
      /\ exec[e].phase # "idle" => exec[e].task \in Ids
      /\ exec[e].reason \in AllReasons
  BY DEF TypeInv, TypeOK, Held, SlotStates
<1> DEFINE t == exec[e].task
<1>2. batch' = batch
  BY DEF SlotStep, ExtendTaskPrepareLease, MarkTaskWaitingLocalDirectory,
         AgentComments, StartTask, CancelEscalations, AgentEnds, Interrupt,
         CompleteTask, FailTask, GiveUp
<1>3. CASE task' = task
  BY <1>2, <1>3, SteadyHistory
<1>4. {"running", "waiting", "completed"} \subseteq Statuses \ {"failed"}
      /\ {"running", "waiting", "dispatched"} \cap Terminal = {}
      /\ Arrow("dispatched", "waiting") /\ Arrow("running", "completed")
  BY DEF Statuses, Active, Terminal, Arrow
<1>5. CASE ExtendTaskPrepareLease(e)
  <2>1. t \in Ids /\ task' = [task EXCEPT ![t].lapsed = FALSE]
    BY <1>1, <1>5 DEF ExtendTaskPrepareLease
  <2> QED BY <1>1, <1>2, <2>1, FlagHistory
<1>6. CASE MarkTaskWaitingLocalDirectory(e) /\ task' # task
  <2>1. /\ t \in Ids /\ task[t].status = "dispatched"
        /\ task' = [task EXCEPT ![t] = To(@, "waiting")]
    BY <1>1, <1>6 DEF MarkTaskWaitingLocalDirectory
  <2> QED BY <1>1, <1>2, <1>4, <2>1, ToHistory
<1>7. CASE StartTask(e) /\ task' # task
  <2>1. /\ t \in Ids /\ task[t].status \in {"dispatched", "waiting"}
        /\ task' = [task EXCEPT ![t] = To(@, "running")]
    BY <1>1, <1>7 DEF StartTask, StartTakes
  <2>2. Arrow("dispatched", "running") /\ Arrow("waiting", "running")
    BY <1>7 DEF Arrow, SomeStart
  <2> QED BY <1>1, <1>2, <1>4, <2>1, <2>2, ToHistory
<1>8. CASE CancelEscalations(e) \/ AgentComments(e)
  BY <1>1, <1>2, <1>3, <1>8, CancelFallbacksHistory DEF CancelEscalations, AgentComments
<1>9. CASE AgentEnds(e) \/ Interrupt(e) \/ GiveUp(e)
  BY <1>3, <1>9 DEF AgentEnds, Interrupt, GiveUp
<1>10. CASE CompleteTask(e) /\ task' # task
  <2>1. /\ t \in Ids /\ task[t].status = "running"
        /\ task' = [task EXCEPT ![t] = To(@, "completed")]
    BY <1>1, <1>10 DEF CompleteTask
  <2> QED BY <1>1, <1>2, <1>4, <2>1, ToHistory
<1>11. CASE FailTask(e) /\ task' # task
  <2>1. /\ t \in Ids /\ FailTakes(task[t])
        /\ \/ /\ Eligible(exec[e].reason, task[t])
              /\ ~RetryBlocked(t, exec[e].reason)
              /\ task' = FailWithRetry(t, exec[e].reason)
           \/ /\ ~Eligible(exec[e].reason, task[t])
              /\ task' = FailWithoutRetry(t, exec[e].reason)
    BY <1>1, <1>11 DEF FailTask
  <2> HIDE DEF t
  <2> QED BY <1>1, <1>2, <2>1, FailHistoryStep
<1> QED BY <1>3, <1>5, <1>6, <1>7, <1>8, <1>9, <1>10, <1>11 DEF SlotStep

(* A step of the sweeper, or the orphan recovery of a daemon that registers. *)
LEMMA SweepHistory ==
  ASSUME ConstantsAssumption, TypeInv, BatchFailed,
         \/ SweepStep \/ SweeperCrash \/ \E t \in Ids : ExpireStaleQueuedTask(t)
         \/ \E r \in Runtimes : DaemonStart(r)
  PROVE HistoryStep
<1>1. task \in Seq(Rows)
  BY DEF TypeInv, TypeOK
<1>2. \A t \in Ids : task[t].status \in Active \cup {"queued"}
        => task[t].status \notin Terminal
  BY DEF Active, Terminal
<1>3. ASSUME NEW t \in Ids, FailStaleTask(t) \/ ExpireStaleQueuedTask(t)
      PROVE HistoryStep
  <2>1. PICK why \in Swept : /\ task[t].status \in Active \cup {"queued"}
                             /\ task' = [task EXCEPT ![t] = Failed(@, why)]
                             /\ batch' = batch \cup {t}
    BY <1>3 DEF FailStaleTask, ExpireStaleQueuedTask, Stale, Active, Swept
  <2>2. task' = [u \in Ids |-> IF u \in {t} THEN Failed(task[u], why) ELSE task[u]]
    BY <2>1 DEF Ids
  <2> QED BY <1>1, <1>2, <2>1, <2>2, FailHistory
<1>4. ASSUME NEW t \in Ids, HandleFailedTask(t) PROVE HistoryStep
  <2>1. DEFINE why == task[t].reason
               child == RetryRow(t, why)
               n == Len(task) + 1
  <2>2. t \in batch \ batch' /\ batch' \subseteq batch /\ task[t].status = "failed"
    BY <1>4 DEF HandleFailedTask, BatchFailed
  <2>3. CASE task' = task
    BY <2>2, <2>3, SteadyHistory
  <2>4. CASE task' # task
    <3>1. /\ Eligible(why, task[t]) /\ ~RetryBlocked(t, why)
          /\ task' = Append(task, child)
      BY <1>4, <2>4 DEF HandleFailedTask
    <3>2. child \in Rows /\ child.status \in {"queued", "deferred"}
      BY <1>1, RetryRowType
    <3>3. child.reason = "none"
      BY DEF RetryRow
    <3>4. /\ Ids' = Ids \cup {n} /\ task'[n] = child
          /\ \A u \in Ids : task'[u] = task[u]
      <4> HIDE DEF child
      <4> QED BY <1>1, <3>1, <3>2, AppendRow DEF Ids
    <3>5. RetryOf(t, n)
      BY <2>2, <3>1, <3>4 DEF RetryOf
    <3>6. \A u \in Ids : Changed(task[u], task'[u]) /\ ~Fails(u)
      BY <3>4, SameChanged DEF Fails
    <3> HIDE DEF child, n
    <3> QED BY <2>2, <3>2, <3>3, <3>4, <3>5, <3>6 DEF HistoryStep, n
  <2> QED BY <2>3, <2>4
<1>5. CASE FailTasksForOfflineRuntimes \/ \E r \in Runtimes : DaemonStart(r)
  <2>1. PICK S \in SUBSET Ids, why \in Swept :
          /\ \A t \in S : task[t].status \in Active
          /\ task' = [t \in Ids |-> IF t \in S THEN Failed(task[t], why) ELSE task[t]]
          /\ batch' = batch \cup S
    <3>1. CASE FailTasksForOfflineRuntimes
      <4> USE DEF Swept
      <4> WITNESS {t \in Ids : ~online[task[t].rt] /\ task[t].status \in Active}
                    \in SUBSET Ids,
                  "offline" \in Swept
      <4> QED BY <3>1 DEF FailTasksForOfflineRuntimes
    <3>2. ASSUME NEW r \in Runtimes, DaemonStart(r)
          PROVE \E S \in SUBSET Ids, why \in Swept :
          /\ \A t \in S : task[t].status \in Active
          /\ task' = [t \in Ids |-> IF t \in S THEN Failed(task[t], why) ELSE task[t]]
          /\ batch' = batch \cup S
      <4> USE DEF Swept
      <4> WITNESS {t \in Ids : task[t].rt = r /\ task[t].status \in Active}
                    \in SUBSET Ids,
                  "recovery" \in Swept
      <4> QED BY <3>2 DEF DaemonStart
    <3> QED BY <1>5, <3>1, <3>2
  <2> QED BY <1>1, <1>2, <2>1, FailHistory
<1>6. CASE (\E r \in Runtimes : MarkRuntimesOffline(r)) \/ SweeperCrash
  <2>1. task' = task /\ batch' \subseteq batch
    BY <1>6 DEF MarkRuntimesOffline, SweeperCrash
  <2> QED BY <2>1, SteadyHistory
<1> QED BY <1>3, <1>4, <1>5, <1>6 DEF SweepStep

(* Whatever the next step is. *)
LEMMA StepHistory ==
  ASSUME ConstantsAssumption, TypeInv, BatchFailed, [Next]_vars
  PROVE HistoryStep
<1>1. CASE UNCHANGED vars
  <2>1. task' = task /\ batch' \subseteq batch
    BY <1>1 DEF vars
  <2> QED BY <2>1, SteadyHistory
<1>2. ASSUME NEW a \in Agents, NEW r \in Runtimes, MoveAgent(a, r)
      PROVE HistoryStep
  <2>1. task' = task /\ batch' \subseteq batch
    BY <1>2 DEF MoveAgent
  <2> QED BY <2>1, SteadyHistory
<1>3. ASSUME NEW r \in Runtimes, DaemonCrash(r) \/ Heartbeat(r)
      PROVE HistoryStep
  <2>1. task' = task /\ batch' \subseteq batch
    BY <1>3 DEF DaemonCrash, Heartbeat
  <2> QED BY <2>1, SteadyHistory
<1> QED BY <1>1, <1>2, <1>3, ProducerHistory, TimeHistory, PollHistory, ReqHistory,
           SlotHistory, SweepHistory DEF Next

LEMMA TerminalKept ==
  ASSUME HistoryStep, NEW t \in Ids, task[t].status \in Terminal
  PROVE /\ t \in Ids' /\ ~Fails(t)
        /\ task'[t].status = task[t].status /\ task'[t].reason = task[t].reason
<1>1. t \in Ids' /\ Changed(task[t], task'[t])
  BY DEF HistoryStep
<1> QED BY <1>1 DEF Changed, Fails

(* No late callback, retry, sweep or claim moves a row out of a terminal status,
   whatever the faults: every statement that changes a status names the statuses
   it changes. *)
THEOREM TerminalRowsStay == Spec => TerminalIsFinal
<1>1. Init => BatchFailed
  BY DEF Init, BatchFailed
<1>2. BatchFailed /\ TypeInv /\ [Next]_vars => BatchFailed'
  <2> SUFFICES ASSUME BatchFailed, TypeInv, [Next]_vars,
                      NEW t \in batch'
               PROVE task'[t].status = "failed"
    BY DEF BatchFailed
  <2>1. HistoryStep
    BY ConstantsAssumption, StepHistory
  <2>2. CASE t \in batch
    <3>1. t \in Ids /\ task[t].status = "failed" /\ "failed" \in Terminal
      BY <2>2 DEF BatchFailed, TypeInv, TypeOK, Terminal
    <3> QED BY <2>1, <3>1, TerminalKept
  <2>3. CASE t \notin batch
    BY <2>1, <2>3 DEF HistoryStep, Fails
  <2> QED BY <2>2, <2>3
<1>3. BatchFailed /\ TypeInv /\ [Next]_vars =>
        [\A t \in Ids : task[t].status \in Terminal
           => task'[t].status = task[t].status /\ task'[t].reason = task[t].reason]_vars
  BY ConstantsAssumption, StepHistory, TerminalKept
<1> QED BY <1>1, <1>2, <1>3, TypeInvariant, PTL DEF Spec, TerminalIsFinal

-----------------------------------------------------------------------------
(* Retry chains *)

ReasonOfFailure == \A t \in Ids : task[t].reason # "none" => task[t].status = "failed"

(* The parent of a retry is an older row of the same key that has failed, and whose
   failure the sweeper will not handle again. *)
ChainInv ==
  \A t \in Ids : task[t].parent # 0 =>
    LET p == task[t].parent IN
    /\ p \in 1..(t - 1) /\ p \notin batch
    /\ task[p].status = "failed" /\ task[p].key = task[t].key
HistoryInv ==
  /\ ReasonOfFailure /\ BatchFailed /\ ChainInv
  /\ RetriedOnce /\ CallbackFailureKeepsRetry /\ RetryBudget

LEMMA IdsAreNat ==
  ASSUME task \in Seq(Rows)
  PROVE /\ Len(task) \in Nat /\ Ids = 1..Len(task)
        /\ \A t \in Ids : task[t] \in Rows /\ t \in Nat \ {0}
  BY RowsFcn DEF Ids

(* What the row added by a retry looks like. *)
LEMMA RetriedRow ==
  ASSUME NEW p, NEW u, RetryOf(p, u)
  PROVE /\ task'[u].key = task[p].key /\ task'[u].attempt = task[p].attempt + 1
        /\ task'[u].max = Ceiling(task'[p].reason, task[p].max)
        /\ task'[u].parent = p /\ task'[u].esc = 0
<1>1. task'[u] = RetryRow(p, task'[p].reason)
  BY DEF RetryOf
<1> QED BY <1>1 DEF RetryRow

LEMMA ReasonStep ==
  ASSUME HistoryStep, ReasonOfFailure
  PROVE ReasonOfFailure'
<1> SUFFICES ASSUME NEW t \in Ids', task'[t].reason # "none"
             PROVE task'[t].status = "failed"
  BY DEF ReasonOfFailure
<1>1. CASE t \in Ids
  <2>1. Changed(task[t], task'[t])
    BY <1>1 DEF HistoryStep
  <2>2. CASE task'[t].reason = task[t].reason
    <3>1. task[t].status = "failed" /\ "failed" \in Terminal
      BY <1>1, <2>2 DEF ReasonOfFailure, Terminal
    <3> QED BY <1>1, <3>1, TerminalKept
  <2> QED BY <2>1, <2>2 DEF Changed
<1>2. CASE t \notin Ids
  BY <1>2 DEF HistoryStep
<1> QED BY <1>1, <1>2

LEMMA BatchStep ==
  ASSUME TypeInv, HistoryStep, BatchFailed
  PROVE BatchFailed'
<1>1. \A t \in batch : t \in Ids /\ task[t].status \in Terminal
  BY DEF BatchFailed, TypeInv, TypeOK, Terminal
<1>2. \A t \in batch' : t \in batch \/ Fails(t)
  BY DEF HistoryStep
<1> QED BY <1>1, <1>2, TerminalKept DEF BatchFailed, Fails

LEMMA ChainStep ==
  ASSUME TypeInv, HistoryStep, BatchFailed, ChainInv
  PROVE ChainInv'
<1>1. task \in Seq(Rows)
  BY DEF TypeInv, TypeOK
<1>2. /\ Ids = 1..Len(task) /\ Len(task) \in Nat
      /\ \A t \in Ids : t \in Nat \ {0}
  BY <1>1, IdsAreNat
<1> SUFFICES ASSUME NEW t \in Ids', task'[t].parent # 0
             PROVE LET p == task'[t].parent IN
                   /\ p \in 1..(t - 1) /\ p \notin batch'
                   /\ task'[p].status = "failed" /\ task'[p].key = task'[t].key
  BY DEF ChainInv
<1>3. ASSUME NEW p \in Ids, task[p].status = "failed", p \notin batch
      PROVE p \notin batch' /\ task'[p].status = "failed" /\ task'[p].key = task[p].key
  <2>1. task[p].status \in Terminal
    BY <1>3 DEF Terminal
  <2>2. ~Fails(p) /\ task'[p].status = "failed"
    BY <1>3, <2>1, TerminalKept
  <2>3. task'[p].key = task[p].key
    BY DEF HistoryStep, Changed
  <2> QED BY <1>3, <2>2, <2>3 DEF HistoryStep
<1>4. CASE t \in Ids
  <2>1. task'[t].parent = task[t].parent /\ task'[t].key = task[t].key
    BY <1>4 DEF HistoryStep, Changed
  <2>2. DEFINE p == task[t].parent
  <2>3. /\ p \in 1..(t - 1) /\ p \notin batch
        /\ task[p].status = "failed" /\ task[p].key = task[t].key
    BY <1>4, <2>1 DEF ChainInv
  <2>4. p \in Ids
    BY <1>2, <1>4, <2>3
  <2> HIDE DEF p
  <2> QED BY <1>3, <2>1, <2>3, <2>4 DEF p
<1>5. CASE t \notin Ids
  <2>1. t = Len(task) + 1 /\ (Inserted(task'[t]) \/ \E p \in Ids : RetryOf(p, t))
    BY <1>5 DEF HistoryStep
  <2>2. PICK p \in Ids : RetryOf(p, t)
    BY <2>1 DEF Inserted
  <2>3. task'[t].parent = p /\ task'[t].key = task[p].key
    BY <2>2, RetriedRow
  <2>4. task'[p].key = task[p].key
    BY DEF HistoryStep, Changed
  <2>5. p \in 1..(t - 1)
    BY <1>2, <2>1
  <2>6. task'[p].status = "failed" /\ p \notin batch'
    BY <2>2 DEF RetryOf, BatchFailed, Active
  <2> QED BY <2>3, <2>4, <2>5, <2>6
<1> QED BY <1>4, <1>5

LEMMA OnceStep ==
  ASSUME TypeInv, HistoryStep, ChainInv, RetriedOnce
  PROVE RetriedOnce'
<1>1. task \in Seq(Rows)
  BY DEF TypeInv, TypeOK
<1>2. /\ Ids = 1..Len(task) /\ Len(task) \in Nat
      /\ \A t \in Ids : t \in Nat \ {0}
  BY <1>1, IdsAreNat
<1>3. \A t \in Ids : task'[t].parent = task[t].parent
  BY DEF HistoryStep, Changed
(* a row that has a child is not retried again *)
<1>4. ASSUME NEW t \in Ids, NEW u \in Ids' \ Ids, task'[u].parent # 0
      PROVE task'[t].parent # task'[u].parent
  <2>1. PICK p \in Ids : RetryOf(p, u)
    BY <1>4 DEF HistoryStep, Inserted
  <2>2. task'[u].parent = p
    BY <2>1, RetriedRow
  <2>3. task[t].parent # p
    <3> SUFFICES ASSUME task[t].parent = p
                 PROVE FALSE
      OBVIOUS
    <3>1. p # 0
      BY <1>2
    <3>2. task[p].status = "failed" /\ p \notin batch
      BY <3>1 DEF ChainInv
    <3> QED BY <2>1, <3>2 DEF RetryOf, Active
  <2> QED BY <1>3, <2>2, <2>3
<1>5. \A t, u \in Ids' : t \notin Ids /\ u \notin Ids => t = u
  BY DEF HistoryStep
<1>6. SUFFICES ASSUME NEW t \in Ids', NEW u \in Ids', t # u,
                      task'[t].parent # 0, task'[t].parent = task'[u].parent
               PROVE FALSE
  BY DEF RetriedOnce
<1>7. CASE t \in Ids /\ u \in Ids
  BY <1>3, <1>6, <1>7 DEF RetriedOnce
<1>8. CASE t \in Ids /\ u \notin Ids
  BY <1>4, <1>6, <1>8
<1>9. CASE t \notin Ids /\ u \in Ids
  BY <1>4, <1>6, <1>9
<1> QED BY <1>5, <1>6, <1>7, <1>8, <1>9

LEMMA KeepsRetryStep ==
  ASSUME HistoryStep, CallbackFailureKeepsRetry
  PROVE CallbackFailureKeepsRetry'
<1>1. \A t \in Ids : \A why :
        Eligible(why, task'[t]) => Eligible(why, task[t])
  BY DEF HistoryStep, Changed, Eligible
<1> SUFFICES ASSUME NEW t \in Ids', task'[t].status = "failed",
                    task'[t].reason \in Reported, Eligible(task'[t].reason, task'[t])
             PROVE \E u \in Ids' : task'[u].parent = t
  BY DEF CallbackFailureKeepsRetry, Reported
<1>2. t \in Ids
  BY DEF HistoryStep
<1>3. CASE Fails(t)
  BY <1>1, <1>2, <1>3 DEF HistoryStep
<1>4. CASE ~Fails(t)
  <2>1. task[t].status = "failed"
    BY <1>4 DEF Fails
  <2>2. task'[t].reason = task[t].reason
    BY <1>2, <2>1, TerminalKept DEF Terminal
  <2>3. PICK u \in Ids : task[u].parent = t
    BY <1>1, <1>2, <2>1, <2>2 DEF CallbackFailureKeepsRetry, Reported
  <2>4. u \in Ids' /\ task'[u].parent = t
    BY <2>3 DEF HistoryStep, Changed
  <2> QED BY <2>4
<1> QED BY <1>3, <1>4

LEMMA BudgetStep ==
  ASSUME ConstantsAssumption, TypeInv, HistoryStep, ReasonOfFailure, RetryBudget
  PROVE RetryBudget'
<1>1. task \in Seq(Rows)
  BY DEF TypeInv, TypeOK
<1>2. /\ Ids = 1..Len(task) /\ Len(task) \in Nat
      /\ \A t \in Ids : task[t] \in Rows /\ t \in Nat \ {0}
  BY <1>1, IdsAreNat
<1>3. \A t \in Ids : /\ task'[t].key = task[t].key /\ task'[t].max = task[t].max
                     /\ task'[t].attempt = task[t].attempt
  BY DEF HistoryStep, Changed
(* the row that widened a budget stays a network failure *)
<1>4. ASSUME NEW u \in Ids, task[u].reason = "network"
      PROVE task'[u].reason = "network"
  <2>1. task[u].status \in Terminal
    BY <1>4 DEF ReasonOfFailure, Terminal
  <2> QED BY <1>4, <2>1, TerminalKept
<1>5. ASSUME NEW t \in Ids, task[t].max > MaxAttempts
      PROVE \E u \in 1..(t - 1) : /\ u \in Ids /\ task'[u].key = task[t].key
                                  /\ task'[u].reason = "network"
  <2>1. PICK u \in 1..(t - 1) : task[u].key = task[t].key /\ task[u].reason = "network"
    BY <1>5 DEF RetryBudget
  <2>2. u \in Ids
    BY <1>2
  <2> QED BY <1>3, <1>4, <2>1, <2>2
<1> SUFFICES ASSUME NEW t \in Ids'
             PROVE /\ task'[t].attempt <= task'[t].max \/ task'[t].attempt = 1
                   /\ task'[t].max > MaxAttempts =>
                        \E u \in 1..(t - 1) : /\ task'[u].key = task'[t].key
                                              /\ task'[u].reason = "network"
  BY DEF RetryBudget
<1>6. CASE t \in Ids
  BY <1>3, <1>5, <1>6 DEF RetryBudget
<1>7. CASE t \notin Ids /\ Inserted(task'[t])
  BY <1>7 DEF Inserted, ConstantsAssumption
<1>8. CASE t \notin Ids /\ ~Inserted(task'[t])
  <2>1. t = Len(task) + 1 /\ \E p \in Ids : RetryOf(p, t)
    BY <1>8 DEF HistoryStep
  <2>2. PICK p \in Ids : RetryOf(p, t)
    BY <2>1
  <2> DEFINE why == task'[p].reason
  <2>3. /\ task'[t].attempt = task[p].attempt + 1 /\ task'[t].key = task[p].key
        /\ task'[t].max = Ceiling(why, task[p].max)
    BY <2>2, RetriedRow
  <2>4. task[p].attempt < Ceiling(why, task[p].max)
    BY <2>2 DEF RetryOf, Eligible
  <2>5. task[p].attempt \in Nat /\ task[p].max \in Nat /\ NetMax \in Nat
    BY <1>2 DEF Rows, ConstantsAssumption
  <2>6. Ceiling(why, task[p].max) \in Nat
    BY <2>5 DEF Ceiling
  <2>7. task'[t].attempt <= task'[t].max
    BY <2>3, <2>4, <2>5, <2>6
  <2>8. p \in 1..(t - 1)
    BY <1>2, <2>1
  <2>9. CASE why = "network"
    BY <1>3, <2>3, <2>7, <2>8, <2>9
  <2>10. CASE why # "network"
    <3>1. task'[t].max = task[p].max
      BY <2>3, <2>10 DEF Ceiling
    <3>2. \A u \in 1..(p - 1) : u \in 1..(t - 1)
      BY <1>2, <2>1, <2>8
    <3> QED BY <1>5, <2>3, <2>7, <3>1, <3>2
  <2> QED BY <2>9, <2>10
<1> QED BY <1>6, <1>7, <1>8

LEMMA HistoryInvariant == Spec => []HistoryInv
<1>1. Init => HistoryInv
  BY DEF Init, HistoryInv, ReasonOfFailure, BatchFailed, ChainInv, RetriedOnce,
         CallbackFailureKeepsRetry, RetryBudget, Ids
<1>2. HistoryInv /\ TypeInv /\ [Next]_vars => HistoryInv'
  <2> SUFFICES ASSUME HistoryInv, TypeInv, [Next]_vars PROVE HistoryInv'
    OBVIOUS
  <2>1. HistoryStep
    BY ConstantsAssumption, StepHistory DEF HistoryInv
  <2> QED BY <2>1, ConstantsAssumption, ReasonStep, BatchStep, ChainStep, OnceStep,
             KeepsRetryStep, BudgetStep DEF HistoryInv
<1> QED BY <1>1, <1>2, TypeInvariant, PTL DEF Spec

(* A failed row is retried at most once, whatever the number of callbacks, sweeps
   and recoveries that report its failure: who retries a row either fails it in the
   same transaction or takes it from the list of the statement that failed it. *)
THEOREM RetriesAreSingle == Spec => []RetriedOnce
<1>1. HistoryInv => RetriedOnce
  BY DEF HistoryInv
<1> QED BY <1>1, HistoryInvariant, PTL

(* The failure a daemon reports with a retryable reason commits with its retry, so
   no crash between the two can lose it, for every budget. *)
THEOREM FailureHasRetry == Spec => []CallbackFailureKeepsRetry
<1>1. HistoryInv => CallbackFailureKeepsRetry
  BY DEF HistoryInv
<1> QED BY <1>1, HistoryInvariant, PTL

(* No retry chain outgrows its budget, however long, and only a network failure of
   the chain widens it. *)
THEOREM ChainsEnd == Spec => []RetryBudget
<1>1. HistoryInv => RetryBudget
  BY DEF HistoryInv
<1> QED BY <1>1, HistoryInvariant, PTL

-----------------------------------------------------------------------------
(* Rows that wait side by side *)

LEMMA PromotedStep ==
  ASSUME TypeInv, SomePoll, OnePendingPerIssueAgent
  PROVE OnePendingPerIssueAgent'
<1>1. PICK c \in Requests, r \in Runtimes : Poll(c, r)
  BY DEF SomePoll
<1>2. /\ Ids' = Ids /\ PromotionFits(r)
      /\ \A t \in Ids : task'[t] = IF t \in DueOf(r) THEN To(task[t], "queued")
                                   ELSE task[t]
  BY <1>1 DEF Poll, Ids
<1>3. \A t \in Ids : task'[t].key = task[t].key
  BY <1>2, IdsAreNat, ToType DEF Statuses, TypeInv, TypeOK
<1> SUFFICES ASSUME NEW t \in Ids, NEW u \in Ids, t # u, task[t].key = task[u].key,
                    KindOf[task[t].key] = "issue",
                    task'[t].status \in Pending, task'[u].status \in Pending
             PROVE FALSE
  BY <1>2, <1>3 DEF OnePendingPerIssueAgent
<1>4. ASSUME NEW v \in {t, u}, v \in DueOf(r) PROVE FALSE
  <2>1. PICK w \in {t, u} : w # v /\ w \in Ids /\ task[w].key = task[v].key
                            /\ task'[w].status \in Pending /\ KindOf[task[v].key] = "issue"
    OBVIOUS
  <2>2. ~Conflict(task[v].key) /\ w \notin DueOf(r)
    BY <1>2, <1>4, <2>1 DEF PromotionFits
  <2>3. task[w].status \in Pending
    BY <1>2, <2>1, <2>2
  <2> QED BY <2>1, <2>2, <2>3 DEF Conflict
<1>5. task[t].status \in Pending /\ task[u].status \in Pending
  BY <1>2, <1>4
<1> QED BY <1>5 DEF OnePendingPerIssueAgent

LEMMA PendingStep ==
  ASSUME TypeInv, HistoryStep, OnePendingPerIssueAgent
  PROVE OnePendingPerIssueAgent'
<1>1. CASE SomePoll
  BY <1>1, PromotedStep
<1>2. CASE ~SomePoll
  <2>1. \A t \in Ids : /\ task'[t].key = task[t].key
                       /\ task'[t].status \in Pending => task[t].status \in Pending
    BY <1>2 DEF HistoryStep, Changed, Arrow, Pending
  (* a row is added only where no other of its key is pending *)
  <2>2. ASSUME NEW t \in Ids, NEW u \in Ids' \ Ids, task'[t].key = task'[u].key,
               KindOf[task'[u].key] = "issue",
               task'[t].status \in Pending, task'[u].status \in Pending
        PROVE FALSE
    <3>1. task[t].key = task'[u].key /\ task[t].status \in Pending
      BY <2>1, <2>2
    <3>2. CASE Inserted(task'[u])
      <4>1. ~Conflict(task'[u].key)
        BY <2>2, <3>2 DEF Inserted, Pending
      <4> QED BY <2>2, <3>1, <4>1 DEF Conflict
    <3>3. ASSUME NEW p \in Ids, RetryOf(p, u) PROVE FALSE
      <4>1. p # t
        BY <2>2, <3>3 DEF RetryOf, Pending
      <4>2. task'[u].key = task[p].key
        BY <3>3, <2>1, RetriedRow
      <4>3. DEFINE why == task'[p].reason
      <4>4. RetryRow(p, why).status = "queued"
        <5>1. task'[u].status \in {"queued", "deferred"} /\ task'[u] = RetryRow(p, why)
          BY <3>3 DEF HistoryStep, RetryOf
        <5> QED BY <2>2, <5>1 DEF Pending
      <4>5. RetryBlocked(p, why)
        BY <2>2, <3>1, <3>3, <4>1, <4>2, <4>4 DEF RetryBlocked, RetryOf
      <4> QED BY <3>3, <4>5 DEF RetryOf
    <3> QED BY <3>2, <3>3 DEF HistoryStep
  <2>3. \A t, u \in Ids' : t \notin Ids /\ u \notin Ids => t = u
    BY DEF HistoryStep
  <2> SUFFICES ASSUME NEW t \in Ids', NEW u \in Ids', t # u,
                      task'[t].key = task'[u].key, KindOf[task'[t].key] = "issue",
                      task'[t].status \in Pending, task'[u].status \in Pending
               PROVE FALSE
    BY DEF OnePendingPerIssueAgent
  <2>4. CASE t \in Ids /\ u \in Ids
    BY <2>1, <2>4 DEF OnePendingPerIssueAgent
  <2>5. CASE t \in Ids /\ u \notin Ids
    BY <2>2, <2>5
  <2>6. CASE t \notin Ids /\ u \in Ids
    BY <2>2, <2>6
  <2> QED BY <2>3, <2>4, <2>5, <2>6
<1> QED BY <1>1, <1>2

(* Never two rows of one (issue, agent) queued or just dispatched: the unique index
   refuses an enqueue and a retry, a promotion fails as a whole, and what requeues a
   row finds it pending already. *)
THEOREM PendingRowsAreSingle == Spec => []OnePendingPerIssueAgent
<1>1. Init => OnePendingPerIssueAgent
  BY DEF Init, OnePendingPerIssueAgent, Ids
<1>2. OnePendingPerIssueAgent /\ TypeInv /\ HistoryInv /\ [Next]_vars
        => OnePendingPerIssueAgent'
  BY ConstantsAssumption, StepHistory, PendingStep DEF HistoryInv
<1> QED BY <1>1, <1>2, TypeInvariant, HistoryInvariant, PTL DEF Spec

-----------------------------------------------------------------------------
(* The fallback of a routed row *)

FallbackInv ==
  /\ FallbackYields
  /\ \A u \in Ids : task[u].esc \in Ids \cup {0}

(* A slot leaves the start of a row only by the second statement of the request. *)
LEMMA StartingStays ==
  ASSUME TypeInv, [Next]_vars, NEW e \in Slots, exec[e].phase = "starting"
  PROVE exec'[e] = exec[e] \/ CancelEscalations(e)
<1>1. exec \in [Slots -> SlotStates]
  BY DEF TypeInv, TypeOK
<1>2. CASE exec' = exec
  BY <1>2
<1>3. ASSUME NEW f \in Slots,
             \/ SlotStep(f) \/ ExtendTaskPrepareLease(f)
             \/ MarkTaskWaitingLocalDirectory(f) \/ AgentComments(f)
             \/ \E c \in Requests : Deliver(c, f)
      PROVE exec'[e] = exec[e] \/ CancelEscalations(e)
  <2>1. CASE f # e
    BY <1>1, <1>3, <2>1
       DEF SlotStep, StartTask, CancelEscalations, AgentEnds, Interrupt, CompleteTask,
           FailTask, GiveUp, ExtendTaskPrepareLease, MarkTaskWaitingLocalDirectory,
           AgentComments, Deliver
  <2>2. CASE f = e
    BY <1>3, <2>2
       DEF SlotStep, StartTask, AgentEnds, Interrupt, CompleteTask,
           FailTask, GiveUp, ExtendTaskPrepareLease, MarkTaskWaitingLocalDirectory,
           AgentComments, Deliver
  <2> QED BY <2>1, <2>2
<1>4. ASSUME NEW r \in Runtimes, DaemonCrash(r)
      PROVE exec'[e] = exec[e]
  BY <1>4 DEF DaemonCrash
<1>5. ASSUME NEW c \in Requests,
             \/ ReqStep(c) \/ Abort(c) \/ \E r \in Runtimes : Poll(c, r)
      PROVE exec' = exec \/ \E f \in Slots : Deliver(c, f)
  BY <1>5 DEF ReqStep, ReclaimStale, ListCandidates, LoopDone, SelectTask, Take,
              LockAgent, LoseResponse, FinalizeFails, Requeue, Abort, Poll
<1>6. CASE \/ \E k \in Keys : Enqueue(k)
           \/ \E t \in Ids : \/ EnqueueDeferredAssigneeFallback(t) \/ CancelTask(t)
                             \/ FireAt(t) \/ Lapse(t) \/ ExpireStaleQueuedTask(t)
           \/ \E a \in Agents, r \in Runtimes : MoveAgent(a, r)
           \/ \E r \in Runtimes : DaemonStart(r) \/ Heartbeat(r)
           \/ SweepStep \/ SweeperCrash \/ UNCHANGED vars
  <2>1. exec' = exec
    BY <1>6 DEF Enqueue, EnqueueDeferredAssigneeFallback, CancelTask, FireAt, Lapse,
                ExpireStaleQueuedTask, MoveAgent, DaemonStart, Heartbeat, SweepStep,
                MarkRuntimesOffline, FailTasksForOfflineRuntimes, FailStaleTask,
                HandleFailedTask, SweeperCrash, vars
  <2> QED BY <2>1
<1> QED BY <1>2, <1>3, <1>4, <1>5, <1>6 DEF Next

(* A row that starts to run is the one whose start request is being served. *)
LEMMA StartsOn ==
  ASSUME TypeInv, HistoryStep, NEW t \in Ids, task[t].status # "running",
         task'[t].status = "running"
  PROVE \E e \in Slots : exec'[e].phase = "starting" /\ exec'[e].task = t
<1>1. SomeStart
  BY DEF HistoryStep, Changed, Arrow
<1>2. PICK e \in Slots : StartTask(e)
  BY <1>1 DEF SomeStart
<1>3. /\ exec \in [Slots -> SlotStates] /\ task \in Seq(Rows) /\ exec[e].task \in Ids
  BY <1>2 DEF TypeInv, TypeOK, Held, StartTask
<1>4. CASE ~StartTakes(task[exec[e].task])
  BY <1>2, <1>4 DEF StartTask
<1>5. CASE StartTakes(task[exec[e].task])
  <2>1. /\ exec' = [exec EXCEPT ![e].phase = "starting"]
        /\ task' = [task EXCEPT ![exec[e].task] = To(@, "running")]
    BY <1>2, <1>5 DEF StartTask
  <2>2. t = exec[e].task
    BY <1>3, <2>1 DEF Ids
  <2>3. exec'[e].phase = "starting" /\ exec'[e].task = t
    BY <1>3, <2>1, <2>2 DEF SlotStates
  <2> QED BY <2>3
<1> QED BY <1>4, <1>5

LEMMA FallbackStep ==
  ASSUME {"abort", "slow"} \cap Faults = {}, TypeInv, HistoryStep, [Next]_vars,
         FallbackInv
  PROVE FallbackInv'
<1>1. task \in Seq(Rows)
  BY DEF TypeInv, TypeOK
<1>2. /\ \A u \in Ids : u # 0
      /\ \A u \in Ids : u \in Ids' /\ task'[u].esc = task[u].esc
  BY <1>1, IdsAreNat DEF HistoryStep, Changed
<1>3. ASSUME NEW u \in Ids' \ Ids, task'[u].esc # 0
      PROVE task'[u].esc \in Ids /\ task[task'[u].esc].status = "queued"
  <2>1. Inserted(task'[u])
    BY <1>3, RetriedRow DEF HistoryStep
  <2> QED BY <1>3, <2>1 DEF Inserted
<1>4. \A u \in Ids' : task'[u].esc \in Ids' \cup {0}
  BY <1>2, <1>3 DEF FallbackInv
<1>5. FallbackYields'
  <2> SUFFICES ASSUME NEW u \in Ids', task'[u].esc # 0,
                      task'[u].status \in FbCancellable,
                      task'[task'[u].esc].status \in {"running", "completed"}
               PROVE \E e \in Slots : /\ exec'[e].phase = "starting"
                                      /\ exec'[e].task = task'[u].esc
    BY DEF FallbackYields
  <2> DEFINE t == task'[u].esc
  <2>1. t \in Ids
    BY <1>2, <1>3 DEF FallbackInv
  <2>2. Changed(task[t], task'[t])
    BY <2>1 DEF HistoryStep
  <2>3. u \in Ids
    <3>1. CASE u \notin Ids
      <4>1. task[t].status = "queued"
        BY <1>3, <3>1
      <4> QED BY <2>2, <4>1 DEF Changed, Arrow
    <3> QED BY <3>1
  <2>4. t = task[u].esc
    BY <1>2, <2>3
  <2>5. task[u].status \in FbCancellable
    <3>1. Changed(task[u], task'[u])
      BY <2>3 DEF HistoryStep
    <3> QED BY <3>1 DEF Changed, Arrow, FbCancellable
  <2>6. CASE task[t].status \in {"running", "completed"}
    <3> HIDE DEF t
    <3>1. PICK e \in Slots : exec[e].phase = "starting" /\ exec[e].task = t
      BY <2>3, <2>4, <2>5, <2>6 DEF FallbackInv, FallbackYields, t
    <3>2. CASE exec'[e] = exec[e]
      BY <3>1, <3>2 DEF t
    <3>3. CASE CancelEscalations(e)
      <4>1. task' = CancelFallbacks(task, {t})
        BY <3>1, <3>3 DEF CancelEscalations
      <4>2. task'[u] = To(task[u], "cancelled")
        BY <2>3, <2>4, <2>5, <4>1 DEF CancelFallbacks, Ids
      <4>3. task'[u].status = "cancelled"
        BY <1>1, <2>3, <4>2, IdsAreNat, ToType DEF Statuses, Terminal
      <4> QED BY <4>3 DEF FbCancellable
    <3> QED BY <3>1, <3>2, <3>3, StartingStays
  <2>7. CASE task[t].status \notin {"running", "completed"}
    <3>1. task'[t].status = "running"
      BY <2>2, <2>7 DEF Changed, Arrow
    <3> QED BY <2>1, <2>7, <3>1, StartsOn
  <2> QED BY <2>6, <2>7
<1> QED BY <1>4, <1>5 DEF FallbackInv

(* Once the routed agent has started its task, the assignee's fallback for it no
   longer waits to run, unless the statement that cancels it was lost ("abort") or the
   insert of the fallback came late ("slow"): neither is retried by the code. *)
THEOREM FallbackYieldsToRouted ==
  ASSUME {"abort", "slow"} \cap Faults = {}
  PROVE Spec => []FallbackYields
<1>1. Init => FallbackInv
  BY DEF Init, FallbackInv, FallbackYields, Ids
<1>2. FallbackInv /\ TypeInv /\ HistoryInv /\ [Next]_vars => FallbackInv'
  BY ConstantsAssumption, StepHistory, FallbackStep DEF HistoryInv
<1>3. FallbackInv => FallbackYields
  BY DEF FallbackInv
<1> QED BY <1>1, <1>2, <1>3, TypeInvariant, HistoryInvariant, PTL DEF Spec

-----------------------------------------------------------------------------
(* One slot at a time works on a row *)

Works(e) == exec[e].phase # "idle"
(* the request may still deliver or requeue the dispatch it made of its row *)
Mine(c) == req[c].cur /\ req[c].pc \in {"build", "requeue"}

(* A row has at most one slot or request that may act on it; a request whose answer
   the daemon still waits for has the current dispatch; nobody acts on a row that
   waits, and only a late request on one whose window has lapsed. *)
ExecInv ==
  /\ ExclusiveExecution
  /\ \A c, d \in Requests : c # d /\ Mine(c) /\ Mine(d) => req[c].task # req[d].task
  /\ \A c \in Requests, e \in Slots : Mine(c) /\ Works(e) => req[c].task # exec[e].task
  /\ \A c \in Requests : req[c].pc = "build" /\ ~req[c].late => req[c].cur
  /\ \A t \in Ids : task[t].status \in {"queued", "deferred"} =>
       /\ \A e \in Slots : Works(e) => exec[e].task # t
       /\ \A c \in Requests : Mine(c) => req[c].task # t
  /\ \A t \in Ids : task[t].status = "dispatched" /\ task[t].lapsed =>
       /\ \A e \in Slots : Works(e) => exec[e].task # t
       /\ \A c \in Requests : Mine(c) /\ req[c].task = t => req[c].late

(* Nobody starts to act on a row. *)
ReqEases ==
  \A c \in Requests :
    /\ Mine(c)' => /\ Mine(c) /\ req'[c].task = req[c].task
                   /\ req[c].late => req'[c].late
    /\ req'[c].pc = "build" /\ ~req'[c].late =>
         req[c].pc = "build" /\ ~req[c].late /\ req'[c].cur = req[c].cur
SlotEases ==
  \A e \in Slots : Works(e)' => Works(e) /\ exec'[e].task = exec[e].task
RowEases ==
  \A t \in Ids' :
    /\ task'[t].status \in {"queued", "deferred"} =>
         t \notin Ids \/ task[t].status \in {"queued", "deferred"}
    /\ task'[t].status = "dispatched" /\ task'[t].lapsed =>
         t \in Ids /\ task[t].status = "dispatched" /\ task[t].lapsed

SomeReclaim == \E c \in Requests : ReclaimStale(c)
SomeDeliver == \E c \in Requests, e \in Slots : Deliver(c, e)
Gains == SomeLapse \/ SomeTake \/ SomeRequeue \/ SomeReclaim \/ SomeDeliver

LEMMA RowsEase ==
  ASSUME HistoryStep, ~SomeLapse, ~SomeRequeue
  PROVE RowEases
<1> SUFFICES ASSUME NEW t \in Ids'
             PROVE /\ task'[t].status \in {"queued", "deferred"} =>
                        t \notin Ids \/ task[t].status \in {"queued", "deferred"}
                   /\ task'[t].status = "dispatched" /\ task'[t].lapsed =>
                        t \in Ids /\ task[t].status = "dispatched" /\ task[t].lapsed
  BY DEF RowEases
<1>1. CASE t \in Ids
  BY <1>1 DEF HistoryStep, Changed, Arrow
<1>2. CASE t \notin Ids
  BY <1>2 DEF HistoryStep
<1> QED BY <1>1, <1>2

LEMMA ReqsEase ==
  ASSUME TypeInv, NEW c \in Requests, ~Gains,
         ReqStep(c) \/ Abort(c) \/ \E r \in Runtimes : Poll(c, r)
  PROVE ReqEases
<1>1. req \in [Requests -> ReqStates] /\ req[c] \in ReqStates
  BY DEF TypeInv, TypeOK
<1>2. PICK q : /\ req' = [req EXCEPT ![c] = q]
               /\ \/ q.pc \notin {"build", "requeue"}
                  \/ /\ req[c].pc = "build" /\ q.pc = "requeue"
                     /\ q.task = req[c].task /\ q.cur = req[c].cur /\ q.late = req[c].late
  <2>1. CASE ListCandidates(c) \/ LoopDone(c) \/ LoseResponse(c) \/ Abort(c)
             \/ SelectTask(c) \/ (\E a \in Agents : LockAgent(c, a))
             \/ \E r \in Runtimes : Poll(c, r)
    <3>2. \E q : req' = [req EXCEPT ![c] = q] /\ q.pc \notin {"build", "requeue"}
      <4>1. CASE LoopDone(c) \/ LoseResponse(c) \/ Abort(c)
        BY <4>1, IdleReqType DEF LoopDone, LoseResponse, Abort
      <4>2. CASE ListCandidates(c)
        <5>1. DEFINE found == {AgentOf[task[t].key] : t \in
                        {u \in Ids : task[u].status = "queued" /\ task[u].rt = req[c].rt}}
                     q == [req[c] EXCEPT !.pc = "loop", !.todo = found]
        <5>2. q.pc = "loop"
          <6> HIDE DEF found
          <6> QED BY <1>1 DEF ReqStates
        <5>3. req' = [req EXCEPT ![c] = q] \/ req' = [req EXCEPT ![c] = IdleReq]
          BY <4>2 DEF ListCandidates
        <5> HIDE DEF q
        <5> QED BY <5>2, <5>3, IdleReqType
      <4>3. CASE SelectTask(c)
        <5>1. PICK t : \/ req' = [req EXCEPT ![c] = [@ EXCEPT !.pc = "loop", !.agent = None]]
                       \/ req' = [req EXCEPT ![c] = [@ EXCEPT !.pc = "commit", !.task = t]]
          BY <4>3 DEF SelectTask
        <5>2. DEFINE q == [req[c] EXCEPT !.pc = "loop", !.agent = None]
                     p == [req[c] EXCEPT !.pc = "commit", !.task = t]
        <5>3. q.pc = "loop" /\ p.pc = "commit"
          BY <1>1 DEF ReqStates
        <5>4. req' = [req EXCEPT ![c] = q] \/ req' = [req EXCEPT ![c] = p]
          BY <5>1
        <5> HIDE DEF q, p
        <5> QED BY <5>3, <5>4
      <4>4. ASSUME NEW a \in Agents, LockAgent(c, a)
            PROVE \E q : req' = [req EXCEPT ![c] = q] /\ q.pc \notin {"build", "requeue"}
        <5>1. DEFINE q == [req[c] EXCEPT !.todo = @ \ {a}]
                     p == [req[c] EXCEPT !.pc = "take", !.agent = a,
                                         !.todo = req[c].todo \ {a}]
        <5>2. q.pc = "loop" /\ p.pc = "take"
          BY <1>1, <4>4 DEF ReqStates, LockAgent
        <5>3. req' = [req EXCEPT ![c] = q] \/ req' = [req EXCEPT ![c] = p]
          BY <4>4 DEF LockAgent
        <5> HIDE DEF q, p
        <5> QED BY <5>2, <5>3
      <4>5. ASSUME NEW r \in Runtimes, Poll(c, r)
            PROVE \E q : req' = [req EXCEPT ![c] = q] /\ q.pc \notin {"build", "requeue"}
        <5>1. DEFINE q == [IdleReq EXCEPT !.pc = "reclaim", !.rt = r]
        <5>2. q.pc = "reclaim" /\ req' = [req EXCEPT ![c] = q]
          BY <4>5 DEF Poll, IdleReq
        <5> HIDE DEF q
        <5> QED BY <5>2
      <4> QED BY <2>1, <4>1, <4>2, <4>3, <4>4, <4>5
    <3> QED BY <3>2
  <2>2. CASE FinalizeFails(c)
    <3>1. DEFINE q == [req[c] EXCEPT !.pc = "requeue"]
    <3>2. /\ q.pc = "requeue" /\ q.task = req[c].task /\ q.cur = req[c].cur
          /\ q.late = req[c].late
      BY <1>1 DEF ReqStates
    <3>3. req' = [req EXCEPT ![c] = q] /\ req[c].pc = "build"
      BY <2>2 DEF FinalizeFails
    <3> HIDE DEF q
    <3> QED BY <3>2, <3>3
  <2> QED BY <2>1, <2>2 DEF ReqStep, Gains, SomeTake, SomeRequeue, SomeReclaim, SomeDeliver
<1> QED BY <1>1, <1>2 DEF ReqEases, Mine

LEMMA LateEases ==
  ASSUME TypeInv, NEW S,
         req' = [c \in Requests |-> IF c \in S THEN [req[c] EXCEPT !.late = TRUE]
                                    ELSE req[c]]
  PROVE /\ ReqEases
        /\ \A c \in Requests : /\ req'[c].task = req[c].task
                               /\ req'[c].late = (c \in S \/ req[c].late)
<1>1. \A d \in Requests : /\ [req[d] EXCEPT !.late = TRUE].pc = req[d].pc
                          /\ [req[d] EXCEPT !.late = TRUE].task = req[d].task
                          /\ [req[d] EXCEPT !.late = TRUE].cur = req[d].cur
                          /\ [req[d] EXCEPT !.late = TRUE].late = TRUE
                          /\ req[d].late \in BOOLEAN
  BY DEF TypeInv, TypeOK, ReqStates
<1>2. \A c \in Requests : /\ req'[c].pc = req[c].pc /\ req'[c].task = req[c].task
                          /\ req'[c].cur = req[c].cur
                          /\ req'[c].late = (c \in S \/ req[c].late)
  <2> TAKE c \in Requests
  <2>1. CASE c \in S
    BY <1>1, <2>1
  <2>2. CASE c \notin S
    BY <1>1, <2>2
  <2> QED BY <2>1, <2>2
<1> QED BY <1>2 DEF ReqEases, Mine

LEMMA SlotsEase ==
  ASSUME TypeInv, NEW e \in Slots,
         \/ SlotStep(e) \/ ExtendTaskPrepareLease(e)
         \/ MarkTaskWaitingLocalDirectory(e) \/ AgentComments(e)
  PROVE SlotEases
<1>1. exec \in [Slots -> SlotStates]
  BY DEF TypeInv, TypeOK
<1>2. \A x \in SlotStates : \A why : ToFailing(x, why).task = x.task
  BY DEF ToFailing, SlotStates
<1>3. \A x \in SlotStates : \A ph : [x EXCEPT !.phase = ph].task = x.task
  BY DEF SlotStates
<1>4. \/ exec' = exec
      \/ exec' = [exec EXCEPT ![e] = IdleExec]
      \/ exec[e].phase # "idle" /\ \E ph : exec' = [exec EXCEPT ![e].phase = ph]
      \/ exec[e].phase # "idle" /\ \E why : exec' = [exec EXCEPT ![e] = ToFailing(@, why)]
  BY DEF SlotStep, ExtendTaskPrepareLease, MarkTaskWaitingLocalDirectory,
         AgentComments, StartTask, CancelEscalations, AgentEnds, Interrupt,
         CompleteTask, FailTask, GiveUp
<1>5. CASE exec' = exec
  BY <1>5 DEF SlotEases, Works
<1>6. CASE exec' = [exec EXCEPT ![e] = IdleExec]
  BY <1>1, <1>6 DEF SlotEases, Works, IdleExec
<1>7. ASSUME exec[e].phase # "idle", NEW x, x.task = exec[e].task,
             exec' = [exec EXCEPT ![e] = x]
      PROVE SlotEases
  BY <1>1, <1>7 DEF SlotEases, Works
<1>8. ASSUME exec[e].phase # "idle", NEW ph, exec' = [exec EXCEPT ![e].phase = ph]
      PROVE SlotEases
  <2>1. DEFINE x == [exec[e] EXCEPT !.phase = ph]
  <2>2. x.task = exec[e].task /\ exec' = [exec EXCEPT ![e] = x]
    BY <1>1, <1>3, <1>8
  <2> HIDE DEF x
  <2> QED BY <1>7, <1>8, <2>2
<1>9. ASSUME exec[e].phase # "idle", NEW why,
             exec' = [exec EXCEPT ![e] = ToFailing(@, why)]
      PROVE SlotEases
  <2>1. DEFINE x == ToFailing(exec[e], why)
  <2>2. x.task = exec[e].task /\ exec' = [exec EXCEPT ![e] = x]
    BY <1>1, <1>2, <1>9
  <2> HIDE DEF x
  <2> QED BY <1>7, <1>9, <2>2
<1> QED BY <1>4, <1>5, <1>6, <1>8, <1>9

LEMMA StepEases ==
  ASSUME TypeInv, [Next]_vars, ~Gains
  PROVE ReqEases /\ SlotEases
<1>1. req' = req => ReqEases
  BY DEF ReqEases, Mine
<1>2. exec' = exec => SlotEases
  BY DEF SlotEases, Works
<1>3. ASSUME NEW c \in Requests,
             ReqStep(c) \/ Abort(c) \/ \E r \in Runtimes : Poll(c, r)
      PROVE ReqEases /\ SlotEases
  <2>1. exec' = exec
    BY <1>3 DEF ReqStep, ReclaimStale, ListCandidates, LoopDone, SelectTask, Take,
                LockAgent, LoseResponse, FinalizeFails, Requeue, Abort, Poll,
                Gains, SomeDeliver
  <2> QED BY <1>2, <1>3, <2>1, ReqsEase
<1>4. ASSUME NEW e \in Slots,
             \/ SlotStep(e) \/ ExtendTaskPrepareLease(e)
             \/ MarkTaskWaitingLocalDirectory(e) \/ AgentComments(e)
      PROVE ReqEases /\ SlotEases
  <2>1. req' = req
    BY <1>4 DEF SlotStep, ExtendTaskPrepareLease, MarkTaskWaitingLocalDirectory,
                AgentComments, StartTask, CancelEscalations, AgentEnds, Interrupt,
                CompleteTask, FailTask, GiveUp
  <2> QED BY <1>1, <1>4, <2>1, SlotsEase
<1>5. ASSUME NEW r \in Runtimes, DaemonCrash(r)
      PROVE ReqEases /\ SlotEases
  <2>1. DEFINE S == {c \in Requests : req[c].rt = r}
  <2>2. req' = [c \in Requests |-> IF c \in S THEN [req[c] EXCEPT !.late = TRUE]
                                   ELSE req[c]]
    BY <1>5 DEF DaemonCrash
  <2> HIDE DEF S
  <2>3. ReqEases
    BY <2>2, LateEases
  <2>4. exec' = [e \in Slots |-> IF SlotRt[e] = r THEN IdleExec ELSE exec[e]]
    BY <1>5 DEF DaemonCrash
  <2>5. SlotEases
    BY <2>4 DEF SlotEases, Works, IdleExec
  <2> QED BY <2>3, <2>5
<1>6. CASE \/ \E k \in Keys : Enqueue(k)
           \/ \E t \in Ids : \/ EnqueueDeferredAssigneeFallback(t) \/ CancelTask(t)
                             \/ FireAt(t) \/ ExpireStaleQueuedTask(t)
           \/ \E a \in Agents, r \in Runtimes : MoveAgent(a, r)
           \/ \E r \in Runtimes : DaemonStart(r) \/ Heartbeat(r)
           \/ SweepStep \/ SweeperCrash \/ UNCHANGED vars
  <2>1. exec' = exec /\ req' = req
    BY <1>6 DEF Enqueue, EnqueueDeferredAssigneeFallback, CancelTask, FireAt,
                ExpireStaleQueuedTask, MoveAgent, DaemonStart, Heartbeat, SweepStep,
                MarkRuntimesOffline, FailTasksForOfflineRuntimes, FailStaleTask,
                HandleFailedTask, SweeperCrash, vars
  <2> QED BY <1>1, <1>2, <2>1
<1> QED BY <1>3, <1>4, <1>5, <1>6 DEF Next, Gains, SomeLapse

LEMMA EaseStep ==
  ASSUME TypeInv, ReqEases, SlotEases, RowEases, ExecInv, Ids \subseteq Ids'
  PROVE ExecInv'
<1>1. \A e \in Slots : Works(e) => exec[e].task \in Ids
  BY DEF TypeInv, Held, Works
<1>2. \A c \in Requests : Mine(c) => req[c].task \in Ids
  BY DEF TypeInv, Held, Mine
<1>3. \A e \in Slots : Works(e)' => Works(e) /\ exec'[e].task = exec[e].task
  BY DEF SlotEases
<1>4. \A c \in Requests : Mine(c)' => /\ Mine(c) /\ req'[c].task = req[c].task
                                      /\ req[c].late => req'[c].late
  BY DEF ReqEases
<1>5. ExclusiveExecution'
  BY <1>3 DEF ExecInv, ExclusiveExecution, Works
<1>6. /\ \A c, d \in Requests : c # d /\ Mine(c)' /\ Mine(d)'
           => req'[c].task # req'[d].task
      /\ \A c \in Requests, e \in Slots : Mine(c)' /\ Works(e)'
           => req'[c].task # exec'[e].task
  BY <1>3, <1>4 DEF ExecInv
<1>7. \A c \in Requests : req'[c].pc = "build" /\ ~req'[c].late => req'[c].cur
  BY DEF ExecInv, ReqEases
<1>8. \A t \in Ids' : task'[t].status \in {"queued", "deferred"} =>
        /\ \A e \in Slots : Works(e)' => exec'[e].task # t
        /\ \A c \in Requests : Mine(c)' => req'[c].task # t
  BY <1>1, <1>2, <1>3, <1>4 DEF ExecInv, RowEases
<1>9. \A t \in Ids' : task'[t].status = "dispatched" /\ task'[t].lapsed =>
        /\ \A e \in Slots : Works(e)' => exec'[e].task # t
        /\ \A c \in Requests : Mine(c)' /\ req'[c].task = t => req'[c].late
  BY <1>3, <1>4 DEF ExecInv, RowEases
<1> QED BY <1>5, <1>6, <1>7, <1>8, <1>9 DEF ExecInv

LEMMA LapseExec ==
  ASSUME "stall" \notin Faults, TypeInv, ExecInv, NEW t \in Ids, Lapse(t)
  PROVE ExecInv'
<1>1. task \in Seq(Rows) /\ task[t] \in Rows
  BY IdsAreNat DEF TypeInv, TypeOK
<1>2. /\ task[t].status = "dispatched" /\ ~(\E e \in Slots : exec[e].task = t)
      /\ task' = [task EXCEPT ![t].lapsed = TRUE] /\ exec' = exec
  BY DEF Lapse
<1>3. /\ Ids' = Ids
      /\ \A u \in Ids : task'[u].status = task[u].status
      /\ \A u \in Ids \ {t} : task'[u] = task[u]
  BY <1>1, <1>2 DEF Ids, Rows
<1>4. DEFINE S == {c \in Requests : req[c].task = t}
<1>5. req' = [c \in Requests |-> IF c \in S THEN [req[c] EXCEPT !.late = TRUE]
                                 ELSE req[c]]
  BY DEF Lapse
<1>6. /\ ReqEases
      /\ \A c \in Requests : /\ req'[c].task = req[c].task
                             /\ req'[c].late = (c \in S \/ req[c].late)
  <2> HIDE DEF S
  <2> QED BY <1>5, LateEases
<1>7. \A c \in Requests : Mine(c)' => Mine(c)
  BY <1>6 DEF ReqEases
<1>8. /\ ExclusiveExecution'
      /\ \A c, d \in Requests : c # d /\ Mine(c)' /\ Mine(d)'
           => req'[c].task # req'[d].task
      /\ \A c \in Requests, e \in Slots : Mine(c)' /\ Works(e)'
           => req'[c].task # exec'[e].task
      /\ \A c \in Requests : req'[c].pc = "build" /\ ~req'[c].late => req'[c].cur
  BY <1>2, <1>6, <1>7 DEF ExecInv, ExclusiveExecution, Works, ReqEases
<1>9. \A u \in Ids' : task'[u].status \in {"queued", "deferred"} =>
        /\ \A e \in Slots : Works(e)' => exec'[e].task # u
        /\ \A c \in Requests : Mine(c)' => req'[c].task # u
  BY <1>2, <1>3, <1>6, <1>7 DEF ExecInv, Works
<1>10. \A u \in Ids' : task'[u].status = "dispatched" /\ task'[u].lapsed =>
        /\ \A e \in Slots : Works(e)' => exec'[e].task # u
        /\ \A c \in Requests : Mine(c)' /\ req'[c].task = u => req'[c].late
  <2> SUFFICES ASSUME NEW u \in Ids, task'[u].status = "dispatched", task'[u].lapsed
               PROVE /\ \A e \in Slots : Works(e) => exec[e].task # u
                     /\ \A c \in Requests : Mine(c) /\ req[c].task = u => req'[c].late
    BY <1>2, <1>3, <1>6, <1>7 DEF Works
  <2>1. CASE u = t
    BY <1>2, <1>6, <2>1
  <2>2. CASE u # t
    <3>1. task[u].status = "dispatched" /\ task[u].lapsed
      BY <1>3, <2>2
    <3>2. /\ \A e \in Slots : Works(e) => exec[e].task # u
          /\ \A c \in Requests : Mine(c) /\ req[c].task = u => req[c].late
      BY <3>1 DEF ExecInv
    <3> HIDE DEF S
    <3> QED BY <1>6, <3>2
  <2> QED BY <2>1, <2>2
<1> QED BY <1>8, <1>9, <1>10 DEF ExecInv

(* A request that gives its row up. *)
LEMMA ReqOut ==
  ASSUME TypeInv, NEW c \in Requests, NEW q, q.pc \notin {"build", "requeue"},
         req' = [req EXCEPT ![c] = q]
  PROVE ReqEases /\ ~Mine(c)'
<1>1. req \in [Requests -> ReqStates]
  BY DEF TypeInv, TypeOK
<1> QED BY <1>1 DEF ReqEases, Mine

(* A dispatch of a row nobody works on, by a claim or by a redelivery: every other
   request that had dispatched it learns that its dispatch is not the current one. *)
LEMMA DispatchExec ==
  ASSUME TypeInv, ExecInv, NEW c \in Requests, NEW t \in Ids, NEW q,
         \/ q.pc = "build" /\ q.task = t /\ q.cur
         \/ q.pc \notin {"build", "requeue"},
         req' = Redispatched(c, t, q), exec' = exec,
         \A e \in Slots : Works(e) => exec[e].task # t,
         \A d \in Requests : req[d].pc = "build" /\ req[d].task = t => req[d].late,
         Ids' = Ids, \A u \in Ids \ {t} : task'[u] = task[u],
         task'[t].status = "dispatched", ~task'[t].lapsed
  PROVE ExecInv'
<1>1. req \in [Requests -> ReqStates]
  BY DEF TypeInv, TypeOK
<1>2. \A d \in Requests : /\ [req[d] EXCEPT !.cur = FALSE].pc = req[d].pc
                          /\ [req[d] EXCEPT !.cur = FALSE].task = req[d].task
                          /\ [req[d] EXCEPT !.cur = FALSE].late = req[d].late
                          /\ [req[d] EXCEPT !.cur = FALSE].cur = FALSE
  BY <1>1 DEF ReqStates
<1>3. /\ req'[c] = q
      /\ \A d \in Requests \ {c} :
           /\ req'[d].pc = req[d].pc /\ req'[d].task = req[d].task
           /\ req'[d].late = req[d].late
           /\ req'[d].cur = IF req[d].task = t THEN FALSE ELSE req[d].cur
  BY <1>2 DEF Redispatched
<1>4. \A d \in Requests \ {c} : Mine(d)' => Mine(d) /\ req'[d].task # t
  BY <1>3 DEF Mine
<1>5. Mine(c)' => req'[c].task = t
  BY <1>3 DEF Mine
<1>6. \A d \in Requests : Mine(d)' => \/ req'[d].task = t /\ d = c
                                      \/ /\ req'[d].task # t /\ Mine(d)
                                         /\ req'[d].task = req[d].task
                                         /\ req'[d].late = req[d].late
  BY <1>3, <1>4, <1>5
<1>7. ExclusiveExecution'
  BY DEF ExecInv, ExclusiveExecution
<1>8. /\ \A d, f \in Requests : d # f /\ Mine(d)' /\ Mine(f)'
           => req'[d].task # req'[f].task
      /\ \A d \in Requests, e \in Slots : Mine(d)' /\ Works(e)'
           => req'[d].task # exec'[e].task
  BY <1>6 DEF ExecInv, Works
<1>9. \A d \in Requests : req'[d].pc = "build" /\ ~req'[d].late => req'[d].cur
  BY <1>3 DEF ExecInv
<1>10. \A u \in Ids' : task'[u].status \in {"queued", "deferred"} =>
        /\ \A e \in Slots : Works(e)' => exec'[e].task # u
        /\ \A d \in Requests : Mine(d)' => req'[d].task # u
  BY <1>6 DEF ExecInv, Works
<1>11. \A u \in Ids' : task'[u].status = "dispatched" /\ task'[u].lapsed =>
        /\ \A e \in Slots : Works(e)' => exec'[e].task # u
        /\ \A d \in Requests : Mine(d)' /\ req'[d].task = u => req'[d].late
  BY <1>6 DEF ExecInv, Works
<1> QED BY <1>7, <1>8, <1>9, <1>10, <1>11 DEF ExecInv

LEMMA SameEases ==
  ASSUME task' = task
  PROVE RowEases /\ Ids \subseteq Ids'
  BY DEF RowEases, Ids

LEMMA SameSlots ==
  ASSUME exec' = exec
  PROVE SlotEases
  BY DEF SlotEases, Works

LEMMA TakeExec ==
  ASSUME TypeInv, ExecInv, NEW c \in Requests, Take(c)
  PROVE ExecInv'
<1> DEFINE t == req[c].task
           loop == [req[c] EXCEPT !.pc = "loop", !.agent = None, !.task = 0]
           build == [loop EXCEPT !.pc = "build", !.todo = {}, !.task = t, !.cur = TRUE]
<1>1. /\ req[c] \in ReqStates /\ t \in Ids /\ task[t] \in Rows /\ exec' = exec
      /\ task \in Seq(Rows)
  BY IdsAreNat DEF TypeInv, TypeOK, Held, Take
<1>2. loop.pc = "loop"
  BY <1>1 DEF ReqStates
<1>3. build.pc = "build" /\ build.task = t /\ build.cur
  <2>1. loop \in [pc : {"loop"}, rt : Runtimes \cup {None}, todo : SUBSET Agents,
                  agent : {None}, task : {0}, cur : BOOLEAN, late : BOOLEAN]
    BY <1>1 DEF ReqStates
  <2> HIDE DEF loop
  <2> QED BY <2>1
<1>4. CASE task[t].status # "queued"
  <2>1. task' = task /\ req' = [req EXCEPT ![c] = loop]
    BY <1>4 DEF Take
  <2> HIDE DEF loop
  <2> QED BY <1>1, <1>2, <2>1, ReqOut, SameSlots, SameEases, EaseStep
<1>5. CASE task[t].status = "queued"
  <2>1. /\ task' = [task EXCEPT ![t] = To(@, "dispatched")]
        /\ req' = Redispatched(c, t, build) \/ req' = Redispatched(c, t, loop)
    BY <1>5 DEF Take
  <2>2. /\ Ids' = Ids /\ \A u \in Ids \ {t} : task'[u] = task[u]
        /\ task'[t].status = "dispatched" /\ ~task'[t].lapsed
    BY <1>1, <2>1 DEF Ids, To, Rows
  <2>3. /\ \A e \in Slots : Works(e) => exec[e].task # t
        /\ \A d \in Requests : Mine(d) => req[d].task # t
    BY <1>1, <1>5 DEF ExecInv
  <2>4. \A d \in Requests : req[d].pc = "build" /\ req[d].task = t => req[d].late
    BY <2>3 DEF ExecInv, Mine
  <2> HIDE DEF t, loop, build
  <2>5. CASE req' = Redispatched(c, t, build)
    BY <1>1, <1>3, <2>2, <2>3, <2>4, <2>5, DispatchExec
  <2>6. CASE req' = Redispatched(c, t, loop)
    BY <1>1, <1>2, <2>2, <2>3, <2>4, <2>6, DispatchExec
  <2> QED BY <2>1, <2>5, <2>6
<1> QED BY <1>4, <1>5

LEMMA ReclaimExec ==
  ASSUME TypeInv, ExecInv, NEW c \in Requests, ReclaimStale(c)
  PROVE ExecInv'
<1>1. req[c] \in ReqStates /\ exec' = exec /\ task \in Seq(Rows)
  BY DEF TypeInv, TypeOK, ReclaimStale
<1>2. CASE Reclaimable(req[c].rt) = {}
  <2>1. DEFINE q == [req[c] EXCEPT !.pc = "list"]
  <2>2. q.pc = "list" /\ task' = task /\ req' = [req EXCEPT ![c] = q]
    BY <1>1, <1>2 DEF ReclaimStale, ReqStates
  <2> HIDE DEF q
  <2> QED BY <1>1, <2>2, ReqOut, SameSlots, SameEases, EaseStep
<1>3. CASE Reclaimable(req[c].rt) # {}
  <2>1. PICK t \in Reclaimable(req[c].rt) :
          /\ task' = [task EXCEPT ![t].lapsed = FALSE]
          /\ req' = Redispatched(c, t, [req[c] EXCEPT !.pc = "build", !.task = t,
                                                      !.cur = TRUE])
    BY <1>3 DEF ReclaimStale
  <2>2. t \in Ids /\ task[t].status = "dispatched" /\ task[t].lapsed
    BY <2>1 DEF Reclaimable
  <2>3. task[t] \in Rows
    BY <1>1, <2>2, IdsAreNat
  <2>4. /\ Ids' = Ids /\ \A u \in Ids \ {t} : task'[u] = task[u]
        /\ task'[t].status = "dispatched" /\ ~task'[t].lapsed
    BY <1>1, <2>1, <2>2, <2>3 DEF Ids, Rows
  <2>5. DEFINE q == [req[c] EXCEPT !.pc = "build", !.task = t, !.cur = TRUE]
  <2>6. q.pc = "build" /\ q.task = t /\ q.cur
    BY <1>1 DEF ReqStates
  <2>7. req' = Redispatched(c, t, q)
    BY <2>1
  <2>8. /\ \A e \in Slots : Works(e) => exec[e].task # t
        /\ \A d \in Requests : Mine(d) /\ req[d].task = t => req[d].late
    BY <2>2 DEF ExecInv
  <2>9. \A d \in Requests : req[d].pc = "build" /\ req[d].task = t => req[d].late
    BY <2>8 DEF ExecInv, Mine
  <2> HIDE DEF q
  <2> QED BY <1>1, <2>2, <2>4, <2>6, <2>7, <2>8, <2>9, DispatchExec
<1> QED BY <1>2, <1>3

LEMMA RequeueExec ==
  ASSUME TypeInv, ExecInv, NEW c \in Requests, Requeue(c)
  PROVE ExecInv'
<1> DEFINE t == req[c].task
<1>1. /\ task \in Seq(Rows) /\ t \in Ids /\ task[t] \in Rows
      /\ exec' = exec /\ req' = [req EXCEPT ![c] = IdleReq]
  BY IdsAreNat DEF TypeInv, TypeOK, Held, Requeue
<1>2. ReqEases /\ ~Mine(c)'
  BY <1>1, IdleReqType, ReqOut
<1>3. CASE task' = task
  BY <1>1, <1>2, <1>3, SameSlots, SameEases, EaseStep
<1>4. CASE task' # task
  <2>1. /\ task[t].status = "dispatched" /\ Mine(c)
        /\ task' = [task EXCEPT ![t] = To(@, "queued")]
    BY <1>4 DEF Requeue, Mine
  <2>2. /\ Ids' = Ids /\ \A u \in Ids \ {t} : task'[u] = task[u]
        /\ task'[t].status = "queued" /\ ~task'[t].lapsed
    BY <1>1, <2>1 DEF Ids, To, Rows
  <2>3. /\ \A e \in Slots : Works(e) => exec[e].task # t
        /\ \A d \in Requests : d # c /\ Mine(d) => req[d].task # t
    BY <2>1 DEF ExecInv
  <2>4. \A d \in Requests : Mine(d)' => /\ Mine(d) /\ d # c
                                        /\ req'[d].task = req[d].task
                                        /\ req[d].late => req'[d].late
    BY <1>2 DEF ReqEases
  <2> HIDE DEF t
  <2>5. /\ ExclusiveExecution'
        /\ \A d, f \in Requests : d # f /\ Mine(d)' /\ Mine(f)'
             => req'[d].task # req'[f].task
        /\ \A d \in Requests, e \in Slots : Mine(d)' /\ Works(e)'
             => req'[d].task # exec'[e].task
        /\ \A d \in Requests : req'[d].pc = "build" /\ ~req'[d].late => req'[d].cur
    BY <1>1, <1>2, <2>4 DEF ExecInv, ExclusiveExecution, Works, ReqEases
  <2>6. \A u \in Ids' : task'[u].status \in {"queued", "deferred"} =>
          /\ \A e \in Slots : Works(e)' => exec'[e].task # u
          /\ \A d \in Requests : Mine(d)' => req'[d].task # u
    BY <1>1, <2>2, <2>3, <2>4 DEF ExecInv, Works
  <2>7. \A u \in Ids' : task'[u].status = "dispatched" /\ task'[u].lapsed =>
          /\ \A e \in Slots : Works(e)' => exec'[e].task # u
          /\ \A d \in Requests : Mine(d)' /\ req'[d].task = u => req'[d].late
    BY <1>1, <2>2, <2>3, <2>4 DEF ExecInv, Works
  <2> QED BY <2>5, <2>6, <2>7 DEF ExecInv
<1> QED BY <1>3, <1>4

LEMMA DeliverExec ==
  ASSUME TypeInv, ExecInv, NEW c \in Requests, NEW e \in Slots, Deliver(c, e)
  PROVE ExecInv'
<1> DEFINE t == req[c].task
<1>1. /\ exec \in [Slots -> SlotStates]
      /\ exec' = [exec EXCEPT ![e] = [phase |-> "prepare", task |-> t, reason |-> "none"]]
      /\ req' = [req EXCEPT ![c] = IdleReq] /\ task' = task
      /\ req[c].pc = "build" /\ ~req[c].late
  BY DEF TypeInv, TypeOK, Deliver
<1>2. Mine(c)
  BY <1>1 DEF ExecInv, Mine
<1>3. ReqEases /\ ~Mine(c)'
  BY <1>1, IdleReqType, ReqOut
<1>4. \A d \in Requests : Mine(d)' => /\ Mine(d) /\ d # c
                                      /\ req'[d].task = req[d].task
                                      /\ req[d].late => req'[d].late
  BY <1>3 DEF ReqEases
<1>5. /\ exec'[e].task = t
      /\ \A f \in Slots \ {e} : exec'[f] = exec[f]
  BY <1>1
<1>6. /\ \A f \in Slots : Works(f) => exec[f].task # t
      /\ \A d \in Requests : d # c /\ Mine(d) => req[d].task # t
      /\ \A u \in Ids : task[u].status \in {"queued", "deferred"} => u # t
      /\ \A u \in Ids : task[u].status = "dispatched" /\ task[u].lapsed => u # t
  BY <1>1, <1>2 DEF ExecInv
<1> HIDE DEF t
<1>7. ExclusiveExecution'
  BY <1>5, <1>6 DEF ExecInv, ExclusiveExecution, Works
<1>8. /\ \A d, g \in Requests : d # g /\ Mine(d)' /\ Mine(g)'
           => req'[d].task # req'[g].task
      /\ \A d \in Requests, f \in Slots : Mine(d)' /\ Works(f)'
           => req'[d].task # exec'[f].task
      /\ \A d \in Requests : req'[d].pc = "build" /\ ~req'[d].late => req'[d].cur
  BY <1>3, <1>4, <1>5, <1>6 DEF ExecInv, Works, ReqEases
<1>9. \A u \in Ids' : task'[u].status \in {"queued", "deferred"} =>
        /\ \A f \in Slots : Works(f)' => exec'[f].task # u
        /\ \A d \in Requests : Mine(d)' => req'[d].task # u
  BY <1>1, <1>4, <1>5, <1>6 DEF ExecInv, Works, Ids
<1>10. \A u \in Ids' : task'[u].status = "dispatched" /\ task'[u].lapsed =>
        /\ \A f \in Slots : Works(f)' => exec'[f].task # u
        /\ \A d \in Requests : Mine(d)' /\ req'[d].task = u => req'[d].late
  BY <1>1, <1>4, <1>5, <1>6 DEF ExecInv, Works, Ids
<1> QED BY <1>7, <1>8, <1>9, <1>10 DEF ExecInv

(* One row is never worked on by two slots while slots extend their prepare lease in
   time: what a request may still do to a row ends with the next dispatch of the row,
   and the row is dispatched again only when nobody can be working on it. *)
THEOREM ExecutionIsExclusive ==
  ASSUME "stall" \notin Faults
  PROVE Spec => []ExclusiveExecution
<1>1. Init => ExecInv
  BY DEF Init, ExecInv, ExclusiveExecution, Works, Mine, IdleExec, IdleReq, Ids
<1>2. ExecInv /\ TypeInv /\ HistoryInv /\ [Next]_vars => ExecInv'
  <2> SUFFICES ASSUME ExecInv, TypeInv, HistoryInv, [Next]_vars PROVE ExecInv'
    OBVIOUS
  <2>1. HistoryStep
    BY ConstantsAssumption, StepHistory DEF HistoryInv
  <2>2. CASE Gains
    BY <2>2, LapseExec, TakeExec, ReclaimExec, RequeueExec, DeliverExec
       DEF Gains, SomeLapse, SomeTake, SomeRequeue, SomeReclaim, SomeDeliver
  <2>3. CASE ~Gains
    <3>1. ReqEases /\ SlotEases
      BY <2>3, StepEases
    <3>2. RowEases
      BY <2>1, <2>3, RowsEase DEF Gains
    <3>3. Ids \subseteq Ids'
      BY <2>1 DEF HistoryStep
    <3> QED BY <3>1, <3>2, <3>3, EaseStep
  <2> QED BY <2>2, <2>3
<1>3. ExecInv => ExclusiveExecution
  BY DEF ExecInv
<1> QED BY <1>1, <1>2, <1>3, TypeInvariant, HistoryInvariant, PTL DEF Spec

-----------------------------------------------------------------------------
(* A chat retry goes before what was sent after the failed turn *)

(* what CreateRetryTask's GREATEST(priority, 3) relies on: EnqueueChatTask inserts
   its rows with a priority below 3 *)
FreshRank == \A k \in Keys : KindOf[k] = "chat" => PriOf[k] < 3

(* A retry outranks every fresh row of its session, and waits for a date only at the
   attempts that are delayed. *)
RetryRanks ==
  \A t \in Ids :
    /\ task[t].parent = 0 => task[t].pri = PriOf[task[t].key]
    /\ task[t].parent # 0 =>
         /\ KindOf[task[t].key] = "chat" => task[t].pri >= 3
         /\ task[t].status = "deferred" => task[t].attempt >= NetMax
SweptBatch == \A t \in batch : task[t].reason \notin Reported

(* In the table ts, u is an immediate retry of a failure that a daemon reported, in the
   session of t. *)
Ahead(ts, t, u) ==
  /\ ts[u].key = ts[t].key /\ ts[u].status = "queued"
  /\ ts[u].parent # 0 /\ ts[u].attempt < NetMax
  /\ ts[ts[u].parent].reason \in Reported
(* Between the SELECT of a fresh message and the commit no such retry joins it: its
   parent would have to be active. *)
NothingAhead ==
  \A c \in Requests : req[c].pc = "commit" =>
    LET t == req[c].task IN
    /\ task[t].status # "deferred"
    /\ task[t].status = "queued" /\ task[t].parent = 0 /\ KindOf[task[t].key] = "chat"
         => \A u \in Ids : ~Ahead(task, t, u)
AheadInv == RetryRanks /\ SweptBatch /\ NothingAhead

LEMMA RanksStep ==
  ASSUME ConstantsAssumption, TypeInv, HistoryStep, RetryRanks
  PROVE RetryRanks'
<1>1. task \in Seq(Rows) /\ NetMax \in Nat
  BY DEF TypeInv, TypeOK, ConstantsAssumption
<1>2. \A t \in Ids : task[t] \in Rows /\ t \in Nat \ {0}
  BY <1>1, IdsAreNat
<1> SUFFICES ASSUME NEW t \in Ids'
             PROVE /\ task'[t].parent = 0 => task'[t].pri = PriOf[task'[t].key]
                   /\ task'[t].parent # 0 =>
                        /\ KindOf[task'[t].key] = "chat" => task'[t].pri >= 3
                        /\ task'[t].status = "deferred" => task'[t].attempt >= NetMax
  BY DEF RetryRanks
<1>3. CASE t \in Ids
  <2>1. Changed(task[t], task'[t])
    BY <1>3 DEF HistoryStep
  <2>2. task'[t].status = "deferred" => task[t].status = "deferred"
    BY <2>1 DEF Changed, Arrow
  <2> QED BY <1>3, <2>1, <2>2 DEF RetryRanks, Changed
<1>4. CASE t \notin Ids
  <2>1. CASE Inserted(task'[t])
    BY <2>1 DEF Inserted
  <2>2. ASSUME NEW p \in Ids, RetryOf(p, t)
        PROVE /\ task'[t].parent # 0
              /\ KindOf[task'[t].key] = "chat" => task'[t].pri >= 3
              /\ task'[t].status = "deferred" => task'[t].attempt >= NetMax
    <3> DEFINE why == task'[p].reason
    <3>1. /\ task'[t].status = IF Delayed(why, task[p].attempt) THEN "deferred" ELSE "queued"
          /\ task'[t].pri = RetryPri(task[p]) /\ task'[t].key = task[p].key
          /\ task'[t].attempt = task[p].attempt + 1 /\ task'[t].parent = p
      <4>1. task'[t] = RetryRow(p, why)
        BY <2>2 DEF RetryOf
      <4> QED BY <4>1 DEF RetryRow
    <3>2. task[p].attempt \in Nat /\ task[p].pri \in Nat /\ p # 0
      BY <1>2 DEF Rows
    <3>3. task'[t].status = "deferred" => task[p].attempt + 1 >= NetMax
      BY <3>1 DEF Delayed
    <3>4. KindOf[task'[t].key] = "chat" => task'[t].pri >= 3
      BY <3>1, <3>2 DEF RetryPri
    <3> QED BY <3>1, <3>2, <3>3, <3>4
  <2>3. Inserted(task'[t]) \/ \E p \in Ids : RetryOf(p, t)
    BY <1>4 DEF HistoryStep
  <2> QED BY <2>1, <2>2, <2>3 DEF Inserted
<1> QED BY <1>3, <1>4

LEMMA SweptStep ==
  ASSUME TypeInv, HistoryStep, BatchFailed, SweptBatch
  PROVE SweptBatch'
<1> SUFFICES ASSUME NEW t \in batch' PROVE task'[t].reason \notin Reported
  BY DEF SweptBatch
<1>1. CASE t \in batch
  <2>1. t \in Ids /\ task[t].status \in Terminal
    BY <1>1 DEF BatchFailed, TypeInv, TypeOK, Terminal
  <2> QED BY <1>1, <2>1, TerminalKept DEF SweptBatch
<1>2. CASE t \notin batch
  BY <1>2 DEF HistoryStep
<1> QED BY <1>1, <1>2

(* The SELECT takes the row of the highest priority, so not a fresh message beside an
   immediate retry. *)
LEMMA SelectsAhead ==
  ASSUME ConstantsAssumption, FreshRank, TypeInv, RetryRanks,
         NEW t, NEW a, t \in Claimable(a),
         \A u \in Claimable(a) : task[u].pri <= task[t].pri,
         task[t].parent = 0, KindOf[task[t].key] = "chat",
         NEW u \in Ids, Ahead(task, t, u)
  PROVE FALSE
<1>1. \A v \in Ids : task[v] \in Rows
  BY IdsAreNat DEF TypeInv, TypeOK
<1>2. /\ t \in Ids /\ AgentOf[task[t].key] = a
      /\ \A v \in Ids : task[v].key = task[t].key => task[v].status \notin Active
  BY DEF Claimable
<1>3. u \in Claimable(a)
  BY <1>2 DEF Claimable, Ahead
<1>4. task[u].pri <= task[t].pri /\ task[t].pri = PriOf[task[t].key]
  BY <1>2, <1>3 DEF RetryRanks
<1>5. task[u].pri >= 3
  BY DEF RetryRanks, Ahead
<1>6. task[t].pri < 3 /\ task[t].pri \in Nat /\ task[u].pri \in Nat
  BY <1>1, <1>2, <1>4 DEF FreshRank, Rows
<1> QED BY <1>4, <1>5, <1>6

(* What is ahead of a selected message was ahead of it before the step. *)
LEMMA StaysAhead ==
  ASSUME ConstantsAssumption, TypeInv, HistoryInv, HistoryStep, RetryRanks, SweptBatch,
         NEW t \in Ids, \A v \in Ids : task[v].key = task[t].key
                                          => task[v].status \notin Active,
         NEW u \in Ids', Ahead(task', t, u)
  PROVE u \in Ids /\ Ahead(task, t, u)
<1>1. task'[t].key = task[t].key
  BY DEF HistoryStep, Changed
<1>2. CASE u \in Ids
  <2>1. Changed(task[u], task'[u])
    BY <1>2 DEF HistoryStep
  <2>2. /\ task[u].key = task[t].key /\ task[u].parent = task'[u].parent
        /\ task[u].attempt = task'[u].attempt
        /\ task'[u].status = "queued" /\ task[u].parent # 0 /\ task[u].attempt < NetMax
    BY <1>1, <2>1 DEF Changed, Ahead
  <2>3. task[u].status \notin Active
    BY <1>2, <2>2
  <2>4. task[u].status # "deferred"
    <3>1. NetMax \in Nat /\ task[u].attempt \in Nat
      BY <1>2, IdsAreNat DEF ConstantsAssumption, TypeInv, TypeOK, Rows
    <3>2. task[u].status = "deferred" => task[u].attempt >= NetMax
      BY <1>2, <2>2 DEF RetryRanks
    <3> QED BY <2>2, <3>1, <3>2
  <2>5. task[u].status = "queued"
    BY <2>1, <2>2, <2>3, <2>4 DEF Changed, Arrow, Active
  <2> DEFINE p == task[u].parent
  <2>6. p \in Ids /\ task[p].status \in Terminal
    <3>1. p \in 1..(u - 1) /\ task[p].status = "failed"
      BY <1>2, <2>2 DEF HistoryInv, ChainInv
    <3> QED BY <1>2, <3>1, IdsAreNat DEF TypeInv, TypeOK, Terminal
  <2>7. task[p].reason = task'[p].reason
    BY <2>6, TerminalKept
  <2> QED BY <1>2, <2>2, <2>5, <2>7 DEF Ahead
<1>3. CASE u \notin Ids
  <2>1. ~Inserted(task'[u])
    BY DEF Inserted, Ahead
  <2>2. PICK p \in Ids : RetryOf(p, u)
    BY <1>3, <2>1 DEF HistoryStep
  <2>3. task'[u].parent = p /\ task'[u].key = task[p].key
    BY <2>2, RetriedRow
  <2>4. task[p].status \notin Active
    BY <1>1, <2>3 DEF Ahead
  <2>5. p \in batch
    BY <2>2, <2>4 DEF RetryOf
  <2>6. task[p].status \in Terminal
    BY <2>5 DEF HistoryInv, BatchFailed, Terminal
  <2>7. task'[p].reason = task[p].reason
    BY <2>6, TerminalKept
  <2> QED BY <2>3, <2>5, <2>7 DEF SweptBatch, Ahead
<1> QED BY <1>2, <1>3

LEMMA NothingAheadStep ==
  ASSUME ConstantsAssumption, FreshRank, TypeInv, ClaimInv, HistoryInv, HistoryStep,
         ReqMoves, AheadInv
  PROVE NothingAhead'
<1> SUFFICES ASSUME NEW c \in Requests, req'[c].pc = "commit"
             PROVE LET t == req'[c].task IN
                   /\ task'[t].status # "deferred"
                   /\ task'[t].status = "queued" /\ task'[t].parent = 0
                      /\ KindOf[task'[t].key] = "chat"
                        => \A u \in Ids' : ~Ahead(task', t, u)
  BY DEF NothingAhead
<1> DEFINE t == req'[c].task
<1>1. CASE Selects(c)
  <2>1. /\ t \in Claimable(req[c].agent) /\ task' = task /\ Ids' = Ids
        /\ \A u \in Claimable(req[c].agent) : task[u].pri <= task[t].pri
    BY <1>1 DEF Selects, Ids
  <2>2. task[t].status = "queued"
    BY <2>1 DEF Claimable
  <2>3. ASSUME task'[t].parent = 0, KindOf[task'[t].key] = "chat",
               NEW u \in Ids', Ahead(task', t, u)
        PROVE FALSE
    <3>1. u \in Ids /\ Ahead(task, t, u)
      BY <2>1, <2>3 DEF Ahead
    <3> HIDE DEF t
    <3> QED BY <2>1, <2>3, <3>1, SelectsAhead DEF AheadInv
  <2> QED BY <2>1, <2>2, <2>3
<1>2. CASE Stays(c)
  <2>1. req[c].pc = "commit" /\ t = req[c].task
    BY <1>2 DEF Stays
  <2>2. t \in Ids
    BY <2>1 DEF TypeInv, Held
  <2>3. Changed(task[t], task'[t])
    BY <2>2 DEF HistoryStep
  <2>4. task[t].status # "deferred"
    BY <2>1 DEF AheadInv, NothingAhead
  <2>5. task'[t].status # "deferred"
    BY <2>3, <2>4 DEF Changed, Arrow
  <2>6. ASSUME task'[t].status = "queued", task'[t].parent = 0,
               KindOf[task'[t].key] = "chat", NEW u \in Ids', Ahead(task', t, u)
        PROVE FALSE
    <3>1. task[t].key = task'[t].key /\ task[t].parent = 0
      BY <2>3, <2>6 DEF Changed
    <3>2. \A v \in Ids : task[v].key = task[t].key => task[v].status \notin Active
      BY <2>1, <2>6, <3>1 DEF ClaimInv, Selected
    <3>3. task[t].status = "queued"
      BY <2>2, <2>3, <2>4, <2>6, <3>2 DEF Changed, Arrow, Active
    <3> HIDE DEF t
    <3>4. u \in Ids /\ Ahead(task, t, u)
      BY <2>2, <2>6, <3>2, StaysAhead DEF AheadInv
    <3> QED BY <2>1, <2>6, <3>1, <3>3, <3>4 DEF AheadInv, NothingAhead
  <2> QED BY <2>5, <2>6
<1>3. Stays(c) \/ Selects(c)
  BY DEF ReqMoves, Counts
<1> QED BY <1>1, <1>2, <1>3

(* An immediate chat retry that FailTask created waits at the head of its session: no
   message sent after the failed turn is claimed before it, for any number of requests,
   slots and faults, if fresh messages rank below 3. *)
THEOREM RetryGoesFirst ==
  ASSUME FreshRank
  PROVE Spec => RetryNotOvertaken
<1>1. Init => AheadInv
  <2>1. ASSUME Init PROVE Ids = {} /\ batch = {} /\ \A c \in Requests : req[c].pc = "idle"
    BY <2>1, IdleReqType DEF Init, Ids
  <2> QED BY <2>1 DEF AheadInv, RetryRanks, SweptBatch, NothingAhead
<1>2. AheadInv /\ TypeInv /\ ClaimInv /\ HistoryInv /\ [Next]_vars => AheadInv'
  <2> SUFFICES ASSUME AheadInv, TypeInv, ClaimInv, HistoryInv, [Next]_vars
               PROVE AheadInv'
    OBVIOUS
  <2>1. HistoryStep
    BY ConstantsAssumption, StepHistory DEF HistoryInv
  <2>2. ReqMoves
    BY ConstantsAssumption, StepMoves
  <2>3. RetryRanks' /\ SweptBatch'
    BY <2>1, ConstantsAssumption, RanksStep, SweptStep DEF AheadInv, HistoryInv
  <2>4. NothingAhead'
    BY <2>1, <2>2, ConstantsAssumption, NothingAheadStep
  <2> QED BY <2>3, <2>4 DEF AheadInv
<1>3. AheadInv /\ TypeInv /\ ClaimInv /\ HistoryInv /\ [Next]_vars =>
        [\A t, u \in Ids :
           /\ task[t].status = "queued" /\ task'[t].status = "dispatched"
           /\ task[u].status = "queued" /\ task[u].parent \in 1..(t - 1)
           /\ task[task[u].parent].reason \in {"network", "transient"}
           /\ task[u].attempt < NetMax
           /\ task[t].parent = 0 /\ task[u].key = task[t].key
           => KindOf[task[t].key] # "chat"]_vars
  <2> SUFFICES ASSUME AheadInv, TypeInv, ClaimInv, HistoryInv, [Next]_vars,
                      NEW t \in Ids, NEW u \in Ids,
                      task[t].status = "queued", task'[t].status = "dispatched",
                      task[u].status = "queued", task[u].parent \in 1..(t - 1),
                      task[task[u].parent].reason \in {"network", "transient"},
                      task[u].attempt < NetMax,
                      task[t].parent = 0, task[u].key = task[t].key,
                      KindOf[task[t].key] = "chat"
               PROVE FALSE
    OBVIOUS
  <2>1. HistoryStep /\ RowStep
    BY ConstantsAssumption, StepHistory, StepRows DEF HistoryInv
  <2>2. t \in Ids' /\ task'[t].status \in Active /\ task[t].status \notin Active
    BY <2>1 DEF HistoryStep, Active
  <2>3. PICK c \in Requests : Take(c) /\ t = req[c].task
    BY <2>1, <2>2, OnlyTaker
  <2>4. req[c].pc = "commit"
    BY <2>3, TakeLeaves
  <2>5. Ahead(task, t, u)
    BY IdsAreNat DEF Ahead, Reported, TypeInv, TypeOK
  <2> QED BY <2>3, <2>4, <2>5 DEF AheadInv, NothingAhead
<1> QED BY <1>1, <1>2, <1>3, TypeInvariant, ClaimInvariant, HistoryInvariant,
           PTL DEF Spec, RetryNotOvertaken
=============================================================================
