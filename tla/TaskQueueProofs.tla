--------------------------- MODULE TaskQueueProofs ---------------------------
(***************************************************************************)
(* Proofs about TaskQueue for any number of agents, runtimes, keys, claim  *)
(* requests, slots and rows, and any set of faults.                        *)
(***************************************************************************)
EXTENDS TaskQueue, TLAPS, FiniteSetTheorems

-----------------------------------------------------------------------------
(* Rows as a sequence *)

LEMMA RowsFcn ==
  ASSUME NEW ts \in Seq(Rows)
  PROVE /\ Len(ts) \in Nat /\ DOMAIN ts = 1..Len(ts)
        /\ ts \in [DOMAIN ts -> Rows]
  OBVIOUS

LEMMA FcnRows ==
  ASSUME NEW ts \in Seq(Rows), NEW us \in [DOMAIN ts -> Rows]
  PROVE us \in Seq(Rows) /\ DOMAIN us = DOMAIN ts
<1>1. DOMAIN ts = 1..Len(ts) /\ Len(ts) \in Nat
  BY RowsFcn
<1>2. us \in [1..Len(ts) -> Rows]
  BY <1>1
<1> QED BY <1>1, <1>2

LEMMA UpdateRow ==
  ASSUME NEW ts \in Seq(Rows), NEW t \in DOMAIN ts, NEW row \in Rows
  PROVE /\ [ts EXCEPT ![t] = row] \in Seq(Rows)
        /\ DOMAIN [ts EXCEPT ![t] = row] = DOMAIN ts
        /\ \A u \in DOMAIN ts :
             [ts EXCEPT ![t] = row][u] = IF u = t THEN row ELSE ts[u]
<1>1. ts \in [DOMAIN ts -> Rows]
  BY RowsFcn
<1>2. [ts EXCEPT ![t] = row] \in [DOMAIN ts -> Rows]
  BY <1>1
<1> QED BY <1>1, <1>2, FcnRows

LEMMA AppendRow ==
  ASSUME NEW ts \in Seq(Rows), NEW row \in Rows
  PROVE /\ Append(ts, row) \in Seq(Rows)
        /\ DOMAIN Append(ts, row) = DOMAIN ts \cup {Len(ts) + 1}
        /\ Len(ts) + 1 \notin DOMAIN ts
        /\ \A u \in DOMAIN ts : Append(ts, row)[u] = ts[u]
        /\ Append(ts, row)[Len(ts) + 1] = row
  BY RowsFcn

LEMMA ToType ==
  ASSUME NEW row \in Rows, NEW st \in Statuses
  PROVE To(row, st) \in Rows /\ To(row, st).status = st /\ To(row, st).key = row.key
  BY DEF To, Rows

LEMMA FailedType ==
  ASSUME NEW row \in Rows, NEW why \in AllReasons
  PROVE /\ Failed(row, why) \in Rows /\ Failed(row, why).status = "failed"
        /\ Failed(row, why).key = row.key
  BY DEF Failed, To, Rows, Statuses, Terminal

LEMMA RowType ==
  ASSUME ConstantsAssumption, home \in [Agents -> Runtimes], NEW k \in Keys
  PROVE Row(k) \in Rows /\ Row(k).status = "queued" /\ Row(k).key = k
<1>1. AgentOf[k] \in Agents /\ PriOf[k] \in Nat /\ MaxAttempts \in Nat
  BY DEF ConstantsAssumption
<1>2. home[AgentOf[k]] \in Runtimes
  BY <1>1
<1> QED BY <1>1, <1>2 DEF Row, Rows, Statuses, AllReasons

LEMMA RetryRowType ==
  ASSUME ConstantsAssumption, task \in Seq(Rows), NEW t \in Ids, NEW why
  PROVE /\ RetryRow(t, why) \in Rows
        /\ RetryRow(t, why).key = task[t].key
        /\ RetryRow(t, why).status \in {"queued", "deferred"}
<1>1. task[t] \in Rows /\ t \in Nat
  BY RowsFcn DEF Ids
<1>2. Ceiling(why, task[t].max) \in Nat
  BY <1>1 DEF Ceiling, Rows, ConstantsAssumption
<1>3. RetryPri(task[t]) \in Nat
  BY <1>1 DEF RetryPri, Rows
<1>4. task[t].key \in Keys /\ task[t].rt \in Runtimes
  BY <1>1 DEF Rows
<1>9. task[t].attempt \in Nat
  BY <1>1 DEF Rows
<1>10. task[t].attempt + 1 \in Nat
  BY <1>9
<1>5. DEFINE st == IF Delayed(why, task[t].attempt) THEN "deferred" ELSE "queued"
<1>6. st \in Statuses /\ st \in {"queued", "deferred"}
  BY DEF Statuses
<1>7. "none" \in AllReasons /\ 0 \in Nat /\ FALSE \in BOOLEAN
  BY DEF AllReasons
<1>8. RetryRow(t, why) =
        [status |-> st, key |-> task[t].key, rt |-> task[t].rt,
         pri |-> RetryPri(task[t]), attempt |-> task[t].attempt + 1,
         max |-> Ceiling(why, task[t].max), parent |-> t, esc |-> 0,
         lapsed |-> FALSE, due |-> FALSE, reason |-> "none"]
  BY DEF RetryRow
<1> HIDE DEF st
<1> QED BY <1>1, <1>2, <1>3, <1>4, <1>6, <1>7, <1>8, <1>10 DEF Rows

LEMMA CancelFallbacksType ==
  ASSUME NEW ts \in Seq(Rows), NEW ps
  PROVE /\ CancelFallbacks(ts, ps) \in Seq(Rows)
        /\ DOMAIN CancelFallbacks(ts, ps) = DOMAIN ts
        /\ \A u \in DOMAIN ts :
             /\ CancelFallbacks(ts, ps)[u].key = ts[u].key
             /\ \/ CancelFallbacks(ts, ps)[u] = ts[u]
                \/ CancelFallbacks(ts, ps)[u].status = "cancelled"
<1>1. ts \in [DOMAIN ts -> Rows]
  BY RowsFcn
<1>2. \A u \in DOMAIN ts : /\ To(ts[u], "cancelled") \in Rows
                           /\ To(ts[u], "cancelled").key = ts[u].key
                           /\ To(ts[u], "cancelled").status = "cancelled"
  BY <1>1, ToType DEF Statuses, Terminal
<1>3. CancelFallbacks(ts, ps) \in [DOMAIN ts -> Rows]
  BY <1>1, <1>2 DEF CancelFallbacks
<1> QED BY <1>1, <1>2, <1>3, FcnRows DEF CancelFallbacks

-----------------------------------------------------------------------------
(* What every step does to the rows *)

(* Rows are never removed and keep their key, and a row becomes active only when
   a claim takes it. *)
RowStep ==
  /\ task' \in Seq(Rows)
  /\ DOMAIN task \subseteq DOMAIN task'
  /\ \A t \in DOMAIN task : task'[t].key = task[t].key
  /\ \A t \in DOMAIN task' : task'[t].status \in Active =>
       \/ t \in DOMAIN task /\ task[t].status \in Active
       \/ \E c \in Requests : Take(c) /\ t = req[c].task /\ task[t].status = "queued"

LEMMA SameStep ==
  ASSUME task \in Seq(Rows), task' = task
  PROVE RowStep
  BY DEF RowStep

LEMMA UpdateStep ==
  ASSUME task \in Seq(Rows), NEW t \in DOMAIN task, NEW row \in Rows,
         row.key = task[t].key, row.status \in Active => task[t].status \in Active,
         task' = [task EXCEPT ![t] = row]
  PROVE RowStep
  BY UpdateRow DEF RowStep

LEMMA AppendStep ==
  ASSUME task \in Seq(Rows), NEW row \in Rows, row.status \notin Active,
         task' = Append(task, row)
  PROVE RowStep
  BY AppendRow DEF RowStep

LEMMA MapStep ==
  ASSUME task \in Seq(Rows), task' \in [DOMAIN task -> Rows],
         \A t \in DOMAIN task :
           /\ task'[t].key = task[t].key
           /\ task'[t].status \in Active => task[t].status \in Active
  PROVE RowStep
  BY FcnRows DEF RowStep

LEMMA ToStep ==
  ASSUME task \in Seq(Rows), NEW t \in Ids, NEW st \in Statuses,
         st \in Active => task[t].status \in Active,
         task' = [task EXCEPT ![t] = To(@, st)]
  PROVE RowStep
<1>1. task[t] \in Rows
  BY RowsFcn DEF Ids
<1>2. DEFINE row == To(task[t], st)
<1>3. row \in Rows /\ row.status = st /\ row.key = task[t].key
  BY <1>1, ToType
<1>4. task' = [task EXCEPT ![t] = row]
  OBVIOUS
<1> HIDE DEF row
<1> QED BY <1>3, <1>4, UpdateStep DEF Ids

LEMMA FailedStep ==
  ASSUME task \in Seq(Rows), NEW t \in Ids, NEW why \in AllReasons,
         task' = [task EXCEPT ![t] = Failed(@, why)]
  PROVE RowStep
<1>1. task[t] \in Rows
  BY RowsFcn DEF Ids
<1>2. DEFINE row == Failed(task[t], why)
<1>3. row \in Rows /\ row.status = "failed" /\ row.key = task[t].key
  BY <1>1, FailedType
<1>4. task' = [task EXCEPT ![t] = row]
  OBVIOUS
<1>5. row.status \notin Active
  BY <1>3 DEF Active
<1> HIDE DEF row
<1> QED BY <1>3, <1>4, <1>5, UpdateStep DEF Ids

(* Held: what a request or a slot refers to exists. *)
Held ==
  /\ \A c \in Requests :
       /\ req[c].pc \in {"commit", "build", "requeue"} => req[c].task \in Ids
       /\ req[c].pc \in {"take", "commit"} => req[c].agent \in Agents
  /\ \A e \in Slots : exec[e].phase # "idle" => exec[e].task \in Ids
  /\ \A t \in routing : FallbackOf[task[t].key] # None
TypeInv == TypeOK /\ Held

LEMMA EnqueueRows ==
  ASSUME ConstantsAssumption, TypeInv, NEW k \in Keys, Enqueue(k)
  PROVE RowStep
<1>1. home \in [Agents -> Runtimes] /\ task \in Seq(Rows)
  BY DEF TypeInv, TypeOK
<1>2. Row(k) \in Rows /\ Row(k).status = "queued"
  BY <1>1, RowType
<1>3. Row(k).status \notin Active
  BY <1>2 DEF Active
<1>4. task' = Append(task, Row(k))
  BY DEF Enqueue
<1> QED BY <1>1, <1>2, <1>3, <1>4, AppendStep

LEMMA FallbackRows ==
  ASSUME ConstantsAssumption, TypeInv, NEW t \in Ids,
         EnqueueDeferredAssigneeFallback(t)
  PROVE RowStep
<1>1. home \in [Agents -> Runtimes] /\ task \in Seq(Rows)
  BY DEF TypeInv, TypeOK
<1>2. CASE task' = task
  BY <1>1, <1>2, SameStep
<1>3. CASE task' # task
  <2>1. DEFINE k == FallbackOf[task[t].key]
               row == [Row(k) EXCEPT !.status = "deferred", !.esc = t]
  <2>9. task[t] \in Rows /\ t \in Nat
    BY <1>1, RowsFcn DEF Ids
  <2>2. task[t].key \in Keys
    BY <2>9 DEF Rows
  <2>3. t \in routing
    BY DEF EnqueueDeferredAssigneeFallback
  <2>4. k \in Keys
    BY <2>2, <2>3 DEF TypeInv, Held, ConstantsAssumption
  <2>5. Row(k) \in Rows
    BY <1>1, <2>4, RowType
  <2>6. row \in Rows /\ row.status = "deferred"
    BY <2>9, <2>5 DEF Rows, Statuses
  <2>7. row.status \notin Active
    BY <2>6 DEF Active
  <2>8. task' = Append(task, row)
    BY <1>3 DEF EnqueueDeferredAssigneeFallback
  <2> HIDE DEF row
  <2> QED BY <1>1, <2>6, <2>7, <2>8, AppendStep
<1> QED BY <1>2, <1>3

LEMMA CancelRows ==
  ASSUME ConstantsAssumption, TypeInv, NEW t \in Ids, CancelTask(t)
  PROVE RowStep
<1>1. task \in Seq(Rows) /\ task' = [task EXCEPT ![t] = To(@, "cancelled")]
  BY DEF TypeInv, TypeOK, CancelTask
<1>2. "cancelled" \in Statuses /\ "cancelled" \notin Active
  BY DEF Statuses, Terminal, Active
<1> QED BY <1>1, <1>2, ToStep

LEMMA FlagRows ==
  ASSUME task \in Seq(Rows), NEW t \in Ids, NEW b \in BOOLEAN,
         \/ task' = [task EXCEPT ![t].due = b]
         \/ task' = [task EXCEPT ![t].lapsed = b]
  PROVE RowStep
<1>1. task[t] \in Rows
  BY RowsFcn DEF Ids
<1>2. CASE task' = [task EXCEPT ![t].due = b]
  <2>1. DEFINE row == [task[t] EXCEPT !.due = b]
  <2>2. row \in Rows /\ row.key = task[t].key /\ row.status = task[t].status
    BY <1>1 DEF Rows
  <2>3. task' = [task EXCEPT ![t] = row]
    BY <1>2
  <2> HIDE DEF row
  <2> QED BY <2>2, <2>3, UpdateStep DEF Ids
<1>3. CASE task' = [task EXCEPT ![t].lapsed = b]
  <2>1. DEFINE row == [task[t] EXCEPT !.lapsed = b]
  <2>2. row \in Rows /\ row.key = task[t].key /\ row.status = task[t].status
    BY <1>1 DEF Rows
  <2>3. task' = [task EXCEPT ![t] = row]
    BY <1>3
  <2> HIDE DEF row
  <2> QED BY <2>2, <2>3, UpdateStep DEF Ids
<1> QED BY <1>2, <1>3

LEMMA PollRows ==
  ASSUME TypeInv, NEW c \in Requests, NEW r \in Runtimes, Poll(c, r)
  PROVE RowStep
<1>1. task \in Seq(Rows)
  BY DEF TypeInv, TypeOK
<1>2. \A t \in Ids : /\ To(task[t], "queued") \in Rows
                     /\ To(task[t], "queued").key = task[t].key
                     /\ To(task[t], "queued").status = "queued"
  BY <1>1, RowsFcn, ToType DEF Ids, Statuses
<1>3. task' = [t \in Ids |-> IF t \in DueOf(r) THEN To(task[t], "queued")
                             ELSE task[t]]
  BY DEF Poll
<1>4. \A t \in Ids : task[t] \in Rows
  BY <1>1, RowsFcn DEF Ids
<1>5. task' \in [DOMAIN task -> Rows]
  BY <1>2, <1>3, <1>4 DEF Ids
<1>6. \A t \in DOMAIN task : /\ task'[t].key = task[t].key
                             /\ task'[t].status \in Active => task[t].status \in Active
  BY <1>2, <1>3 DEF Ids, Active
<1> QED BY <1>1, <1>5, <1>6, MapStep

LEMMA FailedMapRows ==
  ASSUME task \in Seq(Rows), NEW S, NEW why \in AllReasons,
         task' = [t \in Ids |-> IF t \in S THEN Failed(task[t], why) ELSE task[t]]
  PROVE RowStep
<1>1. \A t \in Ids : task[t] \in Rows
  BY RowsFcn DEF Ids
<1>2. \A t \in Ids : /\ Failed(task[t], why) \in Rows
                     /\ Failed(task[t], why).key = task[t].key
                     /\ Failed(task[t], why).status = "failed"
  BY <1>1, FailedType
<1>3. task' \in [DOMAIN task -> Rows]
  BY <1>1, <1>2 DEF Ids
<1>4. \A t \in DOMAIN task : /\ task'[t].key = task[t].key
                             /\ task'[t].status \in Active => task[t].status \in Active
  BY <1>2 DEF Ids, Active
<1> QED BY <1>3, <1>4, MapStep

LEMMA CancelFallbacksRows ==
  ASSUME task \in Seq(Rows), NEW ps, task' = CancelFallbacks(task, ps)
  PROVE RowStep
<1>1. "cancelled" \notin Active
  BY DEF Active
<1>2. \A u \in DOMAIN task :
        /\ task'[u].key = task[u].key
        /\ task'[u].status \in Active => task[u].status \in Active
  BY <1>1, CancelFallbacksType
<1>3. task' \in [DOMAIN task -> Rows]
  BY RowsFcn, CancelFallbacksType
<1> QED BY <1>2, <1>3, MapStep

LEMMA FailRows ==
  ASSUME ConstantsAssumption, task \in Seq(Rows), NEW t \in Ids,
         NEW why \in AllReasons,
         task' = FailWithRetry(t, why) \/ task' = FailWithoutRetry(t, why)
  PROVE RowStep
<1>1. task[t] \in Rows
  BY RowsFcn DEF Ids
<1>2. DEFINE row == Failed(task[t], why)
             failed == [task EXCEPT ![t] = row]
<1>3. row \in Rows /\ row.status = "failed" /\ row.key = task[t].key
  BY <1>1, FailedType
<1>4. row.status \notin Active
  BY <1>3 DEF Active
<1>5. /\ failed \in Seq(Rows) /\ DOMAIN failed = DOMAIN task
      /\ \A u \in DOMAIN task : failed[u] = IF u = t THEN row ELSE task[u]
  <2> HIDE DEF row
  <2> QED BY <1>3, UpdateRow DEF Ids
<1>6. \A u \in DOMAIN task : /\ failed[u].key = task[u].key
                             /\ failed[u].status \in Active => task[u].status \in Active
  <2> HIDE DEF row, failed
  <2> QED BY <1>3, <1>4, <1>5
<1>7. CASE task' = FailWithRetry(t, why)
  <2>1. DEFINE child == RetryRow(t, why)
  <2>2. child \in Rows /\ child.status \in {"queued", "deferred"}
    BY RetryRowType
  <2>3. child.status \notin Active
    BY <2>2 DEF Active
  <2>4. task' = Append(failed, child)
    BY <1>7 DEF FailWithRetry
  <2> HIDE DEF child, failed
  <2>5. /\ task' \in Seq(Rows)
        /\ DOMAIN task' = DOMAIN task \cup {Len(failed) + 1}
        /\ \A u \in DOMAIN task : task'[u] = failed[u]
        /\ task'[Len(failed) + 1] = child
    BY <1>5, <2>2, <2>4, AppendRow
  <2> QED BY <1>6, <2>3, <2>5 DEF RowStep
<1>8. CASE task' = FailWithoutRetry(t, why)
  <2>1. CASE KindOf[task[t].key] = "issue"
    <3>1. task' = CancelFallbacks(failed, OfKey(task[t].key))
      BY <1>8, <2>1 DEF FailWithoutRetry
    <3> DEFINE ps == OfKey(task[t].key)
    <3> HIDE DEF failed, ps
    <3>2. /\ task' \in Seq(Rows) /\ DOMAIN task' = DOMAIN failed
          /\ \A u \in DOMAIN failed :
               /\ task'[u].key = failed[u].key
               /\ task'[u] = failed[u] \/ task'[u].status = "cancelled"
      BY <1>5, <3>1, CancelFallbacksType DEF ps
    <3>3. "cancelled" \notin Active
      BY DEF Active
    <3>4. \A u \in DOMAIN task : /\ task'[u].key = task[u].key
                                 /\ task'[u].status \in Active => task[u].status \in Active
      BY <1>5, <1>6, <3>2, <3>3
    <3> QED BY <1>5, <3>2, <3>4 DEF RowStep
  <2>2. CASE KindOf[task[t].key] # "issue"
    <3>1. task' = failed
      BY <1>8, <2>2 DEF FailWithoutRetry
    <3> HIDE DEF failed
    <3> QED BY <1>5, <1>6, <3>1 DEF RowStep
  <2> QED BY <2>1, <2>2
<1> QED BY <1>7, <1>8

LEMMA ReclaimRows ==
  ASSUME TypeInv, NEW c \in Requests, ReclaimStale(c)
  PROVE RowStep
<1>1. task \in Seq(Rows)
  BY DEF TypeInv, TypeOK
<1>2. CASE task' = task
  BY <1>1, <1>2, SameStep
<1>3. CASE task' # task
  <2>1. PICK t \in Ids : task' = [task EXCEPT ![t].lapsed = FALSE]
    BY <1>3 DEF ReclaimStale, Reclaimable
  <2> QED BY <1>1, <2>1, FlagRows
<1> QED BY <1>2, <1>3

LEMMA TakeRows ==
  ASSUME TypeInv, NEW c \in Requests, Take(c)
  PROVE RowStep
<1>1. task \in Seq(Rows) /\ req[c].task \in Ids
  BY DEF TypeInv, TypeOK, Held, Take
<1>2. DEFINE t == req[c].task
             row == To(task[t], "dispatched")
<1>3. task[t] \in Rows
  BY <1>1, RowsFcn DEF Ids
<1>4. row \in Rows /\ row.key = task[t].key /\ row.status = "dispatched"
  BY <1>3, ToType DEF Statuses, Active
<1>5. CASE task[t].status = "queued"
  <2>1. task' = [task EXCEPT ![t] = row]
    BY <1>5 DEF Take
  <2> HIDE DEF row
  <2>2. /\ task' \in Seq(Rows) /\ DOMAIN task' = DOMAIN task
        /\ \A u \in DOMAIN task : task'[u] = IF u = t THEN row ELSE task[u]
    BY <1>1, <1>4, <2>1, UpdateRow DEF Ids
  <2> QED BY <1>1, <1>4, <1>5, <2>2 DEF RowStep
<1>6. CASE task[t].status # "queued"
  BY <1>1, <1>6, SameStep DEF Take
<1> QED BY <1>5, <1>6

LEMMA RequeueRows ==
  ASSUME TypeInv, NEW c \in Requests, Requeue(c)
  PROVE RowStep
<1>1. task \in Seq(Rows) /\ req[c].task \in Ids
  BY DEF TypeInv, TypeOK, Held, Requeue
<1>2. "queued" \in Statuses /\ "queued" \notin Active
  BY DEF Statuses, Active
<1>3. \/ task' = task
      \/ task' = [task EXCEPT ![req[c].task] = To(@, "queued")]
  BY DEF Requeue
<1> QED BY <1>1, <1>2, <1>3, SameStep, ToStep

LEMMA SlotRows ==
  ASSUME ConstantsAssumption, TypeInv, NEW e \in Slots,
         \/ SlotStep(e) \/ ExtendTaskPrepareLease(e)
         \/ MarkTaskWaitingLocalDirectory(e) \/ AgentComments(e)
  PROVE RowStep
<1>1. /\ task \in Seq(Rows)
      /\ exec[e].phase # "idle" => exec[e].task \in Ids
      /\ exec[e].reason \in AllReasons
  BY DEF TypeInv, TypeOK, Held, SlotStates
<1> DEFINE t == exec[e].task
<1>2. {"running", "waiting", "dispatched"} \subseteq Statuses
      /\ {"running", "waiting", "dispatched"} \subseteq Active
      /\ "completed" \in Statuses \ Active
  BY DEF Statuses, Active, Terminal
<1>3. CASE ExtendTaskPrepareLease(e)
  BY <1>1, <1>3, FlagRows DEF ExtendTaskPrepareLease
<1>4. CASE MarkTaskWaitingLocalDirectory(e)
  <2>1. t \in Ids /\ (task[t].status = "dispatched" => task[t].status \in Active)
    BY <1>1, <1>2, <1>4 DEF MarkTaskWaitingLocalDirectory
  <2>2. \/ task' = task
        \/ task[t].status = "dispatched" /\ task' = [task EXCEPT ![t] = To(@, "waiting")]
    BY <1>4 DEF MarkTaskWaitingLocalDirectory
  <2> QED BY <1>1, <1>2, <2>1, <2>2, SameStep, ToStep
<1>5. CASE StartTask(e)
  <2>1. t \in Ids
    BY <1>1, <1>5 DEF StartTask
  <2>2. StartTakes(task[t]) => task[t].status \in Active
    BY DEF StartTakes, Active
  <2>3. \/ task' = task
        \/ StartTakes(task[t]) /\ task' = [task EXCEPT ![t] = To(@, "running")]
    BY <1>5 DEF StartTask
  <2> QED BY <1>1, <1>2, <2>1, <2>2, <2>3, SameStep, ToStep
<1>6. CASE CancelEscalations(e)
  BY <1>1, <1>6, SameStep, CancelFallbacksRows DEF CancelEscalations
<1>7. CASE AgentComments(e)
  BY <1>1, <1>7, CancelFallbacksRows DEF AgentComments
<1>8. CASE AgentEnds(e) \/ Interrupt(e) \/ GiveUp(e)
  BY <1>1, <1>8, SameStep DEF AgentEnds, Interrupt, GiveUp
<1>9. CASE CompleteTask(e)
  <2>1. t \in Ids
    BY <1>1, <1>9 DEF CompleteTask
  <2>2. task' = task \/ task' = [task EXCEPT ![t] = To(@, "completed")]
    BY <1>9 DEF CompleteTask
  <2> QED BY <1>1, <1>2, <2>1, <2>2, SameStep, ToStep
<1>10. CASE FailTask(e)
  <2>1. t \in Ids
    BY <1>1, <1>10 DEF FailTask
  <2>2. \/ task' = task
        \/ task' = FailWithRetry(t, exec[e].reason)
        \/ task' = FailWithoutRetry(t, exec[e].reason)
    BY <1>10 DEF FailTask
  <2> QED BY <1>1, <2>1, <2>2, SameStep, FailRows
<1> QED BY <1>3, <1>4, <1>5, <1>6, <1>7, <1>8, <1>9, <1>10 DEF SlotStep

LEMMA SweepRows ==
  ASSUME ConstantsAssumption, TypeInv,
         \/ SweepStep \/ \E t \in Ids : ExpireStaleQueuedTask(t)
         \/ \E r \in Runtimes : DaemonStart(r)
  PROVE RowStep
<1>1. task \in Seq(Rows)
  BY DEF TypeInv, TypeOK
<1>2. {"offline", "timeout", "queued_expired", "recovery"} \subseteq AllReasons
  BY DEF AllReasons, Retryable
<1>3. ASSUME NEW t \in Ids, FailStaleTask(t) \/ ExpireStaleQueuedTask(t)
      PROVE RowStep
  <2>1. \/ task' = [task EXCEPT ![t] = Failed(@, "timeout")]
        \/ task' = [task EXCEPT ![t] = Failed(@, "queued_expired")]
    BY <1>3 DEF FailStaleTask, ExpireStaleQueuedTask
  <2> QED BY <1>1, <1>2, <2>1, FailedStep
<1>4. ASSUME NEW t \in Ids, HandleFailedTask(t)
      PROVE RowStep
  <2>1. DEFINE child == RetryRow(t, task[t].reason)
  <2>2. child \in Rows /\ child.status \in {"queued", "deferred"}
    BY <1>1, RetryRowType
  <2>3. child.status \notin Active
    BY <2>2 DEF Active
  <2>4. task' = task \/ task' = Append(task, child)
    BY <1>4 DEF HandleFailedTask
  <2> HIDE DEF child
  <2> QED BY <1>1, <2>2, <2>3, <2>4, SameStep, AppendStep
<1>5. CASE FailTasksForOfflineRuntimes
  <2>1. PICK S : task' = [t \in Ids |-> IF t \in S THEN Failed(task[t], "offline")
                                        ELSE task[t]]
    BY <1>5 DEF FailTasksForOfflineRuntimes
  <2> QED BY <1>1, <1>2, <2>1, FailedMapRows
<1>6. ASSUME NEW r \in Runtimes, DaemonStart(r)
      PROVE RowStep
  <2>1. PICK S : task' = [t \in Ids |-> IF t \in S THEN Failed(task[t], "recovery")
                                        ELSE task[t]]
    BY <1>6 DEF DaemonStart
  <2> QED BY <1>1, <1>2, <2>1, FailedMapRows
<1>7. ASSUME NEW r \in Runtimes, MarkRuntimesOffline(r)
      PROVE RowStep
  BY <1>1, <1>7, SameStep DEF MarkRuntimesOffline
<1> QED BY <1>3, <1>4, <1>5, <1>6, <1>7 DEF SweepStep

(* Whatever the next step is. *)
LEMMA StepRows ==
  ASSUME ConstantsAssumption, TypeInv, [Next]_vars
  PROVE RowStep
<1>1. task \in Seq(Rows)
  BY DEF TypeInv, TypeOK
<1>2. CASE task' = task
  BY <1>1, <1>2, SameStep
<1>3. ASSUME NEW k \in Keys, Enqueue(k) PROVE RowStep
  BY <1>3, EnqueueRows
<1>4. ASSUME NEW t \in Ids,
             \/ EnqueueDeferredAssigneeFallback(t) \/ CancelTask(t)
             \/ FireAt(t) \/ Lapse(t) \/ ExpireStaleQueuedTask(t)
      PROVE RowStep
  <2>1. CASE EnqueueDeferredAssigneeFallback(t)
    BY <2>1, FallbackRows
  <2>2. CASE CancelTask(t)
    BY <2>2, CancelRows
  <2>3. CASE FireAt(t) \/ Lapse(t)
    BY <1>1, <2>3, FlagRows DEF FireAt, Lapse
  <2>4. CASE ExpireStaleQueuedTask(t)
    BY <2>4, SweepRows
  <2> QED BY <1>4, <2>1, <2>2, <2>3, <2>4
<1>5. ASSUME NEW a \in Agents, NEW r \in Runtimes, MoveAgent(a, r) PROVE task' = task
  BY <1>5 DEF MoveAgent
<1>6. ASSUME NEW c \in Requests,
             \/ ReqStep(c) \/ Abort(c) \/ \E r \in Runtimes : Poll(c, r)
      PROVE RowStep
  <2>1. CASE ReclaimStale(c)
    BY <2>1, ReclaimRows
  <2>2. CASE Take(c)
    BY <2>2, TakeRows
  <2>3. CASE Requeue(c)
    BY <2>3, RequeueRows
  <2>4. CASE \E r \in Runtimes : Poll(c, r)
    BY <2>4, PollRows
  <2>5. CASE \/ ListCandidates(c) \/ LoopDone(c) \/ SelectTask(c)
             \/ \E a \in Agents : LockAgent(c, a)
             \/ \E e \in Slots : Deliver(c, e)
             \/ LoseResponse(c) \/ FinalizeFails(c) \/ Abort(c)
    <3>1. task' = task
      BY <2>5 DEF ListCandidates, LoopDone, SelectTask, LockAgent, Deliver,
                  LoseResponse, FinalizeFails, Abort
    <3> QED BY <1>1, <3>1, SameStep
  <2> QED BY <1>6, <2>1, <2>2, <2>3, <2>4, <2>5 DEF ReqStep
<1>7. ASSUME NEW e \in Slots,
             \/ SlotStep(e) \/ ExtendTaskPrepareLease(e)
             \/ MarkTaskWaitingLocalDirectory(e) \/ AgentComments(e)
      PROVE RowStep
  BY <1>7, SlotRows
<1>8. ASSUME NEW r \in Runtimes, DaemonCrash(r) \/ Heartbeat(r) PROVE task' = task
  BY <1>8 DEF DaemonCrash, Heartbeat
<1>9. ASSUME NEW r \in Runtimes, DaemonStart(r) PROVE RowStep
  BY <1>9, SweepRows
<1>10. CASE SweepStep
  BY <1>10, SweepRows
<1>11. CASE SweeperCrash
  BY <1>2, <1>11 DEF SweeperCrash
<1>12. CASE UNCHANGED vars
  BY <1>2, <1>12 DEF vars
<1> QED BY <1>2, <1>3, <1>4, <1>5, <1>6, <1>7, <1>8, <1>9, <1>10, <1>11, <1>12
           DEF Next

-----------------------------------------------------------------------------
(* Type correctness *)

ReqInv ==
  /\ req \in [Requests -> ReqStates]
  /\ \A c \in Requests :
       /\ req[c].pc \in {"commit", "build", "requeue"} => req[c].task \in Ids
       /\ req[c].pc \in {"take", "commit"} => req[c].agent \in Agents
SlotInv ==
  /\ exec \in [Slots -> SlotStates]
  /\ \A e \in Slots : exec[e].phase # "idle" => exec[e].task \in Ids
ListsInv ==
  /\ batch \subseteq Ids /\ routing \subseteq Ids
  /\ \A t \in routing : FallbackOf[task[t].key] # None

(* A step that replaces the state of one request, and leaves the others where
   they are. *)
LEMMA ReqFrame ==
  ASSUME ReqInv, Ids \subseteq Ids', NEW c \in Requests, NEW q \in ReqStates,
         q.pc \in {"commit", "build", "requeue"} => q.task \in Ids,
         q.pc \in {"take", "commit"} => q.agent \in Agents,
         \/ req' = [req EXCEPT ![c] = q]
         \/ \E t : req' = Redispatched(c, t, q)
  PROVE ReqInv'
<1>1. CASE req' = [req EXCEPT ![c] = q]
  BY <1>1 DEF ReqInv
<1>2. CASE \E t : req' = Redispatched(c, t, q)
  <2>1. PICK t : req' = Redispatched(c, t, q)
    BY <1>2
  <2>2. \A d \in Requests : /\ [req[d] EXCEPT !.cur = FALSE] \in ReqStates
                            /\ [req[d] EXCEPT !.cur = FALSE].pc = req[d].pc
                            /\ [req[d] EXCEPT !.cur = FALSE].task = req[d].task
                            /\ [req[d] EXCEPT !.cur = FALSE].agent = req[d].agent
    BY DEF ReqInv, ReqStates
  <2>3. req' \in [Requests -> ReqStates]
    BY <2>1, <2>2 DEF ReqInv, Redispatched
  <2>4. \A d \in Requests : \/ d = c /\ req'[d] = q
                            \/ /\ req'[d].pc = req[d].pc
                               /\ req'[d].task = req[d].task
                               /\ req'[d].agent = req[d].agent
    BY <2>1, <2>2 DEF Redispatched
  <2> QED BY <2>3, <2>4 DEF ReqInv
<1> QED BY <1>1, <1>2

LEMMA IdleReqType ==
  IdleReq \in ReqStates /\ IdleReq.pc = "idle" /\ IdleReq.task = 0
  BY DEF IdleReq, ReqStates

(* A step after which some answers are late. *)
LEMMA LateFrame ==
  ASSUME ReqInv, Ids \subseteq Ids', NEW S,
         req' = [c \in Requests |-> IF c \in S THEN [req[c] EXCEPT !.late = TRUE]
                                    ELSE req[c]]
  PROVE ReqInv'
<1>1. \A d \in Requests : /\ [req[d] EXCEPT !.late = TRUE] \in ReqStates
                          /\ [req[d] EXCEPT !.late = TRUE].pc = req[d].pc
                          /\ [req[d] EXCEPT !.late = TRUE].task = req[d].task
                          /\ [req[d] EXCEPT !.late = TRUE].agent = req[d].agent
  BY DEF ReqInv, ReqStates
<1>2. req' \in [Requests -> ReqStates]
  BY <1>1 DEF ReqInv
<1>3. \A d \in Requests : /\ req'[d].pc = req[d].pc
                          /\ req'[d].task = req[d].task
                          /\ req'[d].agent = req[d].agent
  BY <1>1
<1> QED BY <1>2, <1>3 DEF ReqInv

(* A step that replaces the state of one slot. *)
LEMMA SlotFrame ==
  ASSUME SlotInv, Ids \subseteq Ids', NEW e \in Slots, NEW x \in SlotStates,
         x.phase # "idle" => x.task \in Ids,
         exec' = [exec EXCEPT ![e] = x]
  PROVE SlotInv'
  BY DEF SlotInv

LEMMA ReqUnchanged ==
  ASSUME ReqInv, Ids \subseteq Ids', req' = req
  PROVE ReqInv'
  BY DEF ReqInv

LEMMA SlotUnchanged ==
  ASSUME SlotInv, Ids \subseteq Ids', exec' = exec
  PROVE SlotInv'
  BY DEF SlotInv

LEMMA ListsUnchanged ==
  ASSUME ListsInv, RowStep, batch' \subseteq batch \cup Ids, routing' \subseteq routing
  PROVE ListsInv'
<1>1. Ids \subseteq Ids' /\ \A t \in Ids : task'[t].key = task[t].key
  BY DEF RowStep, Ids
<1> QED BY <1>1 DEF ListsInv

LEMMA ReqStepType ==
  ASSUME ConstantsAssumption, TypeInv, Ids \subseteq Ids', NEW c \in Requests,
         ReqStep(c) \/ Abort(c) \/ \E r \in Runtimes : Poll(c, r)
  PROVE ReqInv'
<1>1. ReqInv /\ req[c] \in ReqStates
  BY DEF TypeInv, TypeOK, Held, ReqInv
<1>2. \A t \in Ids : task[t] \in Rows /\ t \in Nat
  BY RowsFcn DEF TypeInv, TypeOK, Ids
<1>3. CASE ReclaimStale(c)
  <2>1. CASE Reclaimable(req[c].rt) = {}
    <3>1. DEFINE q == [req[c] EXCEPT !.pc = "list"]
    <3>2. q \in ReqStates /\ q.pc = "list"
      BY <1>1 DEF ReqStates
    <3>3. req' = [req EXCEPT ![c] = q]
      BY <1>3, <2>1 DEF ReclaimStale
    <3> HIDE DEF q
    <3> QED BY <1>1, <3>2, <3>3, ReqFrame
  <2>2. CASE Reclaimable(req[c].rt) # {}
    <3>1. PICK t \in Ids : req' = Redispatched(c, t, [req[c] EXCEPT
                             !.pc = "build", !.task = t, !.cur = TRUE])
      BY <1>3, <2>2 DEF ReclaimStale, Reclaimable
    <3>2. DEFINE q == [req[c] EXCEPT !.pc = "build", !.task = t, !.cur = TRUE]
    <3>3. q \in ReqStates /\ q.pc = "build" /\ q.task = t
      BY <1>1, <1>2 DEF ReqStates
    <3>4. req' = Redispatched(c, t, q)
      BY <3>1
    <3> HIDE DEF q
    <3> QED BY <1>1, <3>3, <3>4, ReqFrame
  <2> QED BY <2>1, <2>2
<1>4. CASE ListCandidates(c)
  <2>1. DEFINE found == {AgentOf[task[t].key] : t \in
                  {u \in Ids : task[u].status = "queued" /\ task[u].rt = req[c].rt}}
               q == [req[c] EXCEPT !.pc = "loop", !.todo = found]
  <2>2. \A t \in Ids : task[t].key \in Keys
    BY <1>2 DEF Rows
  <2>3. found \in SUBSET Agents
    BY <2>2 DEF ConstantsAssumption
  <2>4. q \in ReqStates /\ q.pc = "loop"
    <3> HIDE DEF found
    <3> QED BY <1>1, <2>3 DEF ReqStates
  <2>5. \/ req' = [req EXCEPT ![c] = q]
        \/ req' = [req EXCEPT ![c] = IdleReq]
    BY <1>4 DEF ListCandidates
  <2> HIDE DEF q
  <2> QED BY <1>1, <2>4, <2>5, ReqFrame, IdleReqType
<1>5. CASE \E a \in Agents : LockAgent(c, a)
  <2>1. PICK a \in Agents : LockAgent(c, a)
    BY <1>5
  <2>2. DEFINE q == [req[c] EXCEPT !.todo = @ \ {a}]
               p == [req[c] EXCEPT !.pc = "take", !.agent = a,
                                   !.todo = req[c].todo \ {a}]
  <2>3. q \in ReqStates /\ q.pc = "loop"
    BY <1>1, <2>1 DEF ReqStates, LockAgent
  <2>4. p \in ReqStates /\ p.pc = "take" /\ p.agent = a
    BY <1>1 DEF ReqStates
  <2>5. CASE Cardinality(Running(a)) >= MaxConcurrent[a]
    <3>1. req' = [req EXCEPT ![c] = q]
      BY <2>1, <2>5 DEF LockAgent
    <3> HIDE DEF q
    <3> QED BY <1>1, <2>3, <3>1, ReqFrame
  <2>6. CASE ~(Cardinality(Running(a)) >= MaxConcurrent[a])
    <3>1. req' = [req EXCEPT ![c] = p]
      BY <2>1, <2>6 DEF LockAgent
    <3> HIDE DEF p
    <3> QED BY <1>1, <2>4, <3>1, ReqFrame
  <2> QED BY <2>5, <2>6
<1>6. CASE LoopDone(c) \/ LoseResponse(c) \/ Requeue(c) \/ Abort(c)
           \/ \E e \in Slots : Deliver(c, e)
  <2>1. req' = [req EXCEPT ![c] = IdleReq]
    BY <1>6 DEF LoopDone, LoseResponse, Requeue, Abort, Deliver
  <2> QED BY <1>1, <2>1, ReqFrame, IdleReqType
<1>7. CASE SelectTask(c)
  <2>1. CASE req' = [req EXCEPT ![c] = [@ EXCEPT !.pc = "loop", !.agent = None]]
    <3>1. DEFINE q == [req[c] EXCEPT !.pc = "loop", !.agent = None]
    <3>2. q \in ReqStates /\ q.pc = "loop"
      BY <1>1 DEF ReqStates
    <3>3. req' = [req EXCEPT ![c] = q]
      BY <2>1
    <3> HIDE DEF q
    <3> QED BY <1>1, <3>2, <3>3, ReqFrame
  <2>2. CASE \E t \in Claimable(req[c].agent) :
               req' = [req EXCEPT ![c] = [@ EXCEPT !.pc = "commit", !.task = t]]
    <3>1. PICK t \in Ids : req' = [req EXCEPT ![c] = [@ EXCEPT !.pc = "commit",
                                                               !.task = t]]
      BY <2>2 DEF Claimable
    <3>2. DEFINE q == [req[c] EXCEPT !.pc = "commit", !.task = t]
    <3>3. req[c].agent \in Agents
      BY <1>1, <1>7 DEF ReqInv, SelectTask
    <3>4. q \in ReqStates /\ q.pc = "commit" /\ q.task = t /\ q.agent = req[c].agent
      BY <1>1, <1>2 DEF ReqStates
    <3>5. req' = [req EXCEPT ![c] = q]
      BY <3>1
    <3> HIDE DEF q
    <3> QED BY <1>1, <3>3, <3>4, <3>5, ReqFrame
  <2> QED BY <1>7, <2>1, <2>2 DEF SelectTask
<1>8. CASE Take(c)
  <2>1. DEFINE t == req[c].task
               loop == [req[c] EXCEPT !.pc = "loop", !.agent = None, !.task = 0]
               build == [loop EXCEPT !.pc = "build", !.todo = {}, !.task = t,
                                     !.cur = TRUE]
  <2>2. t \in Ids
    BY <1>1, <1>8 DEF ReqInv, Take
  <2>3. loop \in ReqStates /\ loop.pc = "loop"
    BY <1>1 DEF ReqStates
  <2>4. build \in ReqStates /\ build.pc = "build" /\ build.task = t
    <3> HIDE DEF loop
    <3> QED BY <1>2, <2>2, <2>3 DEF ReqStates
  <2>5. \/ req' = Redispatched(c, t, build) \/ req' = Redispatched(c, t, loop)
        \/ req' = [req EXCEPT ![c] = loop]
    BY <1>8 DEF Take
  <2> HIDE DEF loop, build
  <2> QED BY <1>1, <2>2, <2>3, <2>4, <2>5, ReqFrame
<1>9. CASE FinalizeFails(c)
  <2>1. DEFINE q == [req[c] EXCEPT !.pc = "requeue"]
  <2>2. req[c].task \in Ids
    BY <1>1, <1>9 DEF ReqInv, FinalizeFails
  <2>3. q \in ReqStates /\ q.pc = "requeue" /\ q.task = req[c].task
    BY <1>1 DEF ReqStates
  <2>4. req' = [req EXCEPT ![c] = q]
    BY <1>9 DEF FinalizeFails
  <2> HIDE DEF q
  <2> QED BY <1>1, <2>2, <2>3, <2>4, ReqFrame
<1>10. CASE \E r \in Runtimes : Poll(c, r)
  <2>1. PICK r \in Runtimes : Poll(c, r)
    BY <1>10
  <2>2. DEFINE q == [IdleReq EXCEPT !.pc = "reclaim", !.rt = r]
  <2>3. q \in ReqStates /\ q.pc = "reclaim"
    BY DEF ReqStates, IdleReq
  <2>4. req' = [req EXCEPT ![c] = q]
    BY <2>1 DEF Poll
  <2> HIDE DEF q
  <2> QED BY <1>1, <2>3, <2>4, ReqFrame
<1> QED BY <1>3, <1>4, <1>5, <1>6, <1>7, <1>8, <1>9, <1>10 DEF ReqStep

LEMMA SlotStepType ==
  ASSUME ConstantsAssumption, TypeInv, Ids \subseteq Ids', NEW e \in Slots,
         \/ SlotStep(e) \/ ExtendTaskPrepareLease(e)
         \/ MarkTaskWaitingLocalDirectory(e) \/ AgentComments(e)
         \/ \E c \in Requests : Deliver(c, e)
  PROVE SlotInv'
<1>1. SlotInv /\ exec[e] \in SlotStates
  BY DEF TypeInv, TypeOK, Held, SlotInv
<1>2. IdleExec \in SlotStates /\ IdleExec.phase = "idle"
  BY DEF IdleExec, SlotStates, AllReasons
<1>3. \A why \in AllReasons : /\ ToFailing(exec[e], why) \in SlotStates
                              /\ ToFailing(exec[e], why).task = exec[e].task
  BY <1>1 DEF ToFailing, SlotStates
<1>4. \A ph \in {"parked", "starting", "running", "completing"} :
        /\ [exec[e] EXCEPT !.phase = ph] \in SlotStates
        /\ [exec[e] EXCEPT !.phase = ph].task = exec[e].task
  BY <1>1 DEF SlotStates
<1>5. "agent_error" \in AllReasons /\ Reasons \subseteq AllReasons
  BY DEF AllReasons, ConstantsAssumption
<1>6. \/ exec' = exec
      \/ exec' = [exec EXCEPT ![e] = IdleExec]
      \/ exec[e].phase # "idle" /\ \E ph \in {"parked", "starting", "running", "completing"} :
           exec' = [exec EXCEPT ![e].phase = ph]
      \/ exec[e].phase # "idle" /\ \E why \in AllReasons :
           exec' = [exec EXCEPT ![e] = ToFailing(@, why)]
      \/ \E c \in Requests : Deliver(c, e)
  BY <1>5 DEF SlotStep, ExtendTaskPrepareLease, MarkTaskWaitingLocalDirectory,
              AgentComments, StartTask, CancelEscalations, AgentEnds, Interrupt,
              CompleteTask, FailTask, GiveUp
<1>7. CASE exec' = exec
  BY <1>1, <1>7, SlotUnchanged
<1>8. CASE exec' = [exec EXCEPT ![e] = IdleExec]
  BY <1>1, <1>2, <1>8, SlotFrame
<1>9. ASSUME exec[e].phase # "idle",
             NEW ph \in {"parked", "starting", "running", "completing"},
             exec' = [exec EXCEPT ![e].phase = ph]
      PROVE SlotInv'
  <2>1. DEFINE x == [exec[e] EXCEPT !.phase = ph]
  <2>2. x \in SlotStates /\ x.task \in Ids
    BY <1>1, <1>4, <1>9 DEF SlotInv
  <2>3. exec' = [exec EXCEPT ![e] = x]
    BY <1>9
  <2> HIDE DEF x
  <2> QED BY <1>1, <2>2, <2>3, SlotFrame
<1>10. ASSUME exec[e].phase # "idle", NEW why \in AllReasons,
              exec' = [exec EXCEPT ![e] = ToFailing(@, why)]
       PROVE SlotInv'
  <2>1. DEFINE x == ToFailing(exec[e], why)
  <2>2. x \in SlotStates /\ x.task \in Ids
    BY <1>1, <1>3, <1>10 DEF SlotInv
  <2>3. exec' = [exec EXCEPT ![e] = x]
    BY <1>10
  <2> HIDE DEF x
  <2> QED BY <1>1, <2>2, <2>3, SlotFrame
<1>11. ASSUME NEW c \in Requests, Deliver(c, e)
       PROVE SlotInv'
  <2>1. DEFINE x == [phase |-> "prepare", task |-> req[c].task, reason |-> "none"]
  <2>2. req[c].task \in Ids
    BY <1>11 DEF TypeInv, Held, Deliver
  <2>3. req[c].task \in Nat
    BY <2>2, RowsFcn DEF TypeInv, TypeOK, Ids
  <2>4. x \in SlotStates /\ x.task \in Ids
    BY <2>2, <2>3 DEF SlotStates, AllReasons
  <2>5. exec' = [exec EXCEPT ![e] = x]
    BY <1>11 DEF Deliver
  <2> HIDE DEF x
  <2> QED BY <1>1, <2>4, <2>5, SlotFrame
<1> QED BY <1>6, <1>7, <1>8, <1>9, <1>10, <1>11

(* The steps that change who serves whom, or the sweeper's lists. *)
EnvInv ==
  /\ home \in [Agents -> Runtimes]
  /\ lock \in [Agents -> Requests \cup {None}]
  /\ up \in [Runtimes -> BOOLEAN] /\ online \in [Runtimes -> BOOLEAN]
  /\ marked \in BOOLEAN

LEMMA Parts ==
  TypeInv <=> /\ task \in Seq(Rows) /\ ReqInv /\ SlotInv /\ ListsInv /\ EnvInv
  BY DEF TypeInv, TypeOK, Held, ReqInv, SlotInv, ListsInv, EnvInv

LEMMA NextType ==
  ASSUME ConstantsAssumption, TypeInv, [Next]_vars
  PROVE TypeInv'
<1>1. RowStep
  BY StepRows
<1>2. task' \in Seq(Rows) /\ Ids \subseteq Ids'
  BY <1>1 DEF RowStep, Ids
<1>3. ReqInv /\ SlotInv /\ ListsInv /\ EnvInv
  BY Parts
<1> DEFINE Rest == ReqInv' /\ SlotInv' /\ ListsInv' /\ EnvInv'
<1>4. ASSUME req' = req, exec' = exec, batch' = batch, routing' = routing, EnvInv'
      PROVE Rest
  BY <1>1, <1>2, <1>3, <1>4, ReqUnchanged, SlotUnchanged, ListsUnchanged
<1>5. ASSUME NEW k \in Keys, Enqueue(k) PROVE Rest
  <2>1. task' = Append(task, Row(k))
    BY <1>5 DEF Enqueue
  <2>2. task \in Seq(Rows) /\ home \in [Agents -> Runtimes]
    BY DEF TypeInv, TypeOK
  <2>3. Row(k) \in Rows /\ Row(k).key = k
    BY <2>2, RowType
  <2>4. DEFINE n == Len(task) + 1
  <2>5. n \in Ids' /\ task'[n].key = k
    BY <2>1, <2>2, <2>3, AppendRow DEF Ids
  <2> HIDE DEF n
  <2>6. routing' = routing \/ (FallbackOf[k] # None /\ routing' = routing \cup {n})
    BY <1>5 DEF Enqueue, n
  <2>7. batch' = batch /\ req' = req /\ exec' = exec /\ EnvInv'
    BY <1>3, <1>5 DEF Enqueue, EnvInv
  <2>8. \A t \in Ids : task'[t].key = task[t].key
    BY <1>1 DEF RowStep, Ids
  <2>9. ListsInv'
    BY <1>2, <1>3, <2>5, <2>6, <2>7, <2>8 DEF ListsInv
  <2> QED BY <1>2, <1>3, <2>7, <2>9, ReqUnchanged, SlotUnchanged
<1>6. ASSUME NEW t \in Ids, EnqueueDeferredAssigneeFallback(t) PROVE Rest
  <2>1. routing' \subseteq routing /\ batch' = batch /\ req' = req /\ exec' = exec
        /\ EnvInv'
    BY <1>3, <1>6 DEF EnqueueDeferredAssigneeFallback, EnvInv
  <2> QED BY <1>1, <1>2, <1>3, <2>1, ReqUnchanged, SlotUnchanged, ListsUnchanged
<1>7. ASSUME NEW t \in Ids, CancelTask(t) \/ FireAt(t) PROVE Rest
  BY <1>3, <1>4, <1>7 DEF CancelTask, FireAt, EnvInv
<1>8. ASSUME NEW t \in Ids, Lapse(t) PROVE Rest
  <2>1. exec' = exec /\ batch' = batch /\ routing' = routing /\ EnvInv'
    BY <1>3, <1>8 DEF Lapse, EnvInv
  <2>2. DEFINE S == {c \in Requests : req[c].task = t}
  <2>3. req' = [c \in Requests |-> IF c \in S THEN [req[c] EXCEPT !.late = TRUE]
                                   ELSE req[c]]
    BY <1>8 DEF Lapse
  <2> HIDE DEF S
  <2>4. ReqInv'
    BY <1>2, <1>3, <2>3, LateFrame
  <2> QED BY <1>1, <1>2, <1>3, <2>1, <2>4, SlotUnchanged, ListsUnchanged
<1>9. ASSUME NEW t \in Ids,
             \/ ExpireStaleQueuedTask(t) \/ FailStaleTask(t) \/ HandleFailedTask(t)
      PROVE Rest
  <2>1. /\ batch' \subseteq batch \cup Ids /\ routing' = routing
        /\ req' = req /\ exec' = exec
    BY <1>9 DEF ExpireStaleQueuedTask, FailStaleTask, HandleFailedTask
  <2>2. EnvInv'
    BY <1>3, <1>9 DEF ExpireStaleQueuedTask, FailStaleTask, HandleFailedTask, EnvInv
  <2> QED BY <1>1, <1>2, <1>3, <2>1, <2>2, ReqUnchanged, SlotUnchanged, ListsUnchanged
<1>10. ASSUME NEW a \in Agents, NEW r \in Runtimes, MoveAgent(a, r) PROVE Rest
  BY <1>3, <1>4, <1>10 DEF MoveAgent, EnvInv
<1>11. ASSUME NEW c \in Requests,
              \/ ReqStep(c) \/ Abort(c) \/ \E r \in Runtimes : Poll(c, r)
       PROVE Rest
  <2>1. ReqInv'
    BY <1>2, <1>11, ReqStepType
  <2>2. batch' = batch /\ routing' = routing
    BY <1>11 DEF ReqStep, ReclaimStale, ListCandidates, LoopDone, SelectTask, Take,
                 LockAgent, Deliver, LoseResponse, FinalizeFails, Requeue, Abort, Poll
  <2>3. SlotInv'
    <3>1. exec' = exec \/ \E e \in Slots : Deliver(c, e)
      BY <1>11 DEF ReqStep, ReclaimStale, ListCandidates, LoopDone, SelectTask, Take,
                   LockAgent, LoseResponse, FinalizeFails, Requeue, Abort, Poll
    <3> QED BY <1>2, <1>3, <3>1, SlotUnchanged, SlotStepType
  <2>4. \/ lock' = lock \/ (\E a : lock' = [lock EXCEPT ![a] = None])
        \/ (\E a : lock' = [lock EXCEPT ![a] = c])
        \/ lock' = [a \in Agents |-> IF lock[a] = c THEN None ELSE lock[a]]
    BY <1>11 DEF ReqStep, ReclaimStale, ListCandidates, LoopDone, SelectTask, Take,
                 LockAgent, Deliver, LoseResponse, FinalizeFails, Requeue, Abort, Poll
  <2>5. lock' \in [Agents -> Requests \cup {None}]
    BY <1>3, <2>4 DEF EnvInv
  <2>6. UNCHANGED <<home, up, online, marked>>
    BY <1>11 DEF ReqStep, ReclaimStale, ListCandidates, LoopDone, SelectTask, Take,
                 LockAgent, Deliver, LoseResponse, FinalizeFails, Requeue, Abort, Poll
  <2>7. EnvInv'
    BY <1>3, <2>5, <2>6 DEF EnvInv
  <2> QED BY <1>1, <1>3, <2>1, <2>2, <2>3, <2>7, ListsUnchanged
<1>12. ASSUME NEW e \in Slots,
              \/ SlotStep(e) \/ ExtendTaskPrepareLease(e)
              \/ MarkTaskWaitingLocalDirectory(e) \/ AgentComments(e)
       PROVE Rest
  <2>1. SlotInv'
    BY <1>2, <1>12, SlotStepType
  <2>2. UNCHANGED <<home, lock, req, up, online, marked, batch, routing>>
    BY <1>12 DEF SlotStep, ExtendTaskPrepareLease, MarkTaskWaitingLocalDirectory,
                 AgentComments, StartTask, CancelEscalations, AgentEnds, Interrupt,
                 CompleteTask, FailTask, GiveUp
  <2>3. EnvInv'
    BY <1>3, <2>2 DEF EnvInv
  <2> QED BY <1>1, <1>2, <1>3, <2>1, <2>2, <2>3, ReqUnchanged, ListsUnchanged
<1>13. ASSUME NEW r \in Runtimes, DaemonCrash(r) PROVE Rest
  <2>1. batch' = batch /\ routing' = routing /\ EnvInv'
    BY <1>3, <1>13 DEF DaemonCrash, EnvInv
  <2>2. DEFINE S == {c \in Requests : req[c].rt = r}
  <2>3. req' = [c \in Requests |-> IF c \in S THEN [req[c] EXCEPT !.late = TRUE]
                                   ELSE req[c]]
    BY <1>13 DEF DaemonCrash
  <2> HIDE DEF S
  <2>4. ReqInv'
    BY <1>2, <1>3, <2>3, LateFrame
  <2>5. IdleExec \in SlotStates /\ IdleExec.phase = "idle"
    BY DEF IdleExec, SlotStates, AllReasons
  <2>6. exec' = [e \in Slots |-> IF SlotRt[e] = r THEN IdleExec ELSE exec[e]]
    BY <1>13 DEF DaemonCrash
  <2>7. SlotInv'
    BY <1>2, <1>3, <2>5, <2>6 DEF SlotInv
  <2> QED BY <1>1, <1>3, <2>1, <2>4, <2>7, ListsUnchanged
<1>14. ASSUME NEW r \in Runtimes,
              DaemonStart(r) \/ Heartbeat(r) \/ MarkRuntimesOffline(r)
       PROVE Rest
  <2>1. /\ batch' \subseteq batch \cup Ids /\ routing' = routing
        /\ req' = req /\ exec' = exec
    BY <1>14 DEF DaemonStart, Heartbeat, MarkRuntimesOffline
  <2>2. EnvInv'
    BY <1>3, <1>14 DEF DaemonStart, Heartbeat, MarkRuntimesOffline, EnvInv
  <2> QED BY <1>1, <1>2, <1>3, <2>1, <2>2, ReqUnchanged, SlotUnchanged, ListsUnchanged
<1>15. ASSUME FailTasksForOfflineRuntimes \/ SweeperCrash PROVE Rest
  <2>1. /\ batch' \subseteq batch \cup Ids /\ routing' = routing
        /\ req' = req /\ exec' = exec
    BY <1>15 DEF FailTasksForOfflineRuntimes, SweeperCrash
  <2>2. EnvInv'
    BY <1>3, <1>15 DEF FailTasksForOfflineRuntimes, SweeperCrash, EnvInv
  <2> QED BY <1>1, <1>2, <1>3, <2>1, <2>2, ReqUnchanged, SlotUnchanged, ListsUnchanged
<1>16. ASSUME UNCHANGED vars PROVE Rest
  BY <1>3, <1>4, <1>16 DEF vars, EnvInv
<1>17. Rest
  <2> HIDE DEF Rest
  <2> QED BY <1>5, <1>6, <1>7, <1>8, <1>9, <1>10, <1>11, <1>12, <1>13, <1>14,
             <1>15, <1>16 DEF Next, SweepStep
<1> QED BY <1>2, <1>17 DEF TypeInv, TypeOK, Held, ReqInv, SlotInv, ListsInv, EnvInv

LEMMA InitType ==
  ASSUME ConstantsAssumption, Init
  PROVE TypeInv
<1>1. task \in Seq(Rows) /\ Ids = {}
  BY DEF Init, Ids
<1>2. ReqInv
  BY IdleReqType DEF Init, ReqInv
<1>3. SlotInv
  BY DEF Init, SlotInv, SlotStates, IdleExec, AllReasons
<1>4. ListsInv
  BY DEF Init, ListsInv
<1>5. EnvInv
  BY DEF Init, EnvInv, ConstantsAssumption
<1> QED BY <1>1, <1>2, <1>3, <1>4, <1>5, Parts

LEMMA TypeInvariant == Spec => []TypeInv
<1>1. Init => TypeInv
  BY InitType, ConstantsAssumption
<1>2. TypeInv /\ [Next]_vars => TypeInv'
  BY NextType, ConstantsAssumption
<1> QED BY <1>1, <1>2, PTL DEF Spec

(* Every variable stays in its set, whatever the agents, keys, requests, slots and
   faults: what the queue refers to by id is always a row of the table. *)
THEOREM TypeCorrect == Spec => []TypeOK
<1>1. TypeInv => TypeOK
  BY DEF TypeInv
<1> QED BY <1>1, TypeInvariant, PTL

-----------------------------------------------------------------------------
(* Claims: one row per key, no more rows than the agent may run *)

Claiming(c) == req[c].pc \in {"take", "commit"}

(* The request whose agent row is locked is the one that counts and selects; what
   it counted and what it selected stays true until it commits. *)
LockHeld == \A c \in Requests : Claiming(c) => lock[req[c].agent] = c
Selected ==
  \A c \in Requests : req[c].pc = "commit" =>
    LET k == task[req[c].task].key IN
    /\ AgentOf[k] = req[c].agent
    /\ KindOf[k] # "autopilot" =>
         \A u \in Ids : task[u].key = k => task[u].status \notin Active
Counted ==
  \A c \in Requests, a \in Agents :
    Claiming(c) /\ req[c].agent = a => Cardinality(Running(a)) < MaxConcurrent[a]
ClaimInv == LockHeld /\ Selected /\ Counted /\ SerializedPerKey /\ CapacityRespected

(* How a step moves a request ... *)
Stays(c) == /\ req'[c].pc = req[c].pc /\ req'[c].task = req[c].task
            /\ req'[c].agent = req[c].agent
Counts(c) == \E a \in Agents : /\ Cardinality(Running(a)) < MaxConcurrent[a]
                               /\ lock'[a] = c /\ task' = task
                               /\ req'[c].pc = "take" /\ req'[c].agent = a
Selects(c) == \E t \in Claimable(req[c].agent) :
                /\ req[c].pc = "take" /\ req'[c].pc = "commit"
                /\ req'[c].task = t /\ req'[c].agent = req[c].agent
                /\ \A u \in Claimable(req[c].agent) : task[u].pri <= task[t].pri
                /\ lock' = lock /\ task' = task
ReqMoves == \A c \in Requests :
  \/ req'[c].pc \notin {"take", "commit"}
  \/ Stays(c) \/ Counts(c) \/ Selects(c)
(* ... and the lock of an agent. *)
LockMoves == \A a \in Agents :
  \/ lock'[a] = lock[a]
  \/ lock[a] = None
  \/ \E d \in Requests : /\ req'[d].pc \notin {"take", "commit"}
                         /\ lock[a] = d \/ (Claiming(d) /\ req[d].agent = a)

LEMMA RunningFinite ==
  ASSUME task \in Seq(Rows), NEW a
  PROVE IsFiniteSet(Running(a)) /\ Cardinality(Running(a)) \in Nat
<1>1. Ids = 1..Len(task) /\ Len(task) \in Nat
  BY RowsFcn DEF Ids
<1>2. IsFiniteSet(1..Len(task))
  BY <1>1, FS_Interval
<1>3. Running(a) \subseteq 1..Len(task)
  BY <1>1 DEF Running
<1> QED BY <1>2, <1>3, FS_Subset, FS_CardinalityType

LEMMA StayMoves ==
  ASSUME NEW S, lock' = lock,
         req' = [c \in Requests |-> IF c \in S THEN [req[c] EXCEPT !.late = TRUE]
                                    ELSE req[c]],
         req \in [Requests -> ReqStates]
  PROVE ReqMoves /\ LockMoves
<1>1. \A d \in Requests : /\ [req[d] EXCEPT !.late = TRUE].pc = req[d].pc
                          /\ [req[d] EXCEPT !.late = TRUE].task = req[d].task
                          /\ [req[d] EXCEPT !.late = TRUE].agent = req[d].agent
  BY DEF ReqStates
<1>2. \A d \in Requests : Stays(d)
  BY <1>1 DEF Stays
<1> QED BY <1>2 DEF ReqMoves, LockMoves

LEMMA RedispatchedKeeps ==
  ASSUME req \in [Requests -> ReqStates], NEW c \in Requests, NEW t, NEW q,
         req' = Redispatched(c, t, q)
  PROVE /\ req'[c] = q
        /\ \A d \in Requests \ {c} : Stays(d)
<1>1. \A d \in Requests : /\ [req[d] EXCEPT !.cur = FALSE].pc = req[d].pc
                          /\ [req[d] EXCEPT !.cur = FALSE].task = req[d].task
                          /\ [req[d] EXCEPT !.cur = FALSE].agent = req[d].agent
  BY DEF ReqStates
<1> QED BY <1>1 DEF Redispatched, Stays

LEMMA StepMoves ==
  ASSUME ConstantsAssumption, TypeInv, [Next]_vars
  PROVE ReqMoves /\ LockMoves
<1>1. /\ req \in [Requests -> ReqStates]
      /\ lock \in [Agents -> Requests \cup {None}]
      /\ \A c \in Requests : Claiming(c) => req[c].agent \in Agents
  BY DEF TypeInv, TypeOK, Held, Claiming
<1>2. ASSUME req' = req, lock' = lock PROVE ReqMoves /\ LockMoves
  BY <1>2 DEF ReqMoves, LockMoves, Stays
<1>3. ASSUME NEW t \in Ids, Lapse(t) PROVE ReqMoves /\ LockMoves
  <2>1. DEFINE S == {c \in Requests : req[c].task = t}
  <2>2. lock' = lock /\ req' = [c \in Requests |->
                IF c \in S THEN [req[c] EXCEPT !.late = TRUE] ELSE req[c]]
    BY <1>3 DEF Lapse
  <2> HIDE DEF S
  <2> QED BY <1>1, <2>2, StayMoves
<1>4. ASSUME NEW r \in Runtimes, DaemonCrash(r) PROVE ReqMoves /\ LockMoves
  <2>1. DEFINE S == {c \in Requests : req[c].rt = r}
  <2>2. lock' = lock /\ req' = [c \in Requests |->
                IF c \in S THEN [req[c] EXCEPT !.late = TRUE] ELSE req[c]]
    BY <1>4 DEF DaemonCrash
  <2> HIDE DEF S
  <2> QED BY <1>1, <2>2, StayMoves
<1>5. ASSUME NEW c \in Requests,
             ReqStep(c) \/ Abort(c) \/ \E r \in Runtimes : Poll(c, r)
      PROVE ReqMoves /\ LockMoves
  <2>1. \A d \in Requests \ {c} : Stays(d)
    <3>1. \/ \E q : req' = [req EXCEPT ![c] = q]
          \/ \E t, q : req' = Redispatched(c, t, q)
      <4>1. CASE ReclaimStale(c) \/ Take(c)
        BY <4>1 DEF ReclaimStale, Take
      <4>2. CASE ListCandidates(c) \/ SelectTask(c)
        BY <4>2 DEF ListCandidates, SelectTask
      <4>3. CASE \E a \in Agents : LockAgent(c, a)
        BY <4>3 DEF LockAgent
      <4>4. CASE \/ LoopDone(c) \/ LoseResponse(c) \/ FinalizeFails(c) \/ Requeue(c)
                 \/ \E e \in Slots : Deliver(c, e)
        BY <4>4 DEF LoopDone, LoseResponse, FinalizeFails, Requeue, Deliver
      <4>5. CASE Abort(c) \/ \E r \in Runtimes : Poll(c, r)
        BY <4>5 DEF Abort, Poll
      <4> QED BY <1>5, <4>1, <4>2, <4>3, <4>4, <4>5 DEF ReqStep
    <3>2. CASE \E q : req' = [req EXCEPT ![c] = q]
      BY <1>1, <3>2 DEF Stays
    <3> QED BY <1>1, <3>1, <3>2, RedispatchedKeeps
  <2>2. ASSUME req'[c].pc \notin {"take", "commit"},
               \A a \in Agents : \/ lock'[a] = lock[a] \/ lock[a] = c
                                 \/ (Claiming(c) /\ req[c].agent = a)
        PROVE ReqMoves /\ LockMoves
    <3>1. ReqMoves
      BY <2>1, <2>2 DEF ReqMoves
    <3>2. LockMoves
      BY <2>2, Zenon DEF LockMoves
    <3> QED BY <3>1, <3>2
  <2>3. CASE ReclaimStale(c)
    <3>1. lock' = lock
      BY <2>3 DEF ReclaimStale
    <3>2. req'[c].pc \in {"list", "build"}
      <4>1. CASE Reclaimable(req[c].rt) = {}
        BY <1>1, <2>3, <4>1 DEF ReclaimStale, ReqStates
      <4>2. CASE Reclaimable(req[c].rt) # {}
        <5>1. PICK t : req' = Redispatched(c, t, [req[c] EXCEPT
                                 !.pc = "build", !.task = t, !.cur = TRUE])
          BY <2>3, <4>2 DEF ReclaimStale
        <5>2. req'[c] = [req[c] EXCEPT !.pc = "build", !.task = t, !.cur = TRUE]
          BY <1>1, <5>1, RedispatchedKeeps
        <5> QED BY <1>1, <5>2 DEF ReqStates
      <4> QED BY <4>1, <4>2
    <3> QED BY <2>2, <3>1, <3>2
  <2>4. CASE \/ ListCandidates(c) \/ LoopDone(c) \/ LoseResponse(c)
             \/ FinalizeFails(c) \/ Requeue(c) \/ Abort(c)
             \/ (\E e \in Slots : Deliver(c, e)) \/ (\E r \in Runtimes : Poll(c, r))
    <3>1. \A a \in Agents : lock'[a] = lock[a] \/ lock[a] = c
      BY <2>4 DEF ListCandidates, LoopDone, LoseResponse, FinalizeFails, Requeue,
                  Abort, Deliver, Poll
    <3>2. req'[c].pc \notin {"take", "commit"}
      <4>1. CASE ListCandidates(c)
        <5>1. CASE req' = [req EXCEPT ![c] = IdleReq]
          BY <1>1, <5>1 DEF IdleReq
        <5>2. CASE \E S : req' = [req EXCEPT ![c] = [@ EXCEPT !.pc = "loop", !.todo = S]]
          BY <1>1, <5>2 DEF ReqStates
        <5> QED BY <4>1, <5>1, <5>2 DEF ListCandidates
      <4>2. CASE FinalizeFails(c)
        BY <1>1, <4>2 DEF FinalizeFails, ReqStates
      <4>3. CASE \/ LoopDone(c) \/ LoseResponse(c) \/ Requeue(c) \/ Abort(c)
                 \/ \E e \in Slots : Deliver(c, e)
        <5>1. req'[c] = IdleReq
          BY <1>1, <4>3 DEF LoopDone, LoseResponse, Requeue, Abort, Deliver
        <5> QED BY <5>1 DEF IdleReq
      <4>4. CASE \E r \in Runtimes : Poll(c, r)
        <5>1. PICK r \in Runtimes : Poll(c, r)
          BY <4>4
        <5>2. req'[c] = [IdleReq EXCEPT !.pc = "reclaim", !.rt = r]
          BY <1>1, <5>1 DEF Poll
        <5> QED BY <5>2 DEF IdleReq
      <4> QED BY <2>4, <4>1, <4>2, <4>3, <4>4
    <3> QED BY <2>2, <3>1, <3>2
  <2>5. CASE \E a \in Agents : LockAgent(c, a)
    <3>1. PICK a \in Agents : LockAgent(c, a)
      BY <2>5
    <3>2. CASE Cardinality(Running(a)) >= MaxConcurrent[a]
      <4>1. lock' = lock /\ req'[c].pc = "loop"
        BY <1>1, <3>1, <3>2 DEF LockAgent, ReqStates
      <4> QED BY <2>2, <4>1
    <3>3. CASE ~(Cardinality(Running(a)) >= MaxConcurrent[a])
      <4>1. /\ task' = task /\ lock[a] = None /\ lock' = [lock EXCEPT ![a] = c]
            /\ req' = [req EXCEPT ![c] = [@ EXCEPT !.pc = "take", !.agent = a,
                                                   !.todo = req[c].todo \ {a}]]
        BY <3>1, <3>3 DEF LockAgent
      <4>2. req'[c].pc = "take" /\ req'[c].agent = a
        BY <1>1, <4>1 DEF ReqStates
      <4>3. MaxConcurrent[a] \in Nat /\ Cardinality(Running(a)) \in Nat
        <5>1. task \in Seq(Rows) /\ MaxConcurrent[a] \in Nat
          BY DEF TypeInv, TypeOK, ConstantsAssumption
        <5> QED BY <5>1, RunningFinite
      <4>4. Counts(c)
        BY <1>1, <3>3, <4>1, <4>2, <4>3 DEF Counts
      <4> QED BY <1>1, <2>1, <4>1, <4>4 DEF ReqMoves, LockMoves
    <3> QED BY <3>2, <3>3
  <2>6. CASE SelectTask(c)
    <3>1. CASE /\ req' = [req EXCEPT ![c] = [@ EXCEPT !.pc = "loop", !.agent = None]]
               /\ lock' = [lock EXCEPT ![req[c].agent] = None]
      <4>1. req'[c].pc = "loop"
        BY <1>1, <3>1 DEF ReqStates
      <4>2. Claiming(c)
        BY <2>6 DEF SelectTask, Claiming
      <4> QED BY <1>1, <2>2, <3>1, <4>1, <4>2
    <3>2. ASSUME NEW t \in Claimable(req[c].agent), lock' = lock,
                 \A u \in Claimable(req[c].agent) :
                   task[u].pri < task[t].pri \/ task[u].pri = task[t].pri,
                 req' = [req EXCEPT ![c] = [@ EXCEPT !.pc = "commit", !.task = t]]
          PROVE ReqMoves /\ LockMoves
      <4>1. /\ req'[c].pc = "commit" /\ req'[c].task = t
            /\ req'[c].agent = req[c].agent
        BY <1>1, <3>2 DEF ReqStates
      <4>2. \A u \in Claimable(req[c].agent) : task[u].pri \in Nat
        <5>1. \A u \in Ids : task[u] \in Rows
          BY RowsFcn DEF TypeInv, TypeOK, Ids
        <5> QED BY <5>1 DEF Claimable, Rows
      <4>3. \A u \in Claimable(req[c].agent) : task[u].pri <= task[t].pri
        BY <3>2, <4>2
      <4>4. Selects(c)
        BY <2>6, <3>2, <4>1, <4>3 DEF Selects, SelectTask
      <4> QED BY <2>1, <3>2, <4>4 DEF ReqMoves, LockMoves
    <3> QED BY <2>6, <3>1, <3>2 DEF SelectTask
  <2>7. CASE Take(c)
    <3>1. Claiming(c) /\ lock' = [lock EXCEPT ![req[c].agent] = None]
      BY <2>7 DEF Take, Claiming
    <3>2. DEFINE t == req[c].task
                 loop == [req[c] EXCEPT !.pc = "loop", !.agent = None, !.task = 0]
                 build == [loop EXCEPT !.pc = "build", !.todo = {}, !.task = t,
                                       !.cur = TRUE]
    <3>3. loop.pc = "loop" /\ build.pc = "build"
      BY <1>1 DEF ReqStates
    <3>4. \/ req' = Redispatched(c, t, build) \/ req' = Redispatched(c, t, loop)
          \/ req' = [req EXCEPT ![c] = loop]
      BY <2>7 DEF Take
    <3> HIDE DEF loop, build
    <3>5. req'[c] = loop \/ req'[c] = build
      BY <1>1, <3>4, RedispatchedKeeps
    <3> QED BY <1>1, <2>2, <3>1, <3>3, <3>5
  <2> QED BY <1>5, <2>3, <2>4, <2>5, <2>6, <2>7 DEF ReqStep
<1>6. ASSUME NEW e \in Slots,
             \/ SlotStep(e) \/ ExtendTaskPrepareLease(e)
             \/ MarkTaskWaitingLocalDirectory(e) \/ AgentComments(e)
      PROVE req' = req /\ lock' = lock
  BY <1>6 DEF SlotStep, ExtendTaskPrepareLease, MarkTaskWaitingLocalDirectory,
              AgentComments, StartTask, CancelEscalations, AgentEnds, Interrupt,
              CompleteTask, FailTask, GiveUp
<1>7. ASSUME \/ \E k \in Keys : Enqueue(k)
             \/ \E t \in Ids : \/ EnqueueDeferredAssigneeFallback(t) \/ CancelTask(t)
                               \/ FireAt(t) \/ ExpireStaleQueuedTask(t)
             \/ \E a \in Agents, r \in Runtimes : MoveAgent(a, r)
             \/ \E r \in Runtimes : DaemonStart(r) \/ Heartbeat(r)
             \/ SweepStep \/ SweeperCrash \/ UNCHANGED vars
      PROVE req' = req /\ lock' = lock
  BY <1>7 DEF Enqueue, EnqueueDeferredAssigneeFallback, CancelTask, FireAt,
              ExpireStaleQueuedTask, MoveAgent, DaemonStart, Heartbeat, SweepStep,
              MarkRuntimesOffline, FailTasksForOfflineRuntimes, FailStaleTask,
              HandleFailedTask, SweeperCrash, vars
<1>8. CASE \/ \E t \in Ids : Lapse(t)
           \/ \E r \in Runtimes : DaemonCrash(r)
           \/ \E c \in Requests : \/ ReqStep(c) \/ Abort(c)
                                  \/ \E r \in Runtimes : Poll(c, r)
  BY <1>3, <1>4, <1>5, <1>8
<1>9. CASE \E e \in Slots : \/ SlotStep(e) \/ ExtendTaskPrepareLease(e)
                            \/ MarkTaskWaitingLocalDirectory(e) \/ AgentComments(e)
  BY <1>2, <1>6, <1>9
<1> QED BY <1>2, <1>7, <1>8, <1>9 DEF Next

(* A claim that commits leaves the claiming states. *)
LEMMA TakeLeaves ==
  ASSUME TypeInv, NEW c \in Requests, Take(c)
  PROVE /\ req[c].pc = "commit" /\ req[c].task \in Ids
        /\ req[c].agent \in Agents /\ req'[c].pc \in {"loop", "build"}
<1>1. req \in [Requests -> ReqStates]
  BY DEF TypeInv, TypeOK
<1>2. req[c].pc = "commit"
  BY DEF Take
<1>3. DEFINE loop == [req[c] EXCEPT !.pc = "loop", !.agent = None, !.task = 0]
             build == [loop EXCEPT !.pc = "build", !.todo = {},
                                   !.task = req[c].task, !.cur = TRUE]
<1>4. loop.pc = "loop" /\ build.pc = "build"
  BY <1>1 DEF ReqStates
<1>5. \/ req' = Redispatched(c, req[c].task, build)
      \/ req' = Redispatched(c, req[c].task, loop)
      \/ req' = [req EXCEPT ![c] = loop]
  BY DEF Take
<1> HIDE DEF loop, build
<1>6. req'[c] = loop \/ req'[c] = build
  BY <1>1, <1>5, RedispatchedKeeps
<1> QED BY <1>2, <1>4, <1>6 DEF TypeInv, Held

(* While c claims rows of agent a, no other request activates a row of a. *)
LEMMA OnlyTaker ==
  ASSUME TypeInv, ClaimInv, RowStep, NEW t \in Ids', task'[t].status \in Active
  PROVE /\ t \in Ids /\ task'[t].key = task[t].key
        /\ \/ task[t].status \in Active
           \/ \E c \in Requests :
                /\ Take(c) /\ t = req[c].task
                /\ AgentOf[task[t].key] = req[c].agent
                /\ lock[AgentOf[task[t].key]] = c
<1>1. CASE t \in Ids /\ task[t].status \in Active
  BY <1>1 DEF RowStep, Ids
<1>2. ASSUME NEW c \in Requests, Take(c), t = req[c].task
      PROVE /\ t \in Ids /\ task'[t].key = task[t].key
            /\ AgentOf[task[t].key] = req[c].agent
            /\ lock[AgentOf[task[t].key]] = c
  <2>1. req[c].pc = "commit" /\ t \in Ids
    BY <1>2, TakeLeaves
  <2>2. AgentOf[task[t].key] = req[c].agent
    BY <1>2, <2>1 DEF ClaimInv, Selected
  <2>3. lock[req[c].agent] = c
    BY <2>1 DEF ClaimInv, LockHeld, Claiming
  <2> QED BY <2>1, <2>2, <2>3 DEF RowStep, Ids
<1>3. \/ t \in Ids /\ task[t].status \in Active
      \/ \E c \in Requests : Take(c) /\ t = req[c].task
  BY DEF RowStep, Ids
<1> QED BY <1>1, <1>2, <1>3

LEMMA LockHeldStep ==
  ASSUME ConstantsAssumption, TypeInv, ClaimInv, ReqMoves, LockMoves
  PROVE LockHeld'
<1> SUFFICES ASSUME NEW c \in Requests, req'[c].pc \in {"take", "commit"}
             PROVE lock'[req'[c].agent] = c
  BY DEF LockHeld, Claiming
<1>1. CASE Counts(c)
  BY <1>1 DEF Counts
<1>2. CASE Selects(c)
  <2>1. Claiming(c)
    BY <1>2 DEF Selects, Claiming
  <2> QED BY <1>2, <2>1 DEF Selects, ClaimInv, LockHeld
<1>3. CASE Stays(c)
  <2>1. Claiming(c) /\ req'[c].agent = req[c].agent
    BY <1>3 DEF Stays, Claiming
  <2>2. req[c].agent \in Agents /\ lock[req[c].agent] = c
    BY <2>1 DEF TypeInv, Held, ClaimInv, LockHeld, Claiming
  <2>3. c # None
    BY DEF ConstantsAssumption
  <2>4. ASSUME NEW d \in Requests, req'[d].pc \notin {"take", "commit"},
               lock[req[c].agent] = d \/ (Claiming(d) /\ req[d].agent = req[c].agent)
        PROVE FALSE
    <3>1. lock[req[c].agent] = d
      BY <2>4 DEF ClaimInv, LockHeld
    <3> QED BY <2>2, <2>4, <3>1
  <2> QED BY <2>1, <2>2, <2>3, <2>4 DEF LockMoves
<1> QED BY <1>1, <1>2, <1>3 DEF ReqMoves

LEMMA SelectedStep ==
  ASSUME ConstantsAssumption, TypeInv, ClaimInv, RowStep, ReqMoves
  PROVE Selected'
<1> SUFFICES ASSUME NEW c \in Requests, req'[c].pc = "commit"
             PROVE LET k == task'[req'[c].task].key IN
                   /\ AgentOf[k] = req'[c].agent
                   /\ KindOf[k] # "autopilot" =>
                        \A u \in Ids' : task'[u].key = k => task'[u].status \notin Active
  BY DEF Selected
<1>1. CASE Selects(c)
  <2>1. PICK t \in Claimable(req[c].agent) :
          req'[c].task = t /\ req'[c].agent = req[c].agent /\ task' = task
    BY <1>1 DEF Selects
  <2>2. Ids' = Ids
    BY <2>1 DEF Ids
  <2>3. /\ t \in Ids /\ AgentOf[task[t].key] = req[c].agent
        /\ \/ KindOf[task[t].key] = "autopilot"
           \/ \A u \in Ids : task[u].key = task[t].key => task[u].status \notin Active
    BY <2>1 DEF Claimable
  <2> QED BY <2>1, <2>2, <2>3
<1>2. CASE Stays(c)
  <2>1. /\ req[c].pc = "commit" /\ req'[c].task = req[c].task
        /\ req'[c].agent = req[c].agent /\ req'[c].pc = "commit"
    BY <1>2 DEF Stays
  <2>2. req[c].task \in Ids /\ task'[req[c].task].key = task[req[c].task].key
    BY <2>1 DEF TypeInv, Held, RowStep, Ids
  <2> DEFINE k == task[req[c].task].key
  <2>3. /\ AgentOf[k] = req[c].agent
        /\ KindOf[k] # "autopilot" =>
             \A u \in Ids : task[u].key = k => task[u].status \notin Active
    BY <2>1 DEF ClaimInv, Selected
  <2>4. lock[req[c].agent] = c
    BY <2>1 DEF ClaimInv, LockHeld, Claiming
  <2>5. ASSUME KindOf[k] # "autopilot", NEW u \in Ids', task'[u].key = k,
               task'[u].status \in Active
        PROVE FALSE
    <3>1. u \in Ids /\ task[u].key = k
      BY <2>5, OnlyTaker
    <3>2. PICK d \in Requests : Take(d) /\ lock[AgentOf[k]] = d
      BY <2>3, <2>5, <3>1, OnlyTaker
    <3>3. d = c
      BY <2>3, <2>4, <3>2
    <3>4. req'[d].pc \in {"loop", "build"}
      BY <3>2, TakeLeaves
    <3> QED BY <2>1, <3>3, <3>4
  <2> QED BY <2>1, <2>2, <2>3, <2>5
<1>3. ~Counts(c) /\ (Stays(c) \/ Selects(c) \/ Counts(c))
  BY DEF ReqMoves, Counts
<1> QED BY <1>1, <1>2, <1>3

LEMMA SerializedStep ==
  ASSUME TypeInv, ClaimInv, RowStep
  PROVE SerializedPerKey'
<1> SUFFICES ASSUME NEW t \in Ids', NEW u \in Ids', t # u,
                    task'[t].key = task'[u].key, KindOf[task'[t].key] # "autopilot",
                    task'[t].status \in Active, task'[u].status \in Active
             PROVE FALSE
  BY DEF SerializedPerKey
<1> DEFINE k == task[t].key
<1>1. t \in Ids /\ u \in Ids /\ task'[t].key = k /\ task[u].key = k
      /\ KindOf[k] # "autopilot"
  BY OnlyTaker
<1>2. ~(task[t].status \in Active /\ task[u].status \in Active)
  BY <1>1 DEF ClaimInv, SerializedPerKey
<1>3. ASSUME NEW x \in {t, u}, NEW y \in {t, u}, x # y, task[x].status \notin Active
      PROVE FALSE
  <2>1. x \in Ids' /\ y \in Ids' /\ task'[x].status \in Active
        /\ task'[y].status \in Active /\ task[x].key = k /\ task[y].key = k
        /\ y \in Ids
    BY <1>1
  <2>2. PICK c \in Requests : Take(c) /\ x = req[c].task /\ lock[AgentOf[k]] = c
    BY <1>3, <2>1, OnlyTaker
  <2>3. req[c].pc = "commit"
    BY <2>2, TakeLeaves
  <2>4. task[y].status \notin Active
    BY <1>1, <2>1, <2>2, <2>3 DEF ClaimInv, Selected
  <2>5. PICK d \in Requests : Take(d) /\ y = req[d].task /\ lock[AgentOf[k]] = d
    BY <2>1, <2>4, OnlyTaker
  <2> QED BY <1>3, <2>2, <2>5
<1> QED BY <1>2, <1>3

LEMMA RunningStep ==
  ASSUME TypeInv, ClaimInv, RowStep, NEW a \in Agents
  PROVE \/ Cardinality(Running(a)') <= Cardinality(Running(a))
        \/ \E c \in Requests :
             /\ Take(c) /\ req[c].agent = a /\ lock[a] = c
             /\ Cardinality(Running(a)') <= Cardinality(Running(a)) + 1
<1>1. task \in Seq(Rows) /\ task' \in Seq(Rows)
  BY DEF TypeInv, TypeOK, RowStep
<1>2. IsFiniteSet(Running(a)) /\ Cardinality(Running(a)) \in Nat
  BY <1>1, RunningFinite
<1>3. CASE Running(a)' \subseteq Running(a)
  BY <1>2, <1>3, FS_Subset
<1>4. CASE ~(Running(a)' \subseteq Running(a))
  <2>1. PICK t \in Running(a)' : t \notin Running(a)
    BY <1>4
  <2>2. t \in Ids' /\ task'[t].status \in Active /\ AgentOf[task'[t].key] = a
    BY DEF Running
  <2>3. t \in Ids /\ task'[t].key = task[t].key /\ task[t].status \notin Active
    BY <2>1, <2>2, OnlyTaker DEF Running
  <2>4. PICK c \in Requests : Take(c) /\ t = req[c].task /\ req[c].agent = a
                              /\ lock[a] = c
    BY <2>2, <2>3, OnlyTaker
  <2>5. Running(a)' \subseteq Running(a) \cup {t}
    <3>1. SUFFICES ASSUME NEW u \in Running(a)', u \notin Running(a) PROVE u = t
      OBVIOUS
    <3>2. u \in Ids' /\ task'[u].status \in Active /\ AgentOf[task'[u].key] = a
      BY DEF Running
    <3>3. u \in Ids /\ task'[u].key = task[u].key /\ task[u].status \notin Active
      BY <3>1, <3>2, OnlyTaker DEF Running
    <3>4. PICK d \in Requests : Take(d) /\ u = req[d].task /\ lock[a] = d
      BY <3>2, <3>3, OnlyTaker
    <3> QED BY <2>4, <3>4
  <2>6. /\ IsFiniteSet(Running(a) \cup {t})
        /\ Cardinality(Running(a) \cup {t}) = Cardinality(Running(a)) + 1
    BY <1>2, <2>1, FS_AddElement
  <2>7. Cardinality(Running(a)') <= Cardinality(Running(a)) + 1
    BY <2>5, <2>6, FS_Subset
  <2> QED BY <2>4, <2>7
<1> QED BY <1>3, <1>4

LEMMA CountedStep ==
  ASSUME ConstantsAssumption, TypeInv, TypeInv', ClaimInv, RowStep, ReqMoves
  PROVE Counted' /\ CapacityRespected'
<1>1. /\ task \in Seq(Rows) /\ task' \in Seq(Rows)
      /\ MaxConcurrent \in [Agents -> Nat]
  BY DEF TypeInv, TypeOK, RowStep, ConstantsAssumption
<1>2. \A a : Cardinality(Running(a)) \in Nat
  BY <1>1, RunningFinite
<1>3. \A a : Cardinality(Running(a)') \in Nat
  <2> SUFFICES ASSUME NEW a PROVE Cardinality(Running(a)') \in Nat
    OBVIOUS
  <2>1. Ids' = 1..Len(task') /\ Len(task') \in Nat
    BY <1>1, RowsFcn DEF Ids
  <2>2. IsFiniteSet(1..Len(task'))
    BY <2>1, FS_Interval
  <2>3. Running(a)' \subseteq 1..Len(task')
    BY <2>1 DEF Running
  <2> QED BY <2>2, <2>3, FS_Subset, FS_CardinalityType
<1>4. ASSUME NEW c \in Requests, NEW a \in Agents,
             req'[c].pc \in {"take", "commit"}, req'[c].agent = a
      PROVE Cardinality(Running(a)') < MaxConcurrent[a]
  <2>1. CASE Counts(c)
    <3>1. task' = task /\ Cardinality(Running(a)) < MaxConcurrent[a]
      BY <1>4, <2>1 DEF Counts
    <3>2. Running(a)' = Running(a)
      BY <3>1 DEF Running, Ids
    <3> QED BY <3>1, <3>2
  <2>2. CASE Selects(c)
    <3>1. task' = task /\ req[c].agent = a /\ Claiming(c)
      BY <1>4, <2>2 DEF Selects, Claiming
    <3>2. Running(a)' = Running(a)
      BY <3>1 DEF Running, Ids
    <3> QED BY <3>1, <3>2 DEF ClaimInv, Counted
  <2>3. CASE Stays(c)
    <3>1. req[c].agent = a /\ Claiming(c)
      BY <1>4, <2>3 DEF Stays, Claiming
    <3>2. lock[a] = c /\ Cardinality(Running(a)) < MaxConcurrent[a]
      BY <3>1 DEF ClaimInv, LockHeld, Counted
    <3>3. Cardinality(Running(a)') <= Cardinality(Running(a))
      <4>1. ASSUME NEW d \in Requests, Take(d), lock[a] = d PROVE FALSE
        <5>1. req'[d].pc \in {"loop", "build"} /\ d = c
          BY <3>2, <4>1, TakeLeaves
        <5> QED BY <1>4, <5>1
      <4> QED BY <4>1, RunningStep
    <3>4. MaxConcurrent[a] \in Nat
      BY <1>1
    <3> QED BY <1>2, <1>3, <3>2, <3>3, <3>4
  <2> QED BY <1>4, <2>1, <2>2, <2>3 DEF ReqMoves
<1>5. ASSUME NEW a \in Agents
      PROVE Cardinality(Running(a)') <= MaxConcurrent[a]
  <2>1. Cardinality(Running(a)) <= MaxConcurrent[a]
    BY DEF ClaimInv, CapacityRespected
  <2>2. ASSUME NEW c \in Requests, Take(c), req[c].agent = a
        PROVE Cardinality(Running(a)) < MaxConcurrent[a]
    <3>1. Claiming(c)
      BY <2>2, TakeLeaves DEF Claiming
    <3> QED BY <2>2, <3>1 DEF ClaimInv, Counted
  <2>3. MaxConcurrent[a] \in Nat
    BY <1>1
  <2> QED BY <1>2, <1>3, <2>1, <2>2, <2>3, RunningStep
<1>6. CapacityRespected'
  BY <1>5 DEF CapacityRespected, Running
<1>7. Counted'
  BY <1>4 DEF Counted, Claiming, Running
<1> QED BY <1>6, <1>7

LEMMA InitClaim ==
  ASSUME ConstantsAssumption, Init
  PROVE ClaimInv
<1>1. Ids = {} /\ \A c \in Requests : req[c].pc = "idle"
  BY IdleReqType DEF Init, Ids
<1>2. LockHeld /\ Selected /\ Counted
  BY <1>1 DEF LockHeld, Selected, Counted, Claiming
<1>3. SerializedPerKey
  BY <1>1 DEF SerializedPerKey
<1>4. \A a \in Agents : Running(a) = {} /\ MaxConcurrent[a] \in Nat
  BY <1>1 DEF Running, ConstantsAssumption
<1>5. CapacityRespected
  <2>1. Cardinality({}) = 0
    BY FS_EmptySet
  <2>2. ASSUME NEW a \in Agents PROVE Cardinality(Running(a)) <= MaxConcurrent[a]
    <3>1. Cardinality(Running(a)) = 0
      BY <1>4, <2>1
    <3> QED BY <1>4, <3>1
  <2> QED BY <2>2 DEF CapacityRespected
<1> QED BY <1>2, <1>3, <1>5 DEF ClaimInv

LEMMA ClaimInvariant == Spec => []ClaimInv
<1>1. Init => ClaimInv
  BY InitClaim, ConstantsAssumption
<1>2. TypeInv /\ TypeInv' /\ ClaimInv /\ [Next]_vars => ClaimInv'
  <2> SUFFICES ASSUME TypeInv, TypeInv', ClaimInv, [Next]_vars PROVE ClaimInv'
    OBVIOUS
  <2>1. RowStep /\ ReqMoves /\ LockMoves
    BY StepRows, StepMoves, ConstantsAssumption
  <2>2. LockHeld'
    BY <2>1, LockHeldStep, ConstantsAssumption
  <2>3. Selected'
    BY <2>1, SelectedStep, ConstantsAssumption
  <2>4. Counted' /\ CapacityRespected'
    BY <2>1, CountedStep, ConstantsAssumption
  <2>5. SerializedPerKey'
    BY <2>1, SerializedStep
  <2> QED BY <2>2, <2>3, <2>4, <2>5 DEF ClaimInv
<1> QED BY <1>1, <1>2, TypeInvariant, PTL DEF Spec

(* ClaimAgentTask never makes two rows of one serialization key active together,
   for any number of concurrent requests, slots, daemons and faults. *)
THEOREM Serialization == Spec => []SerializedPerKey
<1>1. ClaimInv => SerializedPerKey
  BY DEF ClaimInv
<1> QED BY <1>1, ClaimInvariant, PTL

(* ClaimTask never runs an agent beyond max_concurrent_tasks, for any number of
   concurrent requests, slots, daemons and faults. *)
THEOREM Capacity == Spec => []CapacityRespected
<1>1. ClaimInv => CapacityRespected
  BY DEF ClaimInv
<1> QED BY <1>1, ClaimInvariant, PTL
=============================================================================
