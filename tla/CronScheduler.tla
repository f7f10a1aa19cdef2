--------------------------- MODULE CronScheduler ---------------------------
(***************************************************************************)
(* sys_cron_executions: planned executions of one job in one scope, which  *)
(* the scheduler managers of several server instances lease, run, retry    *)
(* and close.  Time is the clock of the database in whole units; a plan is *)
(* named by the time at which it becomes due.  A manager samples the clock *)
(* once per tick and uses the sample in every statement up to the terminal *)
(* write.                                                                  *)
(***************************************************************************)
EXTENDS Integers, Sequences, FiniteSets

CONSTANTS
  Managers,
  Frail,             \* the managers that may crash, stall or fail to write
  Due,               \* plan times: a Cadence grid or cron occurrences
  Jobs,              \* the JobSpecs to consider, and plans closed in earlier days
  RunTimeout, StaleTimeout, HeartbeatInterval,
  CatchUpWindow, MaxPlansPerTick,
  MaxLateness,       \* maxAutopilotScheduleLateness
  MaxTickAge,        \* bound: age of the sample when the turn comes to the job
  MaxTime,           \* bound: the clock stops there, ticks do not
  None

JobSpecs == [mode : {"latest_only", "every_plan", "hook"}, reentry : BOOLEAN,
             attempts : Nat \ {0}, backoff : Seq(Nat), stored : SUBSET Due]

Rows == [status : {"RUNNING", "SUCCESS", "FAILED"}, attempt : Nat, token : Nat,
         stale : Nat, retry : Nat \cup {None}]

(* JobSpec.validate; the first plan is due from the start *)
ASSUME SchedulerAssumption ==
  /\ Frail \subseteq Managers
  /\ Due \subseteq Nat /\ 0 \in Due /\ IsFiniteSet(Due)
  /\ \A j \in Jobs : j \in JobSpecs
  /\ RunTimeout \in Nat \ {0} /\ HeartbeatInterval \in Nat \ {0}
  /\ StaleTimeout \in Nat /\ StaleTimeout > RunTimeout /\ StaleTimeout > HeartbeatInterval
  /\ CatchUpWindow \in Nat /\ MaxPlansPerTick \in Nat \ {0} /\ MaxLateness \in Nat
  /\ MaxTickAge \in Nat /\ MaxTime \in Nat /\ None \notin Nat \cup Rows

VARIABLES
  job,       \* the registered JobSpec; stored: its rows before the start
  clock,     \* now() of the database
  row,       \* the execution row of a plan, or None
  mgr,       \* what each manager is doing
  succeeded  \* history: the (plan, attempt) whose handler returned success

vars == <<job, clock, row, mgr, succeeded>>

(* now: the sample; todo: plans of this tick still to claim; plan, token: the lease
   held; start, beat: when the handler and the last heartbeat started *)
IdleMgr == [pc |-> "idle", now |-> 0, todo |-> {}, plan |-> None, token |-> 0,
            start |-> 0, beat |-> None, ok |-> FALSE, stalled |-> FALSE]

Oldest(S) == {p \in S : \A q \in S : p <= q}
Newest(S) == {p \in S : \A q \in S : q <= p}
First(S, n) == {p \in S : Cardinality({q \in S : q < p}) < n}

Init ==
  /\ job \in Jobs
  /\ clock = 0
  /\ row = [p \in Due |-> IF p \in job.stored
                          THEN [status |-> "SUCCESS", attempt |-> 1, token |-> 1,
                                stale |-> 0, retry |-> None]
                          ELSE None]
  /\ mgr = [m \in Managers |-> IdleMgr]
  /\ succeeded = job.stored \X {1}

-----------------------------------------------------------------------------
(* RunOnce, runJob *)

Now_LocalClock(m) ==  \* mutant: time.Now() of an instance whose clock lags
  /\ mgr[m].pc = "idle"
  /\ mgr' = [mgr EXCEPT ![m] = [IdleMgr EXCEPT !.pc = "tick", !.now = clock - 1]]
  /\ UNCHANGED <<job, clock, row, succeeded>>
Now(m) ==
  /\ mgr[m].pc = "idle"
  /\ mgr' = [mgr EXCEPT ![m] = [IdleMgr EXCEPT !.pc = "tick", !.now = clock]]
  /\ UNCHANGED <<job, clock, row, succeeded>>

Abandoned_NonReentrant(p, now) ==  \* mutant: only for the jobs its comment names
  row[p] # None /\ row[p].status = "RUNNING" /\ row[p].stale < now /\ ~job.reentry
Abandoned_Inclusive(p, now) ==  \* mutant: <= for <
  row[p] # None /\ row[p].status = "RUNNING" /\ row[p].stale <= now
Abandoned(p, now) ==
  row[p] # None /\ row[p].status = "RUNNING" /\ row[p].stale < now
(* markStaleAsFailed; next_retry_at stays NULL *)
MarkStale(m) ==
  /\ mgr[m].pc = "tick"
  /\ row' = [p \in Due |-> IF Abandoned(p, mgr[m].now)
                           THEN [row[p] EXCEPT !.status = "FAILED"] ELSE row[p]]
  /\ mgr' = [mgr EXCEPT ![m].pc = "plan"]
  /\ UNCHANGED <<job, clock, succeeded>>

(* COALESCE(next_retry_at, now) <= now *)
RetryDue(r, now) == r.retry = None \/ r.retry <= now
RetryEligible(r, now) ==
  r.status = "FAILED" /\ r.attempt < job.attempts /\ RetryDue(r, now)

PlansForTick_Restart(now) ==  \* mutant: every tick starts as if nothing were stored
  Newest({p \in Due : p <= now})
(* a CatchUpWindow of 0 keeps the latest plan only *)
InWindow(p, now) ==
  IF CatchUpWindow = 0 THEN p \in Newest({q \in Due : q <= now}) ELSE p + CatchUpWindow >= now

(* latest_only, every_plan, and the PlansForScope hook of the autopilot job: the
   newest occurrence since the last stored one, unless that one is to be retried *)
PlansForTick(now) ==
  LET due == {p \in Due : p <= now}
      stored == {p \in Due : row[p] # None}
      again == {p \in Newest(stored) : RetryEligible(row[p], now)}
      newer == {p \in due : \A s \in stored : s < p} IN
  CASE job.mode = "latest_only" -> Newest(due)
    [] job.mode = "every_plan"  ->
         First({p \in IF stored = {} THEN Newest(due) ELSE again \cup newer :
                  InWindow(p, now)}, MaxPlansPerTick)
    [] job.mode = "hook" -> IF again # {} THEN again
                            ELSE {p \in Newest(newer) : p + MaxLateness >= now}

Plan(m) ==
  /\ mgr[m].pc = "plan"
  /\ mgr' = [mgr EXCEPT ![m] = [@ EXCEPT !.pc = "loop",
                                         !.todo = PlansForTick(mgr[m].now)]]
  /\ UNCHANGED <<job, clock, row, succeeded>>

TickDone(m) ==
  /\ mgr[m].pc = "loop" /\ mgr[m].todo = {}
  /\ mgr' = [mgr EXCEPT ![m] = IdleMgr]
  /\ UNCHANGED <<job, clock, row, succeeded>>

-----------------------------------------------------------------------------
(* processPlan, tryClaim *)

(* the WHERE clause of the steal, on an existing row *)
Claimable(p, now) ==
  /\ row[p].attempt < job.attempts
  /\ \/ row[p].status = "FAILED" /\ RetryDue(row[p], now)
     \/ row[p].status = "RUNNING" /\ row[p].stale < now /\ job.reentry

(* a lease_token is drawn at each claim; the attempt it belongs to names it *)
Leased(attempt, now) ==
  [status |-> "RUNNING", attempt |-> attempt, token |-> attempt,
   stale |-> now + StaleTimeout, retry |-> None]
NewLease(p, now) ==
  IF row[p] = None THEN Leased(1, now) ELSE Leased(row[p].attempt + 1, now)

TryClaim(m) ==
  /\ mgr[m].pc = "loop"
  /\ \E p \in Oldest(mgr[m].todo) :
       LET rest == [mgr[m] EXCEPT !.todo = mgr[m].todo \ {p}]
           lease == NewLease(p, mgr[m].now) IN
       IF row[p] = None \/ Claimable(p, mgr[m].now)
       THEN /\ row' = [row EXCEPT ![p] = lease]
            /\ mgr' = [mgr EXCEPT ![m] = [rest EXCEPT !.pc = "run", !.plan = p,
                           !.token = lease.token, !.start = clock, !.beat = clock]]
       ELSE /\ mgr' = [mgr EXCEPT ![m] = rest]
            /\ row' = row
  /\ UNCHANGED <<job, clock, succeeded>>

-----------------------------------------------------------------------------
(* runClaimed *)

Holds_AnyToken(m) ==  \* mutant: no lease_token in the guard
  row[mgr[m].plan].status = "RUNNING"
Holds_AnyStatus(m) ==  \* mutant: no status in the guard
  row[mgr[m].plan].token = mgr[m].token
Holds(m) == row[mgr[m].plan].token = mgr[m].token /\ row[mgr[m].plan].status = "RUNNING"

(* now() is that of the statement here; a lost lease ends the heartbeats and
   leaves the handler running *)
Heartbeat(m) ==
  /\ mgr[m].pc = "run" /\ ~mgr[m].stalled /\ mgr[m].beat # None
  /\ clock >= mgr[m].beat + HeartbeatInterval
  /\ IF Holds(m)
     THEN /\ row' = [row EXCEPT ![mgr[m].plan].stale = clock + StaleTimeout]
          /\ mgr' = [mgr EXCEPT ![m].beat = clock]
     ELSE /\ mgr' = [mgr EXCEPT ![m].beat = None]
          /\ row' = row
  /\ UNCHANGED <<job, clock, succeeded>>

HandlerReturns(m) ==
  /\ mgr[m].pc = "run"
  /\ \E ok \in BOOLEAN :
       /\ mgr' = [mgr EXCEPT ![m] = [@ EXCEPT !.pc = "finish", !.ok = ok, !.start = 0,
                                              !.beat = None]]
       /\ succeeded' = IF ok THEN succeeded \cup {<<mgr[m].plan, mgr[m].token>>}
                       ELSE succeeded
  /\ UNCHANGED <<job, clock, row>>

RetryDelay(attempt) ==
  LET n == Len(job.backoff) IN
  IF n = 0 THEN 0 ELSE job.backoff[IF attempt <= n THEN attempt ELSE n]

NextPlan(g) == [g EXCEPT !.pc = "loop", !.plan = None, !.token = 0, !.ok = FALSE]

(* finishSuccess and finishFailure, with a fresh sample of the clock *)
Closed(r, ok) ==
  IF ok THEN [r EXCEPT !.status = "SUCCESS"]
  ELSE [r EXCEPT !.status = "FAILED",
                 !.retry = IF r.attempt < job.attempts
                           THEN clock + RetryDelay(r.attempt) ELSE None]
Finish(m) ==
  /\ mgr[m].pc = "finish"
  /\ \/ row' = IF Holds(m) THEN [row EXCEPT ![mgr[m].plan] = Closed(@, mgr[m].ok)] ELSE row
     \/ m \in Frail /\ row' = row  \* the write failed: it is only logged
  /\ mgr' = [mgr EXCEPT ![m] = NextPlan(mgr[m])]
  /\ UNCHANGED <<job, clock, succeeded>>

-----------------------------------------------------------------------------
(* Time and faults *)

(* What a process that does not stall does in time: consecutive statements within
   one unit, heartbeats at their interval, a handler that returns when its context
   ends; and the jobs before this one leave the sample at most MaxTickAge old. *)
InTime(m, t) ==
  LET g == mgr[m] IN
  \/ g.stalled \/ g.pc \in {"idle", "down"}
  \/ g.pc = "tick" /\ t <= g.now + MaxTickAge
  \/ /\ g.pc = "run" /\ t <= g.start + RunTimeout
     /\ g.beat # None => t <= g.beat + HeartbeatInterval

Clock ==
  /\ clock < MaxTime
  /\ \A m \in Managers : InTime(m, clock + 1)
  /\ clock' = clock + 1
  /\ UNCHANGED <<job, row, mgr, succeeded>>

(* the process hangs: no heartbeats, and any time between its statements *)
Stall(m) ==
  /\ m \in Frail /\ ~mgr[m].stalled /\ mgr[m].pc \notin {"idle", "down"}
  /\ mgr' = [mgr EXCEPT ![m].stalled = TRUE]
  /\ UNCHANGED <<job, clock, row, succeeded>>

Crash(m) ==
  /\ m \in Frail /\ mgr[m].pc \notin {"idle", "down"}
  /\ mgr' = [mgr EXCEPT ![m] = [IdleMgr EXCEPT !.pc = "down"]]
  /\ UNCHANGED <<job, clock, row, succeeded>>

Restart(m) ==
  /\ mgr[m].pc = "down"
  /\ mgr' = [mgr EXCEPT ![m] = IdleMgr]
  /\ UNCHANGED <<job, clock, row, succeeded>>

-----------------------------------------------------------------------------
ManagerStep(m) ==
  \/ Now(m) \/ MarkStale(m) \/ Plan(m) \/ TryClaim(m) \/ TickDone(m)
  \/ Heartbeat(m) \/ HandlerReturns(m) \/ Finish(m)

Next ==
  \/ Clock
  \/ \E m \in Managers : ManagerStep(m) \/ Stall(m) \/ Crash(m) \/ Restart(m)

Spec == Init /\ [][Next]_vars

(* Time passes, however often the instances tick; tickers fire, statements and
   handlers end.  Nothing restarts a crashed instance. *)
Fairness ==
  /\ <>(clock = MaxTime)
  /\ \A m \in Managers : WF_vars(ManagerStep(m)) /\ WF_vars(HandlerReturns(m))
FairSpec == Spec /\ Fairness

-----------------------------------------------------------------------------
(* Properties *)

MgrStates == [pc : {"idle", "tick", "plan", "loop", "run", "finish", "down"},
              now : Nat, todo : SUBSET Due, plan : Due \cup {None},
              token : Nat, start : Nat, beat : Nat \cup {None}, ok : BOOLEAN, stalled : BOOLEAN]

(* Every variable stays in its set. *)
TypeOK ==
  /\ job \in Jobs
  /\ clock \in Nat
  /\ row \in [Due -> Rows \cup {None}]
  /\ mgr \in [Managers -> MgrStates]
  /\ succeeded \subseteq Due \X Nat

(* A row says SUCCESS only if the handler of the very attempt it shows succeeded:
   a runner that lost its lease never closes the attempt of another. *)
HonestSuccess ==
  \A p \in Due : row[p] # None /\ row[p].status = "SUCCESS"
                   => <<p, row[p].attempt>> \in succeeded

(* A closed row is never written again but by a claim that starts the next attempt
   of a failed one, within max_attempts: no late heartbeat, terminal write or
   sweep touches it. *)
ClosedUntilClaimed ==
  [][\A p \in Due : row[p] # None /\ row[p].status # "RUNNING" /\ row'[p] # row[p]
       => /\ row[p].status = "FAILED" /\ row'[p].status = "RUNNING"
          /\ row'[p].attempt = row[p].attempt + 1 /\ row[p].attempt < job.attempts]_vars

(* What the sweep closes and a steal takes is abandoned: a runner that works in time
   keeps its lease, although the lease counts from the start of the tick.  This
   holds up to a sample (MaxPlansPerTick - 1) * RunTimeout + MaxTickAge old that
   leaves a HeartbeatInterval of StaleTimeout. *)
LeaseKept ==
  \A m \in Managers :
    LET r == row[mgr[m].plan] IN
    mgr[m].pc = "run" /\ ~mgr[m].stalled => r.status = "RUNNING" /\ r.token = mgr[m].token

(* every_plan catches up oldest first: once the scope has a history, a plan is first
   claimed only when every plan since, as far as the catch-up window reaches, is
   stored: concurrent ticks leave no hole. *)
OldestFirst ==
  [][\A p, q \in Due :
       /\ job.mode = "every_plan" /\ row[p] = None /\ row'[p] # None
       /\ \E o \in job.stored : o < q
       /\ q < p /\ q + CatchUpWindow >= clock
       => row[q] # None]_vars

Resolved(p) ==
  \/ row[p] # None /\ row[p].status = "SUCCESS"
  \/ row[p] # None /\ row[p].status = "FAILED" /\ row[p].attempt >= job.attempts
  \/ job.mode = "every_plan" /\ p + CatchUpWindow < clock
(* what the bounded clock never reaches *)
BeyondBound(p) ==
  row[p] # None /\ \/ row[p].status = "RUNNING" /\ row[p].stale >= MaxTime
                   \/ row[p].retry # None /\ row[p].retry > MaxTime

(* The newest plan, once claimed, ends in SUCCESS or uses up its attempts, although
   the instances that claim it crash: sweep, retry and planner together find it. *)
NewestIsResolved ==
  \A p \in Newest(Due) : row[p] # None ~> Resolved(p) \/ BeyondBound(p)

Swept(p) ==
  /\ row[p] # None /\ row[p].status = "FAILED"
  /\ row[p].attempt < job.attempts /\ row[p].retry = None

(* "AllowStaleReentry=true + attempts < MaxAttempts lets the next tick steal the
   lease and re-enter dispatch": a plan whose runner crashed, once swept, is
   claimed again. *)
CrashedIsReentered == \A p \in Due : Swept(p) ~> ~Swept(p)
=============================================================================
