------------------------ MODULE CronSchedulerProofs ------------------------
(***************************************************************************)
(* Proofs about the rows of sys_cron_executions, for any number of         *)
(* managers, plans and jobs and whatever the timing: who may close a row,  *)
(* and what happens to it then.                                            *)
(***************************************************************************)
EXTENDS CronScheduler, FiniteSetTheorems, TLAPS

(* A manager that runs or closes an attempt holds the token of some attempt its
   plan has reached. *)
LeaseIn(g, rows) ==
  g.pc \in {"run", "finish"} =>
    /\ g.plan \in Due /\ rows[g.plan] # None
    /\ g.token >= 1 /\ g.token <= rows[g.plan].attempt
EarnedIn(g, done) == g.pc = "finish" /\ g.ok => <<g.plan, g.token>> \in done
RowIn(p, r, done) ==
  r # None => /\ r.attempt >= 1 /\ r.token = r.attempt
              /\ r.status = "SUCCESS" => <<p, r.attempt>> \in done

CronInv ==
  /\ TypeOK
  /\ \A m \in Managers : LeaseIn(mgr[m], row) /\ EarnedIn(mgr[m], succeeded)
  /\ \A p \in Due : RowIn(p, row[p], succeeded)

(* Rows are never deleted and attempts never go back. *)
Advances(p) == row[p] # None => row'[p] # None /\ row[p].attempt <= row'[p].attempt

LEMMA IdleType ==
  ASSUME SchedulerAssumption
  PROVE  IdleMgr \in MgrStates /\ IdleMgr.pc = "idle"
  BY DEF IdleMgr, MgrStates

LEMMA InitInv == SchedulerAssumption /\ Init => CronInv
<1> SUFFICES ASSUME SchedulerAssumption, Init PROVE CronInv
  OBVIOUS
<1>1. job \in JobSpecs /\ job.stored \subseteq Due
  BY DEF Init, SchedulerAssumption, JobSpecs
<1> DEFINE first == [status |-> "SUCCESS", attempt |-> 1, token |-> 1,
                     stale |-> 0, retry |-> None]
<1>2. first \in Rows
  BY DEF Rows
<1>3. \A p \in Due : row[p] = IF p \in job.stored THEN first ELSE None
  BY DEF Init
<1>4. \A p \in Due : RowIn(p, row[p], succeeded)
  BY <1>1, <1>3 DEF RowIn, Init
<1>5. row \in [Due -> Rows \cup {None}]
  BY <1>2 DEF Init
<1>6. \A m \in Managers : mgr[m] = IdleMgr
  BY DEF Init
<1>7. \A m \in Managers : LeaseIn(mgr[m], row) /\ EarnedIn(mgr[m], succeeded)
  BY <1>6, IdleType DEF LeaseIn, EarnedIn
<1>8. mgr \in [Managers -> MgrStates]
  BY IdleType DEF Init
<1>9. succeeded \subseteq Due \X Nat
  BY <1>1 DEF Init
<1> QED BY <1>4, <1>5, <1>7, <1>8, <1>9 DEF CronInv, TypeOK, Init

(* What every step of one manager has to show. *)
LEMMA ManagerFrame ==
  ASSUME SchedulerAssumption, CronInv, NEW m \in Managers, NEW g \in MgrStates,
         mgr' = [mgr EXCEPT ![m] = g], UNCHANGED <<job, clock>>,
         row' \in [Due -> Rows \cup {None}], \A p \in Due : Advances(p),
         succeeded \subseteq succeeded', succeeded' \subseteq Due \X Nat,
         \A p \in Due : RowIn(p, row'[p], succeeded'),
         LeaseIn(g, row'), EarnedIn(g, succeeded')
  PROVE  CronInv'
<1>1. mgr \in [Managers -> MgrStates] /\ row \in [Due -> Rows \cup {None}]
  BY DEF CronInv, TypeOK
<1>2. TypeOK'
  BY <1>1 DEF CronInv, TypeOK
<1>3. ASSUME NEW n \in Managers PROVE LeaseIn(mgr'[n], row') /\ EarnedIn(mgr'[n], succeeded')
  <2>1. CASE n = m
    BY <1>1, <2>1
  <2>2. CASE n # m
    <3>1. mgr'[n] = mgr[n] /\ mgr[n] \in MgrStates
      BY <1>1, <2>2
    <3>2. LeaseIn(mgr[n], row) /\ EarnedIn(mgr[n], succeeded)
      BY DEF CronInv
    <3>3. EarnedIn(mgr'[n], succeeded')
      BY <3>1, <3>2 DEF EarnedIn
    <3>4. ASSUME mgr[n].pc \in {"run", "finish"}
          PROVE /\ mgr[n].plan \in Due /\ row'[mgr[n].plan] # None
                /\ mgr[n].token >= 1 /\ mgr[n].token <= row'[mgr[n].plan].attempt
      <4> DEFINE p == mgr[n].plan
      <4>1. p \in Due /\ row[p] # None /\ mgr[n].token >= 1 /\ mgr[n].token <= row[p].attempt
        BY <3>2, <3>4 DEF LeaseIn
      <4>2. row'[p] # None /\ row[p].attempt <= row'[p].attempt
        BY <4>1 DEF Advances
      <4>3. row[p] \in Rows /\ row'[p] \in Rows
        BY <1>1, <4>1, <4>2
      <4>4. row[p].attempt \in Nat /\ row'[p].attempt \in Nat /\ mgr[n].token \in Nat
        BY <3>1, <4>3 DEF Rows, MgrStates
      <4>5. mgr[n].token <= row'[p].attempt
        BY <4>1, <4>2, <4>4
      <4> QED BY <4>1, <4>2, <4>5
    <3>5. LeaseIn(mgr'[n], row')
      BY <3>1, <3>4 DEF LeaseIn
    <3> QED BY <3>3, <3>5
  <2> QED BY <2>1, <2>2
<1> QED BY <1>2, <1>3 DEF CronInv

(* The steps that change no row. *)
LEMMA QuietFrame ==
  ASSUME SchedulerAssumption, CronInv, NEW m \in Managers, NEW g \in MgrStates,
         mgr' = [mgr EXCEPT ![m] = g], UNCHANGED <<job, clock, row, succeeded>>,
         LeaseIn(g, row), EarnedIn(g, succeeded)
  PROVE  CronInv'
<1>1. row' \in [Due -> Rows \cup {None}] /\ succeeded' \subseteq Due \X Nat
  BY DEF CronInv, TypeOK
<1>2. \A p \in Due : RowIn(p, row'[p], succeeded')
  BY DEF CronInv
<1>3. ASSUME NEW p \in Due PROVE Advances(p)
  <2>1. row[p] # None => row[p].attempt \in Nat
    BY <1>1 DEF Rows
  <2> QED BY <2>1 DEF Advances
<1> QED BY <1>1, <1>2, <1>3, ManagerFrame

LEMMA PlansAreDue ==
  ASSUME SchedulerAssumption, TypeOK, NEW now \in Nat
  PROVE  PlansForTick(now) \subseteq Due
<1>1. job.mode \in {"latest_only", "every_plan", "hook"}
  BY DEF TypeOK, SchedulerAssumption, JobSpecs
<1>2. \A S \in SUBSET Due, n \in Nat : Newest(S) \subseteq S /\ First(S, n) \subseteq S
  BY DEF Newest, First
<1> DEFINE due == {p \in Due : p <= now}
           stored == {p \in Due : row[p] # None}
           again == {p \in Newest(stored) : RetryEligible(row[p], now)}
           newer == {p \in due : \A s \in stored : s < p}
<1>3. due \subseteq Due /\ stored \subseteq Due /\ newer \subseteq Due
  OBVIOUS
<1>4. again \subseteq Due /\ Newest(due) \subseteq Due /\ Newest(newer) \subseteq Due
  BY <1>2, <1>3
<1> DEFINE window == {p \in IF stored = {} THEN Newest(due) ELSE again \cup newer :
                        InWindow(p, now)}
<1>5. window \subseteq Due
  BY <1>3, <1>4
<1>6. First(window, MaxPlansPerTick) \subseteq Due
  BY <1>2, <1>5 DEF SchedulerAssumption
<1>7. CASE job.mode = "latest_only"
  BY <1>4, <1>7 DEF PlansForTick
<1>8. CASE job.mode = "every_plan"
  BY <1>6, <1>8 DEF PlansForTick
<1>9. CASE job.mode = "hook"
  <2> DEFINE hook == IF again # {} THEN again
                     ELSE {p \in Newest(newer) : p + MaxLateness >= now}
  <2>1. hook \subseteq Due
    BY <1>4
  <2>2. PlansForTick(now) = hook
    BY <1>9 DEF PlansForTick
  <2> QED BY <2>1, <2>2
<1> QED BY <1>1, <1>7, <1>8, <1>9

LEMMA BookkeepingStep ==
  ASSUME SchedulerAssumption, CronInv, NEW m \in Managers,
         Now(m) \/ Plan(m) \/ TickDone(m) \/ Stall(m) \/ Crash(m) \/ Restart(m)
  PROVE  CronInv'
<1>1. /\ mgr[m] \in MgrStates /\ clock \in Nat
      /\ LeaseIn(mgr[m], row) /\ EarnedIn(mgr[m], succeeded)
  BY DEF CronInv, TypeOK
<1>2. CASE Now(m)
  <2> DEFINE g == [IdleMgr EXCEPT !.pc = "tick", !.now = clock]
  <2>1. g \in MgrStates /\ g.pc = "tick"
    BY <1>1, IdleType DEF MgrStates
  <2>2. mgr' = [mgr EXCEPT ![m] = g] /\ UNCHANGED <<job, clock, row, succeeded>>
    BY <1>2 DEF Now
  <2> HIDE DEF g
  <2>3. LeaseIn(g, row) /\ EarnedIn(g, succeeded)
    BY <2>1 DEF LeaseIn, EarnedIn
  <2> QED BY <2>1, <2>2, <2>3, QuietFrame
<1>3. CASE Plan(m)
  <2> DEFINE g == [mgr[m] EXCEPT !.pc = "loop", !.todo = PlansForTick(mgr[m].now)]
  <2>1. PlansForTick(mgr[m].now) \subseteq Due
    BY <1>1, PlansAreDue DEF CronInv, MgrStates
  <2>2. g \in MgrStates /\ g.pc = "loop"
    BY <1>1, <2>1 DEF MgrStates
  <2>3. mgr' = [mgr EXCEPT ![m] = g] /\ UNCHANGED <<job, clock, row, succeeded>>
    BY <1>3 DEF Plan
  <2> HIDE DEF g
  <2>4. LeaseIn(g, row) /\ EarnedIn(g, succeeded)
    BY <2>2 DEF LeaseIn, EarnedIn
  <2> QED BY <2>2, <2>3, <2>4, QuietFrame
<1>4. CASE TickDone(m) \/ Restart(m)
  <2>1. mgr' = [mgr EXCEPT ![m] = IdleMgr] /\ UNCHANGED <<job, clock, row, succeeded>>
    BY <1>4 DEF TickDone, Restart
  <2>2. LeaseIn(IdleMgr, row) /\ EarnedIn(IdleMgr, succeeded)
    BY IdleType DEF LeaseIn, EarnedIn
  <2> QED BY <2>1, <2>2, IdleType, QuietFrame
<1>5. CASE Stall(m)
  <2> DEFINE g == [mgr[m] EXCEPT !.stalled = TRUE]
  <2>1. /\ g \in MgrStates /\ g.pc = mgr[m].pc /\ g.plan = mgr[m].plan
        /\ g.token = mgr[m].token /\ g.ok = mgr[m].ok
    BY <1>1 DEF MgrStates
  <2>2. mgr' = [mgr EXCEPT ![m] = g] /\ UNCHANGED <<job, clock, row, succeeded>>
    BY <1>1, <1>5 DEF Stall, MgrStates
  <2> HIDE DEF g
  <2>3. LeaseIn(g, row) /\ EarnedIn(g, succeeded)
    BY <1>1, <2>1 DEF LeaseIn, EarnedIn
  <2> QED BY <2>1, <2>2, <2>3, QuietFrame
<1>6. CASE Crash(m)
  <2> DEFINE g == [IdleMgr EXCEPT !.pc = "down"]
  <2>1. g \in MgrStates /\ g.pc = "down"
    BY IdleType DEF MgrStates
  <2>2. mgr' = [mgr EXCEPT ![m] = g] /\ UNCHANGED <<job, clock, row, succeeded>>
    BY <1>6 DEF Crash
  <2> HIDE DEF g
  <2>3. LeaseIn(g, row) /\ EarnedIn(g, succeeded)
    BY <2>1 DEF LeaseIn, EarnedIn
  <2> QED BY <2>1, <2>2, <2>3, QuietFrame
<1> QED BY <1>2, <1>3, <1>4, <1>5, <1>6

(* One row is written, and its attempt does not go back. *)
LEMMA OneRow ==
  ASSUME CronInv, NEW p \in Due, NEW r \in Rows, None \notin Rows,
         row' = [row EXCEPT ![p] = r], row[p] # None => row[p].attempt <= r.attempt,
         RowIn(p, r, succeeded), succeeded' = succeeded
  PROVE  /\ row' \in [Due -> Rows \cup {None}]
         /\ \A q \in Due : Advances(q) /\ RowIn(q, row'[q], succeeded')
         /\ row'[p] = r
<1>1. row \in [Due -> Rows \cup {None}]
  BY DEF CronInv, TypeOK
<1>2. \A q \in Due : row'[q] = IF q = p THEN r ELSE row[q]
  BY <1>1
<1>3. r # None
  OBVIOUS
<1>4. ASSUME NEW q \in Due PROVE RowIn(q, row'[q], succeeded')
  BY <1>2 DEF CronInv
<1>5. ASSUME NEW q \in Due PROVE Advances(q)
  <2>1. CASE q = p
    BY <1>2, <1>3, <2>1 DEF Advances
  <2>2. CASE q # p
    <3>1. row'[q] = row[q] /\ (row[q] # None => row[q].attempt \in Nat)
      BY <1>1, <1>2, <2>2 DEF Rows
    <3> QED BY <3>1 DEF Advances
  <2> QED BY <2>1, <2>2
<1> QED BY <1>1, <1>2, <1>4, <1>5

LEMMA MarkStaleStep ==
  ASSUME SchedulerAssumption, CronInv, NEW m \in Managers, MarkStale(m)
  PROVE  CronInv'
<1>1. mgr[m] \in MgrStates /\ row \in [Due -> Rows \cup {None}] /\ succeeded \subseteq Due \X Nat
  BY DEF CronInv, TypeOK
<1> DEFINE g == [mgr[m] EXCEPT !.pc = "plan"]
           swept(p) == [row[p] EXCEPT !.status = "FAILED"]
<1>2. g \in MgrStates /\ g.pc = "plan"
  BY <1>1 DEF MgrStates
<1>3. mgr' = [mgr EXCEPT ![m] = g] /\ UNCHANGED <<job, clock, succeeded>>
  BY <1>1 DEF MarkStale, MgrStates
<1>4. row' = [p \in Due |-> IF Abandoned(p, mgr[m].now) THEN swept(p) ELSE row[p]]
  BY DEF MarkStale
<1>5. ASSUME NEW p \in Due, row[p] # None
      PROVE  /\ row[p] \in Rows /\ row[p].attempt \in Nat /\ swept(p) \in Rows
             /\ swept(p).attempt = row[p].attempt /\ swept(p).token = row[p].token
             /\ swept(p).status = "FAILED"
  BY <1>1, <1>5 DEF Rows
<1>6. None \notin Rows
  BY DEF SchedulerAssumption
<1>7. \A p \in Due : Abandoned(p, mgr[m].now) => row[p] # None
  BY DEF Abandoned
<1>8. ASSUME NEW p \in Due
      PROVE  row'[p] \in Rows \cup {None} /\ Advances(p) /\ RowIn(p, row'[p], succeeded')
  <2>1. RowIn(p, row[p], succeeded)
    BY DEF CronInv
  <2>2. CASE Abandoned(p, mgr[m].now)
    <3>1. row[p] # None
      BY <1>7, <2>2
    <3>2. row'[p] = swept(p)
      BY <1>4, <2>2
    <3> HIDE DEF swept
    <3>3. row'[p] \in Rows /\ row'[p] # None
      BY <1>5, <1>6, <3>1, <3>2
    <3>4. Advances(p)
      BY <1>5, <3>1, <3>2, <3>3 DEF Advances
    <3>5. RowIn(p, row'[p], succeeded')
      BY <1>5, <2>1, <3>1, <3>2 DEF RowIn
    <3> QED BY <3>3, <3>4, <3>5
  <2>3. CASE ~Abandoned(p, mgr[m].now)
    <3>1. row'[p] = row[p]
      BY <1>4, <2>3
    <3>2. row[p] # None => row[p].attempt \in Nat
      BY <1>5
    <3> HIDE DEF swept
    <3>3. Advances(p)
      BY <3>1, <3>2 DEF Advances
    <3> QED BY <1>1, <1>3, <2>1, <3>1, <3>3
  <2> QED BY <2>2, <2>3
<1>9. row' \in [Due -> Rows \cup {None}]
  BY <1>4, <1>8
<1> HIDE DEF g, swept
<1>10. LeaseIn(g, row') /\ EarnedIn(g, succeeded')
  BY <1>2 DEF LeaseIn, EarnedIn
<1>11. succeeded \subseteq succeeded' /\ succeeded' \subseteq Due \X Nat
  BY <1>1, <1>3
<1> QED BY <1>2, <1>3, <1>8, <1>9, <1>10, <1>11, ManagerFrame

LEMMA TryClaimStep ==
  ASSUME SchedulerAssumption, CronInv, NEW m \in Managers, TryClaim(m)
  PROVE  CronInv'
<1>1. /\ mgr[m] \in MgrStates /\ row \in [Due -> Rows \cup {None}]
      /\ succeeded \subseteq Due \X Nat /\ clock \in Nat
  BY DEF CronInv, TypeOK
<1>2. mgr[m].todo \subseteq Due /\ mgr[m].now \in Nat
  BY <1>1 DEF MgrStates
<1>3. PICK p \in Oldest(mgr[m].todo) :
        LET rest == [mgr[m] EXCEPT !.todo = mgr[m].todo \ {p}]
            lease == NewLease(p, mgr[m].now) IN
        IF row[p] = None \/ Claimable(p, mgr[m].now)
        THEN /\ row' = [row EXCEPT ![p] = lease]
             /\ mgr' = [mgr EXCEPT ![m] = [rest EXCEPT !.pc = "run", !.plan = p,
                            !.token = lease.token, !.start = clock, !.beat = clock]]
        ELSE /\ mgr' = [mgr EXCEPT ![m] = rest]
             /\ row' = row
  BY DEF TryClaim
<1>4. p \in Due
  BY <1>2 DEF Oldest
<1>5. UNCHANGED <<job, clock, succeeded>> /\ mgr[m].pc = "loop"
  BY DEF TryClaim
<1> DEFINE rest == [mgr[m] EXCEPT !.todo = mgr[m].todo \ {p}]
           lease == NewLease(p, mgr[m].now)
           g == [rest EXCEPT !.pc = "run", !.plan = p, !.token = lease.token,
                             !.start = clock, !.beat = clock]
<1>6. None \notin Rows /\ StaleTimeout \in Nat
  BY DEF SchedulerAssumption
<1>7. CASE row[p] = None \/ Claimable(p, mgr[m].now)
  <2>1. row[p] # None => row[p].attempt \in Nat
    BY <1>1, <1>4 DEF Rows
  <2>2. /\ lease \in Rows /\ lease.status = "RUNNING" /\ lease.attempt >= 1
        /\ lease.token = lease.attempt /\ lease.attempt \in Nat
        /\ row[p] # None => row[p].attempt <= lease.attempt
    <3>1. ASSUME NEW n \in Nat, n >= 1
          PROVE  /\ Leased(n, mgr[m].now) \in Rows
                 /\ Leased(n, mgr[m].now).status = "RUNNING"
                 /\ Leased(n, mgr[m].now).attempt = n
                 /\ Leased(n, mgr[m].now).token = n
      BY <1>2, <1>6, <3>1 DEF Leased, Rows
    <3>2. CASE row[p] = None
      <4>1. lease = Leased(1, mgr[m].now)
        BY <3>2 DEF NewLease
      <4> HIDE DEF lease
      <4> QED BY <3>1, <3>2, <4>1
    <3>3. CASE row[p] # None
      <4>1. lease = Leased(row[p].attempt + 1, mgr[m].now)
        BY <3>3 DEF NewLease
      <4> HIDE DEF lease
      <4> QED BY <2>1, <3>1, <3>3, <4>1
    <3> QED BY <3>2, <3>3
  <2>3. row' = [row EXCEPT ![p] = lease] /\ mgr' = [mgr EXCEPT ![m] = g]
    BY <1>3, <1>7
  <2> HIDE DEF lease
  <2>4. RowIn(p, lease, succeeded)
    BY <2>2 DEF RowIn
  <2>5. /\ row' \in [Due -> Rows \cup {None}] /\ row'[p] = lease
        /\ \A q \in Due : Advances(q) /\ RowIn(q, row'[q], succeeded')
    BY <1>4, <1>5, <1>6, <2>2, <2>3, <2>4, OneRow
  <2>6. /\ g \in MgrStates /\ g.pc = "run" /\ g.plan = p
        /\ g.token = lease.attempt
    BY <1>1, <1>4, <2>2 DEF MgrStates
  <2> HIDE DEF g
  <2>7. lease # None
    BY <1>6, <2>2
  <2>8. LeaseIn(g, row') /\ EarnedIn(g, succeeded')
    BY <1>4, <2>2, <2>5, <2>6, <2>7 DEF LeaseIn, EarnedIn
  <2> QED BY <1>1, <1>5, <2>3, <2>5, <2>6, <2>8, ManagerFrame
<1>8. CASE ~(row[p] = None \/ Claimable(p, mgr[m].now))
  <2>1. mgr' = [mgr EXCEPT ![m] = rest] /\ row' = row
    BY <1>3, <1>8
  <2>2. rest \in MgrStates /\ rest.pc = "loop"
    BY <1>1, <1>5 DEF MgrStates
  <2> HIDE DEF rest
  <2>3. LeaseIn(rest, row) /\ EarnedIn(rest, succeeded)
    BY <2>2 DEF LeaseIn, EarnedIn
  <2> QED BY <1>5, <2>1, <2>2, <2>3, QuietFrame
<1> QED BY <1>7, <1>8

LEMMA HeartbeatStep ==
  ASSUME SchedulerAssumption, CronInv, NEW m \in Managers, Heartbeat(m)
  PROVE  CronInv'
<1>1. /\ mgr[m] \in MgrStates /\ row \in [Due -> Rows \cup {None}] /\ clock \in Nat
      /\ succeeded \subseteq Due \X Nat
      /\ LeaseIn(mgr[m], row) /\ EarnedIn(mgr[m], succeeded)
  BY DEF CronInv, TypeOK
<1> DEFINE p == mgr[m].plan
<1>2. mgr[m].pc = "run" /\ UNCHANGED <<job, clock, succeeded>>
  BY DEF Heartbeat
<1>3. /\ p \in Due /\ row[p] # None /\ row[p] \in Rows
      /\ mgr[m].token >= 1 /\ mgr[m].token <= row[p].attempt
  BY <1>1, <1>2 DEF LeaseIn
<1>4. None \notin Rows /\ StaleTimeout \in Nat
  BY DEF SchedulerAssumption
<1>5. ASSUME NEW b \in Nat \cup {None}
      PROVE  LET g == [mgr[m] EXCEPT !.beat = b] IN
             /\ g \in MgrStates /\ g.pc = "run" /\ g.plan = p /\ g.token = mgr[m].token
  BY <1>1, <1>2 DEF MgrStates
<1>6. CASE Holds(m)
  <2> DEFINE r == [row[p] EXCEPT !.stale = clock + StaleTimeout]
             g == [mgr[m] EXCEPT !.beat = clock]
  <2>1. row' = [row EXCEPT ![p] = r] /\ mgr' = [mgr EXCEPT ![m] = g]
    BY <1>1, <1>3, <1>6 DEF Heartbeat, MgrStates
  <2>2. /\ r \in Rows /\ r.attempt = row[p].attempt /\ r.token = row[p].token
        /\ r.status = row[p].status /\ row[p].attempt \in Nat
    BY <1>1, <1>3, <1>4 DEF Rows
  <2>3. g \in MgrStates /\ g.pc = "run" /\ g.plan = p /\ g.token = mgr[m].token
    BY <1>1, <1>5
  <2> HIDE DEF r, g
  <2>4. RowIn(p, row[p], succeeded)
    BY <1>3 DEF CronInv
  <2>5. RowIn(p, r, succeeded)
    BY <1>3, <2>2, <2>4 DEF RowIn
  <2>6. row[p].attempt <= r.attempt
    BY <2>2
  <2>7. /\ row' \in [Due -> Rows \cup {None}] /\ row'[p] = r
        /\ \A q \in Due : Advances(q) /\ RowIn(q, row'[q], succeeded')
    BY <1>2, <1>3, <1>4, <2>1, <2>2, <2>5, <2>6, OneRow
  <2>8. r # None
    BY <1>4, <2>2
  <2>9. LeaseIn(g, row') /\ EarnedIn(g, succeeded')
    BY <1>3, <2>2, <2>3, <2>7, <2>8 DEF LeaseIn, EarnedIn
  <2> QED BY <1>1, <1>2, <2>1, <2>3, <2>7, <2>9, ManagerFrame
<1>7. CASE ~Holds(m)
  <2> DEFINE g == [mgr[m] EXCEPT !.beat = None]
  <2>1. row' = row /\ mgr' = [mgr EXCEPT ![m] = g]
    BY <1>1, <1>7 DEF Heartbeat, MgrStates
  <2>2. g \in MgrStates /\ g.pc = "run" /\ g.plan = p /\ g.token = mgr[m].token
    BY <1>5
  <2> HIDE DEF g
  <2>3. LeaseIn(g, row) /\ EarnedIn(g, succeeded)
    BY <1>3, <2>2 DEF LeaseIn, EarnedIn
  <2> QED BY <1>2, <2>1, <2>2, <2>3, QuietFrame
<1> QED BY <1>6, <1>7

LEMMA HandlerReturnsStep ==
  ASSUME SchedulerAssumption, CronInv, NEW m \in Managers, HandlerReturns(m)
  PROVE  CronInv'
<1>1. /\ mgr[m] \in MgrStates /\ row \in [Due -> Rows \cup {None}]
      /\ succeeded \subseteq Due \X Nat /\ LeaseIn(mgr[m], row)
  BY DEF CronInv, TypeOK
<1> DEFINE p == mgr[m].plan
           pair == <<p, mgr[m].token>>
<1>2. mgr[m].pc = "run" /\ UNCHANGED <<job, clock, row>>
  BY DEF HandlerReturns
<1>3. /\ p \in Due /\ row[p] # None
      /\ mgr[m].token >= 1 /\ mgr[m].token <= row[p].attempt
  BY <1>1, <1>2 DEF LeaseIn
<1>4. PICK ok \in BOOLEAN :
        /\ mgr' = [mgr EXCEPT ![m] = [@ EXCEPT !.pc = "finish", !.ok = ok, !.start = 0,
                                               !.beat = None]]
        /\ succeeded' = IF ok THEN succeeded \cup {pair} ELSE succeeded
  BY DEF HandlerReturns
<1> DEFINE g == [mgr[m] EXCEPT !.pc = "finish", !.ok = ok, !.start = 0, !.beat = None]
<1>5. mgr' = [mgr EXCEPT ![m] = g]
  BY <1>1, <1>4 DEF MgrStates
<1>6. /\ g \in MgrStates /\ g.pc = "finish" /\ g.plan = p /\ g.token = mgr[m].token
      /\ g.ok = ok
  BY <1>1 DEF MgrStates
<1>7. pair \in Due \X Nat
  BY <1>1, <1>3 DEF MgrStates
<1>8. succeeded \subseteq succeeded' /\ succeeded' \subseteq Due \X Nat
  BY <1>1, <1>4, <1>7
<1>9. ASSUME NEW q \in Due PROVE RowIn(q, row'[q], succeeded') /\ Advances(q)
  <2>1. RowIn(q, row[q], succeeded)
    BY DEF CronInv
  <2>2. row[q] # None => row[q].attempt \in Nat
    BY <1>1 DEF Rows
  <2> HIDE DEF g
  <2>3. Advances(q)
    BY <1>2, <2>2 DEF Advances
  <2>4. RowIn(q, row'[q], succeeded')
    BY <1>2, <1>8, <2>1 DEF RowIn
  <2> QED BY <2>3, <2>4
<1>10. ok => pair \in succeeded'
  BY <1>4
<1> HIDE DEF g
<1>11. LeaseIn(g, row') /\ EarnedIn(g, succeeded')
  BY <1>2, <1>3, <1>6, <1>10 DEF LeaseIn, EarnedIn
<1> QED BY <1>1, <1>2, <1>5, <1>6, <1>8, <1>9, <1>11, ManagerFrame

(* The delay before the retry of an attempt comes from the backoff list. *)
LEMMA RetryDelayType ==
  ASSUME SchedulerAssumption, TypeOK, NEW attempt \in Nat, attempt >= 1
  PROVE  RetryDelay(attempt) \in Nat
<1>1. job.backoff \in Seq(Nat)
  BY DEF TypeOK, SchedulerAssumption, JobSpecs
<1>2. Len(job.backoff) \in Nat /\ \A i \in 1 .. Len(job.backoff) : job.backoff[i] \in Nat
  BY <1>1
<1>3. CASE Len(job.backoff) = 0
  BY <1>3 DEF RetryDelay
<1>4. CASE Len(job.backoff) # 0
  <2> DEFINE i == IF attempt <= Len(job.backoff) THEN attempt ELSE Len(job.backoff)
  <2>1. i \in 1 .. Len(job.backoff)
    BY <1>2, <1>4
  <2>2. RetryDelay(attempt) = job.backoff[i]
    BY <1>4 DEF RetryDelay
  <2> QED BY <1>2, <2>1, <2>2
<1> QED BY <1>3, <1>4

LEMMA ClosedRow ==
  ASSUME SchedulerAssumption, TypeOK, NEW r \in Rows, r.attempt >= 1, NEW ok \in BOOLEAN
  PROVE  /\ Closed(r, ok) \in Rows
         /\ Closed(r, ok).attempt = r.attempt /\ Closed(r, ok).token = r.token
         /\ Closed(r, ok).status = IF ok THEN "SUCCESS" ELSE "FAILED"
<1>1. CASE ok
  BY <1>1 DEF Closed, Rows
<1>2. CASE ~ok
  <2> DEFINE retry == IF r.attempt < job.attempts THEN clock + RetryDelay(r.attempt) ELSE None
             c == [r EXCEPT !.status = "FAILED", !.retry = retry]
  <2>1. r.attempt \in Nat
    BY DEF Rows
  <2>2. retry \in Nat \cup {None}
    BY <2>1, RetryDelayType DEF TypeOK
  <2>3. Closed(r, ok) = c
    BY <1>2 DEF Closed
  <2> HIDE DEF retry
  <2>4. c \in Rows /\ c.attempt = r.attempt /\ c.token = r.token /\ c.status = "FAILED"
    BY <2>2 DEF Rows
  <2> HIDE DEF c
  <2> QED BY <1>2, <2>3, <2>4
<1> QED BY <1>1, <1>2

LEMMA FinishStep ==
  ASSUME SchedulerAssumption, CronInv, NEW m \in Managers, Finish(m)
  PROVE  CronInv'
<1>1. /\ mgr[m] \in MgrStates /\ row \in [Due -> Rows \cup {None}]
      /\ succeeded \subseteq Due \X Nat /\ TypeOK
      /\ LeaseIn(mgr[m], row) /\ EarnedIn(mgr[m], succeeded)
  BY DEF CronInv, TypeOK
<1> DEFINE p == mgr[m].plan
           g == NextPlan(mgr[m])
<1>2. /\ mgr[m].pc = "finish" /\ UNCHANGED <<job, clock, succeeded>>
      /\ mgr' = [mgr EXCEPT ![m] = g]
      /\ \/ row' = row
         \/ Holds(m) /\ row' = [row EXCEPT ![p] = Closed(@, mgr[m].ok)]
  BY DEF Finish
<1>3. p \in Due /\ row[p] # None
  BY <1>1, <1>2 DEF LeaseIn
<1>4. g \in MgrStates /\ g.pc = "loop"
  BY <1>1 DEF NextPlan, MgrStates
<1> HIDE DEF g
<1>5. \A rows, done : LeaseIn(g, rows) /\ EarnedIn(g, done)
  BY <1>4 DEF LeaseIn, EarnedIn
<1>6. CASE row' = row
  BY <1>2, <1>4, <1>5, <1>6, QuietFrame
<1>7. CASE Holds(m) /\ row' = [row EXCEPT ![p] = Closed(@, mgr[m].ok)]
  <2>1. /\ row[p] \in Rows /\ row[p].attempt \in Nat /\ mgr[m].ok \in BOOLEAN
    BY <1>1, <1>3 DEF Rows, MgrStates
  <2>2. RowIn(p, row[p], succeeded)
    BY <1>3 DEF CronInv
  <2>3. row[p].attempt >= 1 /\ row[p].token = row[p].attempt
    BY <1>3, <2>2 DEF RowIn
  <2> DEFINE r == Closed(row[p], mgr[m].ok)
  <2>4. /\ r \in Rows /\ r.attempt = row[p].attempt /\ r.token = row[p].token
        /\ r.status = IF mgr[m].ok THEN "SUCCESS" ELSE "FAILED"
    BY <1>1, <2>1, <2>3, ClosedRow
  <2>5. row' = [row EXCEPT ![p] = r]
    BY <1>3, <1>7, <1>1
  <2> HIDE DEF r
  <2>6. mgr[m].token = row[p].attempt
    BY <1>7, <2>3 DEF Holds
  <2>7. r.status = "SUCCESS" => <<p, r.attempt>> \in succeeded
    BY <1>1, <1>2, <2>4, <2>6 DEF EarnedIn
  <2>8. RowIn(p, r, succeeded)
    BY <2>3, <2>4, <2>7 DEF RowIn
  <2>9. None \notin Rows
    BY DEF SchedulerAssumption
  <2>10. row[p].attempt <= r.attempt
    BY <2>1, <2>4
  <2>11. /\ row' \in [Due -> Rows \cup {None}]
         /\ \A q \in Due : Advances(q) /\ RowIn(q, row'[q], succeeded')
    BY <1>2, <1>3, <2>4, <2>5, <2>8, <2>9, <2>10, OneRow
  <2> QED BY <1>1, <1>2, <1>4, <1>5, <2>11, ManagerFrame
<1> QED BY <1>2, <1>6, <1>7

LEMMA ClockStep ==
  ASSUME CronInv, clock' \in Nat, UNCHANGED <<job, row, mgr, succeeded>>
  PROVE  CronInv'
  BY DEF CronInv, TypeOK

LEMMA StepInv == SchedulerAssumption /\ CronInv /\ [Next]_vars => CronInv'
<1> SUFFICES ASSUME SchedulerAssumption, CronInv, [Next]_vars PROVE CronInv'
  OBVIOUS
<1>1. clock \in Nat
  BY DEF CronInv, TypeOK
<1>2. CASE UNCHANGED vars
  BY <1>1, <1>2, ClockStep DEF vars
<1>3. CASE Clock
  BY <1>1, <1>3, ClockStep DEF Clock
<1>4. ASSUME NEW m \in Managers, ManagerStep(m) \/ Stall(m) \/ Crash(m) \/ Restart(m)
      PROVE  CronInv'
  BY <1>4, BookkeepingStep, MarkStaleStep, TryClaimStep, HeartbeatStep, HandlerReturnsStep,
     FinishStep DEF ManagerStep
<1> QED BY <1>2, <1>3, <1>4 DEF Next

LEMMA Invariance == Spec => []CronInv
<1>1. Init => CronInv
  BY InitInv, SchedulerAssumption
<1>2. CronInv /\ [Next]_vars => CronInv'
  BY StepInv, SchedulerAssumption
<1> QED BY <1>1, <1>2, PTL DEF Spec

(* The rows, the managers and the history keep their sets: every retry time, lease
   and plan list the code computes is one. *)
THEOREM TypeCorrect == Spec => []TypeOK
<1>1. CronInv => TypeOK
  BY DEF CronInv
<1> QED BY <1>1, Invariance, PTL

(* Whatever stalls, crashes, steals and late writes do, a row that says SUCCESS
   shows an attempt whose handler returned success: the lease_token guard of
   finishSuccess is enough. *)
THEOREM OnlyEarnedSuccess == Spec => []HonestSuccess
<1>1. CronInv => HonestSuccess
  BY DEF CronInv, RowIn, HonestSuccess
<1> QED BY <1>1, Invariance, PTL

ClosedStep ==
  \A p \in Due : row[p] # None /\ row[p].status # "RUNNING" /\ row'[p] # row[p]
    => /\ row[p].status = "FAILED" /\ row'[p].status = "RUNNING"
       /\ row'[p].attempt = row[p].attempt + 1 /\ row[p].attempt < job.attempts

LEMMA ManagerClosedStep ==
  ASSUME CronInv, NEW m \in Managers, ManagerStep(m)
  PROVE  ClosedStep
<1> SUFFICES ASSUME NEW p \in Due, row[p] # None, row[p].status # "RUNNING", row'[p] # row[p]
             PROVE  /\ row[p].status = "FAILED" /\ row'[p].status = "RUNNING"
                    /\ row'[p].attempt = row[p].attempt + 1
                    /\ row[p].attempt < job.attempts
  BY DEF ClosedStep
<1>1. row \in [Due -> Rows \cup {None}] /\ LeaseIn(mgr[m], row)
  BY DEF CronInv, TypeOK
<1>2. CASE Now(m) \/ Plan(m) \/ TickDone(m) \/ HandlerReturns(m)
  BY <1>2 DEF Now, Plan, TickDone, HandlerReturns
<1>3. CASE MarkStale(m)
  BY <1>3 DEF MarkStale, Abandoned
<1>4. CASE Heartbeat(m)
  <2>1. row'[p] = row[p] \/ (Holds(m) /\ p = mgr[m].plan)
    BY <1>1, <1>4 DEF Heartbeat
  <2> QED BY <2>1 DEF Holds
<1>5. CASE Finish(m)
  <2>1. row'[p] = row[p] \/ (Holds(m) /\ p = mgr[m].plan)
    BY <1>1, <1>5 DEF Finish
  <2> QED BY <2>1 DEF Holds
<1>6. CASE TryClaim(m)
  <2>1. PICK q \in Oldest(mgr[m].todo) :
          IF row[q] = None \/ Claimable(q, mgr[m].now)
          THEN row' = [row EXCEPT ![q] = NewLease(q, mgr[m].now)] ELSE row' = row
    BY <1>6 DEF TryClaim
  <2>2. p = q /\ Claimable(p, mgr[m].now) /\ row'[p] = NewLease(p, mgr[m].now)
    BY <1>1, <2>1
  <2>3. row'[p] = Leased(row[p].attempt + 1, mgr[m].now)
    BY <2>2 DEF NewLease
  <2> QED BY <2>2, <2>3 DEF Claimable, Leased
<1> QED BY <1>2, <1>3, <1>4, <1>5, <1>6 DEF ManagerStep

(* A row that was closed is opened again only by a claim of the next attempt,
   within max_attempts: no late heartbeat, terminal write or sweep reaches it. *)
THEOREM ClosedStaysClosed == Spec => ClosedUntilClaimed
<1>1. CronInv /\ [Next]_vars => [ClosedStep]_vars
  <2> SUFFICES ASSUME CronInv, Next PROVE ClosedStep
    OBVIOUS
  <2>1. CASE Clock \/ \E m \in Managers : Stall(m) \/ Crash(m) \/ Restart(m)
    BY <2>1 DEF Clock, Stall, Crash, Restart, ClosedStep
  <2>2. CASE \E m \in Managers : ManagerStep(m)
    BY <2>2, ManagerClosedStep
  <2> QED BY <2>1, <2>2 DEF Next
<1>2. Spec => [][ClosedStep]_vars
  BY <1>1, Invariance, PTL DEF Spec
<1> QED BY <1>2 DEF ClosedUntilClaimed, ClosedStep

-----------------------------------------------------------------------------
(* Leases of runners that work in time *)

(* the time that the plans of S may still take *)
Late(S) == Cardinality(S) * RunTimeout
Whole == MaxTickAge + MaxPlansPerTick * RunTimeout

(* a sample that is one plan short of the whole tick old leaves a lease for which
   the first heartbeat comes in time *)
SampleIsFresh ==
  MaxTickAge + (MaxPlansPerTick - 1) * RunTimeout + HeartbeatInterval <= StaleTimeout

(* at time t a manager that does not stall is where its sample and its list allow *)
TimeIn(g, t) ==
  /\ g.now <= t
  /\ ~g.stalled =>
       /\ g.pc \in {"tick", "plan"} => t <= g.now + MaxTickAge
       /\ g.pc \in {"loop", "finish"} => t + Late(g.todo) <= g.now + Whole
       /\ g.pc = "run" => /\ g.start + RunTimeout + Late(g.todo) <= g.now + Whole
                          /\ t <= g.start + RunTimeout
                          /\ g.beat \in Nat /\ t <= g.beat + HeartbeatInterval
(* its lease is its own and outlives the next heartbeat *)
KeptIn(g, rows) ==
  g.pc = "run" /\ ~g.stalled =>
    /\ rows[g.plan].status = "RUNNING" /\ rows[g.plan].token = g.token
    /\ g.beat + HeartbeatInterval <= rows[g.plan].stale
(* no two managers hold the same attempt *)
ApartIn(g, h) ==
  g.pc \in {"run", "finish"} /\ h.pc \in {"run", "finish"} /\ g.plan = h.plan
    => g.token # h.token
TimelyInv ==
  /\ \A m \in Managers : TimeIn(mgr[m], clock) /\ KeptIn(mgr[m], row)
  /\ \A m, n \in Managers : m # n => ApartIn(mgr[m], mgr[n])

(* The numbers that the timing is about. *)
LEMMA Bounds ==
  ASSUME SchedulerAssumption
  PROVE  /\ RunTimeout \in Nat \ {0} /\ HeartbeatInterval \in Nat \ {0}
         /\ StaleTimeout \in Nat /\ StaleTimeout > HeartbeatInterval
         /\ MaxTickAge \in Nat /\ MaxPlansPerTick \in Nat \ {0}
         /\ MaxPlansPerTick * RunTimeout \in Nat /\ Whole \in Nat
         /\ SampleIsFresh => Whole + HeartbeatInterval <= StaleTimeout + RunTimeout
<1>1. /\ RunTimeout \in Nat \ {0} /\ HeartbeatInterval \in Nat \ {0}
      /\ StaleTimeout \in Nat /\ StaleTimeout > HeartbeatInterval
      /\ MaxTickAge \in Nat /\ MaxPlansPerTick \in Nat \ {0}
  BY DEF SchedulerAssumption
<1>2. /\ MaxPlansPerTick * RunTimeout \in Nat
      /\ (MaxPlansPerTick - 1) * RunTimeout = MaxPlansPerTick * RunTimeout - RunTimeout
  BY <1>1
<1> QED BY <1>1, <1>2 DEF Whole, SampleIsFresh

LEMMA LateOf ==
  ASSUME SchedulerAssumption, NEW S \in SUBSET Due
  PROVE  /\ IsFiniteSet(S) /\ Cardinality(S) \in Nat /\ Late(S) \in Nat
         /\ Cardinality(S) <= MaxPlansPerTick => Late(S) <= MaxPlansPerTick * RunTimeout
         /\ \A p \in S : Late(S \ {p}) + RunTimeout = Late(S)
<1>1. IsFiniteSet(S) /\ Cardinality(S) \in Nat
  BY FS_Subset, FS_CardinalityType DEF SchedulerAssumption
<1>2. RunTimeout \in Nat /\ MaxPlansPerTick \in Nat
  BY Bounds
<1>3. ASSUME NEW p \in S PROVE Late(S \ {p}) + RunTimeout = Late(S)
  <2>1. Cardinality(S \ {p}) = Cardinality(S) - 1
    BY <1>1, FS_RemoveElement
  <2> QED BY <1>1, <1>2, <2>1 DEF Late
<1> QED BY <1>1, <1>2, <1>3 DEF Late

(* LIMIT n takes at most n plans. *)
LEMMA FirstIsShort ==
  ASSUME NEW S \in SUBSET Nat, IsFiniteSet(S), NEW n \in Nat
  PROVE  Cardinality(First(S, n)) <= n
<1> DEFINE below(p) == {q \in S : q < p}
           rank == [p \in First(S, n) |-> Cardinality(below(p))]
<1>1. \A p : IsFiniteSet(below(p)) /\ Cardinality(below(p)) \in Nat
  BY FS_Subset, FS_CardinalityType
<1>2. rank \in [First(S, n) -> 0 .. (n - 1)]
  BY <1>1 DEF First
<1>3. ASSUME NEW p \in First(S, n), NEW q \in First(S, n), p < q
      PROVE  rank[p] # rank[q]
  <2>1. below(p) \subseteq below(q) /\ p \in below(q) /\ p \notin below(p)
    <3>1. p \in S /\ q \in S /\ S \subseteq Nat
      BY DEF First
    <3>2. \A z \in S : z < p => z < q
      BY <1>3, <3>1
    <3>3. ~(p < p)
      BY <3>1
    <3> QED BY <1>3, <3>1, <3>2, <3>3
  <2>2. Cardinality(below(p)) # Cardinality(below(q))
    BY <1>1, <2>1, FS_Subset
  <2> QED BY <2>2
<1>4. \A p, q \in First(S, n) : rank[p] = rank[q] => p = q
  <2>1. First(S, n) \subseteq Nat
    BY DEF First
  <2> QED BY <1>3, <2>1
<1> HIDE DEF rank
<1>5. rank \in Injection(First(S, n), 0 .. (n - 1))
  BY <1>2, <1>4 DEF Injection, IsInjective
<1>6. IsFiniteSet(0 .. (n - 1)) /\ Cardinality(0 .. (n - 1)) = n
  BY FS_Interval
<1> QED BY <1>5, <1>6, FS_Injection

LEMMA NewestIsOne ==
  ASSUME NEW S \in SUBSET Nat, NEW T \in SUBSET Newest(S)
  PROVE  IsFiniteSet(T) /\ Cardinality(T) <= 1
<1>1. \A p, q \in T : p = q
  BY DEF Newest
<1>2. CASE T = {}
  BY <1>2, FS_EmptySet
<1>3. CASE T # {}
  <2>1. PICK p : T = {p}
    BY <1>1, <1>3
  <2>2. IsFiniteSet({p}) /\ Cardinality({p}) = 1
    BY FS_Singleton
  <2> QED BY <2>1, <2>2
<1> QED BY <1>2, <1>3

LEMMA PlansFit ==
  ASSUME SchedulerAssumption, TypeOK, NEW now \in Nat
  PROVE  Cardinality(PlansForTick(now)) <= MaxPlansPerTick
<1>1. /\ job.mode \in {"latest_only", "every_plan", "hook"}
      /\ Due \subseteq Nat /\ IsFiniteSet(Due)
  BY DEF TypeOK, SchedulerAssumption, JobSpecs
<1> DEFINE due == {p \in Due : p <= now}
           stored == {p \in Due : row[p] # None}
           again == {p \in Newest(stored) : RetryEligible(row[p], now)}
           newer == {p \in due : \A s \in stored : s < p}
           latest == {p \in Newest(newer) : p + MaxLateness >= now}
           window == {p \in IF stored = {} THEN Newest(due) ELSE again \cup newer :
                        InWindow(p, now)}
<1>2. MaxPlansPerTick \in Nat /\ 1 <= MaxPlansPerTick
  BY Bounds
<1>3. ASSUME NEW S \in SUBSET Nat, NEW T \in SUBSET Newest(S)
      PROVE  Cardinality(T) <= MaxPlansPerTick
  BY <1>2, <1>3, NewestIsOne, FS_CardinalityType
<1>4. due \in SUBSET Nat /\ stored \in SUBSET Nat /\ newer \in SUBSET Nat
  BY <1>1
<1>5. CASE job.mode = "latest_only"
  <2>1. PlansForTick(now) = Newest(due)
    BY <1>5 DEF PlansForTick
  <2> QED BY <1>3, <1>4, <2>1
<1>6. CASE job.mode = "every_plan"
  <2>1. window \subseteq Due
    BY DEF Newest
  <2>2. window \in SUBSET Nat /\ IsFiniteSet(window)
    BY <1>1, <2>1, FS_Subset
  <2>3. PlansForTick(now) = First(window, MaxPlansPerTick)
    BY <1>6 DEF PlansForTick
  <2> QED BY <1>2, <2>2, <2>3, FirstIsShort
<1>7. CASE job.mode = "hook"
  <2>1. PlansForTick(now) = IF again # {} THEN again ELSE latest
    BY <1>7 DEF PlansForTick
  <2>2. again \in SUBSET Newest(stored) /\ latest \in SUBSET Newest(newer)
    OBVIOUS
  <2> QED BY <1>3, <1>4, <2>1, <2>2
<1> QED BY <1>1, <1>5, <1>6, <1>7

LEMMA TimeMoves ==
  ASSUME SchedulerAssumption, CronInv, NEW m \in Managers,
         ManagerStep(m) \/ Stall(m) \/ Crash(m) \/ Restart(m), ~TryClaim(m),
         TimeIn(mgr[m], clock), KeptIn(mgr[m], row)
  PROVE  TimeIn(mgr'[m], clock)
<1>1. mgr[m] \in MgrStates /\ mgr \in [Managers -> MgrStates] /\ clock \in Nat /\ TypeOK
  BY DEF CronInv, TypeOK
<1>2. RunTimeout \in Nat /\ HeartbeatInterval \in Nat /\ MaxTickAge \in Nat /\ Whole \in Nat
  BY Bounds
<1> DEFINE g == mgr[m]
           h == mgr'[m]
<1>3. g.todo \in SUBSET Due /\ g.now \in Nat /\ g.start \in Nat /\ g.stalled \in BOOLEAN
  BY <1>1 DEF MgrStates
<1>4. Late(g.todo) \in Nat
  BY <1>3, LateOf
<1>5. CASE Now(m)
  <2>1. h.pc = "tick" /\ h.now = clock
    BY <1>1, <1>5 DEF Now, IdleMgr
  <2> QED BY <1>1, <1>2, <2>1 DEF TimeIn
<1>6. CASE MarkStale(m)
  <2>1. g.pc = "tick" /\ h.pc = "plan" /\ h.now = g.now /\ h.stalled = g.stalled
    BY <1>1, <1>6 DEF MarkStale, MgrStates
  <2> QED BY <2>1 DEF TimeIn
<1>7. CASE Plan(m)
  <2> DEFINE S == PlansForTick(g.now)
  <2>1. g.pc = "plan" /\ h.pc = "loop" /\ h.now = g.now /\ h.stalled = g.stalled
        /\ h.todo = S
    BY <1>1, <1>7 DEF Plan, MgrStates
  <2>2. S \in SUBSET Due /\ Cardinality(S) <= MaxPlansPerTick
    BY <1>1, <1>3, PlansAreDue, PlansFit
  <2> HIDE DEF S
  <2>3. Late(S) \in Nat /\ Late(S) <= MaxPlansPerTick * RunTimeout
    BY <2>2, LateOf
  <2>4. g.stalled \/ clock <= g.now + MaxTickAge
    BY <2>1 DEF TimeIn
  <2>5. MaxPlansPerTick * RunTimeout \in Nat
    BY Bounds
  <2>6. h.stalled \/ clock + Late(h.todo) <= h.now + Whole
    BY <1>1, <1>2, <1>3, <2>1, <2>3, <2>4, <2>5 DEF Whole
  <2> QED BY <2>1, <2>6 DEF TimeIn
<1>8. CASE TickDone(m) \/ Restart(m) \/ Crash(m)
  <2>1. h.pc \in {"idle", "down"} /\ h.now = 0
    BY <1>1, <1>8 DEF TickDone, Restart, Crash, IdleMgr
  <2> QED BY <1>1, <2>1 DEF TimeIn
<1>9. CASE Stall(m)
  <2>1. h.stalled /\ h.now = g.now
    BY <1>1, <1>9 DEF Stall, MgrStates
  <2> QED BY <2>1 DEF TimeIn
<1>10. CASE Heartbeat(m)
  <2>1. /\ g.pc = "run" /\ h.pc = "run" /\ h.now = g.now /\ h.stalled = g.stalled
        /\ h.start = g.start /\ h.todo = g.todo
        /\ Holds(m) => h.beat = clock
    BY <1>1, <1>10 DEF Heartbeat, MgrStates
  <2>2. g.stalled \/ Holds(m)
    BY <2>1 DEF KeptIn, Holds
  <2> QED BY <1>1, <1>2, <2>1, <2>2 DEF TimeIn
<1>11. CASE HandlerReturns(m)
  <2>1. /\ g.pc = "run" /\ h.pc = "finish" /\ h.now = g.now /\ h.stalled = g.stalled
        /\ h.todo = g.todo
    BY <1>1, <1>11 DEF HandlerReturns, MgrStates
  <2>2. g.stalled \/ clock + Late(g.todo) <= g.now + Whole
    BY <1>1, <1>2, <1>3, <1>4, <2>1 DEF TimeIn
  <2> QED BY <2>1, <2>2 DEF TimeIn
<1>12. CASE Finish(m)
  <2>1. /\ g.pc = "finish" /\ h.pc = "loop" /\ h.now = g.now /\ h.stalled = g.stalled
        /\ h.todo = g.todo
    BY <1>1, <1>12 DEF Finish, NextPlan, MgrStates
  <2> QED BY <2>1 DEF TimeIn
<1> QED BY <1>5, <1>6, <1>7, <1>8, <1>9, <1>10, <1>11, <1>12 DEF ManagerStep

(* A manager that goes on keeps what it holds: only a heartbeat touches its row, and
   puts the end of the lease farther off. *)
LEMMA KeptMoves ==
  ASSUME SchedulerAssumption, CronInv, NEW m \in Managers,
         ManagerStep(m) \/ Stall(m) \/ Crash(m) \/ Restart(m), ~TryClaim(m),
         KeptIn(mgr[m], row)
  PROVE  /\ KeptIn(mgr'[m], row')
         /\ mgr'[m].pc \in {"run", "finish"} =>
              /\ mgr[m].pc \in {"run", "finish"}
              /\ mgr'[m].plan = mgr[m].plan /\ mgr'[m].token = mgr[m].token
<1>1. /\ mgr[m] \in MgrStates /\ mgr \in [Managers -> MgrStates] /\ clock \in Nat
      /\ row \in [Due -> Rows \cup {None}] /\ LeaseIn(mgr[m], row)
  BY DEF CronInv, TypeOK
<1> DEFINE g == mgr[m]
           h == mgr'[m]
<1>2. CASE Now(m) \/ MarkStale(m) \/ Plan(m) \/ TickDone(m) \/ Restart(m) \/ Crash(m)
           \/ Finish(m)
  <2>1. h.pc \notin {"run", "finish"}
    <3>1. CASE Now(m)
      BY <1>1, <3>1 DEF Now, IdleMgr
    <3>2. CASE TickDone(m) \/ Restart(m)
      BY <1>1, <3>2 DEF TickDone, Restart, IdleMgr
    <3>3. CASE Crash(m)
      BY <1>1, <3>3 DEF Crash, IdleMgr
    <3>4. CASE MarkStale(m)
      BY <1>1, <3>4 DEF MarkStale, MgrStates
    <3>5. CASE Plan(m)
      BY <1>1, <3>5 DEF Plan, MgrStates
    <3>6. CASE Finish(m)
      BY <1>1, <3>6 DEF Finish, NextPlan, MgrStates
    <3> QED BY <1>2, <3>1, <3>2, <3>3, <3>4, <3>5, <3>6
  <2> QED BY <2>1 DEF KeptIn
<1>3. CASE Stall(m)
  <2>1. h.stalled /\ h.pc = g.pc /\ h.plan = g.plan /\ h.token = g.token
    BY <1>1, <1>3 DEF Stall, MgrStates
  <2> QED BY <2>1 DEF KeptIn
<1>4. CASE HandlerReturns(m)
  <2>1. g.pc = "run" /\ h.pc = "finish" /\ h.plan = g.plan /\ h.token = g.token
    BY <1>1, <1>4 DEF HandlerReturns, MgrStates
  <2> QED BY <2>1 DEF KeptIn
<1>5. CASE Heartbeat(m)
  <2>1. /\ g.pc = "run" /\ h.pc = "run" /\ h.stalled = g.stalled
        /\ h.plan = g.plan /\ h.token = g.token
        /\ Holds(m) => /\ h.beat = clock
                       /\ row' = [row EXCEPT ![g.plan].stale = clock + StaleTimeout]
    BY <1>1, <1>5 DEF Heartbeat, MgrStates
  <2>2. g.plan \in Due /\ row[g.plan] # None
    BY <1>1, <2>1 DEF LeaseIn
  <2>3. ASSUME ~g.stalled
        PROVE  /\ row'[g.plan].status = "RUNNING" /\ row'[g.plan].token = g.token
               /\ h.beat + HeartbeatInterval <= row'[g.plan].stale
    <3>1. Holds(m)
      BY <2>1, <2>3 DEF KeptIn, Holds
    <3>2. row[g.plan] \in Rows
      BY <1>1, <2>2
    <3>3. /\ row'[g.plan].status = row[g.plan].status
          /\ row'[g.plan].token = row[g.plan].token
          /\ row'[g.plan].stale = clock + StaleTimeout
      BY <1>1, <2>1, <2>2, <3>1, <3>2 DEF Rows
    <3>4. clock + HeartbeatInterval <= clock + StaleTimeout
      BY <1>1, Bounds
    <3> QED BY <2>1, <3>1, <3>3, <3>4 DEF Holds
  <2> QED BY <2>1, <2>3 DEF KeptIn
<1> QED BY <1>2, <1>3, <1>4, <1>5 DEF ManagerStep

(* A claim takes the next attempt, for a lease that lasts until the first heartbeat. *)
LEMMA TimelyClaim ==
  ASSUME SchedulerAssumption, SampleIsFresh, CronInv, NEW m \in Managers, TryClaim(m),
         TimeIn(mgr[m], clock)
  PROVE  /\ TimeIn(mgr'[m], clock) /\ KeptIn(mgr'[m], row')
         /\ \/ mgr'[m].pc = "loop" /\ row' = row
            \/ \E p \in Due :
                 /\ mgr'[m].pc = "run" /\ mgr'[m].plan = p
                 /\ row[p] = None \/ Claimable(p, mgr[m].now)
                 /\ row[p] # None => mgr'[m].token = row[p].attempt + 1
                 /\ \A q \in Due \ {p} : row'[q] = row[q]
<1>1. /\ mgr[m] \in MgrStates /\ mgr \in [Managers -> MgrStates] /\ clock \in Nat
      /\ row \in [Due -> Rows \cup {None}]
  BY DEF CronInv, TypeOK
<1>2. /\ RunTimeout \in Nat /\ HeartbeatInterval \in Nat /\ StaleTimeout \in Nat
      /\ Whole \in Nat /\ Whole + HeartbeatInterval <= StaleTimeout + RunTimeout
  BY Bounds
<1> DEFINE g == mgr[m]
           h == mgr'[m]
<1>3. /\ g.todo \in SUBSET Due /\ g.now \in Nat /\ g.stalled \in BOOLEAN /\ g.pc = "loop"
  BY <1>1 DEF MgrStates, TryClaim
<1>4. PICK p \in Oldest(g.todo) :
        LET rest == [g EXCEPT !.todo = g.todo \ {p}]
            lease == NewLease(p, g.now) IN
        IF row[p] = None \/ Claimable(p, g.now)
        THEN /\ row' = [row EXCEPT ![p] = lease]
             /\ mgr' = [mgr EXCEPT ![m] = [rest EXCEPT !.pc = "run", !.plan = p,
                            !.token = lease.token, !.start = clock, !.beat = clock]]
        ELSE /\ mgr' = [mgr EXCEPT ![m] = rest]
             /\ row' = row
  BY DEF TryClaim
<1>5. p \in g.todo /\ p \in Due
  BY <1>3 DEF Oldest
<1> DEFINE left == Late(g.todo \ {p})
<1>6. left \in Nat /\ (g.stalled \/ clock + left + RunTimeout <= g.now + Whole)
  <2>1. g.todo \ {p} \in SUBSET Due
    BY <1>3
  <2>2. left \in Nat /\ left + RunTimeout = Late(g.todo)
    BY <1>3, <1>5, <2>1, LateOf
  <2>3. g.stalled \/ clock + Late(g.todo) <= g.now + Whole
    BY <1>3 DEF TimeIn
  <2> HIDE DEF left
  <2> QED BY <1>1, <1>2, <1>3, <2>2, <2>3
<1> HIDE DEF left
<1>7. CASE row[p] = None \/ Claimable(p, g.now)
  <2> DEFINE lease == NewLease(p, g.now)
  <2>1. /\ lease.status = "RUNNING" /\ lease.stale = g.now + StaleTimeout
        /\ row[p] # None => lease.token = row[p].attempt + 1
    BY DEF NewLease, Leased
  <2>2. row'[p] = lease /\ \A q \in Due \ {p} : row'[q] = row[q]
    BY <1>1, <1>4, <1>5, <1>7
  <2> HIDE DEF lease
  <2>3. /\ h.pc = "run" /\ h.plan = p /\ h.token = lease.token /\ h.start = clock
        /\ h.beat = clock /\ h.now = g.now /\ h.todo = g.todo \ {p}
        /\ h.stalled = g.stalled
    <3> DEFINE rest == [g EXCEPT !.todo = g.todo \ {p}]
               taken == [rest EXCEPT !.pc = "run", !.plan = p, !.token = lease.token,
                                     !.start = clock, !.beat = clock]
    <3>1. mgr' = [mgr EXCEPT ![m] = taken]
      BY <1>4, <1>7 DEF lease
    <3>2. /\ taken.pc = "run" /\ taken.plan = p /\ taken.token = lease.token
          /\ taken.start = clock /\ taken.beat = clock /\ taken.now = g.now
          /\ taken.todo = g.todo \ {p} /\ taken.stalled = g.stalled
      BY <1>1 DEF MgrStates
    <3> HIDE DEF taken
    <3> QED BY <1>1, <3>1, <3>2
  <2>4. h.now <= clock
    BY <2>3 DEF TimeIn
  <2>5. g.stalled \/ clock + RunTimeout + left <= g.now + Whole
    BY <1>1, <1>2, <1>6
  <2>6. TimeIn(h, clock)
    BY <1>1, <1>2, <2>3, <2>4, <2>5 DEF TimeIn, left
  <2>7. g.stalled \/ clock + HeartbeatInterval <= g.now + StaleTimeout
    BY <1>1, <1>2, <1>3, <1>6
  <2>8. KeptIn(h, row')
    BY <2>1, <2>2, <2>3, <2>7 DEF KeptIn
  <2> QED BY <1>5, <1>7, <2>1, <2>2, <2>3, <2>6, <2>8
<1>8. CASE ~(row[p] = None \/ Claimable(p, g.now))
  <2>1. /\ h.pc = "loop" /\ h.now = g.now /\ h.todo = g.todo \ {p}
        /\ h.stalled = g.stalled /\ row' = row
    BY <1>1, <1>3, <1>4, <1>8 DEF MgrStates
  <2>2. h.now <= clock
    BY <2>1 DEF TimeIn
  <2>3. g.stalled \/ clock + left <= g.now + Whole
    BY <1>1, <1>2, <1>3, <1>6
  <2>4. TimeIn(h, clock)
    BY <2>1, <2>2, <2>3 DEF TimeIn, left
  <2>5. KeptIn(h, row')
    BY <2>1 DEF KeptIn
  <2> QED BY <2>1, <2>4, <2>5
<1> QED BY <1>7, <1>8

(* A step of one manager leaves the lease of another that works in time alone: the
   lease is not stale for any sample, and the tokens differ. *)
LEMMA OthersKeep ==
  ASSUME SchedulerAssumption, CronInv, TimelyInv, NEW m \in Managers,
         ManagerStep(m) \/ Stall(m) \/ Crash(m) \/ Restart(m),
         NEW n \in Managers \ {m}
  PROVE  KeptIn(mgr[n], row')
<1>1. /\ row \in [Due -> Rows \cup {None}] /\ clock \in Nat
      /\ \A k \in Managers : mgr[k] \in MgrStates /\ LeaseIn(mgr[k], row)
      /\ \A k \in Managers : TimeIn(mgr[k], clock) /\ KeptIn(mgr[k], row)
      /\ ApartIn(mgr[m], mgr[n])
  BY DEF CronInv, TypeOK, TimelyInv
<1> SUFFICES ASSUME mgr[n].pc = "run", ~mgr[n].stalled
             PROVE  row'[mgr[n].plan] = row[mgr[n].plan]
  BY <1>1 DEF KeptIn
<1> DEFINE p == mgr[n].plan
<1>2. /\ p \in Due /\ row[p] # None /\ row[p].status = "RUNNING"
      /\ row[p].token = mgr[n].token /\ mgr[n].beat + HeartbeatInterval <= row[p].stale
  BY <1>1 DEF LeaseIn, KeptIn
<1>3. ~(row[p].stale < mgr[m].now)
  <2>1. /\ mgr[m].now \in Nat /\ mgr[m].now <= clock /\ row[p].stale \in Nat
        /\ HeartbeatInterval \in Nat
    BY <1>1, <1>2, Bounds DEF TimeIn, MgrStates, Rows
  <2>2. mgr[n].beat \in Nat /\ clock <= mgr[n].beat + HeartbeatInterval
    BY <1>1 DEF TimeIn
  <2> HIDE DEF p
  <2> QED BY <1>1, <1>2, <2>1, <2>2
<1>4. CASE row' = row
  BY <1>4
<1>5. CASE MarkStale(m)
  <2>1. ~Abandoned(p, mgr[m].now)
    BY <1>3 DEF Abandoned
  <2> QED BY <1>2, <1>5, <2>1 DEF MarkStale
<1>6. CASE TryClaim(m)
  <2>1. ~(row[p] = None \/ Claimable(p, mgr[m].now))
    BY <1>2, <1>3 DEF Claimable
  <2>2. PICK q \in Oldest(mgr[m].todo) :
          IF row[q] = None \/ Claimable(q, mgr[m].now)
          THEN row' = [row EXCEPT ![q] = NewLease(q, mgr[m].now)] ELSE row' = row
    BY <1>6 DEF TryClaim
  <2> QED BY <1>1, <1>2, <2>1, <2>2
<1>7. CASE Heartbeat(m) \/ Finish(m)
  <2>1. mgr[m].pc \in {"run", "finish"}
    BY <1>7 DEF Heartbeat, Finish
  <2>2. row' # row => Holds(m) /\ \A q \in Due \ {mgr[m].plan} : row'[q] = row[q]
    BY <1>1, <1>7 DEF Heartbeat, Finish
  <2>3. Holds(m) => mgr[m].plan # p
    BY <1>1, <1>2, <2>1 DEF Holds, ApartIn
  <2> QED BY <1>2, <2>2, <2>3
<1>8. CASE Now(m) \/ Plan(m) \/ TickDone(m) \/ HandlerReturns(m) \/ Stall(m)
           \/ Crash(m) \/ Restart(m)
  <2>1. row' = row
    BY <1>8 DEF Now, Plan, TickDone, HandlerReturns, Stall, Crash, Restart
  <2> QED BY <2>1
<1> QED BY <1>5, <1>6, <1>7, <1>8 DEF ManagerStep

(* The token that a manager draws is held by nobody else. *)
LEMMA ApartMoves ==
  ASSUME SchedulerAssumption, SampleIsFresh, CronInv, TimelyInv, NEW m \in Managers,
         ManagerStep(m) \/ Stall(m) \/ Crash(m) \/ Restart(m),
         NEW n \in Managers \ {m}
  PROVE  ApartIn(mgr'[m], mgr[n]) /\ ApartIn(mgr[n], mgr'[m])
<1>1. /\ mgr[m] \in MgrStates /\ mgr[n] \in MgrStates /\ LeaseIn(mgr[n], row)
      /\ row \in [Due -> Rows \cup {None}]
      /\ TimeIn(mgr[m], clock) /\ KeptIn(mgr[m], row)
      /\ ApartIn(mgr[m], mgr[n])
  BY DEF CronInv, TypeOK, TimelyInv
<1>2. CASE ~TryClaim(m)
  <2>1. mgr'[m].pc \in {"run", "finish"} =>
          /\ mgr[m].pc \in {"run", "finish"}
          /\ mgr'[m].plan = mgr[m].plan /\ mgr'[m].token = mgr[m].token
    BY <1>1, <1>2, KeptMoves
  <2> QED BY <1>1, <2>1 DEF ApartIn
<1>3. CASE TryClaim(m)
  <2>1. CASE mgr'[m].pc = "loop"
    BY <2>1 DEF ApartIn
  <2>2. ASSUME NEW p \in Due, mgr'[m].plan = p,
               row[p] # None => mgr'[m].token = row[p].attempt + 1,
               mgr[n].pc \in {"run", "finish"}, mgr[n].plan = p
        PROVE  mgr'[m].token # mgr[n].token
    <3>1. row[p] # None /\ mgr[n].token <= row[p].attempt
      BY <1>1, <2>2 DEF LeaseIn
    <3>2. row[p].attempt \in Nat /\ mgr[n].token \in Nat
      BY <1>1, <3>1 DEF Rows, MgrStates
    <3> QED BY <2>2, <3>1, <3>2
  <2>3. \/ mgr'[m].pc = "loop"
        \/ \E p \in Due : /\ mgr'[m].plan = p
                          /\ row[p] # None => mgr'[m].token = row[p].attempt + 1
    BY <1>1, <1>3, TimelyClaim
  <2> QED BY <2>1, <2>2, <2>3 DEF ApartIn
<1> QED BY <1>2, <1>3

LEMMA OneMoves ==
  ASSUME CronInv, NEW m \in Managers,
         ManagerStep(m) \/ Stall(m) \/ Crash(m) \/ Restart(m)
  PROVE  UNCHANGED <<job, clock>> /\ \A n \in Managers \ {m} : mgr'[n] = mgr[n]
<1>1. mgr \in [Managers -> MgrStates]
  BY DEF CronInv, TypeOK
<1>2. UNCHANGED <<job, clock>>
  BY DEF ManagerStep, Now, MarkStale, Plan, TryClaim, TickDone, Heartbeat,
         HandlerReturns, Finish, Stall, Crash, Restart
<1>3. \E g : mgr' = [mgr EXCEPT ![m] = g]
  <2>1. CASE Now(m) \/ MarkStale(m) \/ Plan(m) \/ TickDone(m)
    BY <2>1 DEF Now, MarkStale, Plan, TickDone
  <2>2. CASE TryClaim(m) \/ Heartbeat(m)
    BY <2>2 DEF TryClaim, Heartbeat
  <2>3. CASE HandlerReturns(m) \/ Finish(m) \/ Stall(m) \/ Crash(m) \/ Restart(m)
    BY <2>3 DEF HandlerReturns, Finish, Stall, Crash, Restart
  <2> QED BY <2>1, <2>2, <2>3 DEF ManagerStep
<1> QED BY <1>1, <1>2, <1>3

LEMMA TimelyMoves ==
  ASSUME SchedulerAssumption, SampleIsFresh, CronInv, TimelyInv, NEW m \in Managers,
         ManagerStep(m) \/ Stall(m) \/ Crash(m) \/ Restart(m)
  PROVE  TimelyInv'
<1>1. UNCHANGED clock /\ \A n \in Managers \ {m} : mgr'[n] = mgr[n]
  BY OneMoves
<1>2. TimeIn(mgr[m], clock) /\ KeptIn(mgr[m], row)
  BY DEF TimelyInv
<1>3. TimeIn(mgr'[m], clock) /\ KeptIn(mgr'[m], row')
  BY <1>2, TimeMoves, KeptMoves, TimelyClaim
<1>4. \A n \in Managers : TimeIn(mgr'[n], clock') /\ KeptIn(mgr'[n], row')
  BY <1>1, <1>3, OthersKeep DEF TimelyInv
<1>5. \A k, n \in Managers : k # n => ApartIn(mgr'[k], mgr'[n])
  <2>1. \A n \in Managers \ {m} : ApartIn(mgr'[m], mgr[n]) /\ ApartIn(mgr[n], mgr'[m])
    BY ApartMoves
  <2>2. \A k, n \in Managers : k # n => ApartIn(mgr[k], mgr[n])
    BY DEF TimelyInv
  <2> QED BY <1>1, <2>1, <2>2
<1> QED BY <1>4, <1>5 DEF TimelyInv

LEMMA TimelyClock ==
  ASSUME SchedulerAssumption, CronInv, TimelyInv, Clock
  PROVE  TimelyInv'
<1>1. UNCHANGED <<row, mgr>> /\ clock' = clock + 1 /\ clock \in Nat
  BY DEF Clock, CronInv, TypeOK
<1>2. ASSUME NEW m \in Managers PROVE TimeIn(mgr[m], clock + 1)
  <2>1. InTime(m, clock + 1) /\ TimeIn(mgr[m], clock)
    BY DEF Clock, TimelyInv
  <2>2. mgr[m].now \in Nat
    BY DEF CronInv, TypeOK, MgrStates
  <2> QED BY <1>1, <2>1, <2>2 DEF InTime, TimeIn
<1> QED BY <1>1, <1>2 DEF TimelyInv

(* The sweep closes and a steal takes only what is abandoned: however many instances
   tick, stall and crash, one that works in time keeps its lease, if a tick of
   MaxPlansPerTick runs leaves a heartbeat's time of StaleTimeout. *)
THEOREM LeaseIsKept ==
  ASSUME SampleIsFresh
  PROVE  Spec => []LeaseKept
<1>1. Init => TimelyInv
  <2>1. ASSUME Init, NEW m \in Managers
        PROVE  mgr[m] = IdleMgr /\ clock = 0
    BY <2>1 DEF Init
  <2>2. IdleMgr.pc = "idle" /\ IdleMgr.now = 0
    BY DEF IdleMgr
  <2> QED BY <2>1, <2>2 DEF TimelyInv, TimeIn, KeptIn, ApartIn
<1>2. TimelyInv /\ CronInv /\ [Next]_vars => TimelyInv'
  <2>1. ASSUME TimelyInv, UNCHANGED vars PROVE TimelyInv'
    BY <2>1 DEF TimelyInv, vars
  <2> QED BY <2>1, SchedulerAssumption, TimelyMoves, TimelyClock DEF Next
<1>3. TimelyInv => LeaseKept
  BY DEF TimelyInv, KeptIn, LeaseKept
<1> QED BY <1>1, <1>2, <1>3, Invariance, PTL DEF Spec

-----------------------------------------------------------------------------
(* Catching up *)

(* q belongs to the scope's history and may still be caught up *)
Owed(q) == (\E o \in job.stored : o < q) /\ q + CatchUpWindow >= clock
(* No plan that is owed was passed over ... *)
Unbroken == \A s, q \in Due : row[s] # None /\ q < s /\ Owed(q) => row[q] # None
(* ... and a list that has a new plan has every owed plan before it. *)
WholeLists ==
  \A m \in Managers :
    mgr[m].pc \in {"loop", "run", "finish"} =>
      \A p \in mgr[m].todo, q \in Due :
        row[p] = None /\ row[q] = None /\ q < p /\ Owed(q) => q \in mgr[m].todo
SampleIn(g, t) == g.now <= t
OldStay == \A o \in job.stored : o \in Due /\ row[o] # None
OrderInv ==
  /\ OldStay /\ \A m \in Managers : SampleIn(mgr[m], clock)
  /\ job.mode = "every_plan" => Unbroken /\ WholeLists

(* The executions stored before the start leave no hole.  A plan is stored when it
   is due, so the rows that a start at clock 0 finds are of plan 0, if of any. *)
HistoryIsWhole ==
  \A j \in Jobs : \A o, s \in j.stored, q \in Due : o < q /\ q < s => q \in j.stored

(* LIMIT n cuts at the end of the list. *)
LEMMA FirstIsPrefix ==
  ASSUME NEW S \in SUBSET Nat, IsFiniteSet(S), NEW n \in Nat,
         NEW p \in First(S, n), NEW q \in S, q < p
  PROVE  q \in First(S, n)
<1> DEFINE below(k) == {z \in S : z < k}
<1>1. p \in S /\ Cardinality(below(p)) < n
  BY DEF First
<1>2. \A z \in S : z < q => z < p
  BY <1>1
<1>3. below(q) \in SUBSET below(p)
  BY <1>2
<1>4. \A k : IsFiniteSet(below(k)) /\ Cardinality(below(k)) \in Nat
  BY FS_Subset, FS_CardinalityType
<1> HIDE DEF below
<1>5. Cardinality(below(q)) <= Cardinality(below(p))
  BY <1>3, <1>4, FS_Subset
<1>6. Cardinality(below(q)) < n
  BY <1>1, <1>4, <1>5
<1> QED BY <1>6 DEF First, below

(* The planner of every_plan lists every plan that is owed before a new one. *)
LEMMA PlanIsWhole ==
  ASSUME SchedulerAssumption, TypeOK, job.mode = "every_plan", Unbroken, OldStay,
         NEW now \in Nat, now <= clock,
         NEW p \in PlansForTick(now), NEW q \in Due,
         row[p] = None, row[q] = None, q < p, Owed(q)
  PROVE  q \in PlansForTick(now)
<1>1. /\ Due \subseteq Nat /\ IsFiniteSet(Due) /\ clock \in Nat
      /\ CatchUpWindow \in Nat /\ MaxPlansPerTick \in Nat
      /\ p \in Due /\ p \in Nat /\ q \in Nat
  BY PlansAreDue DEF TypeOK, SchedulerAssumption
<1> DEFINE due == {k \in Due : k <= now}
           stored == {k \in Due : row[k] # None}
           again == {k \in Newest(stored) : RetryEligible(row[k], now)}
           newer == {k \in due : \A s \in stored : s < k}
           wanted == IF stored = {} THEN Newest(due) ELSE again \cup newer
           window == {k \in wanted : InWindow(k, now)}
<1>2. PlansForTick(now) = First(window, MaxPlansPerTick)
  BY DEF PlansForTick
<1>3. window \in SUBSET Due
  BY DEF Newest
<1>4. p \in window
  BY <1>2 DEF First
<1>5. p <= now
  <2>1. p \in due \/ p \in again
    BY <1>4 DEF Newest
  <2>2. p \notin again
    BY DEF Newest
  <2> QED BY <2>1, <2>2
<1>6. q < now /\ q + CatchUpWindow >= clock
  BY <1>1, <1>5 DEF Owed
<1>7. InWindow(q, now) /\ CatchUpWindow # 0
  BY <1>1, <1>6 DEF InWindow
<1>8. q \in wanted
  <2>1. q \in due
    BY <1>1, <1>6
  <2>2. stored # {}
    BY DEF Owed, OldStay
  <2>3. \A s \in stored : s < q
    <3>1. \A s \in stored : ~(q < s) /\ q # s /\ s \in Nat
      BY <1>1 DEF Unbroken
    <3> QED BY <1>1, <3>1
  <2> QED BY <2>1, <2>2, <2>3
<1>9. q \in window
  BY <1>7, <1>8
<1> HIDE DEF window
<1>10. window \in SUBSET Nat /\ IsFiniteSet(window)
  BY <1>1, <1>3, FS_Subset
<1> QED BY <1>1, <1>2, <1>9, <1>10, FirstIsPrefix

(* Who has a row keeps it, and only a claim of the oldest plan of a list adds one. *)
LEMMA RowsAdded ==
  ASSUME SchedulerAssumption, CronInv, NEW m \in Managers,
         ManagerStep(m) \/ Stall(m) \/ Crash(m) \/ Restart(m)
  PROVE  /\ \A q \in Due : row[q] # None => row'[q] # None
         /\ ~TryClaim(m) => \A q \in Due : row'[q] # None => row[q] # None
         /\ TryClaim(m) =>
              \E p \in Oldest(mgr[m].todo) :
                 /\ p \in Due /\ row'[p] # None
                 /\ \A q \in Due \ {p} : row'[q] # None => row[q] # None
                 /\ mgr'[m].todo = mgr[m].todo \ {p}
<1>1. /\ row \in [Due -> Rows \cup {None}] /\ mgr[m] \in MgrStates
      /\ mgr \in [Managers -> MgrStates] /\ LeaseIn(mgr[m], row)
  BY DEF CronInv, TypeOK
<1>2. CronInv'
  BY StepInv DEF Next
<1>3. None \notin Rows /\ row' \in [Due -> Rows \cup {None}]
  BY <1>2 DEF SchedulerAssumption, CronInv, TypeOK
<1>4. CASE ~TryClaim(m) /\ row' = row
  BY <1>4
<1>5. CASE ~TryClaim(m) /\ MarkStale(m)
  <2>1. ASSUME NEW q \in Due PROVE row'[q] # None <=> row[q] # None
    <3>1. CASE Abandoned(q, mgr[m].now)
      <4>1. row[q] \in Rows /\ row[q] # None /\ row'[q] = [row[q] EXCEPT !.status = "FAILED"]
        BY <1>1, <1>5, <3>1 DEF MarkStale, Abandoned
      <4>2. row'[q] \in Rows
        BY <4>1 DEF Rows
      <4> QED BY <1>3, <4>1, <4>2
    <3>2. CASE ~Abandoned(q, mgr[m].now)
      BY <1>5, <3>2 DEF MarkStale
    <3> QED BY <3>1, <3>2
  <2> QED BY <1>5, <2>1
<1>6. CASE ~TryClaim(m) /\ (Heartbeat(m) \/ Finish(m))
  <2>1. mgr[m].plan \in Due /\ row[mgr[m].plan] # None
    BY <1>1, <1>6 DEF Heartbeat, Finish, LeaseIn
  <2>2. \A q \in Due \ {mgr[m].plan} : row'[q] = row[q]
    BY <1>1, <1>6 DEF Heartbeat, Finish
  <2>3. row'[mgr[m].plan] # None
    <3>1. \/ row' = row
          \/ Heartbeat(m) /\ row' = [row EXCEPT ![mgr[m].plan].stale = clock + StaleTimeout]
          \/ Finish(m) /\ row' = [row EXCEPT ![mgr[m].plan] = Closed(@, mgr[m].ok)]
      BY <1>6 DEF Heartbeat, Finish
    <3>2. row[mgr[m].plan] \in Rows /\ clock \in Nat /\ StaleTimeout \in Nat
      BY <1>1, <2>1 DEF SchedulerAssumption, CronInv, TypeOK
    <3>3. ASSUME row' = [row EXCEPT ![mgr[m].plan].stale = clock + StaleTimeout]
          PROVE  row'[mgr[m].plan] \in Rows
      BY <1>1, <2>1, <3>2, <3>3 DEF Rows
    <3>4. ASSUME row' = [row EXCEPT ![mgr[m].plan] = Closed(@, mgr[m].ok)]
          PROVE  row'[mgr[m].plan] \in Rows
      <4>1. row[mgr[m].plan].attempt >= 1 /\ mgr[m].ok \in BOOLEAN
        BY <1>1, <2>1 DEF CronInv, RowIn, MgrStates
      <4>2. Closed(row[mgr[m].plan], mgr[m].ok) \in Rows
        BY <3>2, <4>1, ClosedRow DEF CronInv
      <4> QED BY <1>1, <2>1, <3>4, <4>2
    <3> QED BY <1>3, <2>1, <3>1, <3>3, <3>4
  <2> QED BY <1>6, <2>1, <2>2, <2>3
<1>7. CASE TryClaim(m)
  <2>1. PICK p \in Oldest(mgr[m].todo) :
          LET rest == [mgr[m] EXCEPT !.todo = mgr[m].todo \ {p}]
              lease == NewLease(p, mgr[m].now) IN
          IF row[p] = None \/ Claimable(p, mgr[m].now)
          THEN /\ row' = [row EXCEPT ![p] = lease]
               /\ mgr' = [mgr EXCEPT ![m] = [rest EXCEPT !.pc = "run", !.plan = p,
                              !.token = lease.token, !.start = clock, !.beat = clock]]
          ELSE /\ mgr' = [mgr EXCEPT ![m] = rest]
               /\ row' = row
    BY <1>7 DEF TryClaim
  <2> DEFINE rest == [mgr[m] EXCEPT !.todo = mgr[m].todo \ {p}]
             lease == NewLease(p, mgr[m].now)
             taken == [rest EXCEPT !.pc = "run", !.plan = p, !.token = lease.token,
                                   !.start = clock, !.beat = clock]
  <2>2. p \in Due
    BY <1>1 DEF Oldest, MgrStates
  <2>3. mgr' = [mgr EXCEPT ![m] = taken] \/ mgr' = [mgr EXCEPT ![m] = rest]
    BY <2>1
  <2>4. rest.todo = mgr[m].todo \ {p} /\ taken.todo = mgr[m].todo \ {p}
    BY <1>1 DEF MgrStates
  <2>5. row' = row \/ row' = [row EXCEPT ![p] = lease]
    BY <2>1
  <2>6. \A q \in Due \ {p} : row'[q] = row[q]
    BY <1>1, <2>5
  <2>7. row'[p] = row[p] \/ row'[p] = lease
    BY <1>1, <2>2, <2>5
  <2>8. lease # None
    <3>1. ASSUME NEW n \in Nat PROVE Leased(n, mgr[m].now) \in Rows
      <4>1. mgr[m].now + StaleTimeout \in Nat
        <5>1. mgr[m].now \in Nat
          BY <1>1 DEF MgrStates
        <5>2. StaleTimeout \in Nat
          BY DEF SchedulerAssumption
        <5> QED BY <5>1, <5>2
      <4> QED BY <4>1 DEF Leased, Rows
    <3>2. row[p] # None => row[p].attempt + 1 \in Nat
      <4>1. row[p] \in Rows \cup {None}
        BY <1>1, <2>2
      <4> QED BY <4>1 DEF Rows
    <3>3. lease \in Rows
      BY <3>1, <3>2 DEF NewLease
    <3> QED BY <1>3, <3>3
  <2>x. row[p] # None \/ row' = [row EXCEPT ![p] = lease]
    BY <2>1
  <2> HIDE DEF rest, lease, taken
  <2>9. mgr'[m].todo = mgr[m].todo \ {p}
    BY <1>1, <2>3, <2>4
  <2>10. row'[p] # None
    BY <1>1, <2>2, <2>7, <2>8, <2>x
  <2>11. \A q \in Due : row[q] # None => row'[q] # None
    BY <2>6, <2>10
  <2> QED BY <1>7, <2>2, <2>6, <2>9, <2>10, <2>11
<1>8. CASE ~TryClaim(m) /\ (Now(m) \/ Plan(m) \/ TickDone(m) \/ HandlerReturns(m)
                             \/ Stall(m) \/ Crash(m) \/ Restart(m))
  BY <1>4, <1>8 DEF Now, Plan, TickDone, HandlerReturns, Stall, Crash, Restart
<1> QED BY <1>5, <1>6, <1>7, <1>8 DEF ManagerStep

(* How a manager comes by its list: the planner makes it, and it only gets shorter. *)
LEMMA ListMoves ==
  ASSUME SchedulerAssumption, CronInv, NEW m \in Managers,
         ManagerStep(m) \/ Stall(m) \/ Crash(m) \/ Restart(m)
  PROVE  /\ \/ mgr'[m].pc \notin {"loop", "run", "finish"}
            \/ /\ Plan(m) /\ row' = row
               /\ mgr'[m].todo = PlansForTick(mgr[m].now)
            \/ /\ mgr[m].pc \in {"loop", "run", "finish"}
               /\ TryClaim(m) \/ mgr'[m].todo = mgr[m].todo
         /\ mgr'[m].now \in {mgr[m].now, clock, 0}
<1>1. /\ mgr[m] \in MgrStates /\ mgr \in [Managers -> MgrStates]
  BY DEF CronInv, TypeOK
<1>2. CASE Now(m) \/ TickDone(m) \/ Restart(m) \/ Crash(m)
  <2>1. CASE Now(m)
    BY <1>1, <2>1 DEF Now, IdleMgr
  <2>2. CASE TickDone(m) \/ Restart(m)
    BY <1>1, <2>2 DEF TickDone, Restart, IdleMgr
  <2>3. CASE Crash(m)
    BY <1>1, <2>3 DEF Crash, IdleMgr
  <2> QED BY <1>2, <2>1, <2>2, <2>3
<1>3. CASE MarkStale(m)
  BY <1>1, <1>3 DEF MarkStale, MgrStates
<1>4. CASE Plan(m)
  BY <1>1, <1>4 DEF Plan, MgrStates
<1>5. CASE HandlerReturns(m)
  BY <1>1, <1>5 DEF HandlerReturns, MgrStates
<1>6. CASE Finish(m)
  BY <1>1, <1>6 DEF Finish, NextPlan, MgrStates
<1>7. CASE Heartbeat(m)
  BY <1>1, <1>7 DEF Heartbeat, MgrStates
<1>8. CASE Stall(m)
  <2>1. mgr'[m].pc = mgr[m].pc /\ mgr'[m].todo = mgr[m].todo /\ mgr'[m].now = mgr[m].now
    BY <1>1, <1>8 DEF Stall, MgrStates
  <2>2. mgr[m].pc \in {"loop", "run", "finish"}
        \/ mgr'[m].pc \notin {"loop", "run", "finish"}
    BY <2>1
  <2> QED BY <2>1, <2>2
<1>9. CASE TryClaim(m)
  <2>1. mgr[m].pc = "loop"
    BY <1>9 DEF TryClaim
  <2>2. mgr'[m].now = mgr[m].now
    <3>1. PICK p \in Oldest(mgr[m].todo) :
            LET rest == [mgr[m] EXCEPT !.todo = mgr[m].todo \ {p}]
                lease == NewLease(p, mgr[m].now) IN
            IF row[p] = None \/ Claimable(p, mgr[m].now)
            THEN /\ row' = [row EXCEPT ![p] = lease]
                 /\ mgr' = [mgr EXCEPT ![m] = [rest EXCEPT !.pc = "run", !.plan = p,
                                !.token = lease.token, !.start = clock, !.beat = clock]]
            ELSE /\ mgr' = [mgr EXCEPT ![m] = rest]
                 /\ row' = row
      BY <1>9 DEF TryClaim
    <3> DEFINE rest == [mgr[m] EXCEPT !.todo = mgr[m].todo \ {p}]
               lease == NewLease(p, mgr[m].now)
               taken == [rest EXCEPT !.pc = "run", !.plan = p, !.token = lease.token,
                                     !.start = clock, !.beat = clock]
    <3>2. mgr' = [mgr EXCEPT ![m] = taken] \/ mgr' = [mgr EXCEPT ![m] = rest]
      BY <3>1
    <3>3. rest.now = mgr[m].now /\ taken.now = mgr[m].now
      BY <1>1 DEF MgrStates
    <3> HIDE DEF rest, lease, taken
    <3> QED BY <1>1, <3>2, <3>3
  <2> QED BY <1>9, <2>1, <2>2
<1> QED BY <1>2, <1>3, <1>4, <1>5, <1>6, <1>7, <1>8, <1>9 DEF ManagerStep

(* the step that OldestFirst is about *)
InOrder ==
  \A p, q \in Due :
    /\ job.mode = "every_plan" /\ row[p] = None /\ row'[p] # None
    /\ \E o \in job.stored : o < q
    /\ q < p /\ q + CatchUpWindow >= clock
    => row[q] # None

LEMMA OrderMoves ==
  ASSUME SchedulerAssumption, CronInv, OrderInv, NEW m \in Managers,
         ManagerStep(m) \/ Stall(m) \/ Crash(m) \/ Restart(m)
  PROVE  OrderInv' /\ InOrder
<1>1. UNCHANGED <<job, clock>> /\ \A n \in Managers \ {m} : mgr'[n] = mgr[n]
  BY OneMoves
<1>2. /\ Due \subseteq Nat /\ clock \in Nat /\ mgr[m].now \in Nat /\ mgr[m].now <= clock
      /\ mgr[m].todo \subseteq Due
  BY DEF SchedulerAssumption, CronInv, TypeOK, MgrStates, OrderInv, SampleIn
<1>3. \A q \in Due : row[q] # None => row'[q] # None
  BY RowsAdded
<1>4. OldStay' /\ \A n \in Managers : SampleIn(mgr'[n], clock')
  <2>1. OldStay'
    BY <1>1, <1>3 DEF OrderInv, OldStay
  <2>2. mgr'[m].now <= clock
    <3>1. mgr'[m].now \in {mgr[m].now, clock, 0}
      BY ListMoves
    <3> QED BY <1>2, <3>1
  <2>3. ASSUME NEW n \in Managers PROVE SampleIn(mgr'[n], clock')
    <3>1. CASE n = m
      BY <1>1, <2>2, <3>1 DEF SampleIn
    <3>2. CASE n # m
      BY <1>1, <3>2 DEF OrderInv, SampleIn
    <3> QED BY <3>1, <3>2
  <2> QED BY <2>1, <2>3
<1>5. \A q : Owed(q)' <=> Owed(q)
  BY <1>1 DEF Owed
<1>6. CASE job.mode = "every_plan"
  <2>1. Unbroken /\ WholeLists
    BY <1>6 DEF OrderInv
  (* what a claim adds was the oldest new plan of a whole list *)
  <2>2. ASSUME NEW p \in Due, row[p] = None, row'[p] # None
        PROVE  /\ TryClaim(m) /\ p \in Oldest(mgr[m].todo)
               /\ \A q \in Due : q < p /\ Owed(q) => row[q] # None
    <3>1. TryClaim(m) /\ p \in Oldest(mgr[m].todo)
      BY <2>2, RowsAdded
    <3>2. mgr[m].pc = "loop" /\ p \in mgr[m].todo /\ \A q \in mgr[m].todo : p <= q
      BY <3>1 DEF TryClaim, Oldest
    <3>3. ASSUME NEW q \in Due, q < p, Owed(q), row[q] = None PROVE FALSE
      <4>1. q \in mgr[m].todo
        BY <2>1, <2>2, <3>2, <3>3 DEF WholeLists
      <4>2. p <= q
        BY <3>2, <4>1
      <4>3. p \in Nat /\ q \in Nat
        BY <1>2, <2>2, <3>3
      <4> QED BY <3>3, <4>2, <4>3
    <3> QED BY <3>1, <3>3
  <2>3. InOrder
    BY <2>2 DEF InOrder, Owed
  <2>4. Unbroken'
    <3> SUFFICES ASSUME NEW s \in Due, NEW q \in Due, row'[s] # None, q < s, Owed(q)
                 PROVE  row'[q] # None
      BY <1>5 DEF Unbroken
    <3> QED BY <1>3, <2>1, <2>2 DEF Unbroken
  <2>5. WholeLists'
    <3> SUFFICES ASSUME NEW n \in Managers, mgr'[n].pc \in {"loop", "run", "finish"},
                        NEW p \in mgr'[n].todo, NEW q \in Due,
                        row'[p] = None, row'[q] = None, q < p, Owed(q)
                 PROVE  q \in mgr'[n].todo
      BY <1>5 DEF WholeLists
    <3>1. CASE n # m
      <4>1. mgr'[n] = mgr[n] /\ mgr[n].todo \subseteq Due
        BY <1>1, <3>1 DEF CronInv, TypeOK, MgrStates
      <4> QED BY <1>3, <2>1, <4>1 DEF WholeLists
    <3>2. CASE n = m
      <4>1. CASE Plan(m) /\ row' = row /\ mgr'[m].todo = PlansForTick(mgr[m].now)
        BY <1>2, <1>6, <2>1, <3>2, <4>1, PlanIsWhole DEF CronInv, OrderInv
      <4>2. CASE mgr[m].pc \in {"loop", "run", "finish"} /\ mgr'[m].todo = mgr[m].todo
        BY <1>2, <1>3, <2>1, <3>2, <4>2 DEF WholeLists
      <4>3. CASE TryClaim(m) /\ mgr[m].pc \in {"loop", "run", "finish"}
        <5>1. PICK r \in Due : row'[r] # None /\ mgr'[m].todo = mgr[m].todo \ {r}
          BY <4>3, RowsAdded
        <5>2. q # r /\ p \in mgr[m].todo /\ row[p] = None /\ row[q] = None
          BY <1>2, <1>3, <3>2, <5>1
        <5>3. q \in mgr[m].todo
          BY <2>1, <4>3, <5>2 DEF WholeLists
        <5> QED BY <3>2, <5>1, <5>2, <5>3
      <4> QED BY <3>2, <4>1, <4>2, <4>3, ListMoves
    <3> QED BY <3>1, <3>2
  <2> QED BY <1>1, <1>4, <1>6, <2>3, <2>4, <2>5 DEF OrderInv
<1>7. CASE job.mode # "every_plan"
  BY <1>1, <1>4, <1>7 DEF OrderInv, InOrder
<1> QED BY <1>6, <1>7

(* OldestFirst, from jobs whose stored history has no hole. *)
THEOREM CatchUpIsInOrder ==
  ASSUME HistoryIsWhole
  PROVE  Spec => OldestFirst
<1>1. Init => OrderInv
  <2> SUFFICES ASSUME Init PROVE OrderInv
    OBVIOUS
  <2>1. job \in Jobs /\ job \in JobSpecs /\ job.stored \subseteq Due /\ clock = 0
    BY SchedulerAssumption DEF Init, JobSpecs, SchedulerAssumption
  <2>2. \A p \in Due : row[p] # None <=> p \in job.stored
    <3> DEFINE closed == [status |-> "SUCCESS", attempt |-> 1, token |-> 1,
                          stale |-> 0, retry |-> None]
    <3>1. closed \in Rows
      BY DEF Rows
    <3>2. closed # None
      BY <3>1, SchedulerAssumption DEF SchedulerAssumption
    <3>3. row = [p \in Due |-> IF p \in job.stored THEN closed ELSE None]
      BY DEF Init
    <3> HIDE DEF closed
    <3> QED BY <3>2, <3>3
  <2>3. OldStay /\ Unbroken
    <3>1. OldStay
      BY <2>1, <2>2 DEF OldStay
    <3>2. Unbroken
      BY <2>1, <2>2 DEF Unbroken, Owed, HistoryIsWhole
    <3> QED BY <3>1, <3>2
  <2>4. WholeLists /\ \A m \in Managers : SampleIn(mgr[m], clock)
    BY <2>1 DEF Init, IdleMgr, SampleIn, WholeLists
  <2> QED BY <2>3, <2>4 DEF OrderInv
<1>2. SchedulerAssumption /\ CronInv /\ OrderInv /\ [Next]_vars => OrderInv' /\ [InOrder]_vars
  <2> SUFFICES ASSUME SchedulerAssumption, CronInv, OrderInv, [Next]_vars
               PROVE  OrderInv' /\ [InOrder]_vars
    OBVIOUS
  <2>1. CASE Clock
    <3>1. UNCHANGED <<job, row, mgr>> /\ clock \in Nat /\ clock' = clock + 1
      BY <2>1 DEF Clock, CronInv, TypeOK
    <3>2. /\ Due \subseteq Nat /\ CatchUpWindow \in Nat
          /\ \A n \in Managers : mgr[n].now \in Nat /\ mgr[n].todo \subseteq Due
      BY DEF SchedulerAssumption, CronInv, TypeOK, MgrStates
    <3>3. ASSUME NEW q \in Due, Owed(q)' PROVE Owed(q)
      <4>1. q \in Nat
        BY <3>2
      <4> QED BY <3>1, <3>2, <3>3, <4>1 DEF Owed
    <3>4. OldStay'
      BY <3>1 DEF OrderInv, OldStay
    <3>5. \A n \in Managers : SampleIn(mgr'[n], clock')
      BY <3>1, <3>2 DEF OrderInv, SampleIn
    <3>6. job.mode = "every_plan" => Unbroken'
      BY <3>1, <3>3 DEF OrderInv, Unbroken
    <3>7. job.mode = "every_plan" => WholeLists'
      BY <3>1, <3>3 DEF OrderInv, WholeLists
    <3>8. InOrder
      BY <3>1 DEF InOrder
    <3> QED BY <3>1, <3>4, <3>5, <3>6, <3>7, <3>8 DEF OrderInv
  <2>2. CASE \E m \in Managers : ManagerStep(m) \/ Stall(m) \/ Crash(m) \/ Restart(m)
    BY <2>2, OrderMoves
  <2>3. CASE UNCHANGED vars
    BY <2>3 DEF vars, OrderInv, OldStay, Unbroken, Owed, SampleIn, WholeLists
  <2> QED BY <2>1, <2>2, <2>3 DEF Next
<1>3. Spec => OldestFirst
  <2>1. [InOrder]_vars <=>
          [\A p, q \in Due :
             /\ job.mode = "every_plan" /\ row[p] = None /\ row'[p] # None
             /\ \E o \in job.stored : o < q
             /\ q < p /\ q + CatchUpWindow >= clock
             => row[q] # None]_vars
    BY DEF InOrder
  <2> QED BY <1>1, <1>2, <2>1, SchedulerAssumption, Invariance, PTL DEF Spec, OldestFirst
<1> QED BY <1>3
=============================================================================
