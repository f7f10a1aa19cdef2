---------------------- MODULE AutopilotDispatchProofs ----------------------
(***************************************************************************)
(* HonestDispatch, DeliveryOnce and EndReachesRun for any number of        *)
(* workers, troubles and attempts.  The runs, the tasks and the links      *)
(* between them change in nine ways, none of which takes from a run the    *)
(* work it has; as long as leases hold, one worker at most is between two  *)
(* statements; and no step leaves a run in flight whose end was heard.     *)
(***************************************************************************)
EXTENDS AutopilotDispatch, FiniteSetTheorems, SequenceTheorems, TLAPS

RunRec == [status : InFlight \cup RunOver, slot : BOOLEAN, task : Nat, issue : Nat]
TaskRec == [run : Nat, issue : Nat, attempt : Nat, status : {"queued", "deferred"} \cup TaskOver,
            told : {"no", "judged", "yes", "lost"}]
IssueRec == [status : {"open", "done", "closed"}, told : BOOLEAN]
WorkerRec == [at : Steps, token : Nat, run : Nat, made : Nat, open : BOOLEAN, failed : BOOLEAN]

ItemRec == [state : {"absent", "open", "success", "failed", "ignored"},
            token : Nat, held : BOOLEAN, attempts : Nat]

RowsOK == run \in Seq(RunRec) /\ task \in Seq(TaskRec) /\ issue \in Seq(IssueRec)

HasTask(r) == \E t \in 1..Len(task) : task[t].run = r
LinksOK == \A r \in 1..Len(run) : run[r].task # 0 => HasTask(r)
Done(r) == run[r].status \in RunOver \/ run[r].issue # 0 \/ HasTask(r)

(* what a worker relies on at its next step *)
WorkerOK(k) ==
  /\ k.run \in 0..Len(run) /\ (k.at = "look" => k.run = 0)
  /\ k.at \in {"recover", "relink", "create", "link", "enqueue", "repair"} => k.run # 0
  /\ k.at = "link" => HasTask(k.run)
  /\ k.at \in {"enqueue", "repair"} => run[k.run].issue # 0
  /\ k.at = "finish" /\ k.run # 0 => Done(k.run)

ConfigOK ==
  /\ source \in {"schedule", "webhook"} /\ mode \in {"run_only", "create_issue"}
  /\ enabled \in BOOLEAN /\ item \in ItemRec

DispatchInv ==
  /\ ConfigOK /\ RowsOK /\ LinksOK
  /\ worker \in [Workers -> WorkerRec]
  /\ \A w \in Workers : WorkerOK(worker[w])

(* no step takes a run, a task or the outcome of a run away *)
Grown ==
  /\ Len(run) <= Len(run') /\ Len(task) <= Len(task')
  /\ \A t \in 1..Len(task) : task'[t].run = task[t].run
  /\ \A r \in 1..Len(run) :
       /\ run[r].issue # 0 => run'[r].issue # 0
       /\ Done(r) => Done(r)'

Rows == /\ RowsOK' /\ LinksOK' /\ Grown

-----------------------------------------------------------------------------
(* The ways in which the rows change *)

LEMMA Lengths ==
  ASSUME RowsOK
  PROVE  /\ Len(run) \in Nat /\ Len(task) \in Nat /\ Len(issue) \in Nat
         /\ DOMAIN run = 1..Len(run) /\ DOMAIN task = 1..Len(task)
         /\ DOMAIN issue = 1..Len(issue)
         /\ \A r \in 1..Len(run) : run[r] \in RunRec
         /\ \A t \in 1..Len(task) : task[t] \in TaskRec
         /\ \A i \in 1..Len(issue) : issue[i] \in IssueRec
BY LenProperties, ElementOfSeq DEF RowsOK

LEMMA LengthAfter ==
  ASSUME RowsOK'
  PROVE  Len(run') \in Nat
BY LenProperties DEF RowsOK

LEMMA RowsStay ==
  ASSUME RowsOK, LinksOK, UNCHANGED <<run, task, issue>>
  PROVE  Rows
BY Lengths DEF RowsOK, LinksOK, Rows, Grown, Done, HasTask

LEMMA RunAdded ==
  ASSUME RowsOK, LinksOK, NEW s \in InFlight \cup RunOver, run' = NewRun(s),
         UNCHANGED <<task, issue>>
  PROVE  Rows /\ Len(run') = Len(run) + 1 /\ run'[Len(run) + 1].status = s
<1> DEFINE new == [status |-> s, slot |-> TRUE, task |-> 0, issue |-> 0]
<1>1. new \in RunRec
  BY DEF RunRec
<1>2. /\ run' \in Seq(RunRec) /\ Len(run') = Len(run) + 1
      /\ \A r \in 1..Len(run) : run'[r] = run[r]
      /\ run'[Len(run) + 1] = new
  BY <1>1, AppendProperties DEF NewRun, RowsOK
<1>3. RowsOK'
  BY <1>2 DEF RowsOK
<1>4. \A r : HasTask(r)' <=> HasTask(r)
  BY DEF HasTask
<1>5. LinksOK'
  BY <1>2, <1>4, Lengths DEF LinksOK
<1>6. Grown
  BY <1>2, <1>4, Lengths DEF Grown, Done
<1> QED BY <1>2, <1>3, <1>5, <1>6 DEF Rows

(* one run is rewritten, keeping its task and its issue, and ends over *)
LEMMA RunOverwritten ==
  ASSUME RowsOK, LinksOK, NEW r \in 1..Len(run), NEW s \in RunOver, NEW b \in BOOLEAN,
         run' = [run EXCEPT ![r] = [run[r] EXCEPT !.status = s, !.slot = b]],
         UNCHANGED <<task, issue>>
  PROVE  Rows /\ Len(run') = Len(run) /\ run'[r].status = s
<1> DEFINE new == [run[r] EXCEPT !.status = s, !.slot = b]
<1>1. new \in RunRec /\ new.status = s /\ new.task = run[r].task /\ new.issue = run[r].issue
  BY Lengths DEF RunRec
<1>2. /\ run' \in Seq(RunRec) /\ Len(run') = Len(run)
      /\ \A q \in 1..Len(run) : run'[q] = IF q = r THEN new ELSE run[q]
  BY <1>1, ExceptSeq DEF RowsOK
<1>3. RowsOK'
  BY <1>2 DEF RowsOK
<1>4. \A q : HasTask(q)' <=> HasTask(q)
  BY DEF HasTask
<1>5. LinksOK'
  BY <1>1, <1>2, <1>4, Lengths DEF LinksOK
<1>6. Grown
  BY <1>1, <1>2, <1>4, Lengths DEF Grown, Done
<1> QED BY <1>1, <1>2, <1>3, <1>5, <1>6 DEF Rows

LEMMA RunStatusSet ==
  ASSUME RowsOK, LinksOK, NEW r \in 1..Len(run), NEW s \in RunOver, SetRun(r, s),
         UNCHANGED <<task, issue>>
  PROVE  Rows /\ Len(run') = Len(run) /\ run'[r].status = s
<1>1. run[r] \in RunRec
  BY Lengths
<1>2. [run[r] EXCEPT !.status = s] = [run[r] EXCEPT !.status = s, !.slot = run[r].slot]
  BY <1>1 DEF RunRec
<1>3. run' = [run EXCEPT ![r] = [run[r] EXCEPT !.status = s, !.slot = run[r].slot]]
  BY <1>2, Lengths DEF SetRun
<1>4. run[r].slot \in BOOLEAN
  BY <1>1 DEF RunRec
<1> QED BY <1>3, <1>4, RunOverwritten

LEMMA RunLinked ==
  ASSUME RowsOK, LinksOK, NEW r \in 1..Len(run), NEW t \in Nat, HasTask(r), LinkTo(r, t),
         UNCHANGED <<task, issue>>
  PROVE  Rows /\ Len(run') = Len(run) /\ Done(r)'
<1> DEFINE new == [run[r] EXCEPT !.status = "running", !.task = t]
<1>1. new \in RunRec /\ new.issue = run[r].issue
  BY Lengths DEF RunRec, InFlight
<1>2. /\ run' \in Seq(RunRec) /\ Len(run') = Len(run)
      /\ \A q \in 1..Len(run) : run'[q] = IF q = r THEN new ELSE run[q]
  BY <1>1, ExceptSeq DEF RowsOK, LinkTo
<1>3. RowsOK'
  BY <1>2 DEF RowsOK
<1>4. \A q : HasTask(q)' <=> HasTask(q)
  BY DEF HasTask
<1>5. LinksOK'
  BY <1>1, <1>2, <1>4, Lengths DEF LinksOK
<1>6. \A q \in 1..Len(run) : (run[q].issue # 0 => run'[q].issue # 0) /\ (Done(q) => Done(q)')
  <2> TAKE q \in 1..Len(run)
  <2>1. CASE q = r
    BY <2>1, <1>1, <1>2, <1>4 DEF Done
  <2>2. CASE q # r
    BY <2>2, <1>2, <1>4 DEF Done
  <2> QED BY <2>1, <2>2
<1>7. Grown
  BY <1>2, <1>6, Lengths DEF Grown
<1> QED BY <1>2, <1>3, <1>4, <1>5, <1>7 DEF Rows, Done

LEMMA IssueLinked ==
  ASSUME RowsOK, LinksOK, NEW r \in 1..Len(run),
         issue' = Append(issue, [status |-> "open", told |-> FALSE]),
         run' = [run EXCEPT ![r] = [@ EXCEPT !.status = "issue_created",
                                            !.issue = Len(issue) + 1]],
         UNCHANGED task
  PROVE  Rows /\ Len(run') = Len(run) /\ run'[r].issue # 0
<1> DEFINE new == [run[r] EXCEPT !.status = "issue_created", !.issue = Len(issue) + 1]
<1>0. Len(issue) + 1 \in Nat /\ Len(issue) + 1 # 0 /\ run[r] \in RunRec
  BY Lengths
<1>1. new \in RunRec /\ new.issue # 0 /\ new.task = run[r].task
  BY <1>0 DEF RunRec, InFlight
<1>2. /\ run' \in Seq(RunRec) /\ Len(run') = Len(run)
      /\ \A q \in 1..Len(run) : run'[q] = IF q = r THEN new ELSE run[q]
  BY <1>1, ExceptSeq DEF RowsOK
<1>3. issue' \in Seq(IssueRec)
  BY AppendProperties DEF RowsOK, IssueRec
<1>4. RowsOK'
  BY <1>2, <1>3 DEF RowsOK
<1>5. \A q : HasTask(q)' <=> HasTask(q)
  BY DEF HasTask
<1>6. LinksOK'
  BY <1>1, <1>2, <1>5, Lengths DEF LinksOK
<1>7. Grown
  BY <1>1, <1>2, <1>5, Lengths DEF Grown, Done
<1> QED BY <1>1, <1>2, <1>4, <1>6, <1>7 DEF Rows

(* tasks are added or marked, and runs end with the task and the issue they have *)
Marks ==
  /\ Len(run') = Len(run) /\ Len(task) <= Len(task')
  /\ \A t \in 1..Len(task) : task'[t].run = task[t].run
  /\ \A r \in 1..Len(run) :
       /\ run'[r].task = run[r].task /\ run'[r].issue = run[r].issue
       /\ run'[r].status = run[r].status \/ run'[r].status \in RunOver

LEMMA RowsMarked ==
  ASSUME RowsOK, LinksOK, RowsOK', Marks
  PROVE  Rows
<1>1. \A r : HasTask(r) => HasTask(r)'
  BY Lengths DEF HasTask, Marks
<1>2. LinksOK'
  BY <1>1, Lengths DEF LinksOK, Marks
<1>3. Grown
  BY <1>1, Lengths DEF Grown, Done, Marks
<1> QED BY <1>2, <1>3 DEF Rows

LEMMA TaskAdded ==
  ASSUME RowsOK, LinksOK, NEW r \in Nat, NEW i \in Nat, task' = NewTask(r, i, 1, "queued"),
         UNCHANGED <<run, issue>>
  PROVE  Rows /\ HasTask(r)'
<1> DEFINE new == [run |-> r, issue |-> i, attempt |-> 1, status |-> "queued", told |-> "no"]
<1>1. new \in TaskRec
  BY DEF TaskRec
<1>2. /\ task' \in Seq(TaskRec) /\ Len(task') = Len(task) + 1
      /\ \A t \in 1..Len(task) : task'[t] = task[t]
      /\ task'[Len(task) + 1] = new
  BY <1>1, AppendProperties DEF NewTask, RowsOK
<1>3. RowsOK'
  BY <1>2 DEF RowsOK
<1>4. Marks
  BY <1>2, Lengths DEF Marks
<1>5. HasTask(r)'
  BY <1>2, Lengths DEF HasTask
<1> QED BY <1>3, <1>4, <1>5, RowsMarked

(* a task is marked and nothing else about the tasks changes *)
TaskMarkedTo(t, marked) ==
  /\ marked \in Seq(TaskRec) /\ Len(marked) = Len(task)
  /\ \A u \in 1..Len(task) : /\ marked[u].run = task[u].run
                             /\ marked[u].issue = task[u].issue
                             /\ marked[u].attempt = task[u].attempt
TaskMarked(t) == TaskMarkedTo(t, task')

LEMMA ToldIsMark ==
  ASSUME RowsOK, NEW t \in DOMAIN task, NEW x \in {"no", "judged", "yes", "lost"},
         task' = [task EXCEPT ![t].told = x]
  PROVE  TaskMarked(t)
<1> DEFINE new == [task[t] EXCEPT !.told = x]
<1>1. /\ t \in 1..Len(task) /\ new \in TaskRec /\ new.run = task[t].run
      /\ new.issue = task[t].issue /\ new.attempt = task[t].attempt
  BY Lengths DEF TaskRec
<1>2. /\ task' \in Seq(TaskRec) /\ Len(task') = Len(task)
      /\ \A u \in 1..Len(task) : task'[u] = IF u = t THEN new ELSE task[u]
  BY <1>1, ExceptSeq DEF RowsOK
<1> QED BY <1>1, <1>2 DEF TaskMarked, TaskMarkedTo

LEMMA StatusMarks ==
  ASSUME RowsOK, NEW t \in DOMAIN task, NEW x \in {"queued", "deferred"} \cup TaskOver,
         NEW marked, marked = [task EXCEPT ![t].status = x]
  PROVE  TaskMarkedTo(t, marked)
<1> DEFINE new == [task[t] EXCEPT !.status = x]
<1>1. /\ t \in 1..Len(task) /\ new \in TaskRec /\ new.run = task[t].run
      /\ new.issue = task[t].issue /\ new.attempt = task[t].attempt
  BY Lengths DEF TaskRec
<1>2. /\ marked \in Seq(TaskRec) /\ Len(marked) = Len(task)
      /\ \A u \in 1..Len(task) : marked[u] = IF u = t THEN new ELSE task[u]
  BY <1>1, ExceptSeq DEF RowsOK
<1> QED BY <1>1, <1>2 DEF TaskMarkedTo

LEMMA StatusIsMark ==
  ASSUME RowsOK, NEW t \in DOMAIN task, NEW x \in {"queued", "deferred"} \cup TaskOver,
         task' = [task EXCEPT ![t].status = x]
  PROVE  TaskMarked(t)
BY StatusMarks DEF TaskMarked

LEMMA OnlyTasksMarked ==
  ASSUME RowsOK, LinksOK, NEW t, TaskMarked(t), UNCHANGED <<run, issue>>
  PROVE  Rows
<1>1. RowsOK'
  BY DEF RowsOK, TaskMarked, TaskMarkedTo
<1>2. Marks
  BY Lengths DEF Marks, TaskMarked, TaskMarkedTo
<1> QED BY <1>1, <1>2, RowsMarked

(* the runs of a set end alike *)
LEMMA RunsEnd ==
  ASSUME RowsOK, LinksOK, NEW R, NEW s \in RunOver,
         run' = [r \in DOMAIN run |-> IF r \in R THEN [run[r] EXCEPT !.status = s] ELSE run[r]]
  PROVE  /\ run' \in Seq(RunRec) /\ Len(run') = Len(run)
         /\ \A r \in 1..Len(run) :
              /\ run'[r].task = run[r].task /\ run'[r].issue = run[r].issue
              /\ run'[r].slot = run[r].slot
              /\ run'[r].status = run[r].status \/ run'[r].status \in RunOver
<1> DEFINE new(r) == IF r \in R THEN [run[r] EXCEPT !.status = s] ELSE run[r]
<1>1. \A r \in 1..Len(run) :
        /\ new(r) \in RunRec
        /\ new(r).task = run[r].task /\ new(r).issue = run[r].issue
        /\ new(r).slot = run[r].slot
        /\ new(r).status = run[r].status \/ new(r).status \in RunOver
  BY Lengths DEF RunRec
<1>2. run' \in [1..Len(run) -> RunRec]
  BY <1>1, Lengths
<1>3. run' \in Seq(RunRec)
  BY <1>2, Lengths, SeqDef
<1>4. Len(run') = Len(run)
  BY <1>2, <1>3, Lengths, LenProperties
<1> QED BY <1>1, <1>3, <1>4, Lengths

-----------------------------------------------------------------------------
(* The workers *)

LEMMA WorkerKept ==
  ASSUME RowsOK, RowsOK', Grown, NEW k, WorkerOK(k)
  PROVE  WorkerOK(k)'
<1>1. \A r : HasTask(r) => HasTask(r)'
  BY Lengths DEF HasTask, Grown
<1> QED BY <1>1, Lengths DEF WorkerOK, Grown

LEMMA WorkersStay ==
  ASSUME DispatchInv, Rows, ConfigOK', UNCHANGED worker
  PROVE  DispatchInv'
<1>1. ASSUME NEW w \in Workers PROVE WorkerOK(worker[w])'
  <2>1. PICK k : k = worker[w]
    OBVIOUS
  <2>2. WorkerOK(k)'
    BY <2>1, WorkerKept DEF DispatchInv, Rows
  <2> QED BY <2>1, <2>2 DEF WorkerOK
<1> QED BY <1>1 DEF DispatchInv, Rows

LEMMA WorkerMoves ==
  ASSUME DispatchInv, Rows, ConfigOK', NEW w \in Workers, NEW k \in WorkerRec,
         worker' = [worker EXCEPT ![w] = k], WorkerOK(k)'
  PROVE  DispatchInv'
<1>1. ASSUME NEW v \in Workers PROVE WorkerOK(worker[v])'
  <2>1. CASE v = w
    BY <2>1 DEF DispatchInv, WorkerOK
  <2>2. CASE v # w
    <3>1. PICK j : j = worker[v]
      OBVIOUS
    <3>2. WorkerOK(j)'
      BY <3>1, WorkerKept DEF DispatchInv, Rows
    <3>3. worker'[v] = j
      BY <2>2, <3>1 DEF DispatchInv
    <3> QED BY <3>2, <3>3 DEF WorkerOK
  <2> QED BY <2>1, <2>2
<1>2. worker' \in [Workers -> WorkerRec]
  BY DEF DispatchInv
<1> QED BY <1>1, <1>2 DEF DispatchInv, Rows

LEMMA WorkerRests ==
  ASSUME DispatchInv, Rows, ConfigOK', NEW w \in Workers, NEW k \in WorkerRec,
         worker' = [worker EXCEPT ![w] = k], k.run = 0, k.at \in {"idle", "look", "error"}
  PROVE  DispatchInv'
<1>1. WorkerOK(k)'
  BY Lengths DEF WorkerOK, Rows, RowsOK, Grown, DispatchInv
<1> QED BY <1>1, WorkerMoves

(* the step of a worker that goes on with its run r *)
LEMMA WorkerGoes ==
  ASSUME DispatchInv, Rows, ConfigOK', NEW w \in Workers, NEW from, NEW to \in Steps,
         Advance(w, from, to), to # "look",
         NEW r, r = worker[w].run,
         to \in {"recover", "relink", "create", "link", "enqueue", "repair"} => r # 0,
         to = "link" => HasTask(r)',
         to \in {"enqueue", "repair"} => run'[r].issue # 0,
         to = "finish" /\ r # 0 => Done(r)'
  PROVE  DispatchInv'
<1>1. worker[w] \in WorkerRec /\ WorkerOK(worker[w])
  BY DEF DispatchInv
<1>2. PICK k : k = [worker[w] EXCEPT !.at = to]
  OBVIOUS
<1>3. k \in WorkerRec /\ k.at = to /\ k.run = r
  BY <1>1, <1>2 DEF WorkerRec
<1>4. worker' = [worker EXCEPT ![w] = k]
  BY <1>2 DEF Advance
<1>5. r \in 0..Len(run')
  BY <1>1, <1>3, Lengths, LengthAfter DEF WorkerOK, Rows, Grown, DispatchInv
<1>6. WorkerOK(k)'
  BY <1>3, <1>5 DEF WorkerOK
<1> QED BY <1>3, <1>4, <1>6, WorkerMoves

(* the step of a worker that has made a task or an issue *)
LEMMA WorkerMade ==
  ASSUME DispatchInv, Rows, ConfigOK', NEW w \in Workers, NEW to \in {"link", "enqueue"},
         NEW id \in Nat, Made(w, to, id), NEW r, r = worker[w].run, r # 0,
         to = "link" => HasTask(r)', to = "enqueue" => run'[r].issue # 0
  PROVE  DispatchInv'
<1>1. worker[w] \in WorkerRec /\ WorkerOK(worker[w])
  BY DEF DispatchInv
<1>2. PICK k : k = [worker[w] EXCEPT !.at = to, !.made = id]
  OBVIOUS
<1>3. k \in WorkerRec /\ k.at = to /\ k.run = r
  BY <1>1, <1>2 DEF WorkerRec, Steps
<1>4. worker' = [worker EXCEPT ![w] = k]
  BY <1>2 DEF Made
<1>5. r \in 0..Len(run')
  BY <1>1, <1>3, Lengths, LengthAfter DEF WorkerOK, Rows, Grown, DispatchInv
<1>6. WorkerOK(k)'
  BY <1>3, <1>5 DEF WorkerOK
<1> QED BY <1>3, <1>4, <1>6, WorkerMoves

LEMMA ExistingIsRun ==
  ASSUME RowsOK, Existing # 0
  PROVE  Existing \in 1..Len(run)
BY Lengths DEF Existing

LEMMA ResumeFits ==
  ASSUME DispatchInv, NEW r \in 1..Len(run)
  PROVE  /\ Resume(r) \in Steps \ {"look", "link", "enqueue"}
         /\ Resume(r) = "repair" => run[r].issue # 0
         /\ Resume(r) = "finish" => Done(r)
<1>1. run[r] \in RunRec
  BY Lengths DEF DispatchInv
<1>2. source \in {"schedule", "webhook"}
  BY DEF DispatchInv, ConfigOK
<1>3. IsComplete(r) => Done(r)
  BY DEF IsComplete, Done, DispatchInv, LinksOK
<1>4. CASE IsComplete(r)
  <2>1. source = "schedule" => Resume(r) = "finish"
    BY <1>4 DEF Resume
  <2>2. source = "webhook" /\ run[r].issue # 0 => Resume(r) = "repair"
    BY <1>4 DEF Resume
  <2>3. source = "webhook" /\ run[r].issue = 0 => Resume(r) \in {"error", "finish"}
    BY <1>4 DEF Resume
  <2> QED BY <1>2, <1>3, <1>4, <2>1, <2>2, <2>3 DEF Steps
<1>5. CASE ~IsComplete(r)
  <2>1. Resume(r) \in {"recover", "relink", "create"}
    BY <1>2, <1>5 DEF Resume
  <2> QED BY <2>1 DEF Steps
<1> QED BY <1>4, <1>5

LEMMA WorkerResumes ==
  ASSUME DispatchInv, NEW w \in Workers, NEW r \in 1..Len(run), ResumeFor(w, r),
         ConfigOK', UNCHANGED <<run, task, issue>>
  PROVE  DispatchInv'
<1>1. worker[w] \in WorkerRec /\ run[r] \in RunRec /\ Len(run) \in Nat /\ r \in Nat
  BY Lengths DEF DispatchInv
<1>2. PICK to \in Steps \ {"look", "link", "enqueue"} : to = Resume(r)
  BY ResumeFits
<1>3. PICK bad \in BOOLEAN : bad = (run[r].status = "failed")
  OBVIOUS
<1>4. PICK k : k = [worker[w] EXCEPT !.at = Resume(r), !.run = r,
                                     !.failed = (run[r].status = "failed")]
  OBVIOUS
<1>5. k = [worker[w] EXCEPT !.at = to, !.run = r, !.failed = bad]
  BY <1>4, <1>2, <1>3
<1>6. k \in WorkerRec /\ k.at = to /\ k.run = r
  BY <1>1, <1>5 DEF WorkerRec
<1>7. worker' = [worker EXCEPT ![w] = k]
  BY <1>4 DEF ResumeFor
<1>8. WorkerOK(k)
  BY <1>1, <1>6, <1>2, ResumeFits, Lengths DEF WorkerOK, DispatchInv
<1>9. Rows
  BY RowsStay DEF DispatchInv
<1>10. WorkerOK(k)'
  BY <1>8, <1>9, WorkerKept DEF Rows, DispatchInv
<1> QED BY <1>6, <1>7, <1>9, <1>10, WorkerMoves

-----------------------------------------------------------------------------
(* The steps *)

LEMMA DispatchInitially == DispatchInit => DispatchInv
<1> SUFFICES ASSUME DispatchInit PROVE DispatchInv
  OBVIOUS
<1>1. run = <<>> /\ task = <<>> /\ issue = <<>> /\ worker = [w \in Workers |-> Idle]
  BY DEF DispatchInit
<1>2. RowsOK /\ Len(run) = 0
  BY <1>1, EmptySeq DEF RowsOK
<1>3. LinksOK
  BY <1>2 DEF LinksOK
<1>4. ConfigOK
  BY DispatchAssumption DEF DispatchInit, ConfigOK, ItemRec
<1>5. Idle \in WorkerRec /\ WorkerOK(Idle)
  BY <1>2 DEF Idle, WorkerRec, WorkerOK, Steps
<1> QED BY <1>1, <1>2, <1>3, <1>4, <1>5 DEF DispatchInv

LEMMA ExpiredIsItem == ConfigOK => Expired \in ItemRec
<1> SUFFICES ASSUME ConfigOK PROVE Expired \in ItemRec
  OBVIOUS
<1>1. PICK n \in Nat : n = IF source = "schedule" THEN item.token + 1 ELSE item.token
  BY DEF ConfigOK, ItemRec
<1>2. PICK s \in {"absent", "open", "success", "failed", "ignored"} :
        s = IF source = "schedule" /\ item.attempts = MaxAttempts THEN "failed" ELSE item.state
  BY DEF ConfigOK, ItemRec
<1>3. Expired = [item EXCEPT !.held = FALSE, !.token = n, !.state = s]
  BY <1>1, <1>2 DEF Expired
<1> QED BY <1>3 DEF ConfigOK, ItemRec

(* the row of the occurrence, its lease and the ingress that gives up *)
LEMMA ItemStep ==
  ASSUME DispatchInv,
         Receive \/ IgnoreDelivery \/ CrashIngress \/ Toggle \/ LeaseExpires \/ Outlived
  PROVE  DispatchInv'
<1>1. UNCHANGED <<run, task, issue, worker, source, mode>>
  BY DEF Receive, IgnoreDelivery, CrashIngress, Toggle, LeaseExpires, Outlived, occurrenceVars
<1>2. enabled' \in BOOLEAN
  BY DEF Receive, IgnoreDelivery, CrashIngress, Toggle, LeaseExpires, Outlived,
     DispatchInv, ConfigOK
<1>3. item' \in ItemRec
  <2>1. CASE Receive \/ IgnoreDelivery
    BY <2>1 DEF Receive, IgnoreDelivery, DispatchInv, ConfigOK, ItemRec
  <2>2. CASE CrashIngress \/ Toggle
    BY <2>2 DEF CrashIngress, Toggle, DispatchInv, ConfigOK
  <2>3. CASE LeaseExpires \/ Outlived
    BY <2>3, ExpiredIsItem DEF LeaseExpires, Outlived, DispatchInv
  <2> QED BY <2>1, <2>2, <2>3
<1>4. ConfigOK'
  BY <1>1, <1>2, <1>3 DEF DispatchInv, ConfigOK
<1> QED BY <1>1, <1>4, RowsStay, WorkersStay DEF DispatchInv

LEMMA AdmitStep ==
  ASSUME DispatchInv, NEW skip \in BOOLEAN, Admit(skip)
  PROVE  DispatchInv'
<1>1. ConfigOK' /\ UNCHANGED <<task, issue, worker>>
  BY DEF Admit, DispatchInv, ConfigOK, occurrenceVars
<1>2. Rows
  <2>1. CASE Existing # 0
    BY <2>1, <1>1, RowsStay DEF Admit, DispatchInv
  <2>2. CASE Existing = 0
    <3>1. PICK s \in InFlight \cup RunOver : s = IF skip THEN "skipped" ELSE Initially
      BY DEF InFlight, RunOver, Initially
    <3>2. run' = NewRun(s)
      BY <2>2, <3>1 DEF Admit
    <3> QED BY <1>1, <3>2, RunAdded DEF DispatchInv
  <2> QED BY <2>1, <2>2
<1> QED BY <1>1, <1>2, WorkersStay

LEMMA ClaimStep ==
  ASSUME DispatchInv, NEW w \in Workers, Claim(w)
  PROVE  DispatchInv'
<1>1. PICK n \in Nat : n = item.token + 1
  BY DEF DispatchInv, ConfigOK, ItemRec
<1>2. PICK a \in Nat : a = IF source = "schedule" THEN item.attempts + 1 ELSE item.attempts
  BY DEF DispatchInv, ConfigOK, ItemRec
<1>3. PICK k : k = [Idle EXCEPT !.at = "look", !.token = n, !.open = enabled]
  OBVIOUS
<1>4. k \in WorkerRec /\ k.at = "look" /\ k.run = 0
  BY <1>3 DEF WorkerRec, Idle, Steps, DispatchInv, ConfigOK
<1>5. worker' = [worker EXCEPT ![w] = k] /\ UNCHANGED <<run, task, issue>>
  BY <1>1, <1>3 DEF Claim
<1>6. item' = [item EXCEPT !.token = n, !.held = TRUE, !.attempts = a]
  BY <1>1, <1>2 DEF Claim
<1>7. item' \in ItemRec
  BY <1>6 DEF DispatchInv, ConfigOK, ItemRec
<1>8. ConfigOK'
  BY <1>7 DEF Claim, DispatchInv, ConfigOK, occurrenceVars
<1> QED BY <1>4, <1>5, <1>8, RowsStay, WorkerRests DEF DispatchInv

LEMMA LeaveStep ==
  ASSUME DispatchInv, NEW w \in Workers, Crash(w) \/ Finish(w) \/ Ignore(w) \/ Error(w)
  PROVE  DispatchInv'
<1>1. Idle \in WorkerRec /\ Idle.run = 0 /\ Idle.at = "idle"
  BY DEF WorkerRec, Idle, Steps
<1>2. /\ worker' = [worker EXCEPT ![w] = Idle]
      /\ UNCHANGED <<run, task, issue, source, mode, enabled>>
  BY DEF Crash, Finish, Ignore, Error, Retire, occurrenceVars
<1>3. item \in ItemRec
  BY DEF DispatchInv, ConfigOK
<1>4. \A s \in {"success", "failed", "ignored"} : Close(w, s) => item' \in ItemRec
  BY <1>3 DEF Close, ItemRec
<1>5. item' \in ItemRec
  <2>1. CASE Crash(w)
    BY <1>3, <2>1 DEF Crash
  <2>2. CASE Finish(w) \/ Ignore(w)
    BY <1>4, <2>2 DEF Finish, Ignore
  <2>3. CASE Error(w)
    <3>1. PICK a \in Nat : a = IF source = "schedule" THEN item.attempts ELSE item.attempts + 1
      BY <1>3 DEF ItemRec
    <3>2. \/ Close(w, "failed")
          \/ item' = item
          \/ item' = [item EXCEPT !.held = FALSE, !.attempts = a]
      BY <2>3, <3>1 DEF Error
    <3> QED BY <1>3, <1>4, <3>2 DEF ItemRec
  <2> QED BY <2>1, <2>2, <2>3
<1>6. ConfigOK'
  BY <1>2, <1>5 DEF DispatchInv, ConfigOK
<1> QED BY <1>1, <1>2, <1>6, RowsStay, WorkerRests DEF DispatchInv

LEMMA LookStep ==
  ASSUME DispatchInv, NEW w \in Workers, Look(w)
  PROVE  DispatchInv'
<1>1. ConfigOK' /\ UNCHANGED <<run, task, issue>>
  BY DEF Look, DispatchInv, ConfigOK, occurrenceVars
<1>2. Rows
  BY <1>1, RowsStay DEF DispatchInv
<1>3. PICK r : r = worker[w].run
  OBVIOUS
<1>4. r = 0
  BY <1>3 DEF Look, DispatchInv, WorkerOK
<1>5. CASE \E to \in {"ignore", "finish", "insert", "error"} : Advance(w, "look", to)
  BY <1>1, <1>2, <1>3, <1>4, <1>5, WorkerGoes DEF Steps
<1>6. CASE Existing # 0 /\ ResumeFor(w, Existing)
  BY <1>1, <1>6, ExistingIsRun, WorkerResumes DEF DispatchInv
<1> QED BY <1>5, <1>6 DEF Look

LEMMA RecoverStep ==
  ASSUME DispatchInv, NEW w \in Workers, Recover(w)
  PROVE  DispatchInv'
<1>1. ConfigOK' /\ UNCHANGED <<task, issue>>
  BY DEF Recover, DispatchInv, ConfigOK, occurrenceVars
<1>2. PICK r \in 1..Len(run) : r = worker[w].run
  BY Lengths DEF Recover, Advance, DispatchInv, WorkerOK
<1>3. Rows
  <2>1. CASE run' = [run EXCEPT ![r] = [@ EXCEPT !.status = "failed", !.slot = FALSE]]
    BY <1>1, <2>1, Lengths, RunOverwritten DEF DispatchInv, RunOver
  <2>2. CASE UNCHANGED run
    BY <1>1, <2>2, RowsStay DEF DispatchInv
  <2> QED BY <1>2, <2>1, <2>2 DEF Recover
<1>4. PICK to \in {"insert", "error"} : Advance(w, "recover", to)
  BY DEF Recover
<1> QED BY <1>1, <1>2, <1>3, <1>4, WorkerGoes DEF Steps

LEMMA InsertStep ==
  ASSUME DispatchInv, NEW w \in Workers, NEW skip \in BOOLEAN, Insert(w, skip)
  PROVE  DispatchInv'
<1>1. ConfigOK' /\ UNCHANGED <<task, issue>>
  BY DEF Insert, DispatchInv, ConfigOK, occurrenceVars
<1>2. worker[w] \in WorkerRec /\ Len(run) \in Nat
  BY Lengths DEF DispatchInv
<1>3. CASE Existing = 0
  <2>1. PICK s \in InFlight \cup RunOver : s = IF skip THEN "skipped" ELSE Initially
    BY DEF InFlight, RunOver, Initially
  <2>2. run' = NewRun(s)
    BY <1>3, <2>1 DEF Insert
  <2>3. Rows /\ Len(run') = Len(run) + 1 /\ run'[Len(run) + 1].status = s
    BY <1>1, <2>2, RunAdded DEF DispatchInv
  <2>4. PICK to : to = IF skip THEN "finish"
                       ELSE IF source = "webhook" /\ mode = "run_only" THEN "relink" ELSE "create"
    OBVIOUS
  <2>5. PICK r : r = Len(run) + 1
    OBVIOUS
  <2>6. PICK k : k = [worker[w] EXCEPT !.at = to, !.run = r]
    OBVIOUS
  <2>7. to \in {"finish", "relink", "create"} /\ r \in Nat \ {0}
    BY <1>2, <2>4, <2>5
  <2>8. k \in WorkerRec /\ k.at = to /\ k.run = r
    BY <1>2, <2>6, <2>7 DEF WorkerRec, Steps
  <2>9. worker' = [worker EXCEPT ![w] = k]
    BY <1>3, <2>4, <2>5, <2>6 DEF Insert
  <2>10. to = "finish" => Done(r)'
    BY <2>1, <2>3, <2>4, <2>5 DEF Done, RunOver
  <2>11. WorkerOK(k)'
    BY <2>3, <2>5, <2>7, <2>8, <2>10 DEF WorkerOK
  <2> QED BY <1>1, <2>3, <2>8, <2>9, <2>11, WorkerMoves
<1>4. CASE Existing # 0 /\ source = "webhook"
  BY <1>1, <1>4, ExistingIsRun, WorkerResumes DEF Insert, DispatchInv
<1>5. CASE Existing # 0 /\ source # "webhook"
  <2>1. PICK k : k = [worker[w] EXCEPT !.at = "error", !.run = 0]
    OBVIOUS
  <2>2. k \in WorkerRec /\ k.at = "error" /\ k.run = 0
    BY <1>2, <2>1 DEF WorkerRec, Steps
  <2>3. worker' = [worker EXCEPT ![w] = k] /\ UNCHANGED run
    BY <1>5, <2>1 DEF Insert
  <2> QED BY <1>1, <2>2, <2>3, RowsStay, WorkerRests DEF DispatchInv
<1> QED BY <1>3, <1>4, <1>5

LEMMA RelinkStep ==
  ASSUME DispatchInv, NEW w \in Workers, Relink(w)
  PROVE  DispatchInv'
<1>1. ConfigOK' /\ UNCHANGED <<task, issue>>
  BY DEF Relink, DispatchInv, ConfigOK, occurrenceVars
<1>2. PICK r \in 1..Len(run) : r = worker[w].run
  BY Lengths DEF Relink, DispatchInv, WorkerOK
<1>3. CASE (\E t \in Orphan(r) : LinkTo(r, t)) /\ Advance(w, "relink", "finish")
  <2>1. PICK t \in Orphan(r) : LinkTo(r, t)
    BY <1>3
  <2>2. t \in Nat /\ HasTask(r)
    BY <2>1, Lengths DEF Orphan, TasksOfRun, HasTask, DispatchInv
  <2>3. Rows /\ Done(r)'
    BY <1>1, <2>1, <2>2, RunLinked DEF DispatchInv
  <2> QED BY <1>1, <1>2, <1>3, <2>3, WorkerGoes DEF Steps
<1>4. CASE UNCHANGED run /\ \E to \in {"create", "error"} : Advance(w, "relink", to)
  <2>1. Rows
    BY <1>1, <1>4, RowsStay DEF DispatchInv
  <2>2. PICK to \in {"create", "error"} : Advance(w, "relink", to)
    BY <1>4
  <2> QED BY <1>1, <1>2, <2>1, <2>2, WorkerGoes DEF Steps
<1> QED BY <1>2, <1>3, <1>4 DEF Relink

(* the ends of a dispatch that makes nothing *)
LEMMA SkipOrFailStep ==
  ASSUME DispatchInv, NEW w \in Workers, NEW from \in {"create", "enqueue"}, ConfigOK',
         UNCHANGED <<task, issue>>,
         SkipRun(w, from) \/ (Advance(w, from, "error") /\ FailRun(w))
  PROVE  DispatchInv'
<1>1. PICK r \in 1..Len(run) : r = worker[w].run
  BY Lengths DEF SkipRun, Advance, DispatchInv, WorkerOK
<1>2. CASE SkipRun(w, from)
  <2>1. Rows /\ run'[r].status = "skipped"
    BY <1>1, <1>2, RunStatusSet DEF SkipRun, DispatchInv, RunOver
  <2>2. Done(r)'
    BY <2>1 DEF Done, RunOver
  <2> QED BY <1>1, <1>2, <2>1, <2>2, WorkerGoes DEF SkipRun, Steps
<1>3. CASE Advance(w, from, "error") /\ FailRun(w)
  <2>1. Rows
    BY <1>1, <1>3, RunStatusSet, RowsStay DEF FailRun, DispatchInv, RunOver
  <2> QED BY <1>1, <1>3, <2>1, WorkerGoes DEF Steps
<1> QED BY <1>2, <1>3

LEMMA CreateTaskStep ==
  ASSUME DispatchInv, NEW w \in Workers, CreateTask(w)
  PROVE  DispatchInv'
<1>1. ConfigOK' /\ UNCHANGED issue
  BY DEF CreateTask, DispatchInv, ConfigOK, occurrenceVars
<1>2. CASE UNCHANGED run /\ Made(w, "link", Len(task) + 1)
                        /\ task' = NewTask(worker[w].run, 0, 1, "queued")
  <2>1. PICK r \in 1..Len(run) : r = worker[w].run
    BY Lengths DEF CreateTask, DispatchInv, WorkerOK
  <2>2. Rows /\ HasTask(r)'
    BY <1>1, <1>2, <2>1, TaskAdded DEF DispatchInv
  <2>3. Len(task) + 1 \in Nat
    BY Lengths DEF DispatchInv
  <2> QED BY <1>1, <1>2, <2>1, <2>2, <2>3, WorkerMade
<1>3. CASE UNCHANGED task /\ (SkipRun(w, "create") \/ (Advance(w, "create", "error") /\ FailRun(w)))
  BY <1>1, <1>3, SkipOrFailStep
<1> QED BY <1>2, <1>3 DEF CreateTask

LEMMA LinkStep ==
  ASSUME DispatchInv, NEW w \in Workers, Link(w)
  PROVE  DispatchInv'
<1>1. ConfigOK' /\ UNCHANGED <<task, issue>> /\ Advance(w, "link", "finish")
  BY DEF Link, DispatchInv, ConfigOK, occurrenceVars
<1>2. PICK r \in 1..Len(run) : r = worker[w].run
  BY <1>1, Lengths DEF Advance, DispatchInv, WorkerOK
<1>3. HasTask(r) /\ worker[w].made \in Nat
  BY <1>1, <1>2 DEF Advance, DispatchInv, WorkerOK, WorkerRec
<1>4. CASE LinkTo(r, worker[w].made)
  <2>1. Rows /\ Done(r)'
    BY <1>1, <1>3, <1>4, RunLinked DEF DispatchInv
  <2> QED BY <1>1, <1>2, <2>1, WorkerGoes DEF Steps
<1>5. CASE UNCHANGED run
  <2>1. Rows
    BY <1>1, <1>5, RowsStay DEF DispatchInv
  <2>2. Done(r)'
    BY <1>1, <1>3, <1>5 DEF Done, HasTask
  <2> QED BY <1>1, <1>2, <2>1, <2>2, WorkerGoes DEF Steps
<1> QED BY <1>2, <1>4, <1>5 DEF Link

LEMMA CreateIssueStep ==
  ASSUME DispatchInv, NEW w \in Workers, CreateIssue(w)
  PROVE  DispatchInv'
<1>1. ConfigOK' /\ UNCHANGED task
  BY DEF CreateIssue, DispatchInv, ConfigOK, occurrenceVars
<1>2. PICK r \in 1..Len(run) : r = worker[w].run
  BY Lengths DEF CreateIssue, DispatchInv, WorkerOK
<1>3. CASE /\ Made(w, "enqueue", Len(issue) + 1)
           /\ issue' = Append(issue, [status |-> "open", told |-> FALSE])
           /\ run' = [run EXCEPT ![r] = [@ EXCEPT !.status = "issue_created",
                                                  !.issue = Len(issue) + 1]]
  <2>1. Rows /\ run'[r].issue # 0
    BY <1>1, <1>3, IssueLinked DEF DispatchInv
  <2>2. Len(issue) + 1 \in Nat
    BY Lengths DEF DispatchInv
  <2> QED BY <1>1, <1>2, <1>3, <2>1, <2>2, WorkerMade
<1>4. CASE UNCHANGED issue /\ (SkipRun(w, "create") \/ (Advance(w, "create", "error") /\ FailRun(w)))
  BY <1>1, <1>4, SkipOrFailStep
<1> QED BY <1>2, <1>3, <1>4 DEF CreateIssue

LEMMA EnqueueStep ==
  ASSUME DispatchInv, NEW w \in Workers, Enqueue(w)
  PROVE  DispatchInv'
<1>1. ConfigOK' /\ UNCHANGED issue
  BY DEF Enqueue, DispatchInv, ConfigOK, occurrenceVars
<1>2. PICK r \in 1..Len(run) : r = worker[w].run
  BY Lengths DEF Enqueue, Advance, DispatchInv, WorkerOK
<1>3. CASE /\ Advance(w, "enqueue", "finish") /\ UNCHANGED run
           /\ task' = NewTask(0, worker[w].made, 1, "queued")
  <2>1. worker[w].made \in Nat /\ run[r].issue # 0
    BY <1>2, <1>3 DEF Advance, DispatchInv, WorkerOK, WorkerRec
  <2>2. Rows
    BY <1>1, <1>3, <2>1, TaskAdded DEF DispatchInv
  <2>3. Done(r)'
    BY <1>3, <2>1 DEF Done
  <2> QED BY <1>1, <1>2, <1>3, <2>2, <2>3, WorkerGoes DEF Steps
<1>4. CASE UNCHANGED task /\ Advance(w, "enqueue", "error") /\ FailRun(w)
  BY <1>1, <1>4, SkipOrFailStep
<1> QED BY <1>3, <1>4 DEF Enqueue

LEMMA RepairStep ==
  ASSUME DispatchInv, NEW w \in Workers, Repair(w)
  PROVE  DispatchInv'
<1>1. ConfigOK' /\ UNCHANGED <<run, issue>>
  BY DEF Repair, DispatchInv, ConfigOK, occurrenceVars
<1>2. PICK r \in 1..Len(run) : r = worker[w].run
  BY Lengths DEF Repair, DispatchInv, WorkerOK
<1>3. run[r].issue \in Nat /\ run[r].issue # 0
  BY <1>2, Lengths DEF Repair, DispatchInv, WorkerOK, RunRec
<1>4. Rows
  <2>1. CASE UNCHANGED task
    BY <1>1, <2>1, RowsStay DEF DispatchInv
  <2>2. CASE task' = NewTask(0, run[r].issue, 1, "queued")
    BY <1>1, <1>3, <2>2, TaskAdded DEF DispatchInv
  <2> QED BY <1>2, <2>1, <2>2 DEF Repair
<1>5. Done(r)'
  BY <1>1, <1>3 DEF Done
<1>6. PICK to \in {"error", "finish"} : Advance(w, "repair", to)
  BY DEF Repair
<1> QED BY <1>1, <1>2, <1>4, <1>5, <1>6, WorkerGoes DEF Steps

(* the queue *)
LEMMA EndTaskStep ==
  ASSUME DispatchInv, NEW t \in DOMAIN task, NEW how \in TaskOver, TaskEnds(t, how)
  PROVE  DispatchInv'
<1>1. ConfigOK' /\ UNCHANGED <<run, issue, worker>>
  BY DEF TaskEnds, DispatchInv, ConfigOK, occurrenceVars
<1>2. PICK retry \in RetryOf(t, how) : task' = [task EXCEPT ![t].status = how] \o retry
  BY DEF TaskEnds
<1>3. task[t] \in TaskRec /\ t \in 1..Len(task)
  BY Lengths DEF DispatchInv
<1>4. retry \in Seq(TaskRec)
  <2>1. <<>> \in Seq(TaskRec)
    BY EmptySeq
  <2>2. PICK n \in Nat : n = task[t].attempt + 1
    BY <1>3 DEF TaskRec
  <2>3. PICK s \in {"queued", "deferred"} :
          s = IF task[t].attempt = 1 THEN "queued" ELSE "deferred"
    OBVIOUS
  <2>4. [task[t] EXCEPT !.attempt = n, !.status = s] \in TaskRec
    BY <1>3 DEF TaskRec
  <2>5. <<[task[t] EXCEPT !.attempt = n, !.status = s]>> \in Seq(TaskRec)
    BY <2>4
  <2> QED BY <1>2, <2>1, <2>2, <2>3, <2>5 DEF RetryOf
<1>5. PICK ended : ended = [task EXCEPT ![t].status = how]
  OBVIOUS
<1>6. [task[t] EXCEPT !.status = how] \in TaskRec
      /\ [task[t] EXCEPT !.status = how].run = task[t].run
  BY <1>3 DEF TaskRec
<1>7. /\ ended \in Seq(TaskRec) /\ Len(ended) = Len(task)
      /\ \A u \in 1..Len(task) : ended[u].run = task[u].run
  <2>1. /\ ended \in Seq(TaskRec) /\ Len(ended) = Len(task)
        /\ \A u \in 1..Len(task) :
             ended[u] = IF u = t THEN [task[t] EXCEPT !.status = how] ELSE task[u]
    BY <1>3, <1>5, <1>6, ExceptSeq DEF DispatchInv, RowsOK
  <2> QED BY <1>6, <2>1
<1>8. /\ task' \in Seq(TaskRec) /\ Len(task') = Len(ended) + Len(retry)
      /\ \A u \in 1..Len(ended) : task'[u] = ended[u]
  BY <1>2, <1>4, <1>5, <1>7, ConcatProperties
<1>9. RowsOK'
  BY <1>1, <1>8 DEF RowsOK, DispatchInv
<1>10. Len(retry) \in Nat /\ Len(task) \in Nat
  BY <1>4, LenProperties, Lengths DEF DispatchInv
<1>11. Marks
  BY <1>1, <1>7, <1>8, <1>10 DEF Marks
<1> QED BY <1>1, <1>9, <1>11, RowsMarked, WorkersStay DEF DispatchInv

LEMMA MarkStep ==
  ASSUME DispatchInv, NEW t \in DOMAIN task, Promote(t) \/ Unheard(t)
  PROVE  DispatchInv'
<1>1. ConfigOK' /\ UNCHANGED <<run, issue, worker>>
  BY DEF Promote, Unheard, DispatchInv, ConfigOK, occurrenceVars
<1>2. TaskMarked(t)
  <2>1. CASE Promote(t)
    BY <2>1, StatusIsMark DEF Promote, DispatchInv
  <2>2. CASE Unheard(t)
    BY <2>2, ToldIsMark DEF Unheard, DispatchInv
  <2> QED BY <2>1, <2>2
<1> QED BY <1>1, <1>2, OnlyTasksMarked, WorkersStay DEF DispatchInv

(* the listeners *)
LEMMA MarkedWithEnds ==
  ASSUME DispatchInv, ConfigOK', NEW t, TaskMarked(t), UNCHANGED <<issue, worker>>,
         NEW R, NEW s \in RunOver,
         run' = [r \in DOMAIN run |-> IF r \in R THEN [run[r] EXCEPT !.status = s] ELSE run[r]]
  PROVE  DispatchInv'
<1>1. /\ run' \in Seq(RunRec) /\ Len(run') = Len(run)
      /\ \A r \in 1..Len(run) :
           /\ run'[r].task = run[r].task /\ run'[r].issue = run[r].issue
           /\ run'[r].status = run[r].status \/ run'[r].status \in RunOver
  BY RunsEnd DEF DispatchInv
<1>2. RowsOK'
  BY <1>1 DEF RowsOK, TaskMarked, TaskMarkedTo, DispatchInv
<1>3. Marks
  BY <1>1, Lengths DEF Marks, TaskMarked, TaskMarkedTo, DispatchInv
<1> QED BY <1>2, <1>3, RowsMarked, WorkersStay DEF DispatchInv

LEMMA HearStep ==
  ASSUME DispatchInv, NEW t \in DOMAIN task, Hear(t)
  PROVE  DispatchInv'
<1>1. ConfigOK' /\ UNCHANGED <<issue, worker>>
  BY DEF Hear, DispatchInv, ConfigOK, occurrenceVars
<1>2. CASE task[t].run # 0
  <2>1. PICK s \in RunOver :
          s = IF task[t].status = "completed" THEN "completed" ELSE "failed"
    BY DEF RunOver
  <2>2. PICK q : q = task[t].run
    OBVIOUS
  <2>3. run' = [run EXCEPT ![q].status = s] /\ task' = [task EXCEPT ![t].told = "yes"]
    BY <1>2, <2>1, <2>2 DEF Hear, SetRun
  <2>4. run' = [r \in DOMAIN run |->
                  IF r \in {q} THEN [run[r] EXCEPT !.status = s] ELSE run[r]]
    BY <2>3
  <2>5. TaskMarked(t)
    BY <2>3, ToldIsMark DEF DispatchInv
  <2> QED BY <1>1, <2>4, <2>5, MarkedWithEnds
<1>3. CASE task[t].run = 0
  <2>1. PICK x \in {"judged", "yes"} : task' = [task EXCEPT ![t].told = x]
    BY <1>3 DEF Hear
  <2>2. TaskMarked(t) /\ UNCHANGED run
    BY <1>3, <2>1, ToldIsMark DEF Hear, DispatchInv
  <2> QED BY <1>1, <2>2, OnlyTasksMarked, WorkersStay DEF DispatchInv
<1> QED BY <1>2, <1>3

LEMMA VerdictStep ==
  ASSUME DispatchInv, NEW t \in DOMAIN task, Verdict(t)
  PROVE  DispatchInv'
<1>1. ConfigOK' /\ UNCHANGED <<issue, worker>>
  BY DEF Verdict, DispatchInv, ConfigOK, occurrenceVars
<1>2. TaskMarked(t)
  BY ToldIsMark DEF Verdict, DispatchInv
<1>3. PICK R : R = {r \in DOMAIN run : run[r].issue = task[t].issue}
  OBVIOUS
<1>4. run' = [r \in DOMAIN run |->
                IF r \in R THEN [run[r] EXCEPT !.status = "failed"] ELSE run[r]]
  BY <1>3 DEF Verdict
<1> QED BY <1>1, <1>2, <1>4, MarkedWithEnds DEF RunOver

LEMMA IssueStep ==
  ASSUME DispatchInv, NEW i \in DOMAIN issue,
         HearIssue(i) \/ MoveIssue(i, "done") \/ MoveIssue(i, "closed")
  PROVE  DispatchInv'
<1>1. ConfigOK' /\ UNCHANGED <<task, worker>>
  BY DEF HearIssue, MoveIssue, DispatchInv, ConfigOK, occurrenceVars
<1>2. i \in 1..Len(issue) /\ issue[i] \in IssueRec
  BY Lengths DEF DispatchInv
<1>3. PICK x \in IssueRec : issue' = [issue EXCEPT ![i] = x]
  BY <1>2 DEF HearIssue, MoveIssue, IssueRec
<1>4. issue' \in Seq(IssueRec)
  BY <1>2, <1>3, ExceptSeq DEF DispatchInv, RowsOK
<1>5. /\ run' \in Seq(RunRec) /\ Len(run') = Len(run)
      /\ \A r \in 1..Len(run) :
           /\ run'[r].task = run[r].task /\ run'[r].issue = run[r].issue
           /\ run'[r].status = run[r].status \/ run'[r].status \in RunOver
  <2>1. CASE HearIssue(i)
    <3>1. PICK s \in RunOver : s = IF issue[i].status = "done" THEN "completed" ELSE "failed"
      BY DEF RunOver
    <3>2. PICK R : R = RunOfIssue(i)
      OBVIOUS
    <3>3. run' = [r \in DOMAIN run |->
                    IF r \in R THEN [run[r] EXCEPT !.status = s] ELSE run[r]]
      BY <2>1, <3>1, <3>2 DEF HearIssue
    <3> QED BY <3>3, RunsEnd DEF DispatchInv
  <2>2. CASE MoveIssue(i, "done") \/ MoveIssue(i, "closed")
    BY <2>2 DEF MoveIssue, DispatchInv, RowsOK
  <2> QED BY <2>1, <2>2
<1>6. RowsOK'
  BY <1>1, <1>4, <1>5 DEF RowsOK, DispatchInv
<1>7. Marks
  BY <1>1, <1>5, Lengths DEF Marks, DispatchInv
<1> QED BY <1>1, <1>6, <1>7, RowsMarked, WorkersStay DEF DispatchInv

-----------------------------------------------------------------------------
LEMMA WorkerSteps ==
  ASSUME DispatchInv, NEW w \in Workers, WorkerStep(w)
  PROVE  DispatchInv'
BY LookStep, RecoverStep, InsertStep, RelinkStep, CreateTaskStep, LinkStep, CreateIssueStep,
   EnqueueStep, RepairStep, LeaveStep DEF WorkerStep

LEMMA StepKeepsInv == DispatchInv /\ [DispatchNext]_dispatchVars => DispatchInv'
<1> SUFFICES ASSUME DispatchInv, [DispatchNext]_dispatchVars PROVE DispatchInv'
  OBVIOUS
<1>1. CASE Receive \/ IngressStep \/ LeaseExpires
  BY <1>1, ItemStep, AdmitStep DEF IngressStep
<1>2. CASE \E w \in Workers : Claim(w) \/ WorkerStep(w)
  BY <1>2, ClaimStep, WorkerSteps
<1>3. CASE Listen
  BY <1>3, HearStep, VerdictStep, IssueStep DEF Listen
<1>4. CASE Trial
  BY <1>4, ItemStep, LeaveStep, MarkStep DEF Trial
<1>5. CASE Environment
  BY <1>5, MarkStep, EndTaskStep, IssueStep DEF Environment
<1>6. CASE UNCHANGED dispatchVars
  <2>1. UNCHANGED <<run, task, issue, worker, source, mode, enabled, item>>
    BY <1>6 DEF dispatchVars
  <2>2. ConfigOK'
    BY <2>1 DEF ConfigOK, DispatchInv
  <2> QED BY <2>1, <2>2, RowsStay, WorkersStay DEF DispatchInv
<1> QED BY <1>1, <1>2, <1>3, <1>4, <1>5, <1>6 DEF DispatchNext

LEMMA InvIsHonest == DispatchInv => HonestDispatch
<1> SUFFICES ASSUME DispatchInv, NEW w \in Workers, worker[w].at = "finish", worker[w].run # 0
             PROVE  LET r == worker[w].run IN
                    run[r].status \in RunOver \/ run[r].issue # 0 \/ TasksOfRun(r) # {}
  BY DEF HonestDispatch
<1>1. PICK r : r = worker[w].run
  OBVIOUS
<1>2. Done(r)
  BY <1>1 DEF DispatchInv, WorkerOK
<1>3. HasTask(r) => TasksOfRun(r) # {}
  BY Lengths DEF HasTask, TasksOfRun, DispatchInv
<1> QED BY <1>1, <1>2, <1>3 DEF Done

(* No dispatch is reported on the strength of a run that a crashed attempt left without
   its work, for any number of workers, attempts, crashes and pauses
   (DispatchAutopilotForPlan, DispatchAutopilotForWebhookDelivery) *)
THEOREM DispatchIsHonest == DispatchSpec => []HonestDispatch
<1>1. DispatchInit => DispatchInv
  BY DispatchInitially
<1>2. DispatchInv /\ [DispatchNext]_dispatchVars => DispatchInv'
  BY StepKeepsInv
<1>3. DispatchInv => HonestDispatch
  BY InvIsHonest
<1> QED BY <1>1, <1>2, <1>3, PTL DEF DispatchSpec

-----------------------------------------------------------------------------
(* One run, one issue and one first task of a delivery, as long as no lease is
   outlived: the worker at work is the only one, and where it is tells what there is
   already. *)

Active(w) == worker[w].at # "idle"
Lone ==
  /\ \A v, w \in Workers : Active(v) /\ Active(w) => v = w
  /\ \A w \in Workers : Active(w) => item.held /\ worker[w].token = item.token

OneOfEach ==
  /\ Len(run) <= 1 /\ Len(issue) <= Len(run)
  /\ \A r \in 1..Len(run) : /\ run[r].slot /\ run[r].issue = Len(issue)
                            /\ run[r].status = "running" => mode = "run_only"
  /\ \A t \in 1..Len(task) : /\ task[t].issue = Len(issue)
                             /\ task[t].attempt > 0 /\ (t > 1 => task[t].attempt > 1)
  /\ mode = "run_only" =>
       Len(issue) = 0 /\ Len(task) <= 1 /\ \A t \in 1..Len(task) : task[t].run = 1
  /\ mode = "create_issue" /\ Len(task) > 0 => Len(issue) = 1

OnceAt(k) ==
  /\ k.at # "recover"
  /\ k.at \in {"relink", "link"} => mode = "run_only"
  /\ k.at \in {"enqueue", "repair"} => mode = "create_issue"
  /\ k.at = "create" => Len(issue) = 0 /\ Len(task) = 0
  /\ k.at = "enqueue" => Len(task) = 0 /\ k.made = 1

Once == Lone /\ OneOfEach /\ \A w \in Workers : OnceAt(worker[w])
OnceInv == source = "webhook" /\ ~overlapped => Once

(* what listeners and marks leave as it is *)
SameShape ==
  /\ Len(run') = Len(run) /\ Len(issue') = Len(issue) /\ Len(task') = Len(task)
  /\ \A r \in 1..Len(run) :
       /\ run'[r].slot = run[r].slot /\ run'[r].issue = run[r].issue
       /\ run'[r].status = run[r].status \/ run'[r].status \in RunOver
  /\ \A t \in 1..Len(task) : /\ task'[t].run = task[t].run
                             /\ task'[t].issue = task[t].issue
                             /\ task'[t].attempt = task[t].attempt

LEMMA ShapeKeeps ==
  ASSUME OneOfEach, SameShape, UNCHANGED mode
  PROVE  OneOfEach'
<1>1. "running" \notin RunOver
  BY DEF RunOver
<1> QED BY <1>1 DEF OneOfEach, SameShape

LEMMA SameRows ==
  ASSUME UNCHANGED <<run, issue, task>>
  PROVE  SameShape
BY DEF SameShape

LEMMA OnceStays ==
  ASSUME Once, UNCHANGED <<mode, worker>>, OneOfEach',
         Len(issue') = Len(issue), Len(task') = Len(task) \/ (Len(task) > 0),
         Len(task) \in Nat,
         item'.held = item.held, item'.token = item.token
  PROVE  Once'
<1>1. Lone'
  BY DEF Once, Lone, Active
<1>2. ASSUME NEW w \in Workers PROVE OnceAt(worker[w])'
  <2>1. OnceAt(worker[w])
    BY DEF Once
  <2> QED BY <2>1 DEF OnceAt
<1> QED BY <1>1, <1>2 DEF Once

LEMMA OnceMoves ==
  ASSUME DispatchInv, Once, NEW w \in Workers, Active(w), NEW k,
         worker' = [worker EXCEPT ![w] = k],
         k.at = "idle" \/ (k.token = worker[w].token /\ item'.held = item.held
                                                     /\ item'.token = item.token),
         OneOfEach', OnceAt(k)'
  PROVE  Once'
<1>1. /\ worker'[w] = k
      /\ \A v \in Workers \ {w} : worker'[v] = worker[v] /\ worker[v].at = "idle"
  BY DEF DispatchInv, Once, Lone, Active
<1>2. Lone'
  BY <1>1 DEF Once, Lone, Active
<1>3. ASSUME NEW v \in Workers PROVE OnceAt(worker[v])'
  <2>1. CASE v = w
    BY <1>1, <2>1 DEF OnceAt
  <2>2. CASE v # w
    BY <1>1, <2>2 DEF OnceAt
  <2> QED BY <2>1, <2>2
<1> QED BY <1>2, <1>3 DEF Once

LEMMA OnceGoes ==
  ASSUME DispatchInv, Once, NEW w \in Workers, NEW from, NEW to, Advance(w, from, to),
         from # "idle", UNCHANGED <<item, mode>>, OneOfEach',
         to \in {"insert", "ignore", "finish", "error", "create"},
         to = "create" => Len(issue') = 0 /\ Len(task') = 0
  PROVE  Once'
<1>1. worker[w] \in WorkerRec /\ Active(w)
  BY DEF DispatchInv, Advance, Active
<1>2. PICK k : k = [worker[w] EXCEPT !.at = to]
  OBVIOUS
<1>3. k.at = to /\ k.token = worker[w].token
  BY <1>1, <1>2 DEF WorkerRec
<1>4. worker' = [worker EXCEPT ![w] = k]
  BY <1>2 DEF Advance
<1>5. OnceAt(k)'
  BY <1>3 DEF OnceAt
<1> QED BY <1>1, <1>3, <1>4, <1>5, OnceMoves

LEMMA OneSlot ==
  ASSUME DispatchInv, Once
  PROVE  /\ Existing = 0 => Len(run) = 0
         /\ \A r \in 1..Len(run) : r = 1 /\ Len(run) = 1
         /\ Len(run) \in Nat /\ Len(task) \in Nat /\ Len(issue) \in Nat
<1>1. Len(run) \in Nat /\ Len(task) \in Nat /\ Len(issue) \in Nat /\ DOMAIN run = 1..Len(run)
  BY Lengths DEF DispatchInv
<1>2. \A r \in 1..Len(run) : r = 1 /\ Len(run) = 1 /\ run[r].slot
  BY <1>1 DEF Once, OneOfEach
<1>3. (\E r \in DOMAIN run : run[r].slot) => Existing # 0
  BY <1>1 DEF Existing
<1>4. Len(run) # 0 => 1 \in DOMAIN run /\ run[1].slot
  BY <1>1, <1>2
<1> QED BY <1>1, <1>2, <1>3, <1>4

LEMMA FirstRun ==
  ASSUME DispatchInv, Once, Existing = 0, NEW s, s = "running" => mode = "run_only",
         run' = NewRun(s), UNCHANGED <<issue, task, mode>>
  PROVE  OneOfEach' /\ Len(issue') = 0 /\ (mode = "create_issue" => Len(task') = 0)
<1> DEFINE new == [status |-> s, slot |-> TRUE, task |-> 0, issue |-> 0]
<1>1. Len(run) = 0 /\ Len(issue) = 0
  BY OneSlot DEF Once, OneOfEach
<1>2. Len(run') = 1 /\ run'[1] = new
  BY <1>1, AppendProperties DEF NewRun, DispatchInv, RowsOK
<1> QED BY <1>1, <1>2, OneSlot DEF Once, OneOfEach

LEMMA OnceItemStep ==
  ASSUME DispatchInv, Once, source = "webhook",
         Receive \/ IgnoreDelivery \/ CrashIngress \/ Toggle \/ LeaseExpires
  PROVE  Once'
<1>1. UNCHANGED <<run, task, issue, worker, source, mode>> /\ Len(task) \in Nat
  BY Lengths DEF Receive, IgnoreDelivery, CrashIngress, Toggle, LeaseExpires, occurrenceVars,
     DispatchInv
<1>2. OneOfEach' /\ Len(issue') = Len(issue) /\ Len(task') = Len(task)
  BY <1>1, ShapeKeeps, SameRows DEF Once
<1>3. CASE item'.held = item.held /\ item'.token = item.token
  BY <1>1, <1>2, <1>3, OnceStays
<1>4. CASE Receive \/ IgnoreDelivery \/ CrashIngress \/ Toggle
  <2>1. item \in ItemRec
    BY DEF DispatchInv, ConfigOK
  <2>2. item'.held = item.held /\ item'.token = item.token
    BY <1>4, <2>1 DEF Receive, IgnoreDelivery, CrashIngress, Toggle, ItemRec
  <2> QED BY <1>3, <2>2
<1>5. CASE LeaseExpires
  <2>1. \A w \in Workers : ~Active(w)
    BY <1>5 DEF LeaseExpires, Holders, Once, Lone, Active
  <2>2. Lone'
    BY <1>1, <2>1 DEF Lone, Active
  <2>3. \A w \in Workers : OnceAt(worker[w])'
    BY <1>1, <2>1 DEF OnceAt, Active
  <2> QED BY <1>1, <1>2, <2>2, <2>3 DEF Once, OnceAt
<1> QED BY <1>4, <1>5

LEMMA OnceAdmitStep ==
  ASSUME DispatchInv, Once, NEW skip \in BOOLEAN, Admit(skip)
  PROVE  Once'
<1>1. UNCHANGED <<task, issue, worker, item, mode>> /\ Len(task) \in Nat
  BY Lengths DEF Admit, DispatchInv, occurrenceVars
<1>2. OneOfEach'
  <2>1. CASE Existing # 0
    BY <1>1, <2>1, ShapeKeeps, SameRows DEF Admit, Once
  <2>2. CASE Existing = 0
    <3>1. PICK s : s = IF skip THEN "skipped" ELSE Initially
      OBVIOUS
    <3>2. s = "running" => mode = "run_only"
      BY <3>1 DEF Initially
    <3>3. run' = NewRun(s)
      BY <2>2, <3>1 DEF Admit
    <3> QED BY <1>1, <2>2, <3>2, <3>3, FirstRun
  <2> QED BY <2>1, <2>2
<1> QED BY <1>1, <1>2, OnceStays

LEMMA OnceClaimStep ==
  ASSUME DispatchInv, Once, NEW w \in Workers, Claim(w)
  PROVE  Once'
<1>1. \A v \in Workers : ~Active(v)
  BY DEF Claim, Once, Lone
<1>2. PICK k : k = [Idle EXCEPT !.at = "look", !.token = item.token + 1, !.open = enabled]
  OBVIOUS
<1>3. k.at = "look" /\ k.token = item.token + 1
  BY <1>2 DEF Idle
<1>4. /\ worker' = [worker EXCEPT ![w] = k] /\ UNCHANGED <<run, task, issue, mode>>
      /\ item' = [item EXCEPT !.token = @ + 1, !.held = TRUE,
                              !.attempts = IF source = "schedule" THEN @ + 1 ELSE @]
  BY <1>2 DEF Claim, occurrenceVars
<1>5. item'.held /\ item'.token = item.token + 1
  BY <1>4 DEF DispatchInv, ConfigOK, ItemRec
<1>6. \A v \in Workers : worker'[v].at = "idle" \/ (v = w /\ worker'[v] = k)
  BY <1>1, <1>4 DEF DispatchInv, Active
<1>7. Lone'
  BY <1>3, <1>5, <1>6 DEF Lone, Active
<1>8. OneOfEach'
  BY <1>4, ShapeKeeps, SameRows DEF Once
<1>9. \A v \in Workers : OnceAt(worker[v])'
  BY <1>3, <1>6 DEF OnceAt
<1> QED BY <1>7, <1>8, <1>9 DEF Once

LEMMA OnceLeaveStep ==
  ASSUME DispatchInv, Once, NEW w \in Workers,
         Crash(w) \/ Finish(w) \/ Ignore(w) \/ Error(w)
  PROVE  Once'
<1>1. /\ worker' = [worker EXCEPT ![w] = Idle] /\ Active(w)
      /\ UNCHANGED <<run, task, issue, mode>>
  BY DEF Crash, Finish, Ignore, Error, Retire, Active, occurrenceVars
<1>2. OneOfEach'
  BY <1>1, ShapeKeeps, SameRows DEF Once
<1>3. Idle.at = "idle"
  BY DEF Idle
<1>4. OnceAt(Idle)'
  BY <1>3 DEF OnceAt
<1> QED BY <1>1, <1>2, <1>3, <1>4, OnceMoves

LEMMA OnceResumes ==
  ASSUME DispatchInv, Once, source = "webhook", NEW w \in Workers, Active(w),
         NEW r \in 1..Len(run), ResumeFor(w, r), UNCHANGED <<run, task, issue, item, mode>>
  PROVE  Once'
<1>1. worker[w] \in WorkerRec /\ run[r] \in RunRec /\ mode \in {"run_only", "create_issue"}
  BY Lengths DEF DispatchInv, ConfigOK
<1>2. OneOfEach'
  BY ShapeKeeps, SameRows DEF Once
<1>3. PICK k : k = [worker[w] EXCEPT !.at = Resume(r), !.run = r,
                                     !.failed = (run[r].status = "failed")]
  OBVIOUS
<1>4. PICK to : to = Resume(r)
  OBVIOUS
<1>5. PICK bad : bad = (run[r].status = "failed")
  OBVIOUS
<1>6. k = [worker[w] EXCEPT !.at = to, !.run = r, !.failed = bad]
  BY <1>3, <1>4, <1>5
<1>7. k.at = to /\ k.token = worker[w].token
  BY <1>1, <1>6 DEF WorkerRec
<1>8. worker' = [worker EXCEPT ![w] = k]
  BY <1>3 DEF ResumeFor
<1>9. run[r].issue = Len(issue) /\ Len(issue) \in Nat /\ Len(task) \in Nat
      /\ (run[r].status = "running" => mode = "run_only")
  BY OneSlot DEF Once, OneOfEach
<1>10. CASE IsComplete(r)
  <2>1. \/ run[r].issue # 0 /\ to = "repair"
        \/ run[r].issue = 0 /\ to \in {"error", "finish"}
    BY <1>4, <1>10 DEF Resume
  <2>2. run[r].issue # 0 => mode = "create_issue"
    BY <1>1, <1>9 DEF Once, OneOfEach
  <2>3. OnceAt(k)'
    BY <1>7, <2>1, <2>2 DEF OnceAt
  <2> QED BY <1>2, <1>7, <1>8, <2>3, OnceMoves
<1>11. CASE ~IsComplete(r)
  <2>1. to = IF mode = "run_only" THEN "relink" ELSE "create"
    BY <1>4, <1>11 DEF Resume
  <2>2. mode = "create_issue" => Len(issue) = 0 /\ Len(task) = 0
    <3>1. run[r].status \in {"issue_created", "running"} \cup RunOver
      BY <1>1 DEF RunRec, InFlight
    <3>2. mode = "create_issue" => run[r].issue = 0
      BY <1>9, <1>11, <3>1 DEF IsComplete
    <3> QED BY <1>9, <3>2 DEF Once, OneOfEach
  <2>3. OnceAt(k)'
    BY <1>1, <1>7, <2>1, <2>2 DEF OnceAt
  <2> QED BY <1>2, <1>7, <1>8, <2>3, OnceMoves
<1> QED BY <1>10, <1>11

LEMMA OnceLookStep ==
  ASSUME DispatchInv, Once, source = "webhook", NEW w \in Workers, Look(w)
  PROVE  Once'
<1>1. UNCHANGED <<run, task, issue, item, mode>> /\ Active(w)
  BY DEF Look, Advance, Active, occurrenceVars
<1>2. OneOfEach'
  BY <1>1, ShapeKeeps, SameRows DEF Once
<1>3. CASE \E to \in {"ignore", "finish", "insert", "error"} : Advance(w, "look", to)
  BY <1>1, <1>2, <1>3, OnceGoes
<1>4. CASE Existing # 0 /\ ResumeFor(w, Existing)
  BY <1>1, <1>4, ExistingIsRun, OnceResumes DEF DispatchInv
<1> QED BY <1>3, <1>4 DEF Look

LEMMA OnceInsertStep ==
  ASSUME DispatchInv, Once, source = "webhook", NEW w \in Workers, NEW skip \in BOOLEAN,
         Insert(w, skip)
  PROVE  Once'
<1>1. UNCHANGED <<task, issue, item, mode>> /\ Active(w) /\ worker[w] \in WorkerRec
      /\ mode \in {"run_only", "create_issue"}
  BY DEF Insert, Active, occurrenceVars, DispatchInv, ConfigOK
<1>2. CASE Existing = 0
  <2>1. PICK s : s = IF skip THEN "skipped" ELSE Initially
    OBVIOUS
  <2>2. s = "running" => mode = "run_only"
    BY <2>1 DEF Initially
  <2>3. run' = NewRun(s)
    BY <1>2, <2>1 DEF Insert
  <2>4. OneOfEach' /\ Len(issue') = 0 /\ (mode = "create_issue" => Len(task') = 0)
    BY <1>1, <1>2, <2>2, <2>3, FirstRun
  <2>5. PICK to : to = IF skip THEN "finish"
                       ELSE IF source = "webhook" /\ mode = "run_only" THEN "relink" ELSE "create"
    OBVIOUS
  <2>6. PICK n : n = Len(run) + 1
    OBVIOUS
  <2>7. PICK k : k = [worker[w] EXCEPT !.at = to, !.run = n]
    OBVIOUS
  <2>8. k.at = to /\ k.token = worker[w].token
    BY <1>1, <2>7 DEF WorkerRec
  <2>9. worker' = [worker EXCEPT ![w] = k]
    BY <1>2, <2>5, <2>6, <2>7 DEF Insert
  <2>10. OnceAt(k)'
    BY <1>1, <2>4, <2>5, <2>8 DEF OnceAt
  <2> QED BY <1>1, <2>4, <2>8, <2>9, <2>10, OnceMoves
<1>3. CASE Existing # 0
  BY <1>1, <1>3, ExistingIsRun, OnceResumes DEF Insert, DispatchInv
<1> QED BY <1>2, <1>3

(* one run gets a status and a task *)
LEMMA OneRunSet ==
  ASSUME DispatchInv, Once, NEW r \in 1..Len(run), NEW s, NEW x,
         s \in RunOver \/ mode = "run_only",
         run' = [run EXCEPT ![r] = [run[r] EXCEPT !.status = s, !.task = x]],
         UNCHANGED <<issue, task, mode>>
  PROVE  OneOfEach'
<1>1. run[r] \in RunRec /\ DOMAIN run = 1..Len(run) /\ run \in Seq(RunRec)
  BY Lengths DEF DispatchInv, RowsOK
<1> DEFINE new == [run[r] EXCEPT !.status = s, !.task = x]
<1>2. new.slot = run[r].slot /\ new.issue = run[r].issue /\ new.status = s
  BY <1>1 DEF RunRec
<1>3. Len(run') = Len(run) /\ \A q \in 1..Len(run) : run'[q] = IF q = r THEN new ELSE run[q]
  BY <1>1
<1>4. "running" \notin RunOver
  BY DEF RunOver
<1> HIDE DEF new
<1> QED BY <1>2, <1>3, <1>4 DEF Once, OneOfEach

LEMMA OnceRelinkStep ==
  ASSUME DispatchInv, Once, NEW w \in Workers, Relink(w)
  PROVE  Once'
<1>1. UNCHANGED <<task, issue, item, mode>>
  BY DEF Relink, occurrenceVars
<1>2. PICK r \in 1..Len(run) : r = worker[w].run
  BY Lengths DEF Relink, DispatchInv, WorkerOK
<1>3. mode = "run_only" /\ r = 1 /\ Len(task) \in Nat
  BY <1>2, OneSlot DEF Relink, Once, OnceAt
<1>4. CASE (\E t \in Orphan(r) : LinkTo(r, t)) /\ Advance(w, "relink", "finish")
  <2>1. PICK t : LinkTo(r, t)
    BY <1>4
  <2>2. OneOfEach'
    BY <1>1, <1>3, <2>1, OneRunSet DEF LinkTo
  <2> QED BY <1>1, <1>4, <2>2, OnceGoes
<1>5. CASE UNCHANGED run /\ Advance(w, "relink", "error")
  <2>1. OneOfEach'
    BY <1>1, <1>5, ShapeKeeps, SameRows DEF Once
  <2> QED BY <1>1, <1>5, <2>1, OnceGoes
<1>6. CASE UNCHANGED run /\ Orphan(r) = {} /\ Advance(w, "relink", "create")
  <2>1. OneOfEach'
    BY <1>1, <1>6, ShapeKeeps, SameRows DEF Once
  <2>2. Len(task) = 0
    <3>1. Len(task) <= 1 /\ \A t \in 1..Len(task) : task[t].run = 1
      BY <1>3 DEF Once, OneOfEach
    <3>2. ASSUME Len(task) = 1 PROVE FALSE
      <4>1. DOMAIN task = 1..1
        BY <3>2, Lengths DEF DispatchInv
      <4>2. TasksOfRun(1) = {1}
        BY <3>1, <3>2, <4>1 DEF TasksOfRun
      <4>3. 1 \in Orphan(1)
        BY <4>2 DEF Orphan
      <4> QED BY <1>3, <1>6, <4>3
    <3>3. PICK n \in Nat : n = Len(task)
      BY <1>3
    <3>4. n <= 1 /\ n # 1
      BY <3>1, <3>2, <3>3
    <3> QED BY <3>3, <3>4
  <2>3. Len(issue) = 0
    BY <1>3 DEF Once, OneOfEach
  <2> QED BY <1>1, <1>6, <2>1, <2>2, <2>3, OnceGoes
<1> QED BY <1>2, <1>4, <1>5, <1>6 DEF Relink

LEMMA OnceSkipOrFail ==
  ASSUME DispatchInv, Once, NEW w \in Workers, NEW from \in {"create", "enqueue"},
         UNCHANGED <<task, issue, item, mode>>,
         SkipRun(w, from) \/ (Advance(w, from, "error") /\ FailRun(w))
  PROVE  Once'
<1>1. PICK r \in 1..Len(run) : r = worker[w].run
  BY Lengths DEF SkipRun, Advance, DispatchInv, WorkerOK
<1>2. run[r] \in RunRec
  BY Lengths DEF DispatchInv
<1>3. OneOfEach'
  <2>1. CASE UNCHANGED run
    BY <2>1, ShapeKeeps, SameRows DEF Once
  <2>2. ASSUME NEW s \in RunOver, SetRun(r, s) PROVE OneOfEach'
    <3>1. [run[r] EXCEPT !.status = s] = [run[r] EXCEPT !.status = s, !.task = run[r].task]
      BY <1>2 DEF RunRec
    <3>2. run' = [run EXCEPT ![r] = [run[r] EXCEPT !.status = s, !.task = run[r].task]]
      BY <2>2, <3>1, Lengths DEF SetRun
    <3> QED BY <3>2, OneRunSet
  <2> QED BY <1>1, <2>1, <2>2 DEF SkipRun, FailRun, RunOver
<1>4. PICK to \in {"finish", "error"} : Advance(w, from, to)
  BY DEF SkipRun
<1> QED BY <1>3, <1>4, OnceGoes

(* a first task of attempt 1 *)
LEMMA FirstTask ==
  ASSUME DispatchInv, Once, Len(task) = 0, NEW r, NEW i, task' = NewTask(r, i, 1, "queued"),
         UNCHANGED <<run, issue, mode>>, i = Len(issue),
         mode = "run_only" => r = 1, mode = "create_issue" => Len(issue) = 1
  PROVE  OneOfEach'
<1> DEFINE new == [run |-> r, issue |-> i, attempt |-> 1, status |-> "queued", told |-> "no"]
<1>1. Len(task') = 1 /\ task'[1] = new
  BY AppendProperties DEF NewTask, DispatchInv, RowsOK
<1>2. new.run = r /\ new.issue = i /\ new.attempt = 1
  OBVIOUS
<1> HIDE DEF new
<1>3. ASSUME NEW t \in 1..Len(task') PROVE t = 1 /\ task'[t] = new
  <2>1. t \in 1..1
    BY <1>1
  <2> QED BY <1>1, <2>1
<1>4. Len(issue') = Len(issue) /\ Len(run') = Len(run) /\ mode' = mode
  OBVIOUS
<1>5. Len(run') <= 1 /\ Len(issue') <= Len(run')
      /\ \A q \in 1..Len(run') : /\ run'[q].slot /\ run'[q].issue = Len(issue')
                                 /\ run'[q].status = "running" => mode' = "run_only"
  BY <1>4 DEF Once, OneOfEach
<1>6. \A t \in 1..Len(task') : /\ task'[t].issue = Len(issue') /\ task'[t].attempt > 0
                               /\ t > 1 => task'[t].attempt > 1
  BY <1>2, <1>3, <1>4
<1>7. mode' = "run_only" => /\ Len(issue') = 0 /\ Len(task') <= 1
                            /\ \A t \in 1..Len(task') : task'[t].run = 1
  BY <1>1, <1>2, <1>3, <1>4 DEF Once, OneOfEach
<1>8. mode' = "create_issue" => Len(issue') = 1
  BY <1>4
<1> QED BY <1>5, <1>6, <1>7, <1>8 DEF OneOfEach

LEMMA OnceMade ==
  ASSUME DispatchInv, Once, NEW w \in Workers, worker[w].at = "create", NEW to, NEW id,
         Made(w, to, id), UNCHANGED <<item, mode>>, OneOfEach',
         to \in {"link", "enqueue"}, to = "link" => mode = "run_only",
         to = "enqueue" => mode = "create_issue" /\ Len(task') = 0 /\ id = 1
  PROVE  Once'
<1>1. worker[w] \in WorkerRec /\ Active(w)
  BY DEF DispatchInv, Active
<1>2. PICK k : k = [worker[w] EXCEPT !.at = to, !.made = id]
  OBVIOUS
<1>3. k.at = to /\ k.made = id /\ k.token = worker[w].token
  BY <1>1, <1>2 DEF WorkerRec
<1>4. worker' = [worker EXCEPT ![w] = k]
  BY <1>2 DEF Made
<1>5. OnceAt(k)'
  BY <1>3 DEF OnceAt
<1> QED BY <1>1, <1>3, <1>4, <1>5, OnceMoves

LEMMA OnceCreateTaskStep ==
  ASSUME DispatchInv, Once, NEW w \in Workers, CreateTask(w)
  PROVE  Once'
<1>1. UNCHANGED <<issue, item, mode>> /\ worker[w].at = "create" /\ mode = "run_only"
  BY DEF CreateTask, occurrenceVars
<1>2. PICK r \in 1..Len(run) : r = worker[w].run
  BY Lengths DEF CreateTask, DispatchInv, WorkerOK
<1>3. CASE UNCHANGED run /\ Made(w, "link", Len(task) + 1)
                        /\ task' = NewTask(worker[w].run, 0, 1, "queued")
  <2>1. r = 1 /\ Len(task) = 0 /\ Len(issue) = 0
    BY <1>1, OneSlot DEF Once, OnceAt
  <2>2. OneOfEach'
    BY <1>1, <1>2, <1>3, <2>1, FirstTask
  <2>3. PICK id : Made(w, "link", id)
    BY <1>3
  <2> QED BY <1>1, <2>2, <2>3, OnceMade
<1>4. CASE UNCHANGED task /\ (SkipRun(w, "create") \/ (Advance(w, "create", "error") /\ FailRun(w)))
  BY <1>1, <1>4, OnceSkipOrFail
<1> QED BY <1>3, <1>4 DEF CreateTask

LEMMA OnceLinkStep ==
  ASSUME DispatchInv, Once, NEW w \in Workers, Link(w)
  PROVE  Once'
<1>1. UNCHANGED <<task, issue, item, mode>> /\ Advance(w, "link", "finish")
  BY DEF Link, occurrenceVars
<1>2. PICK r \in 1..Len(run) : r = worker[w].run
  BY <1>1, Lengths DEF Advance, DispatchInv, WorkerOK
<1>3. mode = "run_only"
  BY <1>1 DEF Advance, Once, OnceAt
<1>4. OneOfEach'
  <2>1. CASE LinkTo(r, worker[w].made)
    BY <1>1, <1>3, <2>1, OneRunSet DEF LinkTo
  <2>2. CASE UNCHANGED run
    BY <1>1, <2>2, ShapeKeeps, SameRows DEF Once
  <2> QED BY <1>2, <2>1, <2>2 DEF Link
<1> QED BY <1>1, <1>4, OnceGoes

LEMMA OnceCreateIssueStep ==
  ASSUME DispatchInv, Once, NEW w \in Workers, CreateIssue(w)
  PROVE  Once'
<1>1. UNCHANGED <<task, item, mode>> /\ worker[w].at = "create" /\ mode = "create_issue"
  BY DEF CreateIssue, occurrenceVars
<1>2. PICK r \in 1..Len(run) : r = worker[w].run
  BY Lengths DEF CreateIssue, DispatchInv, WorkerOK
<1>3. CASE /\ Made(w, "enqueue", Len(issue) + 1)
           /\ issue' = Append(issue, [status |-> "open", told |-> FALSE])
           /\ run' = [run EXCEPT ![r] = [@ EXCEPT !.status = "issue_created",
                                                  !.issue = Len(issue) + 1]]
  <2>1. r = 1 /\ Len(run) = 1 /\ Len(task) = 0 /\ Len(issue) = 0
    BY <1>1, OneSlot DEF Once, OnceAt
  <2>2. Len(issue') = 1
    BY <1>3, <2>1, AppendProperties DEF DispatchInv, RowsOK
  <2>3. run[r] \in RunRec /\ run \in Seq(RunRec) /\ DOMAIN run = 1..1
    BY <2>1, Lengths DEF DispatchInv, RowsOK
  <2>4. PICK new : new = [run[r] EXCEPT !.status = "issue_created", !.issue = 1]
    OBVIOUS
  <2>5. new.slot = run[r].slot /\ new.issue = 1 /\ new.status = "issue_created"
    BY <2>3, <2>4 DEF RunRec
  <2>6. Len(run') = 1 /\ run'[1] = new
    BY <1>3, <2>1, <2>3, <2>4
  <2>7. OneOfEach'
    BY <1>1, <2>1, <2>2, <2>5, <2>6 DEF Once, OneOfEach
  <2> QED BY <1>1, <1>3, <2>1, <2>7, OnceMade
<1>4. CASE UNCHANGED issue /\ (SkipRun(w, "create") \/ (Advance(w, "create", "error") /\ FailRun(w)))
  BY <1>1, <1>4, OnceSkipOrFail
<1> QED BY <1>2, <1>3, <1>4 DEF CreateIssue

LEMMA OnceEnqueueStep ==
  ASSUME DispatchInv, Once, NEW w \in Workers, Enqueue(w)
  PROVE  Once'
<1>1. UNCHANGED <<issue, item, mode>> /\ worker[w].at = "enqueue"
  BY DEF Enqueue, Advance, occurrenceVars
<1>2. CASE /\ Advance(w, "enqueue", "finish") /\ UNCHANGED run
           /\ task' = NewTask(0, worker[w].made, 1, "queued")
  <2>1. Len(task) = 0 /\ worker[w].made = 1 /\ mode = "create_issue"
    BY <1>1 DEF Once, OnceAt
  <2>2. Len(issue) = 1
    <3>1. worker[w].run \in 1..Len(run) /\ run[worker[w].run].issue # 0
      BY <1>1, Lengths DEF DispatchInv, WorkerOK
    <3> QED BY <3>1, OneSlot DEF Once, OneOfEach
  <2>3. OneOfEach'
    BY <1>1, <1>2, <2>1, <2>2, FirstTask
  <2> QED BY <1>1, <1>2, <2>3, OnceGoes
<1>3. CASE UNCHANGED task /\ Advance(w, "enqueue", "error") /\ FailRun(w)
  BY <1>1, <1>3, OnceSkipOrFail
<1> QED BY <1>2, <1>3 DEF Enqueue

LEMMA OnceRepairStep ==
  ASSUME DispatchInv, Once, NEW w \in Workers, Repair(w)
  PROVE  Once'
<1>1. UNCHANGED <<run, issue, item, mode>> /\ worker[w].at = "repair"
  BY DEF Repair, occurrenceVars
<1>2. PICK r \in 1..Len(run) : r = worker[w].run
  BY <1>1, Lengths DEF DispatchInv, WorkerOK
<1>3. /\ mode = "create_issue" /\ run[r].issue = Len(issue) /\ Len(issue) = 1
      /\ Len(task) \in Nat
  BY <1>1, <1>2, OneSlot DEF DispatchInv, WorkerOK, Once, OneOfEach, OnceAt
<1>4. OneOfEach'
  <2>1. CASE UNCHANGED task
    BY <1>1, <2>1, ShapeKeeps, SameRows DEF Once
  <2>2. CASE TasksOf(run[r].issue) = {} /\ task' = NewTask(0, run[r].issue, 1, "queued")
    <3>1. DOMAIN task = 1..Len(task) /\ \A t \in 1..Len(task) : task[t].issue = Len(issue)
      BY Lengths DEF DispatchInv, Once, OneOfEach
    <3>2. \A t \in 1..Len(task) : t \in TasksOf(run[r].issue)
      BY <1>3, <3>1 DEF TasksOf
    <3>3. Len(task) = 0
      BY <1>3, <2>2, <3>2
    <3> QED BY <1>1, <1>3, <2>2, <3>3, FirstTask
  <2> QED BY <1>2, <2>1, <2>2 DEF Repair
<1>5. PICK to \in {"error", "finish"} : Advance(w, "repair", to)
  BY DEF Repair
<1> QED BY <1>1, <1>4, <1>5, OnceGoes

(* the queue and the listeners mark rows, or add a later attempt *)
LEMMA OnceShape ==
  ASSUME DispatchInv, Once, SameShape, UNCHANGED <<worker, item, mode>>
  PROVE  Once'
<1>1. OneOfEach'
  BY ShapeKeeps DEF Once
<1>2. Len(issue') = Len(issue) /\ Len(task') = Len(task) /\ Len(task) \in Nat
  BY OneSlot DEF SameShape
<1> QED BY <1>1, <1>2, OnceStays

LEMMA OnceEndTaskStep ==
  ASSUME DispatchInv, Once, NEW t \in DOMAIN task, NEW how \in TaskOver, TaskEnds(t, how)
  PROVE  Once'
<1>1. UNCHANGED <<run, issue, worker, item, mode>>
  BY DEF TaskEnds, occurrenceVars
<1>2. PICK retry \in RetryOf(t, how) : task' = [task EXCEPT ![t].status = how] \o retry
  BY DEF TaskEnds
<1>3. PICK ended : ended = [task EXCEPT ![t].status = how]
  OBVIOUS
<1>4. TaskMarkedTo(t, ended)
  BY <1>3, StatusMarks DEF DispatchInv
<1>5. CASE retry = <<>>
  <2>1. task' = ended
    BY <1>2, <1>3, <1>4, <1>5, ConcatEmptySeq DEF TaskMarkedTo
  <2>2. SameShape
    BY <1>1, <1>4, <2>1 DEF SameShape, TaskMarkedTo
  <2> QED BY <1>1, <2>2, OnceShape
<1>6. CASE retry # <<>>
  <2>1. PICK s : /\ retry = <<[task[t] EXCEPT !.attempt = @ + 1, !.status = s]>>
                 /\ task[t].issue # 0
    BY <1>2, <1>6 DEF RetryOf
  <2>2. task[t] \in TaskRec /\ t \in 1..Len(task) /\ Len(task) \in Nat
    BY Lengths DEF DispatchInv
  <2>3. PICK n \in Nat : n = task[t].attempt + 1
    BY <2>2 DEF TaskRec
  <2>4. PICK new : new = [task[t] EXCEPT !.attempt = n, !.status = s]
    OBVIOUS
  <2>5. new.attempt = task[t].attempt + 1 /\ new.issue = task[t].issue /\ new.run = task[t].run
    BY <2>2, <2>3, <2>4 DEF TaskRec
  <2>6. task' = ended \o <<new>>
    BY <1>2, <1>3, <2>1, <2>3, <2>4
  <2>7. /\ Len(task') = Len(task) + 1 /\ task'[Len(task) + 1] = new
        /\ \A u \in 1..Len(task) : task'[u] = ended[u]
    BY <1>4, <2>2, <2>6 DEF TaskMarkedTo
  <2>8. task[t].issue = Len(issue) /\ task[t].attempt \in Nat /\ task[t].attempt > 0
    BY <2>2 DEF Once, OneOfEach, TaskRec
  <2>9. mode = "create_issue"
    BY <2>1, <2>8 DEF Once, OneOfEach, DispatchInv, ConfigOK
  <2>10. \A u \in 1..Len(task') :
           /\ task'[u].issue = Len(issue)
           /\ task'[u].attempt > 0 /\ (u > 1 => task'[u].attempt > 1)
    <3> SUFFICES ASSUME NEW u \in 1..Len(task')
                 PROVE  /\ task'[u].issue = Len(issue)
                        /\ task'[u].attempt > 0 /\ (u > 1 => task'[u].attempt > 1)
      OBVIOUS
    <3>1. CASE u \in 1..Len(task)
      BY <1>4, <2>7, <3>1 DEF TaskMarkedTo, Once, OneOfEach
    <3>2. CASE u = Len(task) + 1
      BY <2>5, <2>7, <2>8, <3>2
    <3> QED BY <2>2, <2>7, <3>1, <3>2
  <2>11. OneOfEach'
    BY <1>1, <2>2, <2>9, <2>10 DEF Once, OneOfEach
  <2> QED BY <1>1, <2>2, <2>11, OnceStays
<1> QED BY <1>5, <1>6

LEMMA OnceMarkStep ==
  ASSUME DispatchInv, Once, NEW t \in DOMAIN task, Promote(t) \/ Unheard(t)
  PROVE  Once'
<1>1. UNCHANGED <<run, issue, worker, item, mode>>
  BY DEF Promote, Unheard, occurrenceVars
<1>2. TaskMarked(t)
  <2>1. CASE Promote(t)
    BY <2>1, StatusIsMark DEF Promote, DispatchInv
  <2>2. CASE Unheard(t)
    BY <2>2, ToldIsMark DEF Unheard, DispatchInv
  <2> QED BY <2>1, <2>2
<1>3. SameShape
  BY <1>1, <1>2 DEF SameShape, TaskMarked, TaskMarkedTo
<1> QED BY <1>1, <1>3, OnceShape

LEMMA OnceRunsEnd ==
  ASSUME DispatchInv, Once, NEW t, TaskMarked(t), UNCHANGED <<issue, worker, item, mode>>,
         NEW R, NEW s \in RunOver,
         run' = [r \in DOMAIN run |-> IF r \in R THEN [run[r] EXCEPT !.status = s] ELSE run[r]]
  PROVE  Once'
<1>1. SameShape
  BY RunsEnd DEF SameShape, TaskMarked, TaskMarkedTo, DispatchInv
<1> QED BY <1>1, OnceShape

LEMMA OnceHearStep ==
  ASSUME DispatchInv, Once, NEW t \in DOMAIN task, Hear(t) \/ Verdict(t)
  PROVE  Once'
<1>1. UNCHANGED <<issue, worker, item, mode>>
  BY DEF Hear, Verdict, occurrenceVars
<1>2. PICK x \in {"judged", "yes"} : task' = [task EXCEPT ![t].told = x]
  BY DEF Hear, Verdict
<1>3. TaskMarked(t)
  BY <1>2, ToldIsMark DEF DispatchInv
<1>4. CASE Hear(t) /\ task[t].run # 0
  <2>1. PICK s \in RunOver :
          s = IF task[t].status = "completed" THEN "completed" ELSE "failed"
    BY DEF RunOver
  <2>2. PICK q : q = task[t].run
    OBVIOUS
  <2>3. run' = [run EXCEPT ![q].status = s]
    BY <1>4, <2>1, <2>2 DEF Hear, SetRun
  <2>4. run' = [r \in DOMAIN run |->
                  IF r \in {q} THEN [run[r] EXCEPT !.status = s] ELSE run[r]]
    BY <2>3
  <2> QED BY <1>1, <1>3, <2>4, OnceRunsEnd
<1>5. CASE Hear(t) /\ task[t].run = 0
  <2>1. UNCHANGED run
    BY <1>5 DEF Hear
  <2>2. SameShape
    BY <1>1, <1>3, <2>1 DEF SameShape, TaskMarked, TaskMarkedTo
  <2> QED BY <1>1, <2>2, OnceShape
<1>6. CASE Verdict(t)
  <2>1. PICK R : R = {r \in DOMAIN run : run[r].issue = task[t].issue}
    OBVIOUS
  <2>2. run' = [r \in DOMAIN run |->
                  IF r \in R THEN [run[r] EXCEPT !.status = "failed"] ELSE run[r]]
    BY <1>6, <2>1 DEF Verdict
  <2> QED BY <1>1, <1>3, <2>2, OnceRunsEnd DEF RunOver
<1> QED BY <1>4, <1>5, <1>6

LEMMA OnceIssueStep ==
  ASSUME DispatchInv, Once, NEW i \in DOMAIN issue,
         HearIssue(i) \/ MoveIssue(i, "done") \/ MoveIssue(i, "closed")
  PROVE  Once'
<1>1. UNCHANGED <<task, worker, item, mode>>
  BY DEF HearIssue, MoveIssue, occurrenceVars
<1>2. i \in 1..Len(issue) /\ issue[i] \in IssueRec
  BY Lengths DEF DispatchInv
<1>3. PICK x \in IssueRec : issue' = [issue EXCEPT ![i] = x]
  BY <1>2 DEF HearIssue, MoveIssue, IssueRec
<1>4. Len(issue') = Len(issue)
  BY <1>2, <1>3, ExceptSeq DEF DispatchInv, RowsOK
<1>5. /\ Len(run') = Len(run)
      /\ \A r \in 1..Len(run) :
           /\ run'[r].slot = run[r].slot /\ run'[r].issue = run[r].issue
           /\ run'[r].status = run[r].status \/ run'[r].status \in RunOver
  <2>1. CASE HearIssue(i)
    <3>1. PICK s \in RunOver : s = IF issue[i].status = "done" THEN "completed" ELSE "failed"
      BY DEF RunOver
    <3>2. PICK R : R = RunOfIssue(i)
      OBVIOUS
    <3>3. run' = [r \in DOMAIN run |->
                    IF r \in R THEN [run[r] EXCEPT !.status = s] ELSE run[r]]
      BY <2>1, <3>1, <3>2 DEF HearIssue
    <3> QED BY <3>3, RunsEnd DEF DispatchInv
  <2>2. CASE MoveIssue(i, "done") \/ MoveIssue(i, "closed")
    BY <2>2 DEF MoveIssue
  <2> QED BY <2>1, <2>2
<1>6. SameShape
  BY <1>1, <1>4, <1>5 DEF SameShape
<1> QED BY <1>1, <1>6, OnceShape

(* the source stays, and so does the memory of an outlived lease *)
LEMMA SourceStays ==
  ASSUME [DispatchNext]_dispatchVars
  PROVE  UNCHANGED source /\ (UNCHANGED overlapped \/ overlapped' = TRUE)
<1>1. CASE Outlived
  BY <1>1 DEF Outlived, occurrenceVars
<1>2. CASE Receive \/ LeaseExpires \/ IgnoreDelivery
  BY <1>2 DEF Receive, IgnoreDelivery, LeaseExpires, occurrenceVars, history
<1>3. CASE \E skip \in BOOLEAN : Admit(skip)
  BY <1>3 DEF Admit, occurrenceVars
<1>4. ASSUME NEW w \in Workers, Claim(w) \/ WorkerStep(w) \/ Crash(w)
      PROVE  UNCHANGED <<source, overlapped>>
  <2>1. CASE Claim(w)
    BY <2>1 DEF Claim, occurrenceVars, history
  <2>2. CASE Look(w) \/ Recover(w) \/ Crash(w)
    BY <2>2 DEF Look, Recover, Crash, occurrenceVars
  <2>3. CASE \E skip \in BOOLEAN : Insert(w, skip)
    BY <2>3 DEF Insert, occurrenceVars
  <2>4. CASE Relink(w) \/ CreateTask(w) \/ Link(w) \/ CreateIssue(w)
    BY <2>4 DEF Relink, CreateTask, Link, CreateIssue, occurrenceVars
  <2>5. CASE Enqueue(w) \/ Repair(w)
    BY <2>5 DEF Enqueue, Repair, occurrenceVars
  <2>6. CASE Finish(w) \/ Ignore(w) \/ Error(w)
    BY <2>6 DEF Finish, Ignore, Error, occurrenceVars, history
  <2> QED BY <1>4, <2>1, <2>2, <2>3, <2>4, <2>5, <2>6 DEF WorkerStep
<1>5. ASSUME NEW t, Hear(t) \/ Verdict(t) \/ Unheard(t) \/ Promote(t)
                    \/ \E how \in TaskOver : TaskEnds(t, how)
      PROVE  UNCHANGED <<source, overlapped>>
  <2>1. CASE Hear(t) \/ Unheard(t)
    BY <2>1 DEF Hear, Unheard, occurrenceVars
  <2>2. CASE Verdict(t) \/ Promote(t)
    BY <2>2 DEF Verdict, Promote, occurrenceVars, history
  <2>3. CASE \E how \in TaskOver : TaskEnds(t, how)
    BY <2>3 DEF TaskEnds, occurrenceVars, history
  <2> QED BY <1>5, <2>1, <2>2, <2>3
<1>6. ASSUME NEW i, HearIssue(i) \/ \E to \in {"done", "closed"} : MoveIssue(i, to)
      PROVE  UNCHANGED <<source, overlapped>>
  BY <1>6 DEF HearIssue, MoveIssue, occurrenceVars, history
<1>7. CASE Toggle \/ CrashIngress
  BY <1>7 DEF Toggle, CrashIngress, occurrenceVars
<1>8. CASE UNCHANGED dispatchVars
  BY <1>8 DEF dispatchVars, occurrenceVars, history
<1>9. CASE Listen \/ Trial \/ Environment
  BY <1>1, <1>4, <1>5, <1>6, <1>7, <1>9 DEF Listen, Trial, Environment
<1>10. CASE Receive \/ IngressStep \/ LeaseExpires
  BY <1>2, <1>3, <1>10 DEF IngressStep
<1> QED BY <1>4, <1>8, <1>9, <1>10 DEF DispatchNext

LEMMA OnceSteps ==
  ASSUME DispatchInv, OnceInv, [DispatchNext]_dispatchVars
  PROVE  OnceInv'
<1>1. UNCHANGED source /\ (UNCHANGED overlapped \/ overlapped' = TRUE)
  BY SourceStays
<1> SUFFICES ASSUME source = "webhook", ~overlapped, ~overlapped' PROVE Once'
  BY <1>1 DEF OnceInv
<1>2. Once
  BY DEF OnceInv
<1>3. CASE Receive \/ IngressStep \/ LeaseExpires
  BY <1>2, <1>3, OnceItemStep, OnceAdmitStep DEF IngressStep
<1>4. CASE \E w \in Workers : Claim(w) \/ WorkerStep(w)
  <2>1. PICK w \in Workers : Claim(w) \/ WorkerStep(w)
    BY <1>4
  <2>2. ~Recover(w)
    BY <1>2 DEF Recover, Advance, Once, OnceAt
  <2> QED BY <1>2, <2>1, <2>2, OnceClaimStep, OnceLookStep, OnceInsertStep, OnceRelinkStep,
     OnceCreateTaskStep, OnceLinkStep, OnceCreateIssueStep, OnceEnqueueStep, OnceRepairStep,
     OnceLeaveStep DEF WorkerStep
<1>5. CASE Listen
  BY <1>2, <1>5, OnceHearStep, OnceIssueStep DEF Listen
<1>6. CASE Trial
  <2>1. ~Outlived
    BY DEF Outlived
  <2> QED BY <1>2, <1>6, <2>1, OnceItemStep, OnceLeaveStep, OnceMarkStep DEF Trial
<1>7. CASE Environment
  BY <1>2, <1>7, OnceMarkStep, OnceEndTaskStep, OnceIssueStep DEF Environment
<1>8. CASE UNCHANGED dispatchVars
  <2>1. UNCHANGED <<run, task, issue, worker, item, mode>>
    BY <1>8 DEF dispatchVars, occurrenceVars
  <2> QED BY <1>2, <2>1, SameRows, OnceShape
<1> QED BY <1>3, <1>4, <1>5, <1>6, <1>7, <1>8 DEF DispatchNext

LEMMA OnceInitially ==
  ASSUME DispatchInit
  PROVE  OnceInv
<1>1. /\ Len(run) = 0 /\ Len(task) = 0 /\ Len(issue) = 0
      /\ worker = [w \in Workers |-> Idle] /\ Idle.at = "idle"
  BY DEF DispatchInit, Idle
<1> QED BY <1>1 DEF OnceInv, Once, Lone, Active, OneOfEach, OnceAt

LEMMA InvIsOnce ==
  ASSUME DispatchInv, OnceInv
  PROVE  DeliveryOnce
<1> SUFFICES ASSUME Once PROVE Len(run) <= 1 /\ Len(issue) <= 1 /\ Cardinality(Roots) <= 1
  BY DEF DeliveryOnce, OnceInv
<1>1. Len(run) <= 1 /\ Len(issue) <= 1
  BY OneSlot DEF Once, OneOfEach
<1>2. Roots \subseteq {1}
  BY Lengths DEF Roots, Once, OneOfEach, DispatchInv
<1>3. IsFiniteSet(Roots) /\ Cardinality(Roots) <= Cardinality({1})
  BY <1>2, FS_Singleton, FS_Subset
<1>4. Cardinality({1}) = 1
  BY FS_Singleton
<1> QED BY <1>1, <1>3, <1>4

(* A delivery makes one run, one issue and one first task at most, for any number of
   workers, attempts, crashes and errors, unless a dispatch outlived its lease
   (AdmitAutopilotWebhookDelivery, ensureWebhookCreateIssueTask) *)
THEOREM DeliveryIsOnce == DispatchSpec => []DeliveryOnce
<1>1. DispatchInit => DispatchInv /\ OnceInv
  BY DispatchInitially, OnceInitially
<1>2. DispatchInv /\ OnceInv /\ [DispatchNext]_dispatchVars => DispatchInv' /\ OnceInv'
  BY StepKeepsInv, OnceSteps
<1>3. DispatchInv /\ OnceInv => DeliveryOnce
  BY InvIsOnce
<1> QED BY <1>1, <1>2, <1>3, PTL DEF DispatchSpec

-----------------------------------------------------------------------------
(* The end of the work reaches the run *)

Over(r) == run[r].status \in RunOver
Flying(r) == ~Over(r) /\ r \notin relinked
(* the listeners have heard that the work of r is over *)
Ended(r) ==
  \/ \E t \in 1..Len(task) : task[t].run = r /\ task[t].told = "yes"
  \/ /\ run[r].issue # 0 /\ issue[run[r].issue].status = "open"
     /\ \E t \in 1..Len(task) : task[t].issue = run[r].issue
     /\ \A t \in 1..Len(task) : task[t].issue = run[r].issue =>
          task[t].status = "failed" /\ task[t].told = "yes"

(* a task has a run or an issue, and what the listeners heard of it was its end *)
TaskOK(k) ==
  /\ k.run <= Len(run) /\ k.issue <= Len(issue) /\ (k.run # 0 => k.issue = 0)
  /\ k.told # "no" => k.status \in TaskOver
  /\ k.told = "judged" => k.run = 0
EndInv ==
  /\ \A r \in 1..Len(run) : run[r].issue <= Len(issue) /\ (Flying(r) => ~Ended(r))
  /\ \A t \in 1..Len(task) : TaskOK(task[t])
  /\ \A w \in Workers : worker[w].at = "enqueue" => worker[w].made <= Len(issue)

(* What any step keeps: runs get at most a new issue and are not reopened unnoticed, ... *)
RunsGo ==
  /\ Len(run) <= Len(run')
  /\ \A r \in 1..Len(run') : r > Len(run) => run'[r].issue = 0
  /\ \A r \in 1..Len(run) :
       /\ run'[r].issue = run[r].issue \/ run'[r].issue \in (Len(issue) + 1)..Len(issue')
       /\ Flying(r)' => Flying(r)
IssuesGo ==
  /\ Len(issue) <= Len(issue')
  /\ \A i \in 1..Len(issue) : issue'[i].status = "open" => issue[i].status = "open"
(* ... and a task of which the listeners hear the end leaves none of its runs in flight,
   unless another attempt goes on. *)
Heard(t) ==
  \A r \in 1..Len(run) : Flying(r)' =>
    /\ task[t].run # r
    /\ task[t].issue = run[r].issue /\ task[t].issue # 0 =>
         \E u \in 1..Len(task) : task[u].issue = task[t].issue /\ task'[u].status # "failed"
TasksGo ==
  /\ Len(task) <= Len(task')
  /\ \A t \in 1..Len(task) :
       /\ task'[t].run = task[t].run /\ task'[t].issue = task[t].issue
       /\ task[t].told = "yes" => task'[t].status = task[t].status
       /\ task'[t].told = "yes" => task[t].told = "yes" \/ Heard(t)
  /\ \A t \in 1..Len(task') : TaskOK(task[t])' /\ (t > Len(task) => task'[t].told = "no")
WorkersGo ==
  \A w \in Workers : worker'[w].at = "enqueue" =>
    worker'[w] = worker[w] \/ worker'[w].made <= Len(issue')

LEMMA UnendedStays ==
  ASSUME DispatchInv, DispatchInv', EndInv, RunsGo, IssuesGo, TasksGo,
         NEW r \in 1..Len(run), Flying(r)'
  PROVE  ~Ended(r)'
<1>1. Flying(r) /\ ~Ended(r) /\ run[r].issue <= Len(issue) /\ run[r].issue \in Nat
  BY Lengths DEF RunsGo, EndInv, DispatchInv, RunRec
<1>2. Len(task) \in Nat /\ Len(issue) \in Nat /\ 1..Len(task) \subseteq 1..Len(task')
  BY Lengths, LenProperties DEF DispatchInv, RowsOK, TasksGo
<1>3. \A t \in 1..Len(task') : task'[t].told = "yes" => t \in 1..Len(task)
  BY <1>2, LenProperties DEF TasksGo, DispatchInv, RowsOK
<1>4. ASSUME NEW t \in 1..Len(task'), task'[t].run = r, task'[t].told = "yes" PROVE FALSE
  <2>1. t \in 1..Len(task) /\ task[t].run = r
    BY <1>3, <1>4 DEF TasksGo
  <2>2. task[t].told = "yes"
    BY <1>4, <2>1 DEF TasksGo, Heard
  <2> QED BY <1>1, <2>1, <2>2 DEF Ended
<1>5. ASSUME run'[r].issue # 0, issue'[run'[r].issue].status = "open",
             NEW t \in 1..Len(task'), task'[t].issue = run'[r].issue,
             \A u \in 1..Len(task') : task'[u].issue = run'[r].issue =>
               task'[u].status = "failed" /\ task'[u].told = "yes"
      PROVE  FALSE
  <2>1. t \in 1..Len(task) /\ task[t].issue = run'[r].issue
    BY <1>3, <1>5 DEF TasksGo
  <2>2. task[t].issue <= Len(issue) /\ task[t].issue \in Nat
    BY <2>1, Lengths DEF EndInv, TaskOK, DispatchInv, TaskRec
  <2>3. run'[r].issue = run[r].issue
    BY <1>2, <2>1, <2>2 DEF RunsGo
  <2>4. run[r].issue \in 1..Len(issue)
    BY <1>1, <1>2, <1>5, <2>3
  <2>5. issue[run[r].issue].status = "open"
    BY <1>5, <2>3, <2>4 DEF IssuesGo
  <2>6. ASSUME NEW u \in 1..Len(task), task[u].issue = run[r].issue
        PROVE  task[u].status = "failed" /\ task[u].told = "yes"
    <3>1. u \in 1..Len(task') /\ task'[u].issue = run'[r].issue
      BY <1>2, <2>3, <2>6 DEF TasksGo
    <3>2. task'[u].status = "failed" /\ task'[u].told = "yes"
      BY <1>5, <3>1
    <3>3. ~Heard(u)
      <4>1. ASSUME NEW v \in 1..Len(task), task[v].issue = task[u].issue
            PROVE  task'[v].status = "failed"
        <5>1. v \in 1..Len(task') /\ task'[v].issue = run'[r].issue
          BY <1>2, <2>3, <2>6, <4>1 DEF TasksGo
        <5> QED BY <1>5, <5>1
      <4> QED BY <1>5, <2>3, <2>6, <4>1 DEF Heard
    <3> QED BY <3>2, <3>3 DEF TasksGo
  <2> QED BY <1>1, <1>5, <2>1, <2>3, <2>5, <2>6 DEF Ended
<1> QED BY <1>4, <1>5 DEF Ended

LEMMA EndKept ==
  ASSUME DispatchInv, DispatchInv', EndInv, RunsGo, IssuesGo, TasksGo, WorkersGo
  PROVE  EndInv'
<1>1. /\ Len(run) \in Nat /\ Len(run') \in Nat /\ Len(issue) \in Nat /\ Len(issue') \in Nat
      /\ Len(task) \in Nat
  BY LenProperties DEF DispatchInv, RowsOK
<1>2. ASSUME NEW r \in 1..Len(run')
      PROVE  run'[r].issue <= Len(issue') /\ (Flying(r)' => ~Ended(r)')
  <2>1. CASE r \in 1..Len(run)
    <3>1. run[r].issue <= Len(issue) /\ run[r].issue \in Nat
      BY <2>1, Lengths DEF EndInv, DispatchInv, RunRec
    <3>2. run'[r].issue <= Len(issue')
      BY <1>1, <2>1, <3>1 DEF RunsGo, IssuesGo
    <3> QED BY <2>1, <3>2, UnendedStays
  <2>2. CASE r \notin 1..Len(run)
    <3>1. r > Len(run) /\ run'[r].issue = 0
      BY <1>1, <1>2, <2>2 DEF RunsGo
    <3>2. ASSUME NEW t \in 1..Len(task'), task'[t].told = "yes" PROVE task'[t].run # r
      <4>1. t \in 1..Len(task)
        BY <1>1, <3>2, LenProperties DEF TasksGo, DispatchInv, RowsOK
      <4>2. task[t].run <= Len(run) /\ task[t].run \in Nat
        BY <4>1, Lengths DEF EndInv, TaskOK, DispatchInv, TaskRec
      <4> QED BY <1>1, <3>1, <4>1, <4>2 DEF TasksGo
    <3> QED BY <1>1, <3>1, <3>2 DEF Ended
  <2> QED BY <2>1, <2>2
<1>3. \A t \in 1..Len(task') : TaskOK(task[t])'
  BY DEF TasksGo
<1>4. \A w \in Workers : worker'[w].at = "enqueue" => worker'[w].made <= Len(issue')
  <2> SUFFICES ASSUME NEW w \in Workers, worker'[w].at = "enqueue", worker'[w] = worker[w]
               PROVE  worker'[w].made <= Len(issue')
    BY DEF WorkersGo
  <2>1. worker[w].made <= Len(issue) /\ worker[w].made \in Nat
    BY DEF EndInv, DispatchInv, WorkerRec
  <2> QED BY <1>1, <2>1 DEF IssuesGo
<1> QED BY <1>2, <1>3, <1>4 DEF EndInv, TaskOK

LEMMA RunsRest ==
  ASSUME DispatchInv, UNCHANGED <<run, relinked>>
  PROVE  RunsGo
BY Lengths DEF RunsGo, Flying, Over, DispatchInv

LEMMA TasksRest ==
  ASSUME DispatchInv, DispatchInv', EndInv, RunsGo, IssuesGo, UNCHANGED task
  PROVE  TasksGo
<1>1. ASSUME NEW t \in 1..Len(task) PROVE TaskOK(task[t])'
  <2>1. PICK k : k = task[t]
    OBVIOUS
  <2>2. TaskOK(k) /\ k \in TaskRec
    BY <2>1, Lengths DEF EndInv, DispatchInv
  <2>3. k.run <= Len(run') /\ k.issue <= Len(issue')
    BY <2>2, LenProperties DEF TaskOK, TaskRec, DispatchInv, RowsOK, RunsGo, IssuesGo
  <2> QED BY <2>1, <2>2, <2>3 DEF TaskOK
<1> QED BY <1>1, Lengths DEF TasksGo, DispatchInv

LEMMA IssuesRest ==
  ASSUME DispatchInv, UNCHANGED issue
  PROVE  IssuesGo
BY Lengths DEF IssuesGo, DispatchInv

(* tasks and issues stay *)
LEMMA OnlyRunsGo ==
  ASSUME DispatchInv, DispatchInv', EndInv, WorkersGo, RunsGo, UNCHANGED <<task, issue>>
  PROVE  EndInv'
BY IssuesRest, TasksRest, EndKept

(* runs and issues stay *)
LEMMA OnlyTasksGo ==
  ASSUME DispatchInv, DispatchInv', EndInv, WorkersGo, TasksGo, UNCHANGED <<run, relinked, issue>>
  PROVE  EndInv'
BY IssuesRest, RunsRest, EndKept

LEMMA RowsRest ==
  ASSUME DispatchInv, DispatchInv', EndInv, WorkersGo, UNCHANGED <<run, relinked, task, issue>>
  PROVE  EndInv'
BY RunsRest, OnlyRunsGo

(* a new run has no work yet *)
LEMMA NewRunGoes ==
  ASSUME DispatchInv, NEW s, run' = NewRun(s), UNCHANGED relinked
  PROVE  RunsGo
<1> DEFINE new == [status |-> s, slot |-> TRUE, task |-> 0, issue |-> 0]
<1>1. Len(run') = Len(run) + 1 /\ Len(run) \in Nat
      /\ \A r \in 1..Len(run') : run'[r] = IF r <= Len(run) THEN run[r] ELSE new
  BY Lengths DEF NewRun, DispatchInv, RowsOK
<1>2. new.issue = 0
  OBVIOUS
<1> HIDE DEF new
<1> QED BY <1>1, <1>2 DEF RunsGo, Flying, Over

(* a run changes its status and its task; it is over then, or was in flight, or it is
   remembered as relinked *)
LEMMA RunRewritten ==
  ASSUME DispatchInv, NEW r \in 1..Len(run), NEW new,
         run' = [run EXCEPT ![r] = new], new.issue = run[r].issue,
         \A q \in 1..Len(run) : q \in relinked => q \in relinked' \/ (q = r /\ new.status \in RunOver),
         new.status \in RunOver \/ r \in relinked' \/ (~Over(r) /\ (r \in relinked => r \in relinked'))
  PROVE  RunsGo
<1>1. Len(run') = Len(run) /\ Len(run) \in Nat
      /\ \A q \in 1..Len(run) : run'[q] = IF q = r THEN new ELSE run[q]
  BY Lengths DEF DispatchInv, RowsOK
<1>2. ASSUME NEW q \in 1..Len(run), Flying(q)' PROVE Flying(q)
  <2>1. q # r => run'[q] = run[q]
    BY <1>1
  <2>2. q = r => run'[q] = new
    BY <1>1
  <2> QED BY <1>2, <2>1, <2>2 DEF Flying, Over
<1> QED BY <1>1, <1>2 DEF RunsGo

LEMMA SetRunGoes ==
  ASSUME DispatchInv, NEW r \in 1..Len(run), NEW s \in RunOver, SetRun(r, s),
         relinked' \in {relinked, relinked \ {r}}
  PROVE  RunsGo
<1>1. PICK new : new = [run[r] EXCEPT !.status = s]
  OBVIOUS
<1>2. run[r] \in RunRec
  BY Lengths DEF DispatchInv
<1>3. new.issue = run[r].issue /\ new.status \in RunOver
  BY <1>1, <1>2 DEF RunRec
<1>4. run' = [run EXCEPT ![r] = new]
  BY <1>1, Lengths DEF SetRun, DispatchInv
<1> QED BY <1>3, <1>4, RunRewritten

LEMMA LinkGoes ==
  ASSUME DispatchInv, NEW r \in 1..Len(run), NEW t, LinkTo(r, t)
  PROVE  RunsGo
<1>1. PICK new : new = [run[r] EXCEPT !.status = "running", !.task = t]
  OBVIOUS
<1>2. run[r] \in RunRec
  BY Lengths DEF DispatchInv
<1>3. new.issue = run[r].issue
  BY <1>1, <1>2 DEF RunRec
<1>4. run' = [run EXCEPT ![r] = new]
  BY <1>1, Lengths DEF LinkTo, DispatchInv
<1>5. relinked \subseteq relinked' /\ (Over(r) => r \in relinked')
  BY DEF LinkTo, Over
<1> QED BY <1>3, <1>4, <1>5, RunRewritten

(* a worker that does not come from an insert of an issue does not hold a new one *)
LEMMA AdvanceGoes ==
  ASSUME NEW w \in Workers, NEW from, NEW to, Advance(w, from, to), to # "enqueue", DispatchInv
  PROVE  WorkersGo
<1>1. worker \in [Workers -> WorkerRec]
  BY DEF DispatchInv
<1>2. PICK k : k = [worker[w] EXCEPT !.at = to]
  OBVIOUS
<1>3. k.at = to /\ worker' = [worker EXCEPT ![w] = k]
  BY <1>1, <1>2 DEF WorkerRec, Advance
<1> QED BY <1>1, <1>3 DEF WorkersGo

LEMMA WorkerSet ==
  ASSUME NEW w \in Workers, NEW k, worker' = [worker EXCEPT ![w] = k], k.at # "enqueue", DispatchInv
  PROVE  WorkersGo
BY DEF DispatchInv, WorkersGo

LEMMA ResumeGoes ==
  ASSUME NEW w \in Workers, NEW r, ResumeFor(w, r), DispatchInv
  PROVE  WorkersGo
<1>1. worker[w] \in WorkerRec
  BY DEF DispatchInv
<1>2. PICK to : to = Resume(r)
  OBVIOUS
<1>3. PICK bad : bad = (run[r].status = "failed")
  OBVIOUS
<1>4. PICK k : k = [worker[w] EXCEPT !.at = to, !.run = r, !.failed = bad]
  OBVIOUS
<1>5. source \in {"schedule", "webhook"}
  BY DEF DispatchInv, ConfigOK
<1>6. to # "enqueue"
  BY <1>2, <1>5 DEF Resume
<1>7. k.at # "enqueue" /\ worker' = [worker EXCEPT ![w] = k]
  BY <1>1, <1>2, <1>3, <1>4, <1>6 DEF WorkerRec, ResumeFor
<1> QED BY <1>7, WorkerSet

(* a task is made for a run, or for an issue *)
LEMMA NewTaskGoes ==
  ASSUME DispatchInv, DispatchInv', EndInv, NEW r \in 0..Len(run), NEW i \in 0..Len(issue),
         r = 0 \/ i = 0, task' = NewTask(r, i, 1, "queued"), UNCHANGED <<run, relinked, issue>>
  PROVE  TasksGo
<1> DEFINE new == [run |-> r, issue |-> i, attempt |-> 1, status |-> "queued", told |-> "no"]
<1>1. Len(task') = Len(task) + 1 /\ Len(task) \in Nat
      /\ \A t \in 1..Len(task') : task'[t] = IF t <= Len(task) THEN task[t] ELSE new
  BY Lengths DEF NewTask, DispatchInv, RowsOK
<1>2. new.run = r /\ new.issue = i /\ new.told = "no" /\ new.status = "queued"
  OBVIOUS
<1>3. Len(run) \in Nat /\ Len(issue) \in Nat
  BY Lengths DEF DispatchInv
<1> HIDE DEF new
<1>4. ASSUME NEW t \in 1..Len(task') PROVE TaskOK(task[t])'
  <2>1. CASE t <= Len(task)
    <3>1. TaskOK(task[t]) /\ task'[t] = task[t]
      BY <1>1, <2>1 DEF EndInv
    <3> QED BY <3>1 DEF TaskOK
  <2>2. CASE ~(t <= Len(task))
    <3>1. task'[t] = new
      BY <1>1, <2>2
    <3> QED BY <1>2, <1>3, <3>1 DEF TaskOK
  <2> QED BY <2>1, <2>2
<1> QED BY <1>1, <1>2, <1>4 DEF TasksGo

-----------------------------------------------------------------------------
(* The steps, one by one *)

LEMMA EndItemStep ==
  ASSUME DispatchInv, DispatchInv', EndInv,
         Receive \/ IgnoreDelivery \/ CrashIngress \/ Toggle \/ LeaseExpires \/ Outlived
  PROVE  EndInv'
<1>1. UNCHANGED <<run, relinked, task, issue, worker>>
  BY DEF Receive, IgnoreDelivery, CrashIngress, Toggle, LeaseExpires, Outlived, history
<1> QED BY <1>1, RowsRest DEF WorkersGo

LEMMA EndAdmitStep ==
  ASSUME DispatchInv, DispatchInv', EndInv, NEW skip \in BOOLEAN, Admit(skip)
  PROVE  EndInv'
<1>1. UNCHANGED <<relinked, task, issue, worker>> /\ WorkersGo
  BY DEF Admit, WorkersGo
<1>2. CASE UNCHANGED run
  BY <1>1, <1>2, RowsRest
<1>3. CASE \E s : run' = NewRun(s)
  BY <1>1, <1>3, NewRunGoes, OnlyRunsGo
<1> QED BY <1>2, <1>3 DEF Admit

LEMMA EndIdleStep ==
  ASSUME DispatchInv, DispatchInv', EndInv, NEW w \in Workers,
         Claim(w) \/ Crash(w) \/ Finish(w) \/ Ignore(w) \/ Error(w)
  PROVE  EndInv'
<1>1. UNCHANGED <<run, relinked, task, issue>>
  BY DEF Claim, Crash, Finish, Ignore, Error, history
<1>2. PICK k : k.at # "enqueue" /\ worker' = [worker EXCEPT ![w] = k]
  <2>1. CASE Claim(w)
    <3>1. PICK n, o : n = item.token + 1 /\ o = enabled
      OBVIOUS
    <3>2. PICK k : k = [Idle EXCEPT !.at = "look", !.token = n, !.open = o]
      OBVIOUS
    <3>3. k.at = "look"
      BY <3>2 DEF Idle
    <3>4. worker' = [worker EXCEPT ![w] = k]
      BY <2>1, <3>1, <3>2 DEF Claim
    <3> QED BY <3>3, <3>4
  <2>2. Idle.at = "idle"
    BY DEF Idle
  <2>3. CASE Crash(w) \/ Finish(w) \/ Ignore(w) \/ Error(w)
    BY <2>2, <2>3 DEF Crash, Finish, Ignore, Error, Retire
  <2> QED BY <2>1, <2>3
<1> QED BY <1>1, <1>2, WorkerSet, RowsRest

LEMMA EndLookStep ==
  ASSUME DispatchInv, DispatchInv', EndInv, NEW w \in Workers, Look(w)
  PROVE  EndInv'
<1>1. UNCHANGED <<run, relinked, task, issue>>
  BY DEF Look
<1>2. WorkersGo
  BY AdvanceGoes, ResumeGoes DEF Look
<1> QED BY <1>1, <1>2, RowsRest

LEMMA EndRecoverStep ==
  ASSUME DispatchInv, DispatchInv', EndInv, NEW w \in Workers, Recover(w)
  PROVE  EndInv'
<1>1. UNCHANGED <<relinked, task, issue>> /\ WorkersGo
  BY AdvanceGoes DEF Recover
<1>2. PICK r \in 1..Len(run) : r = worker[w].run
  BY Lengths DEF Recover, Advance, DispatchInv, WorkerOK
<1>3. RunsGo
  <2>1. CASE UNCHANGED run
    BY <1>1, <2>1, RunsRest
  <2>2. CASE ~UNCHANGED run
    <3>1. PICK new : new = [run[r] EXCEPT !.status = "failed", !.slot = FALSE]
      OBVIOUS
    <3>2. run[r] \in RunRec
      BY Lengths DEF DispatchInv
    <3>3. new.issue = run[r].issue /\ new.status \in RunOver
      BY <3>1, <3>2 DEF RunRec, RunOver
    <3>4. run' = [run EXCEPT ![r] = new]
      BY <1>2, <2>2, <3>1, Lengths DEF Recover, DispatchInv
    <3> QED BY <1>1, <3>3, <3>4, RunRewritten
  <2> QED BY <2>1, <2>2
<1> QED BY <1>1, <1>3, OnlyRunsGo

LEMMA EndInsertStep ==
  ASSUME DispatchInv, DispatchInv', EndInv, NEW w \in Workers, NEW skip \in BOOLEAN, Insert(w, skip)
  PROVE  EndInv'
<1>1. UNCHANGED <<relinked, task, issue>>
  BY DEF Insert
<1>2. worker[w] \in WorkerRec
  BY DEF DispatchInv
<1>3. RunsGo
  <2>1. CASE UNCHANGED run
    BY <1>1, <2>1, RunsRest
  <2>2. CASE \E s : run' = NewRun(s)
    BY <1>1, <2>2, NewRunGoes
  <2> QED BY <2>1, <2>2 DEF Insert
<1>4. WorkersGo
  <2>1. CASE \E r : ResumeFor(w, r)
    BY <2>1, ResumeGoes
  <2>2. CASE \E to \in {"finish", "relink", "create", "error"} : \E r :
               worker' = [worker EXCEPT ![w] = [@ EXCEPT !.at = to, !.run = r]]
    <3>1. PICK to \in {"finish", "relink", "create", "error"} : \E r :
            worker' = [worker EXCEPT ![w] = [worker[w] EXCEPT !.at = to, !.run = r]]
      BY <2>2
    <3>0. PICK r : worker' = [worker EXCEPT ![w] = [worker[w] EXCEPT !.at = to, !.run = r]]
      BY <3>1
    <3>2. PICK k : k = [worker[w] EXCEPT !.at = to, !.run = r]
      OBVIOUS
    <3>3. k.at # "enqueue"
      BY <1>2, <3>2 DEF WorkerRec
    <3> QED BY <3>0, <3>2, <3>3, WorkerSet
  <2> QED BY <2>1, <2>2 DEF Insert
<1> QED BY <1>1, <1>3, <1>4, OnlyRunsGo

LEMMA EndRelinkStep ==
  ASSUME DispatchInv, DispatchInv', EndInv, NEW w \in Workers, Relink(w) \/ Link(w)
  PROVE  EndInv'
<1>1. UNCHANGED <<task, issue>> /\ WorkersGo
  BY AdvanceGoes DEF Relink, Link
<1>2. PICK r \in 1..Len(run) : r = worker[w].run
  BY Lengths DEF Relink, Link, Advance, DispatchInv, WorkerOK
<1>3. RunsGo
  BY <1>2, RunsRest, LinkGoes DEF Relink, Link
<1> QED BY <1>1, <1>3, OnlyRunsGo

(* a dispatch that ends without its work *)
LEMMA EndSkipOrFail ==
  ASSUME DispatchInv, DispatchInv', EndInv, NEW w \in Workers, NEW from \in {"create", "enqueue"},
         UNCHANGED <<relinked, task, issue>>,
         SkipRun(w, from) \/ (Advance(w, from, "error") /\ FailRun(w))
  PROVE  EndInv'
<1>1. WorkersGo
  BY AdvanceGoes DEF SkipRun
<1>2. PICK r \in 1..Len(run) : r = worker[w].run
  BY Lengths DEF SkipRun, Advance, DispatchInv, WorkerOK
<1>3. RunsGo
  BY <1>2, RunsRest, SetRunGoes DEF SkipRun, FailRun, RunOver
<1> QED BY <1>1, <1>3, OnlyRunsGo

LEMMA EndCreateTaskStep ==
  ASSUME DispatchInv, DispatchInv', EndInv, NEW w \in Workers, CreateTask(w)
  PROVE  EndInv'
<1>1. UNCHANGED <<issue, relinked>>
  BY DEF CreateTask
<1>2. CASE Made(w, "link", Len(task) + 1) /\ task' = NewTask(worker[w].run, 0, 1, "queued")
           /\ UNCHANGED run
  <2>1. PICK r \in 0..Len(run) : r = worker[w].run
    BY DEF DispatchInv, WorkerOK
  <2>2. TasksGo
    BY <1>1, <1>2, <2>1, Lengths, NewTaskGoes DEF DispatchInv
  <2>3. PICK k : k = [worker[w] EXCEPT !.at = "link", !.made = Len(task) + 1]
    OBVIOUS
  <2>4. k.at # "enqueue"
    BY <2>3 DEF DispatchInv, WorkerRec
  <2>5. WorkersGo
    BY <1>2, <2>3, <2>4, WorkerSet DEF Made
  <2> QED BY <1>1, <1>2, <2>2, <2>5, OnlyTasksGo
<1>3. CASE UNCHANGED task /\ (SkipRun(w, "create") \/ (Advance(w, "create", "error") /\ FailRun(w)))
  BY <1>1, <1>3, EndSkipOrFail
<1> QED BY <1>2, <1>3 DEF CreateTask

LEMMA EndCreateIssueStep ==
  ASSUME DispatchInv, DispatchInv', EndInv, NEW w \in Workers, CreateIssue(w)
  PROVE  EndInv'
<1>1. UNCHANGED task
  BY DEF CreateIssue
<1>2. CASE Made(w, "enqueue", Len(issue) + 1)
  <2>1. PICK r \in 1..Len(run) : r = worker[w].run
    BY Lengths DEF CreateIssue, DispatchInv, WorkerOK
  <2>2. worker[w] \in WorkerRec /\ worker[w].at = "create" /\ run[r] \in RunRec
    BY <2>1, Lengths DEF CreateIssue, DispatchInv
  <2>3. PICK n \in Nat : n = Len(issue) + 1
    BY Lengths DEF DispatchInv
  <2>4. PICK k : k = [worker[w] EXCEPT !.at = "enqueue", !.made = n]
    OBVIOUS
  <2>5. k.at = "enqueue" /\ k.made = n /\ worker' = [worker EXCEPT ![w] = k]
    BY <1>2, <2>2, <2>3, <2>4 DEF WorkerRec, Made
  <2>6. worker \in [Workers -> WorkerRec]
    BY DEF DispatchInv
  <2>7. ~Advance(w, "create", "finish") /\ ~Advance(w, "create", "error")
    <3>1. worker'[w].at = "enqueue"
      BY <2>5, <2>6
    <3>2. ASSUME NEW to, Advance(w, "create", to) PROVE worker'[w].at = to
      BY <2>2, <2>6, <3>2 DEF Advance, WorkerRec
    <3> QED BY <3>1, <3>2
  <2>8. /\ issue' = Append(issue, [status |-> "open", told |-> FALSE])
        /\ run' = [run EXCEPT ![r] = [run[r] EXCEPT !.status = "issue_created", !.issue = n]]
        /\ relinked' = IF Over(r) THEN relinked \cup {r} ELSE relinked
    BY <2>1, <2>3, <2>7, Lengths DEF CreateIssue, SkipRun, Over, DispatchInv
  <2>9. /\ Len(issue') = Len(issue) + 1 /\ Len(issue) \in Nat
        /\ \A i \in 1..Len(issue) : issue'[i] = issue[i]
    BY <2>8, Lengths DEF DispatchInv, RowsOK
  <2>10. IssuesGo
    BY <2>9 DEF IssuesGo
  <2>11. PICK new : new = [run[r] EXCEPT !.status = "issue_created", !.issue = n]
    OBVIOUS
  <2>12. new.issue = n
    BY <2>2, <2>11 DEF RunRec
  <2>13. /\ Len(run') = Len(run) /\ Len(run) \in Nat
         /\ \A q \in 1..Len(run) : run'[q] = IF q = r THEN new ELSE run[q]
    BY <2>8, <2>11, Lengths DEF DispatchInv, RowsOK
  <2>14. ASSUME NEW q \in 1..Len(run), Flying(q)' PROVE Flying(q)
    <3>1. q # r => run'[q] = run[q]
      BY <2>13
    <3> QED BY <2>8, <2>14, <3>1 DEF Flying, Over
  <2>15. RunsGo
    BY <2>3, <2>9, <2>12, <2>13, <2>14 DEF RunsGo
  <2>16. WorkersGo
    BY <2>3, <2>5, <2>6, <2>9 DEF WorkersGo
  <2> QED BY <1>1, <2>10, <2>15, <2>16, TasksRest, EndKept
<1>3. CASE UNCHANGED <<issue, relinked>>
           /\ (SkipRun(w, "create") \/ (Advance(w, "create", "error") /\ FailRun(w)))
  BY <1>1, <1>3, EndSkipOrFail
<1> QED BY <1>2, <1>3 DEF CreateIssue

LEMMA EndEnqueueStep ==
  ASSUME DispatchInv, DispatchInv', EndInv, NEW w \in Workers, Enqueue(w)
  PROVE  EndInv'
<1>1. UNCHANGED <<issue, relinked>>
  BY DEF Enqueue
<1>2. CASE Advance(w, "enqueue", "finish") /\ task' = NewTask(0, worker[w].made, 1, "queued")
           /\ UNCHANGED run
  <2>1. PICK i \in 0..Len(issue) : i = worker[w].made
    BY <1>2, Lengths DEF Advance, EndInv, DispatchInv, WorkerRec
  <2>2. TasksGo
    BY <1>1, <1>2, <2>1, Lengths, NewTaskGoes DEF DispatchInv
  <2> QED BY <1>1, <1>2, <2>2, AdvanceGoes, OnlyTasksGo
<1>3. CASE UNCHANGED task /\ Advance(w, "enqueue", "error") /\ FailRun(w)
  BY <1>1, <1>3, EndSkipOrFail
<1> QED BY <1>2, <1>3 DEF Enqueue

LEMMA EndRepairStep ==
  ASSUME DispatchInv, DispatchInv', EndInv, NEW w \in Workers, Repair(w)
  PROVE  EndInv'
<1>1. UNCHANGED <<run, issue, relinked>>
  BY DEF Repair
<1>2. WorkersGo
  BY AdvanceGoes DEF Repair
<1>3. PICK r \in 1..Len(run) : r = worker[w].run
  BY Lengths DEF Repair, DispatchInv, WorkerOK
<1>4. PICK i \in 0..Len(issue) : i = run[r].issue
  BY Lengths DEF EndInv, DispatchInv, RunRec
<1>5. CASE UNCHANGED task
  BY <1>1, <1>2, <1>5, RowsRest
<1>6. CASE task' = NewTask(0, i, 1, "queued")
  BY <1>1, <1>2, <1>6, Lengths, NewTaskGoes, OnlyTasksGo DEF DispatchInv
<1> QED BY <1>3, <1>4, <1>5, <1>6 DEF Repair

(* one task changes its status or what was heard of it *)
LEMMA TaskChanged ==
  ASSUME DispatchInv, DispatchInv', EndInv, Len(run') = Len(run), Len(issue') = Len(issue),
         NEW t \in 1..Len(task), NEW new, task' = [task EXCEPT ![t] = new],
         new.run = task[t].run, new.issue = task[t].issue,
         task[t].told = "yes" => new.status = task[t].status,
         new.told = "yes" => task[t].told = "yes" \/ Heard(t),
         new.told # "no" => new.status \in TaskOver,
         new.told = "judged" => new.run = 0
  PROVE  TasksGo
<1>1. Len(task') = Len(task) /\ Len(task) \in Nat
      /\ \A u \in 1..Len(task) : task'[u] = IF u = t THEN new ELSE task[u]
  BY Lengths DEF DispatchInv, RowsOK
<1>2. ASSUME NEW u \in 1..Len(task') PROVE TaskOK(task[u])'
  <2>1. TaskOK(task[u])
    BY <1>1 DEF EndInv
  <2>2. u # t => task'[u] = task[u]
    BY <1>1
  <2>3. u = t => task'[u] = new
    BY <1>1
  <2> QED BY <2>1, <2>2, <2>3 DEF TaskOK
<1>3. ASSUME NEW u \in 1..Len(task)
      PROVE  /\ task'[u].run = task[u].run /\ task'[u].issue = task[u].issue
             /\ task[u].told = "yes" => task'[u].status = task[u].status
             /\ task'[u].told = "yes" => task[u].told = "yes" \/ Heard(u)
  <2>1. u # t => task'[u] = task[u]
    BY <1>1
  <2>2. u = t => task'[u] = new
    BY <1>1
  <2> QED BY <2>1, <2>2
<1> QED BY <1>1, <1>2, <1>3 DEF TasksGo

LEMMA EndPromoteStep ==
  ASSUME DispatchInv, DispatchInv', EndInv, NEW t \in DOMAIN task, Promote(t) \/ Unheard(t)
  PROVE  EndInv'
<1>1. UNCHANGED <<run, relinked, issue, worker>> /\ t \in 1..Len(task) /\ task[t] \in TaskRec
  BY Lengths DEF Promote, Unheard, history, DispatchInv
<1>2. TaskOK(task[t])
  BY <1>1 DEF EndInv
<1>3. TasksGo
  <2>1. CASE Promote(t)
    <3>1. PICK new : new = [task[t] EXCEPT !.status = "queued"]
      OBVIOUS
    <3>2. /\ new.run = task[t].run /\ new.issue = task[t].issue /\ new.told = task[t].told
          /\ task' = [task EXCEPT ![t] = new]
      BY <1>1, <2>1, <3>1 DEF Promote, TaskRec
    <3>3. task[t].told = "no"
      BY <1>2, <2>1 DEF Promote, TaskOK, TaskOver
    <3> QED BY <1>1, <3>2, <3>3, TaskChanged
  <2>2. CASE Unheard(t)
    <3>1. PICK new : new = [task[t] EXCEPT !.told = "lost"]
      OBVIOUS
    <3>2. /\ new.run = task[t].run /\ new.issue = task[t].issue /\ new.told = "lost"
          /\ new.status = task[t].status /\ task' = [task EXCEPT ![t] = new]
      BY <1>1, <2>2, <3>1 DEF Unheard, TaskRec
    <3>3. task[t].status \in TaskOver
      BY <1>2, <2>2 DEF Unheard, Untold, TaskOK
    <3> QED BY <1>1, <3>2, <3>3, TaskChanged
  <2> QED BY <1>1, <2>1, <2>2
<1> QED BY <1>1, <1>3, OnlyTasksGo DEF WorkersGo

(* an attempt that ends leaves its successor untold *)
LEMMA EndEndsStep ==
  ASSUME DispatchInv, DispatchInv', EndInv, NEW t \in DOMAIN task, NEW how \in TaskOver,
         TaskEnds(t, how)
  PROVE  EndInv'
<1>1. /\ UNCHANGED <<run, relinked, issue, worker>> /\ t \in 1..Len(task)
      /\ task[t] \in TaskRec /\ task[t].status = "queued"
  BY Lengths DEF TaskEnds, history, DispatchInv
<1>2. TaskOK(task[t]) /\ task[t].told = "no"
  BY <1>1 DEF EndInv, TaskOK, TaskOver
<1>3. PICK retry \in RetryOf(t, how) : task' = [task EXCEPT ![t].status = how] \o retry
  BY DEF TaskEnds
<1>4. PICK new : new = [task[t] EXCEPT !.status = how]
  OBVIOUS
<1>5. /\ new \in TaskRec /\ new.run = task[t].run /\ new.issue = task[t].issue
      /\ new.told = "no" /\ new.status = how
  BY <1>1, <1>2, <1>4 DEF TaskRec
<1>6. PICK next \in TaskRec :
        /\ next.run = task[t].run /\ next.issue = task[t].issue /\ next.told = "no"
        /\ retry \in {<<>>, <<next>>}
  <2>1. PICK n \in Nat : n = task[t].attempt + 1
    BY <1>1 DEF TaskRec
  <2>2. PICK s \in {"queued", "deferred"} :
          s = IF task[t].attempt = 1 THEN "queued" ELSE "deferred"
    OBVIOUS
  <2>3. PICK k : k = [task[t] EXCEPT !.attempt = n, !.status = s]
    OBVIOUS
  <2>4. k \in TaskRec /\ k.run = task[t].run /\ k.issue = task[t].issue /\ k.told = "no"
    BY <1>1, <1>2, <2>3 DEF TaskRec
  <2>5. retry \in {<<>>, <<k>>}
    BY <1>3, <2>1, <2>2, <2>3 DEF RetryOf
  <2> QED BY <2>4, <2>5
<1>7. PICK ended : ended = [task EXCEPT ![t] = new]
  OBVIOUS
<1>8. /\ ended \in Seq(TaskRec) /\ Len(ended) = Len(task) /\ Len(task) \in Nat
      /\ \A u \in 1..Len(task) : ended[u] = IF u = t THEN new ELSE task[u]
  BY <1>1, <1>5, <1>7, Lengths, ExceptSeq DEF DispatchInv, RowsOK
<1>9. task' = ended \o retry
  BY <1>3, <1>4, <1>7
<1>10. /\ Len(task) <= Len(task')
       /\ \A u \in 1..Len(task) : task'[u] = IF u = t THEN new ELSE task[u]
       /\ \A u \in 1..Len(task') : u > Len(task) => task'[u] = next
  <2>1. CASE retry = <<>>
    <3>1. task' = ended
      BY <1>8, <1>9, <2>1, ConcatEmptySeq
    <3> QED BY <1>8, <3>1
  <2>2. CASE retry = <<next>>
    <3>1. task' = Append(ended, next)
      BY <1>6, <1>8, <1>9, <2>2, AppendIsConcat
    <3>2. Len(task') = Len(task) + 1 /\ task'[Len(task) + 1] = next
          /\ \A u \in 1..Len(task) : task'[u] = ended[u]
      BY <1>8, <3>1, AppendProperties
    <3>3. \A u \in 1..Len(task') : u > Len(task) => u = Len(task) + 1
      BY <1>8, <3>2
    <3> QED BY <1>8, <3>2, <3>3
  <2> QED BY <1>6, <2>1, <2>2
<1>11. ASSUME NEW u \in 1..Len(task') PROVE TaskOK(task[u])'
  <2>1. CASE u <= Len(task) /\ u # t
    <3>1. TaskOK(task[u]) /\ task'[u] = task[u]
      BY <1>8, <1>10, <2>1 DEF EndInv
    <3> QED BY <1>1, <3>1 DEF TaskOK
  <2>2. CASE u = t
    <3>1. task'[u] = new
      BY <1>1, <1>10, <2>2
    <3> QED BY <1>1, <1>2, <1>5, <3>1 DEF TaskOK
  <2>3. CASE ~(u <= Len(task))
    <3>1. task'[u] = next
      BY <1>8, <1>10, <2>3
    <3> QED BY <1>1, <1>2, <1>6, <3>1 DEF TaskOK
  <2> QED BY <2>1, <2>2, <2>3
<1>12. ASSUME NEW u \in 1..Len(task)
       PROVE  /\ task'[u].run = task[u].run /\ task'[u].issue = task[u].issue
              /\ task[u].told = "yes" => task'[u].status = task[u].status
              /\ task'[u].told = "yes" => task[u].told = "yes"
  <2>1. u # t => task'[u] = task[u]
    BY <1>10
  <2>2. u = t => task'[u] = new
    BY <1>10
  <2> QED BY <1>2, <1>5, <2>1, <2>2
<1>13. \A u \in 1..Len(task') : u > Len(task) => task'[u].told = "no"
  BY <1>6, <1>10
<1>14. TasksGo
  BY <1>10, <1>11, <1>12, <1>13 DEF TasksGo
<1> QED BY <1>1, <1>14, OnlyTasksGo DEF WorkersGo

(* the runs of a set end alike *)
LEMMA RunsEndGoes ==
  ASSUME DispatchInv, NEW R, NEW s \in RunOver,
         run' = [r \in DOMAIN run |-> IF r \in R THEN [run[r] EXCEPT !.status = s] ELSE run[r]],
         relinked \subseteq relinked' \cup R
  PROVE  RunsGo /\ Len(run') = Len(run) /\ \A r \in 1..Len(run) : Flying(r)' => r \notin R
<1>1. /\ Len(run') = Len(run) /\ Len(run) \in Nat
      /\ \A r \in 1..Len(run) : run'[r].issue = run[r].issue
  BY RunsEnd, Lengths DEF DispatchInv
<1>2. ASSUME NEW r \in 1..Len(run), r \in R PROVE Over(r)'
  <2>1. run'[r] = [run[r] EXCEPT !.status = s] /\ run[r] \in RunRec
    BY <1>2, Lengths DEF DispatchInv
  <2> QED BY <2>1 DEF RunRec, Over
<1>3. ASSUME NEW r \in 1..Len(run), r \notin R PROVE run'[r] = run[r]
  BY <1>3, Lengths DEF DispatchInv
<1>4. ASSUME NEW r \in 1..Len(run), Flying(r)' PROVE r \notin R /\ Flying(r)
  <2>1. r \notin R
    BY <1>2, <1>4 DEF Flying
  <2> QED BY <1>3, <1>4, <2>1 DEF Flying, Over
<1> QED BY <1>1, <1>4 DEF RunsGo

LEMMA EndHearStep ==
  ASSUME DispatchInv, DispatchInv', EndInv, NEW t \in DOMAIN task, Hear(t)
  PROVE  EndInv'
<1>1. UNCHANGED <<issue, worker>> /\ t \in 1..Len(task) /\ task[t] \in TaskRec
      /\ task[t].status \in TaskOver /\ task[t].told = "no"
  BY Lengths DEF Hear, Untold, DispatchInv
<1>2. WorkersGo /\ IssuesGo
  BY <1>1, IssuesRest DEF WorkersGo
<1>3. TaskOK(task[t])
  BY <1>1 DEF EndInv
<1>4. CASE task[t].run # 0
  <2>1. PICK s \in RunOver : s = IF task[t].status = "completed" THEN "completed" ELSE "failed"
    BY DEF RunOver
  <2>2. PICK q : q = task[t].run
    OBVIOUS
  <2>3. /\ run' = [run EXCEPT ![q].status = s] /\ relinked' = relinked \ {q}
        /\ task' = [task EXCEPT ![t].told = "yes"]
    BY <1>4, <2>1, <2>2 DEF Hear, SetRun
  <2>4. run' = [r \in DOMAIN run |-> IF r \in {q} THEN [run[r] EXCEPT !.status = s] ELSE run[r]]
    BY <2>3
  <2>5. RunsGo /\ Len(run') = Len(run) /\ \A r \in 1..Len(run) : Flying(r)' => r \notin {q}
    BY <2>3, <2>4, RunsEndGoes
  <2>6. PICK new : new = [task[t] EXCEPT !.told = "yes"]
    OBVIOUS
  <2>7. /\ new.run = task[t].run /\ new.issue = task[t].issue /\ new.told = "yes"
        /\ new.status = task[t].status /\ task' = [task EXCEPT ![t] = new]
    BY <1>1, <2>3, <2>6 DEF TaskRec
  <2>8. Heard(t)
    BY <1>3, <1>4, <2>2, <2>5 DEF Heard, TaskOK
  <2>9. TasksGo
    BY <1>1, <2>5, <2>7, <2>8, TaskChanged
  <2> QED BY <1>2, <2>5, <2>9, EndKept
<1>5. CASE task[t].run = 0
  <2>1. UNCHANGED <<run, relinked>>
    BY <1>5 DEF Hear
  <2>2. PICK x \in {"judged", "yes"} :
          /\ task' = [task EXCEPT ![t].told = x]
          /\ x = "yes" => \/ task[t].status # "failed" \/ RunOfIssue(task[t].issue) = {}
                          \/ HasActive(task[t].issue)
    BY <1>5 DEF Hear
  <2>3. PICK new : new = [task[t] EXCEPT !.told = x]
    OBVIOUS
  <2>4. /\ new.run = task[t].run /\ new.issue = task[t].issue /\ new.told = x
        /\ new.status = task[t].status /\ task' = [task EXCEPT ![t] = new]
    BY <1>1, <2>2, <2>3 DEF TaskRec
  <2>5. \A u \in 1..Len(task) : task'[u].status = task[u].status
    BY <1>1, <2>4, Lengths DEF DispatchInv
  <2>6. ASSUME x = "yes", NEW r \in 1..Len(run), Flying(r)', task[t].issue = run[r].issue
        PROVE  \E u \in 1..Len(task) : task[u].issue = task[t].issue /\ task'[u].status # "failed"
    <3>1. r \in RunOfIssue(task[t].issue)
      BY <2>1, <2>6, Lengths DEF RunOfIssue, Flying, Over, DispatchInv, RunRec
    <3>2. CASE task[t].status # "failed"
      BY <1>1, <2>5, <3>2
    <3>3. CASE HasActive(task[t].issue)
      BY <2>5, <3>3, Lengths DEF HasActive, TasksOf, DispatchInv
    <3> QED BY <2>2, <2>6, <3>1, <3>2, <3>3
  <2>7. x = "yes" => Heard(t)
    <3> SUFFICES ASSUME x = "yes", NEW r \in 1..Len(run), Flying(r)'
                 PROVE  /\ task[t].run # r
                        /\ task[t].issue = run[r].issue /\ task[t].issue # 0 =>
                             \E u \in 1..Len(task) :
                               task[u].issue = task[t].issue /\ task'[u].status # "failed"
      BY DEF Heard
    <3>1. task[t].run # r
      BY <1>5
    <3> QED BY <2>6, <3>1
  <2>8. TasksGo
    BY <1>1, <1>5, <2>1, <2>4, <2>7, TaskChanged
  <2> QED BY <1>1, <1>2, <2>1, <2>8, OnlyTasksGo
<1> QED BY <1>4, <1>5

LEMMA EndVerdictStep ==
  ASSUME DispatchInv, DispatchInv', EndInv, NEW t \in DOMAIN task, Verdict(t)
  PROVE  EndInv'
<1>1. /\ UNCHANGED <<issue, worker, relinked>> /\ t \in 1..Len(task) /\ task[t] \in TaskRec
      /\ task[t].told = "judged"
  BY Lengths DEF Verdict, history, DispatchInv
<1>2. WorkersGo /\ IssuesGo
  BY <1>1, IssuesRest DEF WorkersGo
<1>3. TaskOK(task[t])
  BY <1>1 DEF EndInv
<1>4. PICK R : R = {r \in DOMAIN run : run[r].issue = task[t].issue}
  OBVIOUS
<1>5. run' = [r \in DOMAIN run |-> IF r \in R THEN [run[r] EXCEPT !.status = "failed"] ELSE run[r]]
  BY <1>4 DEF Verdict
<1>6. RunsGo /\ Len(run') = Len(run) /\ \A r \in 1..Len(run) : Flying(r)' => r \notin R
  BY <1>1, <1>5, RunsEndGoes DEF RunOver
<1>7. PICK new : new = [task[t] EXCEPT !.told = "yes"]
  OBVIOUS
<1>8. /\ new.run = task[t].run /\ new.issue = task[t].issue /\ new.told = "yes"
      /\ new.status = task[t].status /\ task' = [task EXCEPT ![t] = new]
  BY <1>1, <1>7 DEF TaskRec, Verdict
<1>9. Heard(t)
  <2>1. ASSUME NEW r \in 1..Len(run), Flying(r)' PROVE task[t].issue # run[r].issue
    BY <1>4, <1>6, <2>1, Lengths DEF DispatchInv
  <2>2. \A r \in 1..Len(run) : task[t].run # r
    BY <1>1, <1>3 DEF TaskOK
  <2> QED BY <2>1, <2>2 DEF Heard
<1>10. TasksGo
  BY <1>1, <1>3, <1>6, <1>8, <1>9, TaskChanged DEF TaskOK
<1> QED BY <1>2, <1>6, <1>10, EndKept

LEMMA EndIssueStep ==
  ASSUME DispatchInv, DispatchInv', EndInv, NEW i \in DOMAIN issue,
         HearIssue(i) \/ MoveIssue(i, "done") \/ MoveIssue(i, "closed")
  PROVE  EndInv'
<1>1. UNCHANGED <<task, worker, relinked>> /\ i \in 1..Len(issue) /\ issue[i] \in IssueRec
  BY Lengths DEF HearIssue, MoveIssue, history, DispatchInv
<1>2. PICK new : /\ issue' = [issue EXCEPT ![i] = new]
                 /\ new.status = "open" => issue[i].status = "open"
  <2>1. CASE HearIssue(i)
    <3>1. PICK k : k = [issue[i] EXCEPT !.told = TRUE]
      OBVIOUS
    <3>2. k.status = issue[i].status /\ issue' = [issue EXCEPT ![i] = k]
      BY <1>1, <2>1, <3>1 DEF HearIssue, IssueRec
    <3> QED BY <3>2
  <2>2. CASE MoveIssue(i, "done") \/ MoveIssue(i, "closed")
    <3>1. PICK to \in {"done", "closed"} : issue' = [issue EXCEPT ![i].status = to]
      BY <2>2 DEF MoveIssue
    <3>2. PICK k : k = [issue[i] EXCEPT !.status = to]
      OBVIOUS
    <3>3. k.status = to /\ issue' = [issue EXCEPT ![i] = k]
      BY <1>1, <3>1, <3>2 DEF IssueRec
    <3> QED BY <3>3
  <2> QED BY <2>1, <2>2
<1>3. Len(issue') = Len(issue) /\ Len(issue) \in Nat
      /\ \A j \in 1..Len(issue) : issue'[j] = IF j = i THEN new ELSE issue[j]
  BY <1>1, <1>2, Lengths DEF DispatchInv, RowsOK
<1>4. IssuesGo
  BY <1>2, <1>3 DEF IssuesGo
<1>5. RunsGo
  <2>1. CASE HearIssue(i)
    <3>1. PICK s \in RunOver : s = IF issue[i].status = "done" THEN "completed" ELSE "failed"
      BY DEF RunOver
    <3>2. PICK R : R = RunOfIssue(i)
      OBVIOUS
    <3>3. run' = [r \in DOMAIN run |->
                    IF r \in R THEN [run[r] EXCEPT !.status = s] ELSE run[r]]
      BY <2>1, <3>1, <3>2 DEF HearIssue
    <3> QED BY <1>1, <3>3, RunsEndGoes
  <2>2. CASE MoveIssue(i, "done") \/ MoveIssue(i, "closed")
    BY <1>1, <2>2, RunsRest DEF MoveIssue
  <2> QED BY <2>1, <2>2
<1> QED BY <1>1, <1>4, <1>5, TasksRest, EndKept DEF WorkersGo

-----------------------------------------------------------------------------
LEMMA EndSteps ==
  ASSUME DispatchInv, DispatchInv', EndInv, [DispatchNext]_dispatchVars
  PROVE  EndInv'
<1>1. CASE Receive \/ IngressStep \/ LeaseExpires
  BY <1>1, EndItemStep, EndAdmitStep DEF IngressStep
<1>2. CASE \E w \in Workers : Claim(w) \/ WorkerStep(w)
  BY <1>2, EndIdleStep, EndLookStep, EndRecoverStep, EndInsertStep, EndRelinkStep,
     EndCreateTaskStep, EndCreateIssueStep, EndEnqueueStep, EndRepairStep DEF WorkerStep
<1>3. CASE Listen
  BY <1>3, EndHearStep, EndVerdictStep, EndIssueStep DEF Listen
<1>4. CASE Trial
  BY <1>4, EndItemStep, EndIdleStep, EndPromoteStep DEF Trial
<1>5. CASE Environment
  BY <1>5, EndPromoteStep, EndEndsStep, EndIssueStep DEF Environment
<1>6. CASE UNCHANGED dispatchVars
  <2>1. UNCHANGED <<run, relinked, task, issue, worker>>
    BY <1>6 DEF dispatchVars, history
  <2> QED BY <2>1, RowsRest DEF WorkersGo
<1> QED BY <1>1, <1>2, <1>3, <1>4, <1>5, <1>6 DEF DispatchNext

LEMMA EndInitially ==
  ASSUME DispatchInit
  PROVE  EndInv
<1>1. /\ Len(run) = 0 /\ Len(task) = 0 /\ Len(issue) = 0
      /\ worker = [w \in Workers |-> Idle] /\ Idle.at = "idle"
  BY DEF DispatchInit, Idle
<1> QED BY <1>1 DEF EndInv

LEMMA InvReachesRuns ==
  ASSUME DispatchInv, EndInv
  PROVE  EndReachesRun
<1> SUFFICES ASSUME NEW r \in DOMAIN run \ relinked, ~Over(r)
             PROVE  LET i == run[r].issue IN
                    ~ (\/ \E t \in TasksOfRun(r) : task[t].told = "yes"
                       \/ /\ i # 0 /\ issue[i].status = "open" /\ TasksOf(i) # {}
                          /\ \A t \in TasksOf(i) : task[t].status = "failed" /\ task[t].told = "yes")
  BY DEF EndReachesRun, Over
<1>1. ~Ended(r)
  BY Lengths DEF EndInv, Flying, DispatchInv
<1>2. DOMAIN task = 1..Len(task)
  BY Lengths DEF DispatchInv
<1> QED BY <1>1, <1>2 DEF Ended, TasksOfRun, TasksOf

(* Once the listeners have heard of the end of a run's own task, or of the last attempt
   on its open issue, the run is over, for any number of workers, runs and attempts,
   unless a late link has reopened it (SyncRunFromTask, SyncRunFromLinkedIssueTask) *)
THEOREM EndsReachRuns == DispatchSpec => []EndReachesRun
<1>1. DispatchInit => DispatchInv /\ EndInv
  BY DispatchInitially, EndInitially
<1>2. DispatchInv /\ EndInv /\ [DispatchNext]_dispatchVars => DispatchInv' /\ EndInv'
  BY StepKeepsInv, EndSteps
<1>3. DispatchInv /\ EndInv => EndReachesRun
  BY InvReachesRuns
<1> QED BY <1>1, <1>2, <1>3, PTL DEF DispatchSpec

=============================================================================
