------------------------- MODULE AutopilotDispatch -------------------------
(***************************************************************************)
(* One occurrence of an autopilot, a planned time of a schedule trigger or *)
(* a webhook delivery, from its admission to the run, the issue and the    *)
(* tasks it makes, and back: the listeners that end the run.  Workers are  *)
(* the scheduler managers or the webhook workers that hold the leased      *)
(* item, one after the other or, when a lease is outlived, together.       *)
(***************************************************************************)
EXTENDS Naturals, Sequences, FiniteSets

CONSTANTS
  Workers,
  Sources,      \* of "schedule" and "webhook", those to explore
  Modes,        \* of "run_only" and "create_issue"
  Faults,       \* what may go wrong, see Mishap and TaskEnds
  MaxTroubles,  \* bound on the number of times it does
  MaxAttempts,  \* MaxAttempts of the job, webhookWorkerMaxAttempts
  Ceiling       \* retryAttemptCeiling of an issue's task

ASSUME DispatchAssumption ==
  /\ Sources \subseteq {"schedule", "webhook"} /\ Modes \subseteq {"run_only", "create_issue"}
  /\ MaxTroubles \in Nat /\ MaxAttempts \in Nat \ {0} /\ Ceiling \in 1..3

VARIABLES
  source, mode,  \* of the occurrence: autopilot_run.source, autopilot.execution_mode
  enabled,       \* trigger.enabled and autopilot.status = 'active'
  item,          \* the row of webhook_delivery or sys_cron_executions and its lease
  run,           \* the rows of autopilot_run; slot: the row still has the unique planned_at
                 \* or webhook_delivery_id; task and issue are the links, 0 for NULL
  issue,         \* the issues made, and whether the listener has heard of their end
  task,          \* the tasks made; run: autopilot_run_id, issue: issue_id, told: the listener
  worker,        \* where a worker is, the lease it took, the run it works for, the task
                 \* or issue it made, whether the trigger it loaded was enabled and the
                 \* run it loaded had failed
  ingress,       \* the HTTP request of a delivery
  troubles,
  overlapped,    \* history: a lease ended under a worker that went on
  relinked       \* history: the runs whose end was overwritten by a late link

occurrenceVars == <<source, mode>>
history == <<troubles, overlapped, relinked>>
dispatchVars == <<source, mode, enabled, item, run, issue, task, worker, ingress, history>>

InFlight == {"issue_created", "running"}
RunOver == {"completed", "failed", "skipped"}
TaskOver == {"completed", "failed", "cancelled"}
Steps == {"idle", "look", "recover", "insert", "relink", "create", "link", "enqueue", "repair",
          "finish", "error", "ignore"}

TypeOK ==
  /\ source \in Sources /\ mode \in Modes /\ enabled \in BOOLEAN
  /\ item \in [state : {"absent", "open", "success", "failed", "ignored"},
               token : Nat, held : BOOLEAN, attempts : 0..MaxAttempts]
  /\ \A r \in DOMAIN run : run[r] \in [status : InFlight \cup RunOver, slot : BOOLEAN,
                                       task : 0..Len(task), issue : 0..Len(issue)]
  /\ \A i \in DOMAIN issue : issue[i] \in [status : {"open", "done", "closed"}, told : BOOLEAN]
  /\ \A t \in DOMAIN task :
       task[t] \in [run : 0..Len(run), issue : 0..Len(issue), attempt : 1..Ceiling,
                    status : {"queued", "deferred"} \cup TaskOver,
                    told : {"no", "judged", "yes", "lost"}]
  /\ worker \in [Workers -> [at : Steps, token : Nat, run : 0..Len(run), made : Nat,
                          open : BOOLEAN, failed : BOOLEAN]]
  /\ ingress \in [at : {"none", "admit", "over"}, open : BOOLEAN, accepted : BOOLEAN]
  /\ troubles \in 0..MaxTroubles /\ overlapped \in BOOLEAN /\ relinked \subseteq DOMAIN run

Idle == [at |-> "idle", token |-> 0, run |-> 0, made |-> 0, open |-> TRUE, failed |-> FALSE]

DispatchInit ==
  /\ source \in Sources /\ mode \in Modes /\ enabled = TRUE
  /\ item = [state |-> IF source = "webhook" THEN "absent" ELSE "open",
             token |-> 0, held |-> FALSE, attempts |-> 0]
  /\ run = <<>> /\ issue = <<>> /\ task = <<>>
  /\ worker = [w \in Workers |-> Idle]
  /\ ingress = [at |-> "none", open |-> TRUE, accepted |-> FALSE]
  /\ troubles = 0 /\ overlapped = FALSE /\ relinked = {}

Mishap(kind) == kind \in Faults /\ troubles < MaxTroubles /\ troubles' = troubles + 1
Perhaps(bad, kind) == IF bad THEN Mishap(kind) ELSE UNCHANGED troubles

(* the run that has the occurrence's unique slot, 0 if there is none *)
Existing == IF \E r \in DOMAIN run : run[r].slot THEN CHOOSE r \in DOMAIN run : run[r].slot ELSE 0
RunOfIssue_Running(i) ==  \* mutant: without the first state of a run with an issue
  {r \in DOMAIN run : run[r].issue = i /\ run[r].status = "running"}
RunOfIssue(i) == {r \in DOMAIN run : run[r].issue = i /\ run[r].status \in InFlight}
TasksOf(i) == {t \in DOMAIN task : task[t].issue = i}
HasActive(i) == \E t \in TasksOf(i) : task[t].status = "queued"

IsComplete_AnyRunning(r) ==  \* mutant: a running run counts as complete without its task
  \/ run[r].status \in RunOver \cup {"running"}
  \/ run[r].status = "issue_created" /\ run[r].issue # 0
IsComplete(r) ==
  \/ run[r].status \in RunOver
  \/ run[r].status = "issue_created" /\ run[r].issue # 0
  \/ run[r].status = "running" /\ run[r].task # 0

NewRun(status) == Append(run, [status |-> status, slot |-> TRUE, task |-> 0, issue |-> 0])
Initially == IF mode = "run_only" THEN "running" ELSE "issue_created"
NewTask(r, i, attempt, status) ==
  Append(task, [run |-> r, issue |-> i, attempt |-> attempt, status |-> status, told |-> "no"])
SetRun(r, status) == run' = [run EXCEPT ![r].status = status]

Advance(w, from, to) == worker[w].at = from /\ worker' = [worker EXCEPT ![w].at = to]

-----------------------------------------------------------------------------
(* HandleAutopilotWebhook *)

(* The request has loaded its trigger; the row it inserts is at once a worker's to claim. *)
Receive ==
  /\ item.state = "absent" /\ ingress.at = "none"
  /\ item' = [item EXCEPT !.state = "open"]
  /\ ingress' = [ingress EXCEPT !.at = "admit", !.open = enabled]
  /\ UNCHANGED <<occurrenceVars, enabled, run, issue, task, worker, history>>

IgnoreDelivery ==
  /\ ingress.at = "admit" /\ ~ingress.open
  /\ item' = [item EXCEPT !.state = "ignored"]
  /\ ingress' = [ingress EXCEPT !.at = "over"]
  /\ UNCHANGED <<occurrenceVars, enabled, run, issue, task, worker, history>>

(* AdmitAutopilotWebhookDelivery for the request: reuse the run or make it. *)
Admit(skip) ==
  /\ ingress.at = "admit" /\ ingress.open
  /\ IF Existing # 0
     THEN skip = (run[Existing].status = "skipped") /\ UNCHANGED <<run, troubles>>
     ELSE Perhaps(skip, "offline") /\ run' = NewRun(IF skip THEN "skipped" ELSE Initially)
  /\ ingress' = [ingress EXCEPT !.at = "over", !.accepted = ~skip]
  /\ UNCHANGED <<occurrenceVars, enabled, item, issue, task, worker, overlapped, relinked>>

CrashIngress ==
  /\ ingress.at = "admit" /\ Mishap("crash")
  /\ ingress' = [ingress EXCEPT !.at = "over"]
  /\ UNCHANGED <<occurrenceVars, enabled, item, run, issue, task, worker, overlapped, relinked>>

(* The user, or the failure monitor, pauses the autopilot; the user resumes it. *)
Toggle ==
  /\ enabled' = ~enabled /\ Mishap("pause")
  /\ UNCHANGED <<occurrenceVars, item, run, issue, task, worker, ingress, overlapped, relinked>>

-----------------------------------------------------------------------------
(* The leased item *)

Claim(w) ==
  /\ item.state = "open" /\ ~item.held
  /\ source = "schedule" => item.attempts < MaxAttempts
  /\ item' = [item EXCEPT !.token = @ + 1, !.held = TRUE,
                          !.attempts = IF source = "schedule" THEN @ + 1 ELSE @]
  /\ worker[w].at = "idle"
  /\ worker' = [worker EXCEPT ![w] = [Idle EXCEPT !.at = "look", !.token = item.token + 1,
                                                    !.open = enabled]]
  /\ UNCHANGED <<occurrenceVars, enabled, run, issue, task, ingress, history>>

Holders == {w \in Workers : worker[w].at # "idle" /\ worker[w].token = item.token}
(* A manager notices a stale lease when it sweeps, and the row refuses its holder from
   then on; a worker by claiming the delivery, and the holder may finish before. *)
Expired ==
  [item EXCEPT !.held = FALSE,
               !.token = IF source = "schedule" THEN @ + 1 ELSE @,
               !.state = IF source = "schedule" /\ item.attempts = MaxAttempts
                         THEN "failed" ELSE @]

LeaseExpires_Swept ==  \* mutant: only the scheduler's sweep frees a lease
  /\ item.state = "open" /\ item.held /\ Holders = {} /\ source = "schedule"
  /\ item' = Expired
  /\ UNCHANGED <<occurrenceVars, enabled, run, issue, task, worker, ingress, history>>
LeaseExpires ==
  /\ item.state = "open" /\ item.held /\ Holders = {}
  /\ item' = Expired
  /\ UNCHANGED <<occurrenceVars, enabled, run, issue, task, worker, ingress, history>>

Outlived ==  \* the holder goes on
  /\ item.state = "open" /\ item.held /\ Holders # {} /\ Mishap("slow")
  /\ item' = Expired /\ overlapped' = TRUE
  /\ UNCHANGED <<occurrenceVars, enabled, run, issue, task, worker, ingress, relinked>>

Crash(w) ==
  /\ worker[w].at # "idle" /\ Mishap("crash")
  /\ worker' = [worker EXCEPT ![w] = Idle]
  /\ UNCHANGED <<occurrenceVars, enabled, item, run, issue, task, ingress, overlapped, relinked>>

Retire(w, from) == worker[w].at = from /\ worker' = [worker EXCEPT ![w] = Idle]
Holds(w) == item.state = "open" /\ item.token = worker[w].token
(* the compare-and-set of a terminal write; a lost lease changes nothing *)
Close(w, state) ==
  item' = IF Holds(w) THEN [item EXCEPT !.state = state, !.held = FALSE] ELSE item

Finish(w) ==
  /\ Retire(w, "finish") /\ Close(w, "success")
  /\ UNCHANGED <<occurrenceVars, enabled, run, issue, task, ingress, history>>

Ignore(w) ==
  /\ Retire(w, "ignore") /\ Close(w, "ignored")
  /\ UNCHANGED <<occurrenceVars, enabled, run, issue, task, ingress, history>>

(* finishFailure; retryOrFail, or complete for an error that comes with its run *)
Error(w) ==
  LET attempts == IF source = "schedule" THEN item.attempts ELSE item.attempts + 1
      final == attempts >= MaxAttempts \/ (source = "webhook" /\ worker[w].run # 0) IN
  /\ Retire(w, "error")
  /\ \/ final /\ Close(w, "failed")
     \/ ~final /\ item' = IF Holds(w) THEN [item EXCEPT !.held = FALSE, !.attempts = attempts]
                          ELSE item
  /\ UNCHANGED <<occurrenceVars, enabled, run, issue, task, ingress, history>>

-----------------------------------------------------------------------------
(* DispatchAutopilotForPlan, DispatchAutopilotForWebhookDelivery *)

(* where the dispatch goes on that finds the run r of an earlier attempt *)
Resume(r) ==
  CASE IsComplete(r) /\ source = "schedule" -> "finish"
    [] IsComplete(r) /\ source = "webhook" /\ run[r].issue # 0 -> "repair"
    [] IsComplete(r) /\ source = "webhook" /\ run[r].issue = 0 ->
         IF run[r].status = "failed" THEN "error" ELSE "finish"
    [] ~IsComplete(r) /\ source = "schedule" -> "recover"
    [] ~IsComplete(r) /\ source = "webhook" -> IF mode = "run_only" THEN "relink" ELSE "create"
ResumeFor(w, r) ==
  worker' = [worker EXCEPT ![w] = [@ EXCEPT !.at = Resume(r), !.run = r,
                                            !.failed = (run[r].status = "failed")]]

(* The lookup of the run: the worker first asks whether the trigger was enabled when it
   loaded it, of a delivery only if nothing was admitted. *)
Look(w) ==
  /\ worker[w].at = "look"
  /\ \/ ~worker[w].open /\ (source = "webhook" => Existing = 0)
        /\ Advance(w, "look", IF source = "webhook" THEN "ignore" ELSE "finish")
        /\ UNCHANGED troubles
     \/ worker[w].open /\ Existing = 0 /\ Advance(w, "look", "insert") /\ UNCHANGED troubles
     \/ /\ source = "schedule" => worker[w].open
        /\ Existing # 0 /\ ResumeFor(w, Existing) /\ UNCHANGED troubles
     \/ Advance(w, "look", "error") /\ Mishap("dberror")
  /\ UNCHANGED <<occurrenceVars, enabled, item, run, issue, task, ingress, overlapped, relinked>>

(* RecoverPartialAutopilotRun, by id: the run fails and gives up the slot *)
Recover(w) ==
  /\ \/ /\ Advance(w, "recover", "insert") /\ UNCHANGED troubles
        /\ run' = [run EXCEPT ![worker[w].run] = [@ EXCEPT !.status = "failed", !.slot = FALSE]]
     \/ Advance(w, "recover", "error") /\ Mishap("dberror") /\ UNCHANGED run
  /\ UNCHANGED <<occurrenceVars, enabled, item, issue, task, ingress, overlapped, relinked>>

(* shouldSkipDispatch and CreateAutopilotRun; the unique index refuses a second run,
   and recoverConcurrentWebhookAdmission takes the first one *)
Insert(w, skip) ==
  /\ worker[w].at = "insert"
  /\ Perhaps(skip, "offline")
  /\ IF Existing = 0
     THEN /\ run' = NewRun(IF skip THEN "skipped" ELSE Initially)
          /\ worker' = [worker EXCEPT ![w] = [@ EXCEPT
                          !.at = IF skip THEN "finish"
                                 ELSE IF source = "webhook" /\ mode = "run_only"
                                 THEN "relink" ELSE "create",
                          !.run = Len(run) + 1]]
     ELSE /\ UNCHANGED run
          /\ IF source = "webhook" THEN ResumeFor(w, Existing)
             ELSE worker' = [worker EXCEPT ![w] = [@ EXCEPT !.at = "error", !.run = 0]]
  /\ UNCHANGED <<occurrenceVars, enabled, item, issue, task, ingress, overlapped, relinked>>

(* UpdateAutopilotRunRunning is by id: it also reopens a run that is over *)
LinkTo(r, t) ==
  /\ run' = [run EXCEPT ![r] = [@ EXCEPT !.status = "running", !.task = t]]
  /\ relinked' = IF run[r].status \in RunOver THEN relinked \cup {r} ELSE relinked

TasksOfRun(r) == {t \in DOMAIN task : task[t].run = r}
Orphan_None(r) == {}  \* mutant: no lookup of a task that was made and not linked
Orphan(r) == {t \in TasksOfRun(r) : \A u \in TasksOfRun(r) : t <= u}

Relink(w) ==
  LET r == worker[w].run IN
  /\ worker[w].at = "relink"
  /\ \/ /\ \E t \in Orphan(r) : LinkTo(r, t)
        /\ Advance(w, "relink", "finish") /\ UNCHANGED troubles
     \/ Orphan(r) = {} /\ Advance(w, "relink", "create") /\ UNCHANGED <<run, relinked, troubles>>
     \/ Advance(w, "relink", "error") /\ Mishap("dberror") /\ UNCHANGED <<run, relinked>>
  /\ UNCHANGED <<occurrenceVars, enabled, item, issue, task, ingress, overlapped>>

-----------------------------------------------------------------------------
(* dispatchAutopilotRun *)

(* failRun, whose own write may fail with the database too *)
FailRun(w) ==
  \/ SetRun(worker[w].run, "failed")
  \/ UNCHANGED run

SkipRun(w, from) ==  \* handleDispatchSkip
  Advance(w, from, "finish") /\ SetRun(worker[w].run, "skipped")

Made(w, to, id) == worker' = [worker EXCEPT ![w] = [@ EXCEPT !.at = to, !.made = id]]

CreateTask(w) ==
  /\ worker[w].at = "create" /\ mode = "run_only"
  /\ \/ /\ Made(w, "link", Len(task) + 1) /\ task' = NewTask(worker[w].run, 0, 1, "queued")
        /\ UNCHANGED <<run, troubles>>
     \/ SkipRun(w, "create") /\ Mishap("offline") /\ UNCHANGED task
     \/ Advance(w, "create", "error") /\ Mishap("dberror") /\ FailRun(w) /\ UNCHANGED task
  /\ UNCHANGED <<occurrenceVars, enabled, item, issue, ingress, overlapped, relinked>>

Link(w) ==
  /\ Advance(w, "link", "finish")
  /\ \/ LinkTo(worker[w].run, worker[w].made) /\ UNCHANGED troubles
     \/ Mishap("dberror") /\ UNCHANGED <<run, relinked>>
  /\ UNCHANGED <<occurrenceVars, enabled, item, issue, task, ingress, overlapped>>

(* FindRecentAutopilotDuplicateIssue; the minute it looks back may have passed, and an
   issue that is done, unlike one in review, does not count: a guess in CreateIssue *)
Duplicates == {r \in DOMAIN run :
  run[r].issue # 0 /\ run[r].status \in InFlight \cup {"completed"}}

(* the issue and its link to the run, in one transaction *)
CreateIssue(w) ==
  LET r == worker[w].run IN
  /\ worker[w].at = "create" /\ mode = "create_issue"
  /\ \/ /\ Made(w, "enqueue", Len(issue) + 1)
        /\ issue' = Append(issue, [status |-> "open", told |-> FALSE])
        /\ run' = [run EXCEPT ![r] = [@ EXCEPT !.status = "issue_created",
                                              !.issue = Len(issue) + 1]]
        /\ relinked' = IF run[r].status \in RunOver THEN relinked \cup {r} ELSE relinked
        /\ UNCHANGED troubles
     \/ Duplicates # {} /\ SkipRun(w, "create") /\ UNCHANGED <<issue, troubles, relinked>>
     \/ /\ Advance(w, "create", "error") /\ Mishap("dberror") /\ FailRun(w)
        /\ UNCHANGED <<issue, relinked>>
  /\ UNCHANGED <<occurrenceVars, enabled, item, task, ingress, overlapped>>

(* EnqueueTaskForIssue of the new issue: another pending task of it is a conflict *)
Enqueue(w) ==
  /\ \/ /\ Advance(w, "enqueue", "finish")
        /\ task' = NewTask(0, worker[w].made, 1, "queued")
        /\ UNCHANGED <<run, troubles>>
     \/ /\ Advance(w, "enqueue", "error") /\ FailRun(w) /\ UNCHANGED task
        /\ \/ HasActive(worker[w].made) /\ UNCHANGED troubles
           \/ Mishap("dberror")
  /\ UNCHANGED <<occurrenceVars, enabled, item, issue, ingress, overlapped, relinked>>

(* ensureWebhookCreateIssueTask, then the verdict on the run as it was loaded *)
Repair(w) ==
  LET i == run[worker[w].run].issue
      after == IF worker[w].failed THEN "error" ELSE "finish" IN
  /\ worker[w].at = "repair"
  /\ \/ /\ TasksOf(i) # {} \/ issue[i].status # "open"
        /\ Advance(w, "repair", after) /\ UNCHANGED <<task, troubles>>
     \/ /\ TasksOf(i) = {} /\ issue[i].status = "open"
        /\ Advance(w, "repair", after) /\ task' = NewTask(0, i, 1, "queued") /\ UNCHANGED troubles
     \/ Advance(w, "repair", "error") /\ Mishap("dberror") /\ UNCHANGED task
  /\ UNCHANGED <<occurrenceVars, enabled, item, run, issue, ingress, overlapped, relinked>>

-----------------------------------------------------------------------------
(* The task queue, external here, and the listeners of the autopilots *)

(* a failed attempt of an issue's task leaves its retry behind, the last one delayed *)
RetryOf(t, how) ==
  IF how = "failed" /\ task[t].issue # 0 /\ task[t].attempt < Ceiling
  THEN {<<>>, <<[task[t] EXCEPT !.attempt = @ + 1,
                                !.status = IF task[t].attempt = 1 THEN "queued" ELSE "deferred"]>>}
  ELSE {<<>>}
TaskEnds(t, how) ==
  /\ task[t].status = "queued"
  /\ \E retry \in RetryOf(t, how) : task' = [task EXCEPT ![t].status = how] \o retry
  /\ UNCHANGED <<occurrenceVars, enabled, item, run, issue, worker, ingress, history>>

Promote(t) ==
  /\ task[t].status = "deferred" /\ task' = [task EXCEPT ![t].status = "queued"]
  /\ UNCHANGED <<occurrenceVars, enabled, item, run, issue, worker, ingress, history>>

(* syncRunFromTaskEvent, once the end of t is published.  SyncRunFromTask writes at once;
   SyncRunFromLinkedIssueTask first asks for active tasks of the issue. *)
Untold(t) == task[t].status \in TaskOver /\ task[t].told = "no"
Hear(t) ==
  /\ Untold(t)
  /\ IF task[t].run # 0
     THEN /\ SetRun(task[t].run, IF task[t].status = "completed" THEN "completed" ELSE "failed")
          /\ relinked' = relinked \ {task[t].run}
          /\ task' = [task EXCEPT ![t].told = "yes"]
     ELSE /\ UNCHANGED <<run, relinked>>
          /\ task' = [task EXCEPT ![t].told =
               IF /\ task[t].status = "failed" /\ RunOfIssue(task[t].issue) # {}
                  /\ ~HasActive(task[t].issue)
               THEN "judged" ELSE "yes"]
  /\ UNCHANGED <<occurrenceVars, enabled, item, issue, worker, ingress, troubles, overlapped>>

Verdict(t) ==
  /\ task[t].told = "judged"
  /\ run' = [r \in DOMAIN run |-> IF run[r].issue = task[t].issue
                                  THEN [run[r] EXCEPT !.status = "failed"] ELSE run[r]]
  /\ task' = [task EXCEPT ![t].told = "yes"]
  /\ UNCHANGED <<occurrenceVars, enabled, item, issue, worker, ingress, history>>

Unheard(t) ==  \* the server stops before it has told its listeners
  /\ Untold(t) \/ task[t].told = "judged"
  /\ Mishap("unheard") /\ task' = [task EXCEPT ![t].told = "lost"]
  /\ UNCHANGED <<occurrenceVars, enabled, item, run, issue, worker, ingress, overlapped, relinked>>

(* done or in_review; cancelled or blocked *)
MoveIssue(i, to) ==
  /\ issue[i].status = "open" /\ issue' = [issue EXCEPT ![i].status = to]
  /\ UNCHANGED <<occurrenceVars, enabled, item, run, task, worker, ingress, history>>

HearIssue(i) ==  \* SyncRunFromIssue
  /\ issue[i].status # "open" /\ ~issue[i].told
  /\ run' = [r \in DOMAIN run |->
       IF r \in RunOfIssue(i)
       THEN [run[r] EXCEPT !.status = IF issue[i].status = "done" THEN "completed" ELSE "failed"]
       ELSE run[r]]
  /\ issue' = [issue EXCEPT ![i].told = TRUE]
  /\ UNCHANGED <<occurrenceVars, enabled, item, task, worker, ingress, history>>

-----------------------------------------------------------------------------
WorkerStep(w) ==
  \/ Look(w) \/ Recover(w) \/ Insert(w, TRUE) \/ Insert(w, FALSE) \/ Relink(w)
  \/ CreateTask(w) \/ Link(w) \/ CreateIssue(w) \/ Enqueue(w) \/ Repair(w)
  \/ Finish(w) \/ Ignore(w) \/ Error(w)
IngressStep == IgnoreDelivery \/ Admit(TRUE) \/ Admit(FALSE)
Listen == (\E t \in DOMAIN task : Hear(t) \/ Verdict(t)) \/ (\E i \in DOMAIN issue : HearIssue(i))
Trial ==
  \/ Toggle \/ CrashIngress \/ Outlived \/ (\E w \in Workers : Crash(w))
  \/ \E t \in DOMAIN task : Unheard(t)
Environment ==
  \/ \E t \in DOMAIN task : Promote(t) \/ \E how \in TaskOver : TaskEnds(t, how)
  \/ \E i \in DOMAIN issue, to \in {"done", "closed"} : MoveIssue(i, to)

DispatchNext ==
  \/ Receive \/ IngressStep \/ LeaseExpires
  \/ \E w \in Workers : Claim(w) \/ WorkerStep(w)
  \/ Listen \/ Trial \/ Environment

(* A worker goes on, a poll or a tick follows the other, and a lease runs out. *)
DispatchFairness ==
  /\ \A w \in Workers : WF_dispatchVars(WorkerStep(w))
  /\ WF_dispatchVars(\E w \in Workers : Claim(w))
  /\ WF_dispatchVars(LeaseExpires)
DispatchSpec == DispatchInit /\ [][DispatchNext]_dispatchVars /\ DispatchFairness

-----------------------------------------------------------------------------
Roots == {t \in DOMAIN task : task[t].attempt = 1}

(* A worker never reports an occurrence as dispatched on the strength of a run that a
   crashed attempt left without its work: the run it ends with is over, or has its issue
   or its task (DispatchAutopilotForPlan, DispatchAutopilotForWebhookDelivery) *)
HonestDispatch ==
  \A w \in Workers : worker[w].at = "finish" /\ worker[w].run # 0 =>
    LET r == worker[w].run IN
    run[r].status \in RunOver \/ run[r].issue # 0 \/ TasksOfRun(r) # {}

(* A delivery makes one run, one issue and one first task at most, wherever the request
   and the workers that claim it one after the other crash or meet an error
   (AdmitAutopilotWebhookDelivery, ensureWebhookCreateIssueTask) *)
DeliveryOnce ==
  source = "webhook" /\ ~overlapped =>
    Len(run) <= 1 /\ Len(issue) <= 1 /\ Cardinality(Roots) <= 1

(* The end of the work reaches the run: once the listeners have heard of it, no run is in
   flight whose own task has ended, or whose issue is open with every attempt failed,
   unless a late link has reopened it (SyncRunFromTask, SyncRunFromLinkedIssueTask) *)
EndReachesRun ==
  \A r \in DOMAIN run \ relinked :
    LET i == run[r].issue IN
    \/ \E t \in TasksOfRun(r) : task[t].told = "yes"
    \/ /\ i # 0 /\ issue[i].status = "open" /\ TasksOf(i) # {}
       /\ \A t \in TasksOf(i) : task[t].status = "failed" /\ task[t].told = "yes"
    => run[r].status \in RunOver

(* Every occurrence is closed in the end, whoever crashes with its lease: as dispatched,
   failed or ignored (webhook_delivery and sys_cron_executions) *)
OccurrenceCloses == item.state = "open" ~> item.state # "open"
=============================================================================
