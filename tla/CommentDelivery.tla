-------------------------- MODULE CommentDelivery --------------------------
(***************************************************************************)
(* How the comments on an issue reach the agent they mention: a comment    *)
(* starts a task, is merged into one that is queued, or waits for the      *)
(* reconcile after a task that is under way.  One (issue, agent) pair, at  *)
(* most one task of which is queued or dispatched at a time.               *)
(***************************************************************************)
EXTENDS Integers, Sequences

CONSTANTS
  Workers,      \* requests in progress on the server: posts, edits, completions
  ResolveAttempts,  \* attempts of resolveCommentTriggerEnqueue
  MaxHandOffs,  \* attempts of propagateUncoveredCommentObligation
  MaxComments, MaxTasks, MaxHead, MaxTrouble   \* bounds

ASSUME DeliveryAssumption ==
  /\ {ResolveAttempts, MaxHandOffs} \subseteq Nat \ {0}
  /\ {MaxComments, MaxTasks, MaxHead, MaxTrouble} \subseteq Nat

VARIABLES
  posted,   \* comments are numbered in the order of created_at
  runs,     \* the tasks, in the order of created_at
  headSha,  \* the commit under review; pushes make it greater
  request,  \* what a worker is doing
  outcome,  \* the status that was returned for the current version of a comment
  seen,     \* comments whose current version has been given to an agent
  askedAt,    \* headSha when a comment was written
  trouble,
  unkept,   \* history: comments lost in one of the ways the actions name
  handed,   \* history: comments handed to a claimed task of another head, or edited and
            \* asked of a newer head while their post was being merged
  stale     \* history: comments given to a run for an older head than they asked about

deliveryVars == <<posted, runs, headSha, request, outcome, seen, askedAt, trouble, unkept,
                  handed, stale>>

NoComment == 0
PendingRuns == {"queued", "dispatched"}
Claimed == {"dispatched", "running"}  \* and waiting_local_directory
ActiveRuns == {"queued", "dispatched", "running"}
Success == {"queued", "coalesced", "deferred"}

Batch(t) == runs[t].coalesced \cup ({runs[t].trigger} \ {NoComment})
After(t) == {c \in 1..posted : c > runs[t].since}
Tasks(S) == {t \in DOMAIN runs : runs[t].status \in S}
NewRun(c, coalesced, head) ==
  [status |-> "queued", trigger |-> c, coalesced |-> coalesced, delivered |-> {},
   since |-> posted, head |-> head,
   embedded |-> {},    \* what the claim response under way contains
   expected |-> NoComment,  \* and the trigger it was built from
   working |-> FALSE]  \* a daemon works on it or has not had an answer to its callback
Ended(t) == [runs[t] EXCEPT !.status = "ended", !.working = FALSE, !.embedded = {},
                            !.expected = NoComment]
Waiting == [pc |-> "idle", c |-> NoComment, kind |-> "none", todo |-> {}, n |-> 0,
         head |-> 0, target |-> 0, of |-> 0]

DeliveryInit ==
  /\ posted = 0 /\ runs = <<>> /\ headSha = 1
  /\ request = [w \in Workers |-> Waiting]
  /\ outcome = [c \in 1..MaxComments |-> "none"]
  /\ askedAt = [c \in 1..MaxComments |-> 0]
  /\ seen = {} /\ trouble = 0 /\ unkept = {} /\ handed = {} /\ stale = {}

Trouble == trouble < MaxTrouble /\ trouble' = trouble + 1
FirstOf(S) == CHOOSE c \in S : \A d \in S : c <= d
At(w, pc) == request[w].pc = pc
Goto(w, pc) == request' = [request EXCEPT ![w].pc = pc]
(* the request takes up the next comment *)
Resolve(w, kind, S, of) ==
  request' = [request EXCEPT ![w] =
    [Waiting EXCEPT !.pc = "check", !.c = FirstOf(S), !.kind = kind, !.todo = S \ {FirstOf(S)},
                 !.of = of]]

-----------------------------------------------------------------------------
(* The end of one comment of a request *)

(* an edit goes on with the edited comment itself; a completion is answered, or its
   answer is lost *)
NextComment(w) ==
  LET r == request[w] IN
  \/ r.todo # {} /\ Resolve(w, r.kind, r.todo, r.of) /\ UNCHANGED trouble
  \/ r.todo = {} /\ r.kind = "survivor" /\ Resolve(w, "own", {r.of}, 0) /\ UNCHANGED trouble
  \/ /\ r.todo = {} /\ r.kind # "survivor"
     /\ request' = [request EXCEPT ![w] = Waiting]
     /\ UNCHANGED trouble \/ (r.kind = "replay" /\ Trouble)

(* the callback whose request ends is answered *)
Answered(w, rs) ==
  LET r == request[w] IN
  runs' = IF r.kind = "replay" /\ r.todo = {} /\ trouble' = trouble
          THEN [rs EXCEPT ![r.of].working = FALSE] ELSE rs

(* only the request of a post or an edit reports an outcome *)
Report(w, o) ==
  outcome' = IF request[w].kind = "own" THEN [outcome EXCEPT ![request[w].c] = o] ELSE outcome
Done(w, o, rs) == Report(w, o) /\ NextComment(w) /\ Answered(w, rs)

-----------------------------------------------------------------------------
(* resolveCommentTriggerEnqueue *)

(* hasPendingTaskForIssueAndAgent, at the head of that moment *)
CheckPending(w) ==
  LET already == \E t \in Tasks(PendingRuns) :
                   runs[t].head = headSha /\ runs[t].trigger # request[w].c IN
  /\ At(w, "check")
  /\ Goto(w, IF already THEN "merge" ELSE "enqueue")
  /\ UNCHANGED <<posted, runs, headSha, outcome, seen, askedAt, trouble, unkept, handed, stale>>

Mergeable_AnyHead(head) == Tasks({"queued"})  \* mutant: not scoped by head
Mergeable(head) == {t \in Tasks({"queued"}) : runs[t].head = head}

(* MergeCommentIntoPendingTask picks its row on a snapshot *)
MergePicks(w) ==
  LET head == IF request[w].head = 0 THEN headSha ELSE request[w].head
      found == Mergeable(head)
      missed == IF At(w, "handMerge") THEN "handEnqueue"
                ELSE IF request[w].n > 0 THEN "register" ELSE "active" IN
  /\ At(w, "merge") \/ At(w, "handMerge")
  /\ \/ found = {} /\ request' = [request EXCEPT ![w].head = head, ![w].pc = missed]
     \/ \E t \in found : request' = [request EXCEPT ![w].head = head, ![w].target = t,
                                                    ![w].pc = "mergeInto"]
  /\ UNCHANGED <<posted, runs, headSha, outcome, seen, askedAt, trouble, unkept, handed, stale>>
(* and updates it by its id, whatever its status has become *)
Merged(t, c) ==
  [runs EXCEPT ![t].coalesced = Batch(t) \ {c}, ![t].trigger = c]
MergeInto(w) ==
  LET t == request[w].target  c == request[w].c IN
  /\ At(w, "mergeInto")
  /\ Done(w, "coalesced", Merged(t, c))
  /\ unkept' = IF runs[t].status \in ActiveRuns THEN unkept ELSE unkept \cup {c}
  /\ handed' = IF request[w].head < askedAt[c] THEN handed \cup {c} ELSE handed
  /\ UNCHANGED <<posted, headSha, seen, askedAt, stale>>

(* HasActiveTaskForIssueAndAgent; a comment older than the active tasks is not in the
   window of their reconcile *)
DeferToActive(w) ==
  LET c == request[w].c IN
  /\ At(w, "active") /\ Tasks(ActiveRuns) # {}
  /\ Done(w, "deferred", runs)
  /\ unkept' = IF \E t \in Tasks(ActiveRuns) : c \in Batch(t) \cup After(t) THEN unkept
               ELSE unkept \cup {c}
  /\ UNCHANGED <<posted, headSha, seen, askedAt, handed, stale>>
NoneActive(w) ==
  /\ At(w, "active") /\ Tasks(ActiveRuns) = {} /\ Goto(w, "enqueue")
  /\ UNCHANGED <<posted, runs, headSha, outcome, seen, askedAt, trouble, unkept, handed, stale>>

(* RegisterPlannedCommentForActiveTask: of the head, or of any head in a hand-off *)
RegisterPicks(w) ==
  LET any == At(w, "handRegister")
      found == {t \in Tasks(Claimed) : any \/ runs[t].head = request[w].head} IN
  /\ any \/ At(w, "register")
  /\ \/ found = {} /\ Goto(w, IF any THEN "handMerge" ELSE "enqueue")
     \/ \E t \in found : /\ \A u \in found : u <= t
                         /\ request' = [request EXCEPT ![w].target = t, ![w].pc = "registerOn"]
  /\ UNCHANGED <<posted, runs, headSha, outcome, seen, askedAt, trouble, unkept, handed, stale>>
RegisterOn(w) ==
  LET t == request[w].target  c == request[w].c IN
  /\ At(w, "registerOn")
  /\ Done(w, "deferred", [runs EXCEPT ![t].coalesced = runs[t].coalesced \cup {c}])
  /\ unkept' = IF runs[t].status \in ActiveRuns THEN unkept ELSE unkept \cup {c}
  /\ handed' = IF runs[t].head < askedAt[c] THEN handed \cup {c} ELSE handed
  /\ UNCHANGED <<posted, headSha, seen, askedAt, stale>>

EnqueueRun(w) ==
  /\ At(w, "enqueue") \/ At(w, "handEnqueue")
  /\ Tasks(PendingRuns) = {} /\ Len(runs) < MaxTasks
  /\ Done(w, "queued", Append(runs, NewRun(request[w].c, {}, headSha)))
  /\ UNCHANGED <<posted, headSha, seen, askedAt, unkept, handed, stale>>

(* ErrDuplicatePendingTask *)
LosesRace(w) ==
  /\ At(w, "enqueue") /\ Tasks(PendingRuns) # {} /\ request[w].n + 1 < ResolveAttempts
  /\ request' = [request EXCEPT ![w].n = request[w].n + 1, ![w].pc = "merge"]
  /\ UNCHANGED <<posted, runs, headSha, outcome, seen, askedAt, trouble, unkept, handed, stale>>
(* a replay that is blocked is handed on *)
Blocked(w) ==
  LET r == request[w] IN
  /\ At(w, "enqueue") /\ Tasks(PendingRuns) # {} /\ r.n + 1 = ResolveAttempts
  /\ \/ /\ r.kind = "replay"
        /\ request' = [request EXCEPT ![w].n = 0, ![w].head = headSha, ![w].pc = "handRegister"]
        /\ UNCHANGED <<runs, outcome, trouble, unkept>>
     \/ /\ r.kind # "replay" /\ Done(w, "blocked", runs)
        /\ unkept' = unkept \cup {r.c}
  /\ UNCHANGED <<posted, headSha, seen, askedAt, handed, stale>>
(* propagateUncoveredCommentObligation tries again, or only logs that it could not *)
HandOffMisses(w) ==
  LET r == request[w] IN
  /\ At(w, "handEnqueue") /\ Tasks(PendingRuns) # {}
  /\ \/ /\ r.n + 1 < MaxHandOffs
        /\ request' = [request EXCEPT ![w].n = r.n + 1, ![w].pc = "handRegister"]
        /\ UNCHANGED <<runs, outcome, trouble, unkept>>
     \/ /\ r.n + 1 = MaxHandOffs /\ Done(w, "blocked", runs)
        /\ unkept' = unkept \cup {r.c}
  /\ UNCHANGED <<posted, headSha, seen, askedAt, handed, stale>>

-----------------------------------------------------------------------------
(* Requests that route comments *)

Post(w) ==
  /\ At(w, "idle") /\ posted < MaxComments
  /\ posted' = posted + 1
  /\ askedAt' = [askedAt EXCEPT ![posted'] = headSha]
  /\ Resolve(w, "own", {posted'}, 0)
  /\ UNCHANGED <<runs, headSha, outcome, seen, trouble, unkept, handed, stale>>

(* UpdateComment: CancelTasksByTriggerComment, then the survivors of the cancelled
   batches, then the edited comment *)
Edit(w, c) ==
  LET hit == {t \in Tasks(ActiveRuns) : c \in Batch(t)}
      survivors == (UNION {Batch(t) : t \in hit}) \ {c} IN
  /\ At(w, "idle") /\ c \in 1..posted /\ Trouble
  /\ runs' = [t \in DOMAIN runs |->
                IF t \in hit THEN Ended(t) ELSE runs[t]]
  /\ outcome' = [outcome EXCEPT ![c] = "none"]
  /\ askedAt' = [askedAt EXCEPT ![c] = headSha]
  /\ seen' = seen \ {c}
  /\ unkept' = (unkept \cup UNION {After(t) : t \in hit}) \ (survivors \cup {c})
  /\ IF survivors = {} THEN Resolve(w, "own", {c}, 0) ELSE Resolve(w, "survivor", survivors, c)
  /\ UNCHANGED <<posted, headSha, handed, stale>>

(* CompleteTask, or its repetition, and reconcileCommentsOnCompletion *)
CompleteRun(w, t) ==
  LET missed == (After(t) \cup Batch(t)) \ runs[t].delivered IN
  /\ At(w, "idle") /\ runs[t].status \in {"running", "completed"} /\ runs[t].working
  /\ \/ missed = {} /\ UNCHANGED request /\ (UNCHANGED trouble \/ Trouble)
     \/ missed # {} /\ Resolve(w, "replay", missed, t) /\ UNCHANGED trouble
  /\ runs' = [runs EXCEPT ![t].status = "completed",
                          ![t].working = (missed # {} \/ trouble' # trouble)]
  /\ UNCHANGED <<posted, headSha, outcome, seen, askedAt, unkept, handed, stale>>

(* the server restarts under a request; a post whose answer never came promised nothing *)
CrashRequest(w) ==
  LET r == request[w] IN
  /\ ~At(w, "idle") /\ Trouble
  /\ request' = [request EXCEPT ![w] = Waiting]
  /\ unkept' = IF r.kind = "survivor" THEN unkept \cup r.todo \cup {r.c} ELSE unkept
  /\ UNCHANGED <<posted, runs, headSha, outcome, seen, askedAt, handed, stale>>

-----------------------------------------------------------------------------
(* Claims and runs *)

(* ClaimTask, or the reclaim of a stale dispatched row, builds a response from the row;
   the payload has room for the trigger and some of the others *)
Claim(t) ==
  /\ \/ /\ runs[t].status = "queued" /\ Tasks(Claimed) = {} /\ UNCHANGED trouble
     \/ runs[t].status = "dispatched" /\ Trouble
  /\ \E last \in 0..posted :
       runs' = [runs EXCEPT ![t].status = "dispatched", ![t].expected = runs[t].trigger,
                            ![t].embedded = {c \in runs[t].coalesced : c <= last}
                                              \cup {runs[t].trigger}]
  /\ UNCHANGED <<posted, headSha, request, outcome, seen, askedAt, unkept, handed, stale>>

(* SetTaskDeliveredCommentIDs and the delivery of the answer *)
Receipt_Plan(t) == Batch(t)  \* mutant: the plan counts as delivered
Receipt(t) == runs[t].embedded
StartRun(t) ==
  LET given == runs[t].embedded IN
  /\ runs[t].status = "dispatched" /\ runs[t].trigger = runs[t].expected
  /\ runs' = [runs EXCEPT ![t].status = "running", ![t].delivered = Receipt(t),
                          ![t].working = TRUE, ![t].embedded = {}, ![t].expected = NoComment]
  /\ seen' = seen \cup given
  /\ stale' = stale \cup {c \in given : runs[t].head < askedAt[c]}
  /\ UNCHANGED <<posted, headSha, request, outcome, askedAt, trouble, unkept, handed>>

(* RequeueAgentTaskAfterClaimFailure: the trigger has changed under the claim, or the
   receipt failed *)
RequeueClaim(t) ==
  /\ runs[t].status = "dispatched"
  /\ (runs[t].trigger # runs[t].expected /\ UNCHANGED trouble) \/ Trouble
  /\ runs' = [runs EXCEPT ![t].status = "queued", ![t].embedded = {}, ![t].expected = NoComment]
  /\ UNCHANGED <<posted, headSha, request, outcome, seen, askedAt, unkept, handed, stale>>

RetryOf_TriggerOnly(t) == NewRun(runs[t].trigger, {}, runs[t].head)  \* mutant: the batch is not copied
RetryOf(t) == NewRun(runs[t].trigger, runs[t].coalesced, runs[t].head)
(* the failure is reported or swept, with its retry or, out of budget, without; what
   came during the run is not reconciled *)
FailRun(t) ==
  LET missed == After(t) \ Batch(t) IN
  /\ runs[t].status \in Claimed /\ Trouble
  /\ LET ended == [runs EXCEPT ![t] = Ended(t)] IN
     \/ /\ Tasks(PendingRuns) \subseteq {t} /\ Len(runs) < MaxTasks
        /\ runs' = Append(ended, RetryOf(t)) /\ unkept' = unkept \cup missed
     \/ runs' = ended /\ unkept' = unkept \cup missed \cup (Batch(t) \ seen)
  /\ UNCHANGED <<posted, headSha, request, outcome, seen, askedAt, handed, stale>>

(* the daemon is gone and will not repeat its callback *)
GiveUpRun(t) ==
  /\ runs[t].status = "completed" /\ runs[t].working /\ Trouble
  /\ runs' = [runs EXCEPT ![t].working = FALSE]
  /\ unkept' = unkept \cup ((After(t) \cup Batch(t)) \ runs[t].delivered)
  /\ UNCHANGED <<posted, headSha, request, outcome, seen, askedAt, handed, stale>>

Push ==
  /\ headSha < MaxHead /\ headSha' = headSha + 1
  /\ UNCHANGED <<posted, runs, request, outcome, seen, askedAt, trouble, unkept, handed, stale>>

ResolveStep(w) ==
  \/ CheckPending(w) \/ MergePicks(w) \/ MergeInto(w) \/ DeferToActive(w) \/ NoneActive(w)
  \/ RegisterPicks(w) \/ RegisterOn(w) \/ EnqueueRun(w) \/ LosesRace(w) \/ Blocked(w)
  \/ HandOffMisses(w)
DeliveryNext ==
  \/ Push
  \/ \E w \in Workers :
       \/ ResolveStep(w) \/ Post(w) \/ CrashRequest(w)
       \/ \E c \in 1..posted : Edit(w, c)
       \/ \E t \in DOMAIN runs : CompleteRun(w, t)
  \/ \E t \in DOMAIN runs : Claim(t) \/ StartRun(t) \/ RequeueClaim(t) \/ FailRun(t) \/ GiveUpRun(t)

DeliverySpec == DeliveryInit /\ [][DeliveryNext]_deliveryVars

-----------------------------------------------------------------------------
(* Properties *)

Covered(c) ==
  \/ c \in seen
  \/ \E t \in Tasks(ActiveRuns) : c \in Batch(t) \cup After(t)
  \/ \E t \in Tasks({"completed"}) :
       runs[t].working /\ c \in (After(t) \cup Batch(t)) \ runs[t].delivered
  \/ \E w \in Workers :
       \/ request[w].c = c \/ c \in request[w].todo
       \/ request[w].kind = "survivor" /\ request[w].of = c

(* A comment reported as queued, coalesced or deferred has been given to an agent, or is
   in the batch of a task still to be claimed, or will be replayed when a task
   completes, whatever claims, merges, completions, retries and edits do meanwhile; the
   ways in which the code loses one are those that the actions put into unkept *)
PromiseKept ==
  \A c \in 1..posted : outcome[c] \in Success /\ c \notin unkept => Covered(c)

(* A comment about a newer head is never answered by a run for an older one, unless it
   was handed to a claimed task which was then claimed again or retried *)
NoOldHeadRun == stale \subseteq handed
=============================================================================
