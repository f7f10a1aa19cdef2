-------------------------- MODULE EmptyClaimCache --------------------------
(***************************************************************************)
(* The Redis cache of the verdict "this runtime has no queued task", next  *)
(* to the transactions that queue tasks and the claim requests that skip   *)
(* the database while the verdict stands.  A verdict is tagged with the    *)
(* version of its runtime that was read before the SELECT it records; an   *)
(* enqueue increments the version after it committed and before it wakes   *)
(* the daemon.  A request covers one runtime (ClaimTaskForRuntime) or a    *)
(* set of them (ClaimTasksForRuntimes).                                    *)
(***************************************************************************)
EXTENDS Naturals, FiniteSets

CONSTANTS Tasks, Runtimes, Requests,
          RtOf,        \* [Tasks -> Runtimes]
          RedisFails,  \* BOOLEAN: calls to Redis may time out
          Crashes,     \* BOOLEAN: a process may die between commit and Bump
          MaxRequeues, \* bound: how often claimed rows return to the queue
          None

ASSUME CacheAssumption ==
  /\ RtOf \in [Tasks -> Runtimes]
  /\ RedisFails \in BOOLEAN /\ Crashes \in BOOLEAN
  /\ MaxRequeues \in Nat /\ None \notin Nat

VARIABLES
  row,       \* what became of the row of a task
  notify,    \* how far notifyRuntimeMayHaveWork got for it
  announced, \* tasks whose last Bump succeeded
  version,   \* the version key of a runtime; a missing key counts as 0
  verdict,   \* the empty key of a runtime, or None
  req,       \* claim requests in progress
  requeues   \* rows requeued so far

vars == <<row, notify, announced, version, verdict, req, requeues>>

(* todo: runtimes still to check or to mark; rt: the one whose version is read
   next; ver: versions sampled; found: the candidates listed *)
NoVersions == [r \in Runtimes |-> None]
IdleReq == [pc |-> "idle", todo |-> {}, rt |-> None, ver |-> NoVersions, found |-> {}]
QueuedOn(r) == {t \in Tasks : row[t] = "queued" /\ RtOf[t] = r}

Init ==
  /\ row = [t \in Tasks |-> "absent"]
  /\ notify = [t \in Tasks |-> "done"]
  /\ announced = {}
  /\ version = [r \in Runtimes |-> 0]
  /\ verdict = [r \in Runtimes |-> None]
  /\ req = [c \in Requests |-> IdleReq]
  /\ requeues = 0

-----------------------------------------------------------------------------
(* A transaction that queues the row, and what follows its commit *)

(* an insert, a retry or the promotion of a deferred row *)
Enqueue(t) ==
  /\ row[t] = "absent"
  /\ row' = [row EXCEPT ![t] = "queued"]
  /\ notify' = [notify EXCEPT ![t] = "bump"]
  /\ UNCHANGED <<announced, version, verdict, req, requeues>>

(* RequeueTaskAfterClaimFailure *)
Requeue(t) ==
  /\ row[t] = "claimed" /\ notify[t] = "done"
  /\ requeues < MaxRequeues /\ requeues' = requeues + 1
  /\ row' = [row EXCEPT ![t] = "queued"]
  /\ notify' = [notify EXCEPT ![t] = "bump"]
  /\ announced' = announced \ {t}
  /\ UNCHANGED <<version, verdict, req>>

(* a call that times out may or may not have reached Redis *)
Bump(t) ==
  LET r == RtOf[t]
      incr == [version EXCEPT ![r] = @ + 1] IN
  /\ notify[t] = "bump"
  /\ \/ version' = incr /\ announced' = announced \cup {t}
     \/ RedisFails /\ version' \in {version, incr} /\ announced' = announced
  /\ notify' = [notify EXCEPT ![t] = "wakeup"]
  /\ UNCHANGED <<row, verdict, req, requeues>>

(* the hint to poll; Poll does not wait for it *)
Wakeup(t) ==
  /\ notify[t] = "wakeup"
  /\ notify' = [notify EXCEPT ![t] = "done"]
  /\ UNCHANGED <<row, announced, version, verdict, req, requeues>>

Crash(t) ==
  /\ Crashes /\ notify[t] = "bump"
  /\ notify' = [notify EXCEPT ![t] = "done"]
  /\ UNCHANGED <<row, announced, version, verdict, req, requeues>>

-----------------------------------------------------------------------------
(* A claim request *)

Poll(c, S) ==
  /\ req[c].pc = "idle" /\ S # {}
  /\ req' = [req EXCEPT ![c] = [IdleReq EXCEPT !.pc = "check", !.todo = S]]
  /\ UNCHANGED <<row, notify, announced, version, verdict, requeues>>

(* MGET of both keys *)
Empty(r) == verdict[r] = version[r]
IsEmpty(c, r) ==
  /\ req[c].pc = "check" /\ r \in req[c].todo
  /\ \/ /\ Empty(r)
        /\ req' = [req EXCEPT ![c] = [@ EXCEPT !.todo = req[c].todo \ {r}]]
     \/ /\ ~Empty(r) \/ RedisFails
        /\ req' = [req EXCEPT ![c] = [@ EXCEPT !.pc = "sample", !.rt = r,
                                              !.todo = req[c].todo \ {r}]]
  /\ UNCHANGED <<row, notify, announced, version, verdict, requeues>>

CurrentVersion_Sentinel(c) ==  \* mutant: an error reads as version -1
  /\ req[c].pc = "sample"
  /\ \E v \in {version[req[c].rt]} \cup (IF RedisFails THEN {0 - 1} ELSE {}) :
       req' = [req EXCEPT ![c] = [@ EXCEPT
                 !.pc = "check", !.rt = None,
                 !.ver = [req[c].ver EXCEPT ![req[c].rt] = v]]]
  /\ UNCHANGED <<row, notify, announced, version, verdict, requeues>>
(* an error reads as version 0 *)
CurrentVersion(c) ==
  /\ req[c].pc = "sample"
  /\ \E v \in {version[req[c].rt]} \cup (IF RedisFails THEN {0} ELSE {}) :
       req' = [req EXCEPT ![c] = [@ EXCEPT
                 !.pc = "check", !.rt = None,
                 !.ver = [req[c].ver EXCEPT ![req[c].rt] = v]]]
  /\ UNCHANGED <<row, notify, announced, version, verdict, requeues>>

(* one SELECT over the runtimes that were not skipped *)
ListQueued(c) ==
  LET asked == {r \in Runtimes : req[c].ver[r] # None} IN
  /\ req[c].pc = "check" /\ req[c].todo = {}
  /\ req' = [req EXCEPT ![c] =
       IF asked = {} THEN IdleReq
       ELSE [@ EXCEPT !.pc = "mark",
                      !.todo = {r \in asked : QueuedOn(r) = {}},
                      !.found = {t \in Tasks : t \in QueuedOn(RtOf[t]) /\ RtOf[t] \in asked}]]
  /\ UNCHANGED <<row, notify, announced, version, verdict, requeues>>

MarkEmpty_Unsampled(c, r) ==  \* mutant: tagged with the version at the time of the write
  /\ req[c].pc = "mark" /\ r \in req[c].todo
  /\ verdict' = [verdict EXCEPT ![r] = version[r]]
  /\ req' = [req EXCEPT ![c] = [@ EXCEPT !.todo = req[c].todo \ {r}]]
  /\ UNCHANGED <<row, notify, announced, version, requeues>>
MarkEmpty(c, r) ==
  /\ req[c].pc = "mark" /\ r \in req[c].todo
  /\ \/ verdict' = [verdict EXCEPT ![r] = req[c].ver[r]]
     \/ RedisFails /\ verdict' = verdict
  /\ req' = [req EXCEPT ![c] = [@ EXCEPT !.todo = req[c].todo \ {r}]]
  /\ UNCHANGED <<row, notify, announced, version, requeues>>

(* ClaimTask on the candidates; none is left when other requests were faster *)
Claim(c) ==
  /\ req[c].pc = "mark" /\ req[c].todo = {}
  /\ \/ /\ \A t \in req[c].found : row[t] # "queued"
        /\ row' = row
     \/ \E S \in SUBSET {t \in req[c].found : row[t] = "queued"} \ {{}} :
          row' = [t \in Tasks |-> IF t \in S THEN "claimed" ELSE row[t]]
  /\ req' = [req EXCEPT ![c] = IdleReq]
  /\ UNCHANGED <<notify, announced, version, verdict, requeues>>

-----------------------------------------------------------------------------
(* Redis *)

ExpireVerdict_Persistent(r) == verdict[r] # None /\ UNCHANGED vars  \* mutant: no TTL
ExpireVerdict(r) ==
  /\ verdict[r] # None
  /\ verdict' = [verdict EXCEPT ![r] = None]
  /\ UNCHANGED <<row, notify, announced, version, req, requeues>>

(* emptyClaimVersionTTL: 24 hours without a Bump or a CurrentVersion, so that no
   verdict and no request that read the key is left *)
ExpireVersion(r) ==
  /\ version[r] # 0 /\ verdict[r] = None
  /\ \A c \in Requests : req[c].ver[r] = None
  /\ version' = [version EXCEPT ![r] = 0]
  /\ UNCHANGED <<row, notify, announced, verdict, req, requeues>>

-----------------------------------------------------------------------------
Enqueuer(t) == Bump(t) \/ Wakeup(t)
ReqStep(c) == \/ \E r \in Runtimes : IsEmpty(c, r) \/ MarkEmpty(c, r)
              \/ CurrentVersion(c) \/ ListQueued(c) \/ Claim(c)
Next ==
  \/ \E t \in Tasks : Enqueue(t) \/ Requeue(t) \/ Enqueuer(t) \/ Crash(t)
  \/ \E c \in Requests : ReqStep(c) \/ \E S \in SUBSET Runtimes : Poll(c, S)
  \/ \E r \in Runtimes : ExpireVerdict(r) \/ ExpireVersion(r)

Spec == Init /\ [][Next]_vars

(* Daemons keep polling each of their runtimes, a request that started ends, and
   a key expires. *)
Fairness ==
  /\ \A c \in Requests :
       /\ WF_vars(ReqStep(c))
       /\ \A r \in Runtimes : SF_vars(\E S \in SUBSET Runtimes : r \in S /\ Poll(c, S))
  /\ \A r \in Runtimes : WF_vars(ExpireVerdict(r))
FairSpec == Spec /\ Fairness

-----------------------------------------------------------------------------
(* Properties *)

(* Every variable stays in its set. *)
TypeOK ==
  /\ row \in [Tasks -> {"absent", "queued", "claimed"}]
  /\ notify \in [Tasks -> {"bump", "wakeup", "done"}]
  /\ announced \subseteq Tasks /\ requeues \in Nat
  /\ version \in [Runtimes -> Nat]
  /\ verdict \in [Runtimes -> Nat \cup {None}]
  /\ req \in [Requests ->
       [pc : {"idle", "check", "sample", "mark"}, todo : SUBSET Runtimes,
        rt : Runtimes \cup {None}, ver : [Runtimes -> Nat \cup {None}],
        found : SUBSET Tasks]]

(* A verdict that would be believed never hides a queued task whose enqueue has
   bumped the version, however late a verdict is written and whatever expires. *)
NoHiddenTask ==
  \A r \in Runtimes : Empty(r) => \A t \in announced : t \notin QueuedOn(r)

(* A queued task is claimed although its Bump failed or was never made: a wrong
   verdict lasts no longer than its TTL. *)
QueuedIsClaimed ==
  \A t \in Tasks : (row[t] = "queued") ~> (row[t] # "queued")
=============================================================================
