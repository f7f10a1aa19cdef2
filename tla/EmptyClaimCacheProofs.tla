----------------------- MODULE EmptyClaimCacheProofs -----------------------
(***************************************************************************)
(* Proof that a believed verdict hides no announced task, for any number   *)
(* of tasks, runtimes and requests.                                        *)
(***************************************************************************)
EXTENDS EmptyClaimCache, TLAPS

Hides(r) == \E t \in announced : t \in QueuedOn(r)

(* Sampled versions and verdicts are never ahead of the version, so that a Bump
   leaves all of them behind. *)
Behind ==
  /\ \A r \in Runtimes : verdict[r] # None => verdict[r] <= version[r]
  /\ \A c \in Requests, r \in Runtimes :
       req[c].ver[r] # None => req[c].ver[r] <= version[r]

(* What a request is about to write is either overtaken already or right. *)
ToWrite ==
  \A c \in Requests : req[c].pc = "mark" =>
    \A r \in req[c].todo :
      /\ req[c].ver[r] # None
      /\ req[c].ver[r] = version[r] => ~Hides(r)

(* Only rows that exist are announced. *)
Present ==
  \A t \in Tasks : t \in announced \/ notify[t] = "bump" => row[t] # "absent"

CacheInv ==
  /\ TypeOK /\ Behind /\ ToWrite /\ NoHiddenTask /\ Present
  /\ \A c \in Requests : req[c].pc = "sample" => req[c].rt \in Runtimes

ReqType == [pc : {"idle", "check", "sample", "mark"}, todo : SUBSET Runtimes,
            rt : Runtimes \cup {None}, ver : [Runtimes -> Nat \cup {None}],
            found : SUBSET Tasks]

LEMMA IdleType ==
  /\ IdleReq \in ReqType /\ IdleReq.pc = "idle"
  /\ \A r \in Runtimes : IdleReq.ver[r] = None
  BY DEF IdleReq, ReqType, NoVersions

(* A step that changes one request only. *)
LEMMA ReqFrame ==
  ASSUME CacheAssumption, CacheInv, NEW c \in Requests, NEW q \in ReqType,
         req' = [req EXCEPT ![c] = q],
         UNCHANGED <<row, notify, announced, version, verdict, requeues>>,
         q.pc = "sample" => q.rt \in Runtimes,
         \A r \in Runtimes : q.ver[r] # None => q.ver[r] <= version[r],
         q.pc = "mark" => \A r \in q.todo : /\ q.ver[r] # None
                                            /\ q.ver[r] = version[r] => ~Hides(r)
  PROVE CacheInv'
<1>1. req \in [Requests -> ReqType]
  BY DEF CacheInv, TypeOK, ReqType
<1>2. \A d \in Requests : req'[d] = IF d = c THEN q ELSE req[d]
  BY <1>1
<1>3. req' \in [Requests -> ReqType]
  BY <1>1
<1>4. \A r : Hides(r)' <=> Hides(r)
  BY DEF Hides, QueuedOn
<1>5. TypeOK'
  BY <1>3 DEF CacheInv, TypeOK, ReqType
<1>6. Behind'
  BY <1>2 DEF CacheInv, Behind
<1>7. ToWrite'
  BY <1>2, <1>4 DEF CacheInv, ToWrite
<1>8. NoHiddenTask'
  BY DEF CacheInv, NoHiddenTask, Empty, QueuedOn
<1>9. \A d \in Requests : req'[d].pc = "sample" => req'[d].rt \in Runtimes
  BY <1>2 DEF CacheInv
<1>10. Present'
  BY DEF CacheInv, Present
<1> QED BY <1>5, <1>6, <1>7, <1>8, <1>9, <1>10 DEF CacheInv

LEMMA RequestStep ==
  ASSUME CacheAssumption, CacheInv, NEW c \in Requests,
         \/ CurrentVersion(c) \/ ListQueued(c)
         \/ \E r \in Runtimes : IsEmpty(c, r)
         \/ \E S \in SUBSET Runtimes : Poll(c, S)
  PROVE CacheInv'
<1>1. /\ req[c] \in ReqType /\ version \in [Runtimes -> Nat]
      /\ \A r \in Runtimes : req[c].ver[r] # None => req[c].ver[r] <= version[r]
  BY DEF CacheInv, TypeOK, ReqType, Behind
<1>2. UNCHANGED <<row, notify, announced, version, verdict, requeues>>
  BY DEF CurrentVersion, ListQueued, IsEmpty, Poll
<1>3. CASE \E S \in SUBSET Runtimes : Poll(c, S)
  <2>1. PICK S \in SUBSET Runtimes : Poll(c, S)
    BY <1>3
  <2> DEFINE q == [IdleReq EXCEPT !.pc = "check", !.todo = S]
  <2>2. q \in ReqType /\ q.pc = "check" /\ \A r \in Runtimes : q.ver[r] = None
    BY DEF IdleReq, ReqType, NoVersions
  <2>3. req' = [req EXCEPT ![c] = q]
    BY <2>1 DEF Poll
  <2> HIDE DEF q
  <2> QED BY <1>2, <2>2, <2>3, ReqFrame
<1>4. CASE \E r \in Runtimes : IsEmpty(c, r)
  <2>1. PICK r \in Runtimes : IsEmpty(c, r)
    BY <1>4
  <2> DEFINE q == [req[c] EXCEPT !.todo = req[c].todo \ {r}]
             p == [req[c] EXCEPT !.pc = "sample", !.rt = r, !.todo = req[c].todo \ {r}]
  <2>2. q \in ReqType /\ q.pc = "check" /\ q.ver = req[c].ver
    BY <1>1, <2>1 DEF IsEmpty, ReqType
  <2>3. p \in ReqType /\ p.pc = "sample" /\ p.ver = req[c].ver /\ p.rt = r
    BY <1>1 DEF ReqType
  <2>4. req' = [req EXCEPT ![c] = q] \/ req' = [req EXCEPT ![c] = p]
    BY <2>1 DEF IsEmpty
  <2> HIDE DEF q, p
  <2> QED BY <1>1, <1>2, <2>2, <2>3, <2>4, ReqFrame
<1>5. CASE CurrentVersion(c)
  <2>1. req[c].pc = "sample" /\ req[c].rt \in Runtimes
    BY <1>5 DEF CurrentVersion, CacheInv
  <2>2. PICK v \in {version[req[c].rt], 0} :
          req' = [req EXCEPT ![c] = [@ EXCEPT
                    !.pc = "check", !.rt = None,
                    !.ver = [req[c].ver EXCEPT ![req[c].rt] = v]]]
    BY <1>5 DEF CurrentVersion
  <2> DEFINE w == [req[c].ver EXCEPT ![req[c].rt] = v]
             q == [req[c] EXCEPT !.pc = "check", !.rt = None, !.ver = w]
  <2>3. v \in Nat /\ v <= version[req[c].rt]
    BY <1>1, <2>1, <2>2
  <2>4. req[c].ver \in [Runtimes -> Nat \cup {None}]
    BY <1>1 DEF ReqType
  <2>5. /\ w \in [Runtimes -> Nat \cup {None}]
        /\ \A r \in Runtimes : w[r] = IF r = req[c].rt THEN v ELSE req[c].ver[r]
    BY <2>3, <2>4
  <2>6. req' = [req EXCEPT ![c] = q]
    BY <2>2
  <2> HIDE DEF w
  <2>7. q \in ReqType /\ q.pc = "check" /\ q.ver = w
    BY <1>1, <2>5 DEF ReqType
  <2>8. \A r \in Runtimes : q.ver[r] # None => q.ver[r] <= version[r]
    BY <1>1, <2>3, <2>5, <2>7
  <2> HIDE DEF q
  <2> QED BY <1>2, <2>6, <2>7, <2>8, ReqFrame
<1>6. CASE ListQueued(c)
  <2> DEFINE asked == {r \in Runtimes : req[c].ver[r] # None}
             free == {r \in asked : QueuedOn(r) = {}}
             fnd == {t \in Tasks : t \in QueuedOn(RtOf[t]) /\ RtOf[t] \in asked}
             q == [req[c] EXCEPT !.pc = "mark", !.todo = free, !.found = fnd]
  <2>1. req' = [req EXCEPT ![c] = IdleReq] \/ req' = [req EXCEPT ![c] = q]
    BY <1>6 DEF ListQueued
  <2>2. free \subseteq Runtimes /\ fnd \subseteq Tasks
        /\ \A r \in free : req[c].ver[r] # None /\ ~Hides(r)
    BY DEF Hides
  <2> HIDE DEF free, fnd
  <2>3. q \in ReqType /\ q.pc = "mark" /\ q.todo = free /\ q.ver = req[c].ver
    BY <1>1, <2>2 DEF ReqType
  <2> HIDE DEF q
  <2>4. CASE req' = [req EXCEPT ![c] = q]
    BY <1>1, <1>2, <2>2, <2>3, <2>4, ReqFrame
  <2>5. CASE req' = [req EXCEPT ![c] = IdleReq]
    BY <1>2, <2>5, IdleType, ReqFrame
  <2> QED BY <2>1, <2>4, <2>5
<1> QED BY <1>3, <1>4, <1>5, <1>6

LEMMA WriteStep ==
  ASSUME CacheAssumption, CacheInv, NEW c \in Requests, NEW r \in Runtimes,
         MarkEmpty(c, r)
  PROVE CacheInv'
<1> DEFINE q == [req[c] EXCEPT !.todo = req[c].todo \ {r}]
<1>1. /\ req \in [Requests -> ReqType] /\ version \in [Runtimes -> Nat]
      /\ verdict \in [Runtimes -> Nat \cup {None}] /\ req[c] \in ReqType
  BY DEF CacheInv, TypeOK, ReqType
<1>2. /\ req[c].pc = "mark" /\ r \in req[c].todo /\ req' = [req EXCEPT ![c] = q]
      /\ UNCHANGED <<row, notify, announced, version, requeues>>
  BY DEF MarkEmpty
<1>3. q \in ReqType /\ q.pc = "mark" /\ q.todo = req[c].todo \ {r} /\ q.ver = req[c].ver
      /\ q.rt = req[c].rt
  BY <1>1, <1>2 DEF ReqType
<1> HIDE DEF q
<1>4. \A d \in Requests : req'[d] = IF d = c THEN q ELSE req[d]
  BY <1>1, <1>2
<1>5. \A x : Hides(x)' <=> Hides(x)
  BY <1>2 DEF Hides, QueuedOn
<1>6. /\ req[c].ver[r] # None /\ req[c].ver[r] <= version[r]
      /\ req[c].ver[r] = version[r] => ~Hides(r)
  BY <1>2 DEF CacheInv, ToWrite, Behind
<1>7. req[c].ver[r] \in Nat
  <2>1. req[c].ver \in [Runtimes -> Nat \cup {None}]
    BY <1>1 DEF ReqType
  <2> QED BY <1>6, <2>1
<1>8. \/ verdict' = [verdict EXCEPT ![r] = req[c].ver[r]]
      \/ verdict' = verdict
  BY DEF MarkEmpty
<1>9. /\ verdict' \in [Runtimes -> Nat \cup {None}]
      /\ \A x \in Runtimes : verdict'[x] = verdict[x] \/ (x = r /\ verdict'[x] = req[c].ver[r])
  BY <1>1, <1>7, <1>8
<1>10. TypeOK'
  <2>1. req' \in [Requests -> ReqType]
    BY <1>1, <1>2, <1>3
  <2> QED BY <1>2, <1>9, <2>1 DEF CacheInv, TypeOK, ReqType
<1>11. Behind'
  BY <1>2, <1>3, <1>4, <1>6, <1>9 DEF CacheInv, Behind
<1>12. ToWrite'
  BY <1>2, <1>3, <1>4, <1>5 DEF CacheInv, ToWrite
<1>13. NoHiddenTask'
  <2>1. \A x \in Runtimes : verdict[x] = version[x] => ~Hides(x)
    BY DEF CacheInv, NoHiddenTask, Empty, Hides
  <2>2. \A x \in Runtimes : verdict'[x] = version'[x] => ~Hides(x)'
    BY <1>2, <1>5, <1>6, <1>9, <2>1
  <2> QED BY <2>2 DEF NoHiddenTask, Empty, Hides
<1>14. \A d \in Requests : req'[d].pc = "sample" => req'[d].rt \in Runtimes
  BY <1>3, <1>4 DEF CacheInv
<1>15. Present'
  BY <1>2 DEF CacheInv, Present
<1> QED BY <1>10, <1>11, <1>12, <1>13, <1>14, <1>15 DEF CacheInv

(* A step after which no more tasks are hidden and no version has advanced. *)
LEMMA QuietStep ==
  ASSUME CacheInv, TypeOK',
         \A r \in Runtimes : Hides(r)' => Hides(r),
         version' = version,
         \A r \in Runtimes : verdict'[r] = verdict[r] \/ verdict'[r] = None,
         version \in [Runtimes -> Nat], None \notin Nat,
         \A c \in Requests : req'[c] = req[c] \/ req'[c] = IdleReq,
         Present'
  PROVE CacheInv'
<1>1. Behind'
  BY IdleType DEF CacheInv, Behind
<1>2. ToWrite'
  <2> SUFFICES ASSUME NEW c \in Requests, req'[c].pc = "mark", NEW r \in req'[c].todo
               PROVE /\ req'[c].ver[r] # None
                     /\ req'[c].ver[r] = version'[r] => ~Hides(r)'
    BY DEF ToWrite
  <2>1. req'[c] = req[c]
    BY IdleType
  <2>2. r \in Runtimes
    BY <2>1 DEF CacheInv, TypeOK
  <2> QED BY <2>1, <2>2 DEF CacheInv, ToWrite
<1>3. NoHiddenTask'
  <2>1. \A r \in Runtimes : verdict[r] = version[r] => ~Hides(r)
    BY DEF CacheInv, NoHiddenTask, Empty, Hides
  <2>2. \A r \in Runtimes : verdict'[r] = version'[r] => ~Hides(r)'
    BY <2>1
  <2> QED BY <2>2 DEF NoHiddenTask, Empty, Hides
<1>4. \A c \in Requests : req'[c].pc = "sample" => req'[c].rt \in Runtimes
  BY IdleType DEF CacheInv
<1> QED BY <1>1, <1>2, <1>3, <1>4 DEF CacheInv

LEMMA BumpStep ==
  ASSUME CacheAssumption, CacheInv, NEW t \in Tasks, Bump(t)
  PROVE CacheInv'
<1> DEFINE r == RtOf[t]
<1>1. /\ r \in Runtimes /\ version \in [Runtimes -> Nat] /\ None \notin Nat
      /\ verdict \in [Runtimes -> Nat \cup {None}]
      /\ notify \in [Tasks -> {"bump", "wakeup", "done"}]
  BY DEF CacheInv, TypeOK, CacheAssumption
<1>2. \A c \in Requests : req[c].ver \in [Runtimes -> Nat \cup {None}]
                          /\ req[c].todo \subseteq Runtimes
  BY DEF CacheInv, TypeOK
<1>3. /\ UNCHANGED <<row, verdict, req, requeues>>
      /\ notify' = [notify EXCEPT ![t] = "wakeup"]
      /\ \/ version' = [version EXCEPT ![r] = @ + 1] /\ announced' = announced \cup {t}
         \/ version' = [version EXCEPT ![r] = @ + 1] /\ announced' = announced
         \/ version' = version /\ announced' = announced
  BY DEF Bump
<1>4. TypeOK'
  <2>1. version' \in [Runtimes -> Nat] /\ announced' \subseteq Tasks
    BY <1>1, <1>3 DEF CacheInv, TypeOK
  <2>2. notify' \in [Tasks -> {"bump", "wakeup", "done"}]
    BY <1>1, <1>3
  <2> QED BY <1>3, <2>1, <2>2 DEF CacheInv, TypeOK
<1>5. Present'
  <2>1. notify[t] = "bump" /\ \A u \in Tasks : notify'[u] = "bump" => notify[u] = "bump"
    BY <1>1, <1>3 DEF Bump
  <2> QED BY <1>3, <2>1 DEF CacheInv, Present
<1>6. CASE version' = version /\ announced' = announced
  <2>1. \A x \in Runtimes : Hides(x)' => Hides(x)
    BY <1>3, <1>6 DEF Hides, QueuedOn
  <2> QED BY <1>1, <1>3, <1>4, <1>5, <1>6, <2>1, QuietStep
<1>7. CASE /\ version' = [version EXCEPT ![r] = @ + 1]
           /\ announced' \in {announced, announced \cup {t}}
  <2>1. \A x \in Runtimes : version'[x] = IF x = r THEN version[x] + 1 ELSE version[x]
    BY <1>1, <1>7
  <2>2. \A x \in Runtimes : x # r /\ Hides(x)' => Hides(x)
    BY <1>3, <1>7 DEF Hides, QueuedOn
  <2>3. Behind'
    <3>1. \A x \in Runtimes : verdict[x] # None => verdict[x] \in Nat /\ verdict[x] <= version[x]
      BY <1>1 DEF CacheInv, Behind
    <3>2. \A x \in Runtimes : verdict'[x] # None => verdict'[x] <= version'[x]
      BY <1>1, <1>3, <2>1, <3>1
    <3>3. \A c \in Requests, x \in Runtimes : req[c].ver[x] # None =>
            req[c].ver[x] \in Nat /\ req[c].ver[x] <= version[x]
      BY <1>2 DEF CacheInv, Behind
    <3>4. \A c \in Requests, x \in Runtimes : req'[c].ver[x] # None =>
            req'[c].ver[x] <= version'[x]
      BY <1>1, <1>3, <2>1, <3>3
    <3> QED BY <3>2, <3>4 DEF Behind
  <2>4. verdict[r] # version'[r] /\ \A c \in Requests : req[c].ver[r] # version'[r]
    <3>1. verdict[r] = None \/ (verdict[r] \in Nat /\ verdict[r] <= version[r])
      BY <1>1 DEF CacheInv, Behind
    <3>2. version'[r] = version[r] + 1 /\ version[r] \in Nat
      BY <1>1, <2>1
    <3>3. ASSUME NEW c \in Requests PROVE req[c].ver[r] # version'[r]
      <4>1. \/ req[c].ver[r] = None
            \/ req[c].ver[r] \in Nat /\ req[c].ver[r] <= version[r]
        BY <1>1, <1>2 DEF CacheInv, Behind
      <4> QED BY <1>1, <3>2, <4>1
    <3> QED BY <1>1, <3>1, <3>2, <3>3
  <2>5. ToWrite'
    <3> SUFFICES ASSUME NEW c \in Requests, req'[c].pc = "mark", NEW x \in req'[c].todo
                 PROVE /\ req'[c].ver[x] # None
                       /\ req'[c].ver[x] = version'[x] => ~Hides(x)'
      BY DEF ToWrite
    <3>1. x \in Runtimes /\ req'[c] = req[c]
      BY <1>2, <1>3
    <3>2. req[c].ver[x] # None /\ (req[c].ver[x] = version[x] => ~Hides(x))
      BY <1>3, <3>1 DEF CacheInv, ToWrite
    <3>3. x # r => version'[x] = version[x]
      BY <2>1, <3>1
    <3> QED BY <2>2, <2>4, <3>1, <3>2, <3>3
  <2>6. NoHiddenTask'
    <3>1. \A x \in Runtimes : verdict[x] = version[x] => ~Hides(x)
      BY DEF CacheInv, NoHiddenTask, Empty, Hides
    <3>2. \A x \in Runtimes : verdict'[x] = version'[x] => ~Hides(x)'
      BY <1>3, <2>1, <2>2, <2>4, <3>1
    <3> QED BY <3>2 DEF NoHiddenTask, Empty, Hides
  <2> QED BY <1>3, <1>4, <1>5, <2>3, <2>5, <2>6 DEF CacheInv
<1> QED BY <1>3, <1>6, <1>7

LEMMA OtherStep ==
  ASSUME CacheAssumption, CacheInv,
         \/ \E t \in Tasks : Enqueue(t) \/ Requeue(t) \/ Wakeup(t) \/ Crash(t)
         \/ \E c \in Requests : Claim(c)
         \/ \E r \in Runtimes : ExpireVerdict(r)
         \/ UNCHANGED vars
  PROVE CacheInv'
<1>1. /\ version \in [Runtimes -> Nat] /\ None \notin Nat
      /\ verdict \in [Runtimes -> Nat \cup {None}]
      /\ row \in [Tasks -> {"absent", "queued", "claimed"}]
      /\ notify \in [Tasks -> {"bump", "wakeup", "done"}]
      /\ req \in [Requests -> ReqType] /\ announced \subseteq Tasks /\ requeues \in Nat
  BY DEF CacheInv, TypeOK, CacheAssumption, ReqType
<1>2. CASE \E t \in Tasks : Enqueue(t) \/ Requeue(t)
  <2>1. PICK t \in Tasks : Enqueue(t) \/ Requeue(t)
    BY <1>2
  <2>2. /\ row' = [row EXCEPT ![t] = "queued"]
        /\ notify' = [notify EXCEPT ![t] = "bump"]
        /\ requeues' \in Nat /\ announced' \subseteq announced
        /\ UNCHANGED <<version, verdict, req>>
    BY <1>1, <2>1 DEF Enqueue, Requeue
  <2>3. t \notin announced'
    BY <2>1 DEF Enqueue, Requeue, CacheInv, Present
  <2>4. \A r \in Runtimes : Hides(r)' => Hides(r)
    BY <1>1, <2>2, <2>3 DEF Hides, QueuedOn
  <2>5. TypeOK'
    BY <1>1, <2>2 DEF TypeOK, ReqType
  <2>6. Present'
    BY <1>1, <2>2 DEF CacheInv, Present
  <2> QED BY <1>1, <2>2, <2>4, <2>5, <2>6, QuietStep
<1>3. CASE \E t \in Tasks : Wakeup(t) \/ Crash(t)
  <2>1. PICK t \in Tasks : Wakeup(t) \/ Crash(t)
    BY <1>3
  <2>2. /\ notify' = [notify EXCEPT ![t] = "done"]
        /\ UNCHANGED <<row, announced, version, verdict, req, requeues>>
    BY <2>1 DEF Wakeup, Crash
  <2>3. \A r \in Runtimes : Hides(r)' => Hides(r)
    BY <2>2 DEF Hides, QueuedOn
  <2>4. TypeOK'
    BY <1>1, <2>2 DEF TypeOK, ReqType
  <2>5. Present'
    BY <1>1, <2>2 DEF CacheInv, Present
  <2> QED BY <1>1, <2>2, <2>3, <2>4, <2>5, QuietStep
<1>4. CASE \E c \in Requests : Claim(c)
  <2>1. PICK c \in Requests : Claim(c)
    BY <1>4
  <2>2. /\ req' = [req EXCEPT ![c] = IdleReq]
        /\ UNCHANGED <<notify, announced, version, verdict, requeues>>
        /\ \/ row' = row
           \/ \E S \in SUBSET {t \in req[c].found : row[t] = "queued"} :
                row' = [t \in Tasks |-> IF t \in S THEN "claimed" ELSE row[t]]
    BY <2>1 DEF Claim
  <2>3. row' \in [Tasks -> {"absent", "queued", "claimed"}]
        /\ \A t \in Tasks : /\ row'[t] = "queued" => row[t] = "queued"
                           /\ row'[t] = "absent" => row[t] = "absent"
    BY <1>1, <2>2
  <2>4. \A r \in Runtimes : Hides(r)' => Hides(r)
    BY <2>2, <2>3 DEF Hides, QueuedOn
  <2>5. req' \in [Requests -> ReqType]
    BY <1>1, <2>2, IdleType
  <2>6. TypeOK'
    BY <1>1, <2>2, <2>3, <2>5 DEF TypeOK, ReqType
  <2>7. Present'
    BY <2>2, <2>3 DEF CacheInv, Present
  <2>8. \A d \in Requests : req'[d] = req[d] \/ req'[d] = IdleReq
    BY <1>1, <2>2
  <2> QED BY <1>1, <2>2, <2>4, <2>6, <2>7, <2>8, QuietStep
<1>5. CASE \E r \in Runtimes : ExpireVerdict(r)
  <2>1. PICK r \in Runtimes : verdict' = [verdict EXCEPT ![r] = None]
                             /\ UNCHANGED <<row, notify, announced, version, req, requeues>>
    BY <1>5 DEF ExpireVerdict
  <2>2. \A x \in Runtimes : Hides(x)' => Hides(x)
    BY <2>1 DEF Hides, QueuedOn
  <2>3. /\ verdict' \in [Runtimes -> Nat \cup {None}]
        /\ \A x \in Runtimes : verdict'[x] = verdict[x] \/ verdict'[x] = None
    BY <1>1, <2>1
  <2>4. TypeOK'
    BY <1>1, <2>1, <2>3 DEF TypeOK, ReqType
  <2>5. Present'
    BY <2>1 DEF CacheInv, Present
  <2> QED BY <1>1, <2>1, <2>2, <2>3, <2>4, <2>5, QuietStep
<1>6. CASE UNCHANGED vars
  <2>1. TypeOK' /\ Present' /\ \A r \in Runtimes : Hides(r)' => Hides(r)
    BY <1>6 DEF CacheInv, TypeOK, Present, Hides, QueuedOn, vars
  <2> QED BY <1>1, <1>6, <2>1, QuietStep DEF vars
<1> QED BY <1>2, <1>3, <1>4, <1>5, <1>6

LEMMA VersionExpires ==
  ASSUME CacheAssumption, CacheInv, NEW r \in Runtimes, ExpireVersion(r)
  PROVE CacheInv'
<1>1. /\ version \in [Runtimes -> Nat] /\ None \notin Nat
      /\ \A c \in Requests : req[c].todo \subseteq Runtimes
  BY DEF CacheInv, TypeOK, CacheAssumption
<1>2. /\ verdict[r] = None /\ \A c \in Requests : req[c].ver[r] = None
      /\ version' = [version EXCEPT ![r] = 0]
      /\ UNCHANGED <<row, notify, announced, verdict, req, requeues>>
  BY DEF ExpireVersion
<1>3. \A x \in Runtimes : version'[x] = IF x = r THEN 0 ELSE version[x]
  BY <1>1, <1>2
<1>4. \A x : Hides(x)' <=> Hides(x)
  BY <1>2 DEF Hides, QueuedOn
<1>5. TypeOK'
  <2>1. version' \in [Runtimes -> Nat]
    BY <1>1, <1>2
  <2> QED BY <1>2, <2>1 DEF CacheInv, TypeOK
<1>6. Behind'
  BY <1>2, <1>3 DEF CacheInv, Behind
<1>7. ToWrite'
  <2> SUFFICES ASSUME NEW c \in Requests, req'[c].pc = "mark", NEW x \in req'[c].todo
               PROVE /\ req'[c].ver[x] # None
                     /\ req'[c].ver[x] = version'[x] => ~Hides(x)'
    BY DEF ToWrite
  <2>1. x \in Runtimes /\ req'[c] = req[c]
    BY <1>1, <1>2
  <2>2. req[c].ver[x] # None /\ (req[c].ver[x] = version[x] => ~Hides(x))
    BY <1>2, <2>1 DEF CacheInv, ToWrite
  <2> QED BY <1>2, <1>3, <1>4, <2>1, <2>2
<1>8. NoHiddenTask'
  <2>1. \A x \in Runtimes : verdict[x] = version[x] => ~Hides(x)
    BY DEF CacheInv, NoHiddenTask, Empty, Hides
  <2>2. \A x \in Runtimes : verdict'[x] = version'[x] => ~Hides(x)'
    BY <1>1, <1>2, <1>3, <1>4, <2>1
  <2> QED BY <2>2 DEF NoHiddenTask, Empty, Hides
<1>9. Present' /\ \A c \in Requests : req'[c].pc = "sample" => req'[c].rt \in Runtimes
  BY <1>2 DEF CacheInv, Present
<1> QED BY <1>5, <1>6, <1>7, <1>8, <1>9 DEF CacheInv

LEMMA InitCache ==
  ASSUME CacheAssumption, Init
  PROVE CacheInv
<1>1. \A r \in Runtimes : verdict[r] = None /\ version[r] = 0 /\ None # 0
  BY DEF Init, CacheAssumption
<1>2. \A c \in Requests : req[c] = IdleReq
  BY DEF Init
<1>3. TypeOK
  <2>1. req \in [Requests -> ReqType]
    BY IdleType DEF Init
  <2> QED BY <2>1 DEF Init, TypeOK, ReqType
<1>4. Behind /\ ToWrite
  BY <1>1, <1>2, IdleType DEF Behind, ToWrite
<1>5. NoHiddenTask /\ Present
  BY DEF Init, NoHiddenTask, Present
<1>6. \A c \in Requests : req[c].pc = "sample" => req[c].rt \in Runtimes
  BY <1>2, IdleType
<1> QED BY <1>3, <1>4, <1>5, <1>6 DEF CacheInv

LEMMA CacheInvariant == Spec => []CacheInv
<1>1. Init => CacheInv
  BY InitCache, CacheAssumption
<1>2. CacheInv /\ [Next]_vars => CacheInv'
  BY CacheAssumption, RequestStep, WriteStep, BumpStep, OtherStep, VersionExpires
     DEF Next, Enqueuer, ReqStep
<1> QED BY <1>1, <1>2, PTL DEF Spec

(* However polls, enqueues, requeues, failing Redis calls and expiring keys
   interleave, no believed verdict hides a task whose Bump went through. *)
THEOREM CacheNeverHides == Spec => []NoHiddenTask
<1>1. CacheInv => NoHiddenTask
  BY DEF CacheInv
<1> QED BY <1>1, CacheInvariant, PTL

(* Every variable stays in its set. *)
THEOREM CacheTypes == Spec => []TypeOK
<1>1. CacheInv => TypeOK
  BY DEF CacheInv
<1> QED BY <1>1, CacheInvariant, PTL
=============================================================================
