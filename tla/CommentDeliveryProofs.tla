----------------------- MODULE CommentDeliveryProofs -----------------------
(***************************************************************************)
(* PromiseKept and NoOldHeadRun for any number of workers, comments, tasks *)
(* and troubles.  A comment a request is done with is either in a task     *)
(* that is active or among the lost ones; from there on it is passed from  *)
(* task to task and back to the requests that replay it.                   *)
(***************************************************************************)
EXTENDS CommentDelivery, SequenceTheorems, WellFoundedInduction, TLAPS

RunRec == [status : {"queued", "dispatched", "running", "completed", "ended"},
           trigger : Nat, coalesced : SUBSET Nat, delivered : SUBSET Nat, since : Nat,
           head : Nat, embedded : SUBSET Nat, expected : Nat, working : BOOLEAN]
RequestRec == [pc : {"idle", "check", "merge", "mergeInto", "active", "register", "registerOn",
                     "enqueue", "handRegister", "handMerge", "handEnqueue"},
               c : Nat, kind : {"none", "own", "survivor", "replay"}, todo : SUBSET Nat,
               n : Nat, head : Nat, target : Nat, of : Nat]

DeliveryTypes ==
  /\ posted \in 0..MaxComments /\ headSha \in Nat /\ trouble \in Nat
  /\ runs \in Seq(RunRec) /\ request \in [Workers -> RequestRec]
  /\ outcome \in [1..MaxComments -> {"none", "blocked"} \cup Success]
  /\ askedAt \in [1..MaxComments -> 0..headSha]
  /\ seen \subseteq 1..posted

(* a task has comments that exist, and gives to its run none that are not in its batch *)
RunOK(k) ==
  /\ k.trigger \in 1..posted /\ k.coalesced \subseteq 1..posted
  /\ k.status \in {"dispatched", "running"} => k.embedded \subseteq k.coalesced \cup {k.trigger}
  /\ k.status = "running" => k.delivered \subseteq seen \cap (k.coalesced \cup {k.trigger})

(* what a request is about to write to is the task it has picked *)
RequestOK(r) ==
  /\ r.pc = "idle" => r = Waiting
  /\ r.pc # "idle" => r.c \in 1..posted /\ r.todo \subseteq 1..posted /\ r.kind # "none"
  /\ r.kind = "own" => r.todo = {}
  /\ r.kind = "survivor" => r.of \in 1..posted
  /\ r.kind = "replay" => r.of \in 1..Len(runs) /\ runs[r.of].status = "completed"
  /\ r.pc = "mergeInto" => r.target \in 1..Len(runs) /\ r.head = runs[r.target].head
  /\ r.pc = "registerOn" => r.target \in 1..Len(runs)

Facts ==
  /\ DeliveryTypes
  /\ \A t \in 1..Len(runs) : RunOK(runs[t])
  /\ \A w \in Workers : RequestOK(request[w])
  /\ \A c \in 1..MaxComments : c > posted => outcome[c] = "none"

(* where a comment may be kept.  A replay under way keeps only what it has left: what it
   has done with has been kept elsewhere *)
Left(w) == {request[w].c} \cup request[w].todo
Missed(t) == (After(t) \cup Batch(t)) \ runs[t].delivered
Replays(w, t) == request[w].kind = "replay" /\ request[w].of = t
InRun(c) == \E t \in 1..Len(runs) : runs[t].status \in ActiveRuns /\ c \in Batch(t) \cup After(t)
InRequest(c) == \E w \in Workers : request[w].kind = "survivor" /\ c \in Left(w)
InReplay(c) ==
  \E t \in 1..Len(runs) :
    /\ runs[t].status = "completed" /\ runs[t].working /\ c \in Missed(t)
    /\ \A w \in Workers : Replays(w, t) => c \in Left(w)
Kept(c) == c \in seen \/ InRun(c) \/ InRequest(c) \/ InReplay(c)
PromiseInv == \A c \in 1..posted : outcome[c] \in Success /\ c \notin unkept => Kept(c)

(* no active task has a comment about a newer head, unless it was handed to it *)
HeadInv ==
  /\ \A t \in 1..Len(runs) : runs[t].status \in ActiveRuns =>
       \A c \in Batch(t) : askedAt[c] <= runs[t].head \/ c \in handed
  /\ NoOldHeadRun

-----------------------------------------------------------------------------
(* Tasks and requests *)

LEMMA RunsIndexed ==
  ASSUME DeliveryTypes
  PROVE  /\ Len(runs) \in Nat /\ DOMAIN runs = 1..Len(runs) /\ posted \in Nat
         /\ \A t \in 1..Len(runs) : runs[t] \in RunRec
BY LenProperties, ElementOfSeq, DeliveryAssumption DEF DeliveryTypes

LEMMA FirstIsMember ==
  ASSUME NEW S \in SUBSET Nat, S # {}
  PROVE  FirstOf(S) \in S
<1>1. \E c \in S : \A d \in S : ~ (<<d, c>> \in OpToRel(<, Nat))
  BY NatLessThanWellFounded, WFMin
<1>2. \A c, d \in S : d < c => <<d, c>> \in OpToRel(<, Nat)
  BY DEF OpToRel
<1>3. PICK c \in S : \A d \in S : ~ (<<d, c>> \in OpToRel(<, Nat))
  BY <1>1
<1>4. \A d \in S : c <= d
  <2> SUFFICES ASSUME NEW d \in S PROVE ~ (d < c)
    OBVIOUS
  <2> QED BY <1>2, <1>3
<1> QED BY <1>4 DEF FirstOf

LEMMA Resolves ==
  ASSUME DeliveryTypes, NEW w \in Workers, NEW kind \in {"own", "survivor", "replay"},
         NEW S \in SUBSET Nat, S # {}, NEW of \in Nat, Resolve(w, kind, S, of)
  PROVE  /\ request' \in [Workers -> RequestRec]
         /\ \A v \in Workers : v # w => request'[v] = request[v]
         /\ request'[w].pc = "check" /\ request'[w].kind = kind /\ request'[w].of = of
         /\ request'[w].c \in S /\ request'[w].todo = S \ {request'[w].c}
<1>1. FirstOf(S) \in S
  BY FirstIsMember
<1>2. PICK k : k = [Waiting EXCEPT !.pc = "check", !.c = FirstOf(S), !.kind = kind,
                                   !.todo = S \ {FirstOf(S)}, !.of = of]
  OBVIOUS
<1>3. Waiting \in RequestRec
  BY DEF Waiting, NoComment, RequestRec
<1>4. /\ k \in RequestRec /\ k.pc = "check" /\ k.kind = kind /\ k.of = of
      /\ k.c \in S /\ k.todo = S \ {k.c}
  BY <1>1, <1>2, <1>3 DEF RequestRec
<1>5. request' = [request EXCEPT ![w] = k]
  BY <1>2 DEF Resolve
<1> QED BY <1>4, <1>5 DEF DeliveryTypes

(* a request has done with its comment *)
LEMMA Finishes ==
  ASSUME Facts, NEW w \in Workers, ~At(w, "idle"), NextComment(w)
  PROVE  /\ request' \in [Workers -> RequestRec] /\ trouble' \in Nat
         /\ \A v \in Workers : v # w => request'[v] = request[v]
         /\ \/ /\ request[w].todo = {} /\ request[w].kind # "survivor"
               /\ request'[w] = Waiting
            \/ /\ request[w].todo # {} /\ request'[w].pc = "check"
               /\ request'[w].kind = request[w].kind /\ request'[w].of = request[w].of
               /\ request'[w].c \in request[w].todo
               /\ request'[w].todo = request[w].todo \ {request'[w].c}
            \/ /\ request[w].todo = {} /\ request[w].kind = "survivor"
               /\ request'[w].pc = "check" /\ request'[w].kind = "own"
               /\ request'[w].c = request[w].of /\ request'[w].todo = {}
<1> DEFINE r == request[w]
<1>1. /\ r \in RequestRec /\ RequestOK(r) /\ r.pc # "idle" /\ DeliveryTypes /\ trouble \in Nat
      /\ r.kind \in {"own", "survivor", "replay"} /\ r.todo \in SUBSET Nat /\ r.of \in Nat
  BY DEF Facts, DeliveryTypes, At, RequestOK, RequestRec
<1>2. CASE r.todo # {} /\ Resolve(w, r.kind, r.todo, r.of) /\ UNCHANGED trouble
  BY <1>1, <1>2, Resolves
<1>3. CASE r.todo = {} /\ r.kind = "survivor" /\ Resolve(w, "own", {r.of}, 0) /\ UNCHANGED trouble
  <2>1. {r.of} \in SUBSET Nat /\ {r.of} # {} /\ 0 \in Nat
    BY <1>1
  <2>2. /\ request' \in [Workers -> RequestRec]
        /\ \A v \in Workers : v # w => request'[v] = request[v]
        /\ request'[w].pc = "check" /\ request'[w].kind = "own"
        /\ request'[w].c \in {r.of} /\ request'[w].todo = {r.of} \ {request'[w].c}
    BY <1>1, <1>3, <2>1, Resolves
  <2> QED BY <1>1, <1>3, <2>2
<1>4. CASE /\ r.todo = {} /\ r.kind # "survivor" /\ request' = [request EXCEPT ![w] = Waiting]
           /\ UNCHANGED trouble \/ (r.kind = "replay" /\ Trouble)
  <2>1. Waiting \in RequestRec
    BY DEF Waiting, NoComment, RequestRec
  <2> QED BY <1>1, <1>4, <2>1 DEF DeliveryTypes, Trouble
<1> QED BY <1>2, <1>3, <1>4 DEF NextComment

-----------------------------------------------------------------------------
(* How the tasks change when a request is done with a comment *)

BatchOf(k) == k.coalesced \cup ({k.trigger} \ {NoComment})

(* no task loses a comment, and none changes otherwise *)
Grows(rs) ==
  /\ rs \in Seq(RunRec) /\ Len(runs) <= Len(rs)
  /\ \A t \in 1..Len(rs) : RunOK(rs[t])
  /\ \A t \in 1..Len(runs) :
       /\ rs[t].status = runs[t].status /\ rs[t].since = runs[t].since
       /\ rs[t].head = runs[t].head /\ rs[t].delivered = runs[t].delivered
       /\ rs[t].working = runs[t].working /\ Batch(t) \subseteq BatchOf(rs[t])
Handled(w, rs) ==
  \/ request[w].c \in unkept'
  \/ \E t \in 1..Len(rs) : rs[t].status \in ActiveRuns
                             /\ (request[w].c \in BatchOf(rs[t]) \/ request[w].c > rs[t].since)
AskedOf(w, rs) ==
  \A t \in 1..Len(rs) : rs[t].status \in ActiveRuns => \A d \in BatchOf(rs[t]) :
    \/ t \in 1..Len(runs) /\ d \in Batch(t)
    \/ d = request[w].c /\ (askedAt[d] <= rs[t].head \/ d \in handed')

(* the end of a replay only takes its task from its daemon *)
Answers(w, rs) ==
  /\ Len(runs') = Len(rs)
  /\ \A t \in 1..Len(rs) :
       /\ runs'[t].status = rs[t].status /\ runs'[t].since = rs[t].since
       /\ runs'[t].head = rs[t].head /\ runs'[t].delivered = rs[t].delivered
       /\ runs'[t].coalesced = rs[t].coalesced /\ runs'[t].trigger = rs[t].trigger
       /\ runs'[t].embedded = rs[t].embedded
       /\ \/ runs'[t].working = rs[t].working
          \/ Replays(w, t) /\ request[w].todo = {}

LEMMA AnswersRuns ==
  ASSUME Facts, NEW w \in Workers, NEW rs, Grows(rs), Answered(w, rs)
  PROVE  runs' \in Seq(RunRec) /\ Answers(w, rs)
<1>1. /\ rs \in Seq(RunRec) /\ Len(rs) \in Nat /\ DOMAIN rs = 1..Len(rs)
      /\ \A t \in 1..Len(rs) : rs[t] \in RunRec
  BY LenProperties, ElementOfSeq DEF Grows
<1>2. CASE runs' = rs
  BY <1>1, <1>2 DEF Answers
<1>3. CASE /\ request[w].kind = "replay" /\ request[w].todo = {}
           /\ runs' = [rs EXCEPT ![request[w].of].working = FALSE]
  <2>1. request[w].of \in 1..Len(rs)
    BY <1>3, RunsIndexed, <1>1 DEF Facts, RequestOK, Grows
  <2>2. PICK k : k = [rs[request[w].of] EXCEPT !.working = FALSE]
    OBVIOUS
  <2>3. /\ k \in RunRec /\ k.working = FALSE /\ k.status = rs[request[w].of].status
        /\ k.since = rs[request[w].of].since /\ k.head = rs[request[w].of].head
        /\ k.delivered = rs[request[w].of].delivered /\ k.trigger = rs[request[w].of].trigger
        /\ k.coalesced = rs[request[w].of].coalesced /\ k.embedded = rs[request[w].of].embedded
    BY <1>1, <2>1, <2>2 DEF RunRec
  <2>4. runs' = [rs EXCEPT ![request[w].of] = k]
    BY <1>3, <2>2
  <2>5. runs' \in Seq(RunRec) /\ Len(runs') = Len(rs)
    BY <1>1, <2>1, <2>3, <2>4, ExceptSeq
  <2> QED BY <1>1, <1>3, <2>1, <2>3, <2>4, <2>5 DEF Answers, Replays
<1> QED BY <1>2, <1>3 DEF Answered

(* what any step does to the tasks: they stay, and keep their head *)
RunsMove ==
  /\ Len(runs) <= Len(runs')
  /\ \A t \in 1..Len(runs) :
       /\ runs'[t].head = runs[t].head
       /\ runs[t].status = "completed" => runs'[t].status = "completed"

LEMMA RequestStays ==
  ASSUME Facts, DeliveryTypes', RunsMove, posted <= posted', NEW v \in Workers,
         request'[v] = request[v]
  PROVE  RequestOK(request[v])'
<1>1. RequestOK(request[v]) /\ request[v] \in RequestRec
  BY DEF Facts, DeliveryTypes
<1>2. Len(runs) \in Nat /\ Len(runs') \in Nat /\ posted \in Nat /\ posted' \in Nat
  BY RunsIndexed, LenProperties, DeliveryAssumption DEF Facts, DeliveryTypes
<1> QED BY <1>1, <1>2, SMTT(30) DEF RequestOK, RunsMove, RequestRec

LEMMA GrowsMoves ==
  ASSUME Facts, NEW w \in Workers, NEW rs, Grows(rs), Answers(w, rs)
  PROVE  /\ RunsMove /\ Len(rs) \in Nat /\ Len(runs) \in Nat
         /\ \A t \in 1..Len(rs) : Batch(t)' = BatchOf(rs[t])
<1>1. Len(runs) \in Nat /\ Len(rs) \in Nat
  BY RunsIndexed, LenProperties DEF Facts, Grows
<1> QED BY <1>1 DEF RunsMove, Grows, Answers, Batch, BatchOf

LEMMA DoneFacts ==
  ASSUME Facts, NEW w \in Workers, ~At(w, "idle"), NEW o \in {"blocked"} \cup Success,
         NEW rs, Grows(rs), Done(w, o, rs), UNCHANGED <<posted, headSha, seen, askedAt>>
  PROVE  Facts' /\ Answers(w, rs)
<1>1. runs' \in Seq(RunRec) /\ Answers(w, rs)
  BY AnswersRuns DEF Done
<1>2. /\ request' \in [Workers -> RequestRec] /\ trouble' \in Nat
      /\ \A v \in Workers : v # w => request'[v] = request[v]
  BY Finishes DEF Done
<1>3. request[w] \in RequestRec /\ RequestOK(request[w]) /\ request[w].c \in 1..posted
  BY DEF Facts, DeliveryTypes, At, RequestOK
<1>4. outcome' \in [1..MaxComments -> {"none", "blocked"} \cup Success]
  BY <1>3 DEF Facts, DeliveryTypes, Done, Report
<1>5. DeliveryTypes'
  BY <1>1, <1>2, <1>4 DEF Facts, DeliveryTypes
<1>6. RunsMove /\ Len(rs) \in Nat
  BY <1>1, GrowsMoves
<1>7. ASSUME NEW t \in 1..Len(runs') PROVE RunOK(runs[t])'
  <2>1. t \in 1..Len(rs) /\ RunOK(rs[t])
    BY <1>1, <1>7 DEF Answers, Grows
  <2> QED BY <1>1, <2>1 DEF RunOK, Answers
<1>8. ASSUME NEW v \in Workers PROVE RequestOK(request[v])'
  <2>1. CASE v # w
    BY <2>1, <1>2, <1>5, <1>6, RequestStays, RunsIndexed DEF Facts
  <2>2. CASE v = w /\ request'[w] = Waiting
    BY <2>2 DEF RequestOK, Waiting
  <2>3. CASE v = w /\ request'[w] # Waiting
    <3>1. /\ request'[w].pc = "check" /\ request'[w].c \in 1..posted
          /\ request'[w].todo \subseteq 1..posted
          /\ \/ request'[w].kind = "own" /\ request'[w].todo = {}
             \/ /\ request'[w].kind \in {"survivor", "replay"}
                /\ request'[w].kind = request[w].kind /\ request'[w].of = request[w].of
      BY <1>3, <2>3, Finishes DEF Done, At, RequestOK, RequestRec
    <3>2. Len(runs) \in Nat /\ Len(runs') \in Nat
      BY RunsIndexed, <1>1, LenProperties DEF Facts
    <3> QED BY <1>3, <1>6, <2>3, <3>1, <3>2 DEF RequestOK, RunsMove
  <2> QED BY <2>1, <2>2, <2>3
<1>9. \A c \in 1..MaxComments : c > posted' => outcome'[c] = "none"
  BY <1>3, RunsIndexed, DeliveryAssumption DEF Facts, DeliveryTypes, Done, Report
<1> QED BY <1>1, <1>5, <1>7, <1>8, <1>9 DEF Facts

-----------------------------------------------------------------------------
(* A comment that is kept stays kept when a request has done with another one *)

LEMMA InRunStays ==
  ASSUME Facts, NEW w \in Workers, NEW rs, Grows(rs), Answers(w, rs), UNCHANGED posted,
         NEW c \in 1..posted
  PROVE  /\ InRun(c) => InRun(c)'
         /\ (\E t \in 1..Len(rs) : rs[t].status \in ActiveRuns
                                     /\ (c \in BatchOf(rs[t]) \/ c > rs[t].since)) => InRun(c)'
<1>0. /\ Len(runs) \in Nat /\ Len(rs) \in Nat
      /\ \A t \in 1..Len(rs) : Batch(t)' = BatchOf(rs[t])
  BY GrowsMoves
<1>1. /\ Len(runs') = Len(rs) /\ Len(runs) <= Len(rs)
      /\ \A t \in 1..Len(rs) : runs'[t].since = rs[t].since /\ runs'[t].status = rs[t].status
  BY DEF Answers, Grows
<1>2. ASSUME NEW t \in 1..Len(runs), runs[t].status \in ActiveRuns, c \in Batch(t) \cup After(t)
      PROVE  t \in 1..Len(rs) /\ rs[t].status \in ActiveRuns
               /\ (c \in BatchOf(rs[t]) \/ c > rs[t].since)
  BY <1>0, <1>1, <1>2 DEF Grows, After
<1>3. ASSUME NEW t \in 1..Len(rs), rs[t].status \in ActiveRuns,
             c \in BatchOf(rs[t]) \/ c > rs[t].since
      PROVE  InRun(c)'
  BY <1>0, <1>1, <1>3 DEF InRun, After
<1> QED BY <1>2, <1>3 DEF InRun

LEMMA DonePromise ==
  ASSUME Facts, PromiseInv, NEW w \in Workers, ~At(w, "idle"),
         NEW o \in {"blocked"} \cup Success, NEW rs, Grows(rs), Handled(w, rs), Done(w, o, rs),
         UNCHANGED <<posted, headSha, seen, askedAt>>, unkept \subseteq unkept'
  PROVE  PromiseInv'
<1>1. Answers(w, rs)
  BY DoneFacts
<1> SUFFICES ASSUME NEW c \in 1..posted, outcome'[c] \in Success, c \notin unkept'
             PROVE  Kept(c)'
  BY DEF PromiseInv
<1>2. CASE c = request[w].c
  BY <1>1, <1>2, InRunStays DEF Handled, Kept
<1>3. CASE c # request[w].c
  <2>1. Kept(c)
    <3>1. c \in 1..MaxComments
      BY RunsIndexed, DeliveryAssumption DEF Facts, DeliveryTypes
    <3>2. outcome'[c] = outcome[c]
      BY <1>3, <3>1 DEF Done, Report, Facts, DeliveryTypes
    <3> QED BY <3>2 DEF PromiseInv
  <2>2. CASE c \in seen
    BY <2>2 DEF Kept
  <2>3. CASE InRun(c)
    BY <2>3, <1>1, InRunStays DEF Kept
  <2>4. CASE InRequest(c)
    <3>1. PICK v \in Workers : request[v].kind = "survivor" /\ c \in Left(v)
      BY <2>4 DEF InRequest
    <3>2. request'[v].kind = "survivor" /\ c \in Left(v)'
      <4>1. CASE v # w
        BY <4>1, <3>1, Finishes DEF Done, Left
      <4>2. CASE v = w
        <5>1. c \in request[w].todo
          BY <1>3, <3>1, <4>2 DEF Left
        <5> QED BY <5>1, <4>2, <3>1, Finishes DEF Done, Left
      <4> QED BY <4>1, <4>2
    <3> QED BY <3>2 DEF Kept, InRequest
  <2>5. CASE InReplay(c)
    <3>1. PICK t \in 1..Len(runs) :
            /\ runs[t].status = "completed" /\ runs[t].working /\ c \in Missed(t)
            /\ \A v \in Workers : Replays(v, t) => c \in Left(v)
      BY <2>5 DEF InReplay
    <3>2. /\ t \in 1..Len(rs) /\ t \in 1..Len(runs')
          /\ runs'[t].status = "completed" /\ c \in Missed(t)'
      <4>0. /\ Len(rs) \in Nat /\ Len(runs) \in Nat
            /\ \A u \in 1..Len(rs) : Batch(u)' = BatchOf(rs[u])
        BY <1>1, GrowsMoves
      <4>1. t \in 1..Len(rs) /\ Len(runs') = Len(rs)
        BY <1>1, <4>0 DEF Grows, Answers
      <4> QED BY <4>0, <4>1, <3>1, <1>1 DEF Grows, Answers, Missed, After
    <3>3. runs'[t].working
      <4>1. CASE Replays(w, t) /\ request[w].todo = {}
        BY <1>3, <3>1, <4>1 DEF Left
      <4> QED BY <4>1, <3>1, <3>2, <1>1 DEF Answers, Grows
    <3>4. ASSUME NEW v \in Workers, Replays(v, t)' PROVE c \in Left(v)'
      <4>1. CASE v # w
        BY <4>1, <3>1, <3>4, Finishes DEF Done, Left, Replays
      <4>2. CASE v = w
        <5>1. /\ request[w].todo # {} /\ request[w].kind = "replay" /\ request[w].of = t
              /\ request'[w].c \in request[w].todo
              /\ request'[w].todo = request[w].todo \ {request'[w].c}
          BY <3>4, <4>2, Finishes DEF Done, Replays, Waiting
        <5>2. c \in request[w].todo
          BY <5>1, <3>1, <1>3 DEF Replays, Left
        <5> QED BY <5>1, <5>2, <4>2 DEF Left
      <4> QED BY <4>1, <4>2
    <3> QED BY <3>2, <3>3, <3>4 DEF Kept, InReplay
  <2> QED BY <2>1, <2>2, <2>3, <2>4, <2>5 DEF Kept
<1> QED BY <1>2, <1>3

LEMMA DoneHead ==
  ASSUME Facts, HeadInv, NEW w \in Workers, ~At(w, "idle"),
         NEW o \in {"blocked"} \cup Success, NEW rs, Grows(rs), AskedOf(w, rs), Done(w, o, rs),
         UNCHANGED <<posted, headSha, seen, askedAt, stale>>, handed \subseteq handed'
  PROVE  HeadInv'
<1>1. Answers(w, rs)
  BY DoneFacts
<1>2. ASSUME NEW t \in 1..Len(runs'), runs'[t].status \in ActiveRuns, NEW c \in Batch(t)'
      PROVE  askedAt'[c] <= runs'[t].head \/ c \in handed'
  <2>1. /\ t \in 1..Len(rs) /\ rs[t].status \in ActiveRuns /\ c \in BatchOf(rs[t])
        /\ runs'[t].head = rs[t].head
    BY <1>1, <1>2, GrowsMoves DEF Answers
  <2>2. CASE t \in 1..Len(runs) /\ c \in Batch(t)
    BY <2>1, <2>2 DEF HeadInv, Grows
  <2> QED BY <2>1, <2>2 DEF AskedOf
<1> QED BY <1>2 DEF HeadInv, NoOldHeadRun

-----------------------------------------------------------------------------
(* The steps of resolveCommentTriggerEnqueue *)

DeliveryInv == Facts /\ PromiseInv /\ HeadInv

LEMMA GoesOn ==
  ASSUME DeliveryInv, NEW w \in Workers, NEW k \in RequestRec, RequestOK(k),
         request' = [request EXCEPT ![w] = k], k.c = request[w].c, k.kind = request[w].kind,
         k.todo = request[w].todo, k.of = request[w].of,
         UNCHANGED <<posted, runs, headSha, outcome, seen, askedAt, trouble, unkept, handed,
                     stale>>
  PROVE  DeliveryInv'
<1>1. /\ request' \in [Workers -> RequestRec]
      /\ \A v \in Workers : request'[v] = IF v = w THEN k ELSE request[v]
  BY DEF DeliveryInv, Facts, DeliveryTypes
<1>2. \A v \in Workers :
        /\ request'[v].c = request[v].c /\ request'[v].kind = request[v].kind
        /\ request'[v].todo = request[v].todo /\ request'[v].of = request[v].of
  BY <1>1
<1>3. Facts'
  <2>1. DeliveryTypes'
    BY <1>1 DEF DeliveryInv, Facts, DeliveryTypes
  <2>2. \A t \in 1..Len(runs') : RunOK(runs[t])'
    BY DEF DeliveryInv, Facts, RunOK
  <2>3. \A v \in Workers : RequestOK(request[v])'
    BY <1>1 DEF DeliveryInv, Facts, RequestOK
  <2> QED BY <2>1, <2>2, <2>3 DEF DeliveryInv, Facts
<1>4. PromiseInv'
  <2> SUFFICES ASSUME NEW c \in 1..posted, Kept(c) PROVE Kept(c)'
    BY DEF DeliveryInv, PromiseInv
  <2>1. \A t : /\ Batch(t)' = Batch(t) /\ After(t)' = After(t) /\ Missed(t)' = Missed(t)
    BY DEF Batch, After, Missed
  <2>2. \A v \in Workers : Left(v)' = Left(v)
    BY <1>2 DEF Left
  <2>3. \A v \in Workers, t \in 1..Len(runs) : Replays(v, t)' <=> Replays(v, t)
    BY <1>2 DEF Replays
  <2>4. InRun(c) => InRun(c)'
    BY <2>1 DEF InRun
  <2>5. InRequest(c) => InRequest(c)'
    BY <1>2, <2>2 DEF InRequest
  <2>6. InReplay(c) => InReplay(c)'
    BY <2>1, <2>2, <2>3 DEF InReplay
  <2> QED BY <2>4, <2>5, <2>6 DEF Kept
<1>5. HeadInv'
  BY DEF DeliveryInv, HeadInv, NoOldHeadRun, Batch
<1> QED BY <1>3, <1>4, <1>5 DEF DeliveryInv

(* the decision to go to another step, with another count, head or target *)
LEMMA MovesOn ==
  ASSUME DeliveryInv, NEW w \in Workers, ~At(w, "idle"),
         NEW k \in RequestRec, request' = [request EXCEPT ![w] = k],
         k.pc # "idle", k.c = request[w].c, k.kind = request[w].kind,
         k.todo = request[w].todo, k.of = request[w].of,
         k.pc = "mergeInto" => k.target \in 1..Len(runs) /\ k.head = runs[k.target].head,
         k.pc = "registerOn" => k.target \in 1..Len(runs),
         UNCHANGED <<posted, runs, headSha, outcome, seen, askedAt, trouble, unkept, handed,
                     stale>>
  PROVE  DeliveryInv'
<1>1. RequestOK(request[w]) /\ request[w].pc # "idle"
  BY DEF DeliveryInv, Facts, At
<1>2. RequestOK(k)
  BY <1>1 DEF RequestOK
<1> QED BY <1>2, GoesOn

LEMMA RunAt ==
  ASSUME DeliveryTypes, NEW S, NEW t \in Tasks(S)
  PROVE  t \in 1..Len(runs) /\ runs[t] \in RunRec /\ runs[t].status \in S
BY RunsIndexed DEF Tasks

LEMMA DecisionSteps ==
  ASSUME DeliveryInv, NEW w \in Workers,
         CheckPending(w) \/ MergePicks(w) \/ NoneActive(w) \/ RegisterPicks(w) \/ LosesRace(w)
  PROVE  DeliveryInv'
<1>1. request[w] \in RequestRec /\ DeliveryTypes /\ headSha \in Nat
  BY DEF DeliveryInv, Facts, DeliveryTypes
<1>2. ASSUME NEW pc \in {"check", "merge", "active", "register", "enqueue", "handRegister",
                         "handMerge", "handEnqueue"}, Goto(w, pc), ~At(w, "idle"),
             UNCHANGED <<posted, runs, headSha, outcome, seen, askedAt, trouble, unkept, handed,
                         stale>>
      PROVE  DeliveryInv'
  <2>1. PICK k : k = [request[w] EXCEPT !.pc = pc]
    OBVIOUS
  <2>2. /\ k \in RequestRec /\ k.pc = pc /\ k.c = request[w].c /\ k.kind = request[w].kind
        /\ k.todo = request[w].todo /\ k.of = request[w].of
    BY <1>1, <2>1 DEF RequestRec
  <2>3. request' = [request EXCEPT ![w] = k]
    BY <1>2, <2>1 DEF Goto
  <2> QED BY <1>2, <2>2, <2>3, MovesOn
<1>3. CASE CheckPending(w)
  BY <1>2, <1>3 DEF CheckPending, At
<1>4. CASE NoneActive(w)
  BY <1>2, <1>4 DEF NoneActive, At
<1>5. CASE MergePicks(w)
  <2> DEFINE head == IF request[w].head = 0 THEN headSha ELSE request[w].head
             missed == IF At(w, "handMerge") THEN "handEnqueue"
                       ELSE IF request[w].n > 0 THEN "register" ELSE "active"
  <2>1. head \in Nat /\ missed \in {"handEnqueue", "register", "active"} /\ ~At(w, "idle")
    BY <1>1, <1>5 DEF MergePicks, At, RequestRec
  <2>2. CASE request' = [request EXCEPT ![w].head = head, ![w].pc = missed]
    <3> HIDE DEF head, missed
    <3>1. PICK k : k = [request[w] EXCEPT !.head = head, !.pc = missed]
      OBVIOUS
    <3>2. /\ k \in RequestRec /\ k.pc = missed /\ k.c = request[w].c
          /\ k.kind = request[w].kind /\ k.todo = request[w].todo /\ k.of = request[w].of
      BY <1>1, <2>1, <3>1 DEF RequestRec
    <3>3. request' = [request EXCEPT ![w] = k]
      BY <1>1, <2>2, <3>1 DEF DeliveryInv, Facts, DeliveryTypes
    <3> QED BY <1>5, <2>1, <3>2, <3>3, MovesOn DEF MergePicks
  <2>3. CASE \E t \in Mergeable(head) : request' = [request EXCEPT ![w].head = head,
                                              ![w].target = t, ![w].pc = "mergeInto"]
    <3>1. PICK t \in Mergeable(head) : request' = [request EXCEPT ![w].head = head,
                                              ![w].target = t, ![w].pc = "mergeInto"]
      BY <2>3
    <3>2. t \in 1..Len(runs) /\ runs[t].head = head /\ t \in Nat
      BY <1>1, RunAt DEF Mergeable
    <3> HIDE DEF head, missed
    <3>3. PICK k : k = [request[w] EXCEPT !.head = head, !.target = t, !.pc = "mergeInto"]
      OBVIOUS
    <3>4. /\ k \in RequestRec /\ k.pc = "mergeInto" /\ k.c = request[w].c
          /\ k.kind = request[w].kind /\ k.todo = request[w].todo /\ k.of = request[w].of
          /\ k.head = head /\ k.target = t
      BY <1>1, <2>1, <3>2, <3>3 DEF RequestRec
    <3>5. request' = [request EXCEPT ![w] = k]
      BY <1>1, <3>1, <3>3 DEF DeliveryInv, Facts, DeliveryTypes
    <3> QED BY <1>5, <2>1, <3>2, <3>4, <3>5, MovesOn DEF MergePicks
  <2> QED BY <1>5, <2>2, <2>3 DEF MergePicks
<1>6. CASE RegisterPicks(w)
  <2>1. ~At(w, "idle")
    BY <1>6 DEF RegisterPicks, At
  <2>2. CASE \E pc \in {"handMerge", "enqueue"} : Goto(w, pc)
    BY <1>2, <1>6, <2>1, <2>2 DEF RegisterPicks
  <2>3. CASE \E t \in Tasks(Claimed) :
               request' = [request EXCEPT ![w].target = t, ![w].pc = "registerOn"]
    <3>1. PICK t \in Tasks(Claimed) :
               request' = [request EXCEPT ![w].target = t, ![w].pc = "registerOn"]
      BY <2>3
    <3>2. t \in 1..Len(runs) /\ t \in Nat
      BY <1>1, RunAt
    <3>3. PICK k : k = [request[w] EXCEPT !.target = t, !.pc = "registerOn"]
      OBVIOUS
    <3>4. /\ k \in RequestRec /\ k.pc = "registerOn" /\ k.c = request[w].c
          /\ k.kind = request[w].kind /\ k.todo = request[w].todo /\ k.of = request[w].of
          /\ k.target = t
      BY <1>1, <3>2, <3>3 DEF RequestRec
    <3>5. request' = [request EXCEPT ![w] = k]
      BY <1>1, <3>1, <3>3 DEF DeliveryInv, Facts, DeliveryTypes
    <3> QED BY <1>6, <2>1, <3>2, <3>4, <3>5, MovesOn DEF RegisterPicks
  <2> QED BY <1>6, <2>2, <2>3 DEF RegisterPicks
<1>7. CASE LosesRace(w)
  <2>0. PICK n \in Nat : n = request[w].n + 1
    BY <1>1 DEF RequestRec
  <2>1. PICK k : k = [request[w] EXCEPT !.n = n, !.pc = "merge"]
    OBVIOUS
  <2>2. /\ k \in RequestRec /\ k.pc = "merge" /\ k.c = request[w].c
        /\ k.kind = request[w].kind /\ k.todo = request[w].todo /\ k.of = request[w].of
    BY <1>1, <2>1 DEF RequestRec
  <2>3. request' = [request EXCEPT ![w] = k]
    BY <1>1, <1>7, <2>0, <2>1 DEF LosesRace, DeliveryInv, Facts, DeliveryTypes
  <2> QED BY <1>7, <2>2, <2>3, MovesOn DEF LosesRace, At
<1> QED BY <1>3, <1>4, <1>5, <1>6, <1>7

LEMMA SameGrows ==
  ASSUME Facts
  PROVE  Grows(runs)
BY RunsIndexed DEF Facts, DeliveryTypes, Grows, Batch, BatchOf

LEMMA OneGrows ==
  ASSUME Facts, NEW t \in 1..Len(runs), NEW k \in RunRec, k.status = runs[t].status,
         k.since = runs[t].since, k.head = runs[t].head, k.delivered = runs[t].delivered,
         k.working = runs[t].working, k.embedded = runs[t].embedded, NEW c \in 1..posted,
         k.trigger \in 1..posted, k.coalesced \cup {k.trigger} = Batch(t) \cup {c},
         NEW rs \in Seq(RunRec), Len(rs) = Len(runs),
         \A u \in 1..Len(runs) : rs[u] = IF u = t THEN k ELSE runs[u]
  PROVE  Grows(rs) /\ BatchOf(k) = Batch(t) \cup {c}
<1>1. DeliveryTypes /\ runs \in Seq(RunRec) /\ Len(runs) \in Nat /\ posted \in Nat
  BY RunsIndexed DEF Facts, DeliveryTypes
<1>3. RunOK(runs[t]) /\ runs[t].trigger # NoComment /\ Batch(t) = runs[t].coalesced \cup {runs[t].trigger}
      /\ BatchOf(k) = Batch(t) \cup {c} /\ Batch(t) \subseteq 1..posted
  BY <1>1 DEF Facts, RunOK, Batch, BatchOf, NoComment
<1>4. RunOK(k)
  BY <1>3 DEF RunOK
<1>5. \A u \in 1..Len(rs) : RunOK(rs[u])
  BY <1>4 DEF Facts
<1>6. \A u \in 1..Len(runs) : /\ rs[u].status = runs[u].status /\ rs[u].since = runs[u].since
       /\ rs[u].head = runs[u].head /\ rs[u].delivered = runs[u].delivered
       /\ rs[u].working = runs[u].working /\ Batch(u) \subseteq BatchOf(rs[u])
  BY <1>3 DEF Batch, BatchOf
<1>7. Grows(rs)
  BY <1>1, <1>5, <1>6 DEF Grows
<1> QED BY <1>3, <1>7

LEMMA Handles ==
  ASSUME DeliveryInv, NEW w \in Workers, ~At(w, "idle"), NEW o \in {"blocked"} \cup Success,
         NEW rs, Grows(rs), Handled(w, rs), AskedOf(w, rs), Done(w, o, rs),
         unkept \subseteq unkept', handed \subseteq handed',
         UNCHANGED <<posted, headSha, seen, askedAt, stale>>
  PROVE  DeliveryInv'
<1>1. Facts /\ PromiseInv /\ HeadInv /\ UNCHANGED <<posted, headSha, seen, askedAt>>
  BY DEF DeliveryInv
<1>2. Facts'
  BY <1>1, DoneFacts
<1>3. PromiseInv'
  BY <1>1, DonePromise
<1>4. HeadInv'
  BY <1>1, DoneHead
<1> QED BY <1>2, <1>3, <1>4 DEF DeliveryInv

LEMMA SameAsked ==
  ASSUME Facts, NEW w \in Workers
  PROVE  AskedOf(w, runs)
BY DEF AskedOf, Batch, BatchOf

LEMMA AtWork ==
  ASSUME DeliveryInv, NEW w \in Workers, ~At(w, "idle")
  PROVE  /\ Facts /\ DeliveryTypes /\ RequestOK(request[w]) /\ request[w] \in RequestRec
         /\ request[w].c \in 1..posted /\ posted \in Nat /\ Len(runs) \in Nat
         /\ DOMAIN runs = 1..Len(runs) /\ headSha \in Nat /\ request[w].c \in 1..MaxComments
         /\ askedAt[request[w].c] \in Nat
         /\ \A t \in 1..Len(runs) : runs[t] \in RunRec /\ RunOK(runs[t])
<1>1. Facts /\ DeliveryTypes /\ RequestOK(request[w])
  BY DEF DeliveryInv, Facts
<1>2. /\ posted \in Nat /\ Len(runs) \in Nat /\ DOMAIN runs = 1..Len(runs)
      /\ \A t \in 1..Len(runs) : runs[t] \in RunRec
  BY <1>1, RunsIndexed
<1>3. request[w] \in RequestRec /\ request[w].c \in 1..posted
  BY <1>1 DEF DeliveryTypes, RequestOK, At
<1>4. posted <= MaxComments /\ MaxComments \in Nat /\ headSha \in Nat
  BY <1>1, DeliveryAssumption DEF DeliveryTypes
<1>5. request[w].c \in 1..MaxComments
  BY <1>2, <1>3, <1>4
<1>6. askedAt[request[w].c] \in Nat
  BY <1>1, <1>4, <1>5 DEF DeliveryTypes
<1> QED BY <1>1, <1>2, <1>3, <1>4, <1>5, <1>6 DEF Facts

LEMMA MergeIntoStep ==
  ASSUME DeliveryInv, NEW w \in Workers, MergeInto(w)
  PROVE  DeliveryInv'
<1>1. PICK t, c : t = request[w].target /\ c = request[w].c
  OBVIOUS
<1>2. /\ ~At(w, "idle") /\ t \in 1..Len(runs) /\ request[w].head = runs[t].head
  BY <1>1, AtWork DEF MergeInto, At, RequestOK
<1>3. /\ c \in 1..posted /\ c \in Nat /\ runs[t] \in RunRec /\ RunOK(runs[t]) /\ Facts
      /\ posted \in Nat /\ Len(runs) \in Nat
  BY <1>1, <1>2, AtWork
<1>4. PICK k : k = [runs[t] EXCEPT !.coalesced = Batch(t) \ {c}, !.trigger = c]
  OBVIOUS
<1>5. /\ k \in RunRec /\ k.status = runs[t].status /\ k.since = runs[t].since
      /\ k.head = runs[t].head /\ k.delivered = runs[t].delivered
      /\ k.working = runs[t].working /\ k.embedded = runs[t].embedded
      /\ k.trigger = c /\ k.coalesced = Batch(t) \ {c}
  BY <1>3, <1>4 DEF RunRec, Batch
<1>6. PICK rs : rs = [runs EXCEPT ![t] = k]
  OBVIOUS
<1>7. k.coalesced \cup {k.trigger} = Batch(t) \cup {c} /\ k.trigger \in 1..posted
  BY <1>3, <1>5
<1>8. /\ rs \in Seq(RunRec) /\ Len(rs) = Len(runs)
      /\ \A u \in 1..Len(runs) : rs[u] = IF u = t THEN k ELSE runs[u]
  BY <1>2, <1>3, <1>5, <1>6, ExceptSeq DEF Facts, DeliveryTypes
<1>10. Grows(rs) /\ BatchOf(k) = Batch(t) \cup {c}
  BY <1>2, <1>3, <1>5, <1>7, <1>8, OneGrows, SMTT(30)
<1>9. Merged(t, c) = rs
  BY <1>3, <1>4, <1>6 DEF Merged, Facts, DeliveryTypes
<1>11. Handled(w, rs)
  BY <1>1, <1>2, <1>5, <1>8, <1>10 DEF Handled, MergeInto
<1>12. AskedOf(w, rs)
  <2> SUFFICES ASSUME NEW u \in 1..Len(rs), NEW d \in BatchOf(rs[u])
               PROVE  \/ u \in 1..Len(runs) /\ d \in Batch(u)
                      \/ d = request[w].c /\ (askedAt[d] <= rs[u].head \/ d \in handed')
    BY DEF AskedOf
  <2>1. CASE u # t
    BY <1>8, <1>10, <2>1 DEF Batch, BatchOf
  <2>2. CASE u = t /\ d # c
    BY <1>8, <1>10, <2>2
  <2>3. CASE u = t /\ d = c
    <3>1. askedAt[c] \in Nat /\ runs[t].head \in Nat
      BY <1>1, <1>2, <1>3, AtWork DEF RunRec
    <3>2. askedAt[c] <= runs[t].head \/ c \in handed'
      BY <1>1, <1>2, <3>1 DEF MergeInto
    <3> QED BY <1>1, <1>5, <1>8, <1>10, <2>3, <3>2
  <2> QED BY <2>1, <2>2, <2>3
<1>13. /\ Done(w, "coalesced", rs) /\ unkept \subseteq unkept' /\ handed \subseteq handed'
       /\ UNCHANGED <<posted, headSha, seen, askedAt, stale>>
  BY <1>1, <1>9 DEF MergeInto
<1> QED BY <1>2, <1>8, <1>10, <1>11, <1>12, <1>13, Handles DEF Success

LEMMA RegisterOnStep ==
  ASSUME DeliveryInv, NEW w \in Workers, RegisterOn(w)
  PROVE  DeliveryInv'
<1>1. PICK t, c : t = request[w].target /\ c = request[w].c
  OBVIOUS
<1>2. ~At(w, "idle") /\ t \in 1..Len(runs)
  BY <1>1, AtWork DEF RegisterOn, At, RequestOK
<1>3. /\ c \in 1..posted /\ c \in Nat /\ runs[t] \in RunRec /\ RunOK(runs[t]) /\ Facts
      /\ posted \in Nat /\ Len(runs) \in Nat
  BY <1>1, <1>2, AtWork
<1>4. PICK k : k = [runs[t] EXCEPT !.coalesced = runs[t].coalesced \cup {c}]
  OBVIOUS
<1>5. /\ k \in RunRec /\ k.status = runs[t].status /\ k.since = runs[t].since
      /\ k.head = runs[t].head /\ k.delivered = runs[t].delivered
      /\ k.working = runs[t].working /\ k.embedded = runs[t].embedded
  BY <1>3, <1>4 DEF RunRec
<1>6. PICK rs : rs = [runs EXCEPT ![t] = k]
  OBVIOUS
<1>7. k.coalesced \cup {k.trigger} = Batch(t) \cup {c} /\ k.trigger \in 1..posted
  <2>1. k.trigger = runs[t].trigger /\ k.coalesced = runs[t].coalesced \cup {c}
    BY <1>3, <1>4 DEF RunRec
  <2> QED BY <1>3, <2>1 DEF Batch, RunOK, NoComment
<1>8. /\ rs \in Seq(RunRec) /\ Len(rs) = Len(runs)
      /\ \A u \in 1..Len(runs) : rs[u] = IF u = t THEN k ELSE runs[u]
  BY <1>2, <1>3, <1>5, <1>6, ExceptSeq DEF Facts, DeliveryTypes
<1>9. [runs EXCEPT ![t].coalesced = runs[t].coalesced \cup {c}] = rs
  BY <1>3, <1>4, <1>6 DEF Facts, DeliveryTypes
<1>10. Grows(rs) /\ BatchOf(k) = Batch(t) \cup {c}
  BY <1>2, <1>3, <1>5, <1>7, <1>8, OneGrows
<1>11. Handled(w, rs)
  BY <1>1, <1>2, <1>5, <1>8, <1>10, SMTT(30) DEF Handled, RegisterOn
<1>12. AskedOf(w, rs)
  <2> SUFFICES ASSUME NEW u \in 1..Len(rs), NEW d \in BatchOf(rs[u])
               PROVE  \/ u \in 1..Len(runs) /\ d \in Batch(u)
                      \/ d = request[w].c /\ (askedAt[d] <= rs[u].head \/ d \in handed')
    BY DEF AskedOf
  <2>1. CASE u # t
    BY <1>8, <1>10, <2>1 DEF Batch, BatchOf
  <2>2. CASE u = t /\ d # c
    BY <1>8, <1>10, <2>2
  <2>3. CASE u = t /\ d = c
    <3>1. askedAt[c] \in Nat /\ runs[t].head \in Nat
      BY <1>1, <1>2, <1>3, AtWork DEF RunRec
    <3>2. askedAt[c] <= runs[t].head \/ c \in handed'
      BY <1>1, <1>2, <3>1 DEF RegisterOn
    <3> QED BY <1>1, <1>5, <1>8, <2>3, <3>2
  <2> QED BY <2>1, <2>2, <2>3
<1>13. /\ Done(w, "deferred", rs) /\ unkept \subseteq unkept' /\ handed \subseteq handed'
       /\ UNCHANGED <<posted, headSha, seen, askedAt, stale>>
  BY <1>1, <1>9 DEF RegisterOn
<1> QED BY <1>2, <1>10, <1>11, <1>12, <1>13, Handles DEF Success

LEMMA EnqueueRunStep ==
  ASSUME DeliveryInv, NEW w \in Workers, EnqueueRun(w)
  PROVE  DeliveryInv'
<1>1. PICK c, k : c = request[w].c /\ k = NewRun(request[w].c, {}, headSha)
  OBVIOUS
<1>2. ~At(w, "idle")
  BY DEF EnqueueRun, At
<1>3. /\ c \in 1..posted /\ headSha \in Nat /\ Facts /\ Len(runs) \in Nat
      /\ askedAt[c] \in Nat /\ askedAt[c] <= headSha /\ runs \in Seq(RunRec)
  <2>1. /\ Facts /\ DeliveryTypes /\ headSha \in Nat /\ c \in 1..posted /\ c \in 1..MaxComments
        /\ Len(runs) \in Nat
    BY <1>1, <1>2, AtWork
  <2> QED BY <2>1 DEF DeliveryTypes
<1>4. /\ k \in RunRec /\ RunOK(k) /\ BatchOf(k) = {c} /\ k.status = "queued" /\ k.head = headSha
  <2>1. posted \in Nat /\ c \in Nat /\ c # 0
    BY <1>3, RunsIndexed DEF Facts
  <2>2. k \in RunRec /\ k.status = "queued" /\ k.head = headSha
    BY <1>1, <1>3, <2>1 DEF NewRun, RunRec, NoComment
  <2>3. RunOK(k)
    BY <1>1, <1>3, <2>1 DEF NewRun, RunOK
  <2>4. BatchOf(k) = {c}
    BY <1>1, <2>1 DEF NewRun, BatchOf, NoComment
  <2> QED BY <2>2, <2>3, <2>4
<1>5. PICK rs : rs = Append(runs, k)
  OBVIOUS
<1>6. /\ rs \in Seq(RunRec) /\ Len(rs) = Len(runs) + 1 /\ rs[Len(runs) + 1] = k
      /\ \A t \in 1..Len(runs) : rs[t] = runs[t]
  BY <1>3, <1>4, <1>5, AppendProperties
<1>7. \A t \in 1..Len(rs) : t \in 1..Len(runs) \/ t = Len(runs) + 1
  BY <1>3, <1>6
<1>8. Grows(rs)
  <2>1. \A t \in 1..Len(rs) : RunOK(rs[t])
    BY <1>3, <1>4, <1>6, <1>7 DEF Facts
  <2> QED BY <2>1, <1>3, <1>6 DEF Grows, Batch, BatchOf
<1>9. Handled(w, rs)
  <2>1. Len(runs) + 1 \in 1..Len(rs)
    BY <1>3, <1>6
  <2> QED BY <2>1, <1>1, <1>4, <1>6 DEF Handled, ActiveRuns
<1>10. AskedOf(w, rs)
  BY <1>1, <1>3, <1>4, <1>6, <1>7 DEF AskedOf, Batch, BatchOf
<1>11. /\ Done(w, "queued", rs) /\ unkept \subseteq unkept' /\ handed \subseteq handed'
       /\ UNCHANGED <<posted, headSha, seen, askedAt, stale>>
  BY <1>1, <1>5 DEF EnqueueRun
<1> QED BY <1>2, <1>8, <1>9, <1>10, <1>11, Handles DEF Success

LEMMA DeferToActiveStep ==
  ASSUME DeliveryInv, NEW w \in Workers, DeferToActive(w)
  PROVE  DeliveryInv'
<1>1. /\ ~At(w, "idle") /\ Done(w, "deferred", runs) /\ unkept \subseteq unkept'
      /\ handed \subseteq handed' /\ UNCHANGED <<posted, headSha, seen, askedAt, stale>>
  BY DEF DeferToActive, At
<1>2. Facts /\ Grows(runs) /\ AskedOf(w, runs)
  BY SameGrows, SameAsked DEF DeliveryInv
<1>3. Handled(w, runs)
  <2>1. CASE \E t \in Tasks(ActiveRuns) : request[w].c \in Batch(t) \cup After(t)
    <3>1. PICK t \in Tasks(ActiveRuns) : request[w].c \in Batch(t) \cup After(t)
      BY <2>1
    <3>2. t \in 1..Len(runs) /\ runs[t].status \in ActiveRuns
      BY <1>2, RunAt DEF Facts
    <3> QED BY <3>1, <3>2 DEF Handled, Batch, BatchOf, After
  <2>2. CASE unkept' = unkept \cup {request[w].c}
    BY <2>2 DEF Handled
  <2> QED BY <2>1, <2>2 DEF DeferToActive
<1> QED BY <1>1, <1>2, <1>3, Handles DEF Success

LEMMA BlockedSteps ==
  ASSUME DeliveryInv, NEW w \in Workers, Blocked(w) \/ HandOffMisses(w)
  PROVE  DeliveryInv'
<1>1. ~At(w, "idle")
  BY DEF Blocked, HandOffMisses, At
<1>2. /\ request[w] \in RequestRec /\ headSha \in Nat /\ Facts
      /\ request \in [Workers -> RequestRec]
  BY <1>1, AtWork DEF DeliveryTypes
<1>3. CASE /\ Done(w, "blocked", runs) /\ unkept' = unkept \cup {request[w].c}
           /\ UNCHANGED <<posted, headSha, seen, askedAt, handed, stale>>
  <2>1. Grows(runs) /\ AskedOf(w, runs) /\ Handled(w, runs)
    BY <1>2, <1>3, SameGrows, SameAsked DEF Handled
  <2> QED BY <1>1, <1>3, <2>1, Handles
<1>4. CASE /\ request' = [request EXCEPT ![w].n = 0, ![w].head = headSha,
                                         ![w].pc = "handRegister"]
           /\ UNCHANGED <<posted, runs, headSha, outcome, seen, askedAt, trouble, unkept, handed,
                          stale>>
  <2>1. PICK k : k = [request[w] EXCEPT !.n = 0, !.head = headSha, !.pc = "handRegister"]
    OBVIOUS
  <2>2. /\ k \in RequestRec /\ k.pc = "handRegister" /\ k.c = request[w].c
        /\ k.kind = request[w].kind /\ k.todo = request[w].todo /\ k.of = request[w].of
    BY <1>2, <2>1 DEF RequestRec
  <2>3. request' = [request EXCEPT ![w] = k]
    BY <1>2, <1>4, <2>1
  <2> QED BY <1>1, <1>4, <2>2, <2>3, MovesOn
<1>5. CASE /\ request' = [request EXCEPT ![w].n = request[w].n + 1, ![w].pc = "handRegister"]
           /\ UNCHANGED <<posted, runs, headSha, outcome, seen, askedAt, trouble, unkept, handed,
                          stale>>
  <2>1. PICK n \in Nat : n = request[w].n + 1
    BY <1>2 DEF RequestRec
  <2>2. PICK k : k = [request[w] EXCEPT !.n = n, !.pc = "handRegister"]
    OBVIOUS
  <2>3. /\ k \in RequestRec /\ k.pc = "handRegister" /\ k.c = request[w].c
        /\ k.kind = request[w].kind /\ k.todo = request[w].todo /\ k.of = request[w].of
    BY <1>2, <2>2 DEF RequestRec
  <2>4. request' = [request EXCEPT ![w] = k]
    BY <1>2, <1>5, <2>1, <2>2
  <2> QED BY <1>1, <1>5, <2>3, <2>4, MovesOn
<1> QED BY <1>3, <1>4, <1>5 DEF Blocked, HandOffMisses

LEMMA ResolveSteps ==
  ASSUME DeliveryInv, NEW w \in Workers, ResolveStep(w)
  PROVE  DeliveryInv'
BY DecisionSteps, MergeIntoStep, DeferToActiveStep, RegisterOnStep, EnqueueRunStep, BlockedSteps
   DEF ResolveStep

-----------------------------------------------------------------------------
(* A comment stays where it is kept, except in the tasks H that change *)

KeepsIn(t, c) ==
  \/ runs[t].status \in ActiveRuns /\ c \in Batch(t) \cup After(t)
  \/ /\ runs[t].status = "completed" /\ runs[t].working /\ c \in Missed(t)
     /\ \A v \in Workers : Replays(v, t) => c \in Left(v)

LEMMA StillKept ==
  ASSUME Facts, NEW H, NEW c \in 1..posted, Kept(c), c \in seen => c \in seen',
         posted' \in Nat, posted <= posted',
         Len(runs') \in Nat, Len(runs) <= Len(runs'),
         \A u \in 1..Len(runs) : u \notin H => runs'[u] = runs[u],
         \A v \in Workers :
           \/ request'[v] = request[v]
           \/ /\ request[v].kind = "survivor" => c \notin Left(v)
              /\ request'[v].kind = "replay" => request'[v].of \in H
  PROVE  Kept(c)' \/ \E t \in 1..Len(runs) : t \in H /\ KeepsIn(t, c)
<1>0. Len(runs) \in Nat /\ posted \in Nat
  BY RunsIndexed DEF Facts
<1>1. ASSUME NEW t \in 1..Len(runs), t \notin H
      PROVE  /\ t \in 1..Len(runs') /\ runs'[t] = runs[t] /\ Batch(t)' = Batch(t)
             /\ After(t) \subseteq After(t)' /\ Missed(t) \subseteq Missed(t)'
  <2>1. t \in 1..Len(runs') /\ runs'[t] = runs[t]
    BY <1>0, <1>1
  <2>2. Batch(t)' = Batch(t) /\ After(t) \subseteq After(t)'
    BY <1>0, <2>1 DEF Batch, After
  <2> QED BY <2>1, <2>2 DEF Missed
<1>2. CASE c \in seen
  BY <1>2 DEF Kept
<1>3. CASE InRun(c)
  <2>1. PICK t \in 1..Len(runs) : runs[t].status \in ActiveRuns /\ c \in Batch(t) \cup After(t)
    BY <1>3 DEF InRun
  <2>2. CASE t \notin H
    BY <1>1, <2>1, <2>2 DEF Kept, InRun
  <2>3. CASE t \in H
    BY <2>1, <2>3 DEF KeepsIn
  <2> QED BY <2>2, <2>3
<1>4. CASE InRequest(c)
  <2>1. PICK v \in Workers : request[v].kind = "survivor" /\ c \in Left(v)
    BY <1>4 DEF InRequest
  <2>2. request'[v] = request[v]
    BY <2>1
  <2>3. InRequest(c)'
    BY <2>1, <2>2 DEF InRequest, Left
  <2> QED BY <2>3 DEF Kept
<1>5. CASE InReplay(c)
  <2>1. PICK t \in 1..Len(runs) :
          /\ runs[t].status = "completed" /\ runs[t].working /\ c \in Missed(t)
          /\ \A v \in Workers : Replays(v, t) => c \in Left(v)
    BY <1>5 DEF InReplay
  <2>2. CASE t \in H
    BY <2>1, <2>2 DEF KeepsIn
  <2>3. CASE t \notin H
    <3>1. ASSUME NEW v \in Workers, Replays(v, t)' PROVE c \in Left(v)'
      <4>1. request'[v] = request[v]
        BY <3>1, <2>3 DEF Replays
      <4> QED BY <4>1, <3>1, <2>1 DEF Replays, Left
    <3>2. /\ t \in 1..Len(runs') /\ runs'[t].status = "completed" /\ runs'[t].working
          /\ c \in Missed(t)'
      BY <1>1, <2>1, <2>3
    <3>3. InReplay(c)'
      BY <3>1, <3>2 DEF InReplay
    <3> QED BY <3>3 DEF Kept
  <2> QED BY <2>2, <2>3
<1> QED BY <1>2, <1>3, <1>4, <1>5 DEF Kept

LEMMA FactsStay ==
  ASSUME Facts, DeliveryTypes', RunsMove, posted <= posted',
         \A t \in 1..Len(runs') : RunOK(runs[t])',
         \A v \in Workers : request'[v] = request[v] \/ RequestOK(request[v])',
         \A c \in 1..MaxComments : c > posted' => outcome'[c] = "none"
  PROVE  Facts'
BY RequestStays DEF Facts

(* one task changes and keeps its comments; the requests do not take part *)
LEMMA OneRunChanges ==
  ASSUME DeliveryInv, NEW t \in 1..Len(runs), NEW k \in RunRec, runs' = [runs EXCEPT ![t] = k],
         runs[t].status \in ActiveRuns, k.status \in ActiveRuns, RunOK(k)',
         k.since = runs[t].since, k.head = runs[t].head, BatchOf(k) = Batch(t),
         seen \subseteq seen', seen' \subseteq 1..posted, trouble' \in Nat, NoOldHeadRun',
         UNCHANGED <<posted, headSha, request, outcome, askedAt, unkept, handed>>
  PROVE  DeliveryInv'
<1>1. /\ Facts /\ DeliveryTypes /\ runs \in Seq(RunRec) /\ Len(runs) \in Nat /\ posted \in Nat
      /\ posted \in 0..MaxComments
  BY RunsIndexed DEF DeliveryInv, Facts, DeliveryTypes
<1>2. /\ runs' \in Seq(RunRec) /\ Len(runs') = Len(runs)
      /\ \A u \in 1..Len(runs) : runs'[u] = IF u = t THEN k ELSE runs[u]
  BY <1>1, ExceptSeq
<1>3. Facts'
  <2>1. DeliveryTypes'
    BY <1>1, <1>2 DEF DeliveryTypes
  <2>2. RunsMove
    BY <1>1, <1>2 DEF RunsMove, ActiveRuns
  <2>3. \A u \in 1..Len(runs') : RunOK(runs[u])'
    <3> SUFFICES ASSUME NEW u \in 1..Len(runs') PROVE RunOK(runs[u])'
      OBVIOUS
    <3>1. CASE u = t
      BY <1>2, <3>1
    <3>2. CASE u # t
      BY <1>1, <1>2, <3>2 DEF Facts, RunOK
    <3> QED BY <3>1, <3>2
  <2>4. /\ posted <= posted' /\ \A v \in Workers : request'[v] = request[v]
        /\ \A c \in 1..MaxComments : c > posted' => outcome'[c] = "none"
    BY <1>1 DEF Facts
  <2> QED BY <1>1, <2>1, <2>2, <2>3, <2>4, FactsStay
<1>4. PromiseInv'
  <2> SUFFICES ASSUME NEW c \in 1..posted, Kept(c) PROVE Kept(c)'
    BY DEF DeliveryInv, PromiseInv
  <2>1. PICK H : H = {t}
    OBVIOUS
  <2>2. /\ posted' \in Nat /\ posted <= posted' /\ Len(runs') \in Nat /\ Len(runs) <= Len(runs')
        /\ \A u \in 1..Len(runs) : u \notin H => runs'[u] = runs[u]
        /\ \A v \in Workers : request'[v] = request[v]
        /\ (c \in seen => c \in seen')
    BY <1>1, <1>2, <2>1
  <2>3. Kept(c)' \/ KeepsIn(t, c)
    <3>1. Kept(c)' \/ \E u \in 1..Len(runs) : u \in H /\ KeepsIn(u, c)
      BY <1>1, <2>2, StillKept
    <3> QED BY <2>1, <3>1
  <2>4. CASE KeepsIn(t, c)
    <3>1. c \in Batch(t) \cup After(t)
      BY <2>4 DEF KeepsIn, ActiveRuns
    <3>2. t \in 1..Len(runs') /\ runs'[t] = k
      BY <1>2
    <3>3. Batch(t)' = Batch(t) /\ After(t)' = After(t)
      BY <3>2 DEF Batch, BatchOf, After
    <3> QED BY <3>1, <3>2, <3>3 DEF Kept, InRun
  <2> QED BY <2>3, <2>4
<1>5. HeadInv'
  <2> SUFFICES ASSUME NEW u \in 1..Len(runs'), runs'[u].status \in ActiveRuns,
                      NEW c \in Batch(u)'
               PROVE  askedAt'[c] <= runs'[u].head \/ c \in handed'
    BY DEF HeadInv
  <2>1. u \in 1..Len(runs) /\ runs[u].status \in ActiveRuns /\ runs'[u].head = runs[u].head
        /\ c \in Batch(u)
    BY <1>2 DEF Batch, BatchOf
  <2> QED BY <2>1 DEF DeliveryInv, HeadInv
<1> QED BY <1>3, <1>4, <1>5 DEF DeliveryInv

-----------------------------------------------------------------------------
(* Claims *)

LEMMA RunFacts ==
  ASSUME DeliveryInv, NEW t \in DOMAIN runs
  PROVE  /\ t \in 1..Len(runs) /\ runs[t] \in RunRec /\ RunOK(runs[t]) /\ Facts /\ DeliveryTypes
         /\ runs \in Seq(RunRec) /\ Len(runs) \in Nat /\ posted \in Nat /\ trouble \in Nat
         /\ seen \subseteq 1..posted /\ headSha \in Nat
         /\ Batch(t) = runs[t].coalesced \cup {runs[t].trigger} /\ Batch(t) \subseteq 1..posted
<1>1. /\ t \in 1..Len(runs) /\ runs[t] \in RunRec /\ Facts /\ DeliveryTypes
      /\ runs \in Seq(RunRec) /\ Len(runs) \in Nat /\ posted \in Nat /\ trouble \in Nat
      /\ seen \subseteq 1..posted /\ headSha \in Nat
  BY RunsIndexed DEF DeliveryInv, Facts, DeliveryTypes
<1>2. RunOK(runs[t])
  BY <1>1 DEF Facts
<1> QED BY <1>1, <1>2 DEF RunOK, Batch, NoComment

LEMMA AskedTypes ==
  ASSUME DeliveryInv, NEW c \in 1..posted
  PROVE  c \in 1..MaxComments /\ askedAt[c] \in Nat /\ askedAt[c] <= headSha
<1>1. /\ DeliveryTypes /\ headSha \in Nat /\ posted \in Nat /\ posted <= MaxComments
      /\ MaxComments \in Nat
  BY RunsIndexed, DeliveryAssumption DEF DeliveryInv, Facts, DeliveryTypes
<1>2. c \in 1..MaxComments
  BY <1>1
<1> QED BY <1>1, <1>2 DEF DeliveryTypes

LEMMA ClaimStep ==
  ASSUME DeliveryInv, NEW t \in DOMAIN runs, Claim(t)
  PROVE  DeliveryInv'
<1>1. /\ t \in 1..Len(runs) /\ runs[t] \in RunRec /\ RunOK(runs[t]) /\ posted \in Nat
      /\ trouble \in Nat /\ seen \subseteq 1..posted
      /\ Batch(t) = runs[t].coalesced \cup {runs[t].trigger} /\ Batch(t) \subseteq 1..posted
  BY RunFacts
<1>2. PICK last \in 0..posted :
       runs' = [runs EXCEPT ![t].status = "dispatched", ![t].expected = runs[t].trigger,
                            ![t].embedded = {c \in runs[t].coalesced : c <= last}
                                              \cup {runs[t].trigger}]
  BY DEF Claim
<1>3. PICK given : given = {c \in runs[t].coalesced : c <= last} \cup {runs[t].trigger}
  OBVIOUS
<1>4. given \subseteq Batch(t) /\ given \in SUBSET Nat
  BY <1>1, <1>3 DEF RunRec
<1>5. PICK k : k = [runs[t] EXCEPT !.status = "dispatched", !.expected = runs[t].trigger,
                                   !.embedded = given]
  OBVIOUS
<1>6. runs' = [runs EXCEPT ![t] = k]
  BY <1>1, <1>2, <1>3, <1>5 DEF DeliveryInv, Facts, DeliveryTypes
<1>7. /\ k \in RunRec /\ k.status = "dispatched" /\ k.since = runs[t].since
      /\ k.head = runs[t].head /\ k.trigger = runs[t].trigger
      /\ k.coalesced = runs[t].coalesced /\ k.embedded = given
  BY <1>1, <1>4, <1>5 DEF RunRec
<1>8. RunOK(k)' /\ BatchOf(k) = Batch(t)
  BY <1>1, <1>4, <1>7 DEF RunOK, Batch, BatchOf, Claim
<1>9. runs[t].status \in ActiveRuns /\ k.status \in ActiveRuns /\ trouble' \in Nat
  BY <1>1, <1>7 DEF Claim, ActiveRuns, Trouble
<1>10. NoOldHeadRun'
  BY DEF DeliveryInv, HeadInv, NoOldHeadRun, Claim
<1>11. UNCHANGED <<posted, headSha, request, outcome, seen, askedAt, unkept, handed>>
  BY DEF Claim
<1> QED BY <1>1, <1>6, <1>7, <1>8, <1>9, <1>10, <1>11, OneRunChanges

LEMMA RequeueClaimStep ==
  ASSUME DeliveryInv, NEW t \in DOMAIN runs, RequeueClaim(t)
  PROVE  DeliveryInv'
<1>1. /\ t \in 1..Len(runs) /\ runs[t] \in RunRec /\ RunOK(runs[t]) /\ trouble \in Nat
      /\ seen \subseteq 1..posted
  BY RunFacts
<1>2. PICK k : k = [runs[t] EXCEPT !.status = "queued", !.embedded = {}, !.expected = NoComment]
  OBVIOUS
<1>3. runs' = [runs EXCEPT ![t] = k]
  BY <1>1, <1>2 DEF DeliveryInv, Facts, DeliveryTypes, RequeueClaim
<1>4. /\ k \in RunRec /\ k.status = "queued" /\ k.since = runs[t].since
      /\ k.head = runs[t].head /\ k.trigger = runs[t].trigger
      /\ k.coalesced = runs[t].coalesced
  BY <1>1, <1>2 DEF RunRec, NoComment
<1>5. RunOK(k)' /\ BatchOf(k) = Batch(t)
  BY <1>1, <1>4 DEF RunOK, Batch, BatchOf, RequeueClaim
<1>6. runs[t].status \in ActiveRuns /\ k.status \in ActiveRuns /\ trouble' \in Nat
  BY <1>1, <1>4 DEF RequeueClaim, ActiveRuns, Trouble
<1>7. NoOldHeadRun'
  BY DEF DeliveryInv, HeadInv, NoOldHeadRun, RequeueClaim
<1>8. UNCHANGED <<posted, headSha, request, outcome, seen, askedAt, unkept, handed>>
  BY DEF RequeueClaim
<1> QED BY <1>1, <1>3, <1>4, <1>5, <1>6, <1>7, <1>8, OneRunChanges

LEMMA StartRunStep ==
  ASSUME DeliveryInv, NEW t \in DOMAIN runs, StartRun(t)
  PROVE  DeliveryInv'
<1>1. /\ t \in 1..Len(runs) /\ runs[t] \in RunRec /\ RunOK(runs[t]) /\ trouble \in Nat
      /\ seen \subseteq 1..posted /\ posted \in Nat
      /\ Batch(t) = runs[t].coalesced \cup {runs[t].trigger} /\ Batch(t) \subseteq 1..posted
  BY RunFacts
<1>2. PICK given : given = runs[t].embedded
  OBVIOUS
<1>3. given \subseteq Batch(t) /\ given \in SUBSET Nat /\ runs[t].status = "dispatched"
  BY <1>1, <1>2 DEF RunOK, StartRun, RunRec
<1>4. PICK k : k = [runs[t] EXCEPT !.status = "running", !.delivered = given,
                          !.working = TRUE, !.embedded = {}, !.expected = NoComment]
  OBVIOUS
<1>5. runs' = [runs EXCEPT ![t] = k]
  BY <1>1, <1>2, <1>4 DEF DeliveryInv, Facts, DeliveryTypes, StartRun, Receipt
<1>6. /\ k \in RunRec /\ k.status = "running" /\ k.since = runs[t].since
      /\ k.head = runs[t].head /\ k.trigger = runs[t].trigger /\ k.embedded = {}
      /\ k.coalesced = runs[t].coalesced /\ k.delivered = given
  BY <1>1, <1>3, <1>4 DEF RunRec, NoComment
<1>7. /\ seen' = seen \cup given /\ UNCHANGED <<posted, headSha, request, outcome, askedAt, unkept, handed>>
      /\ stale' = stale \cup {c \in given : runs[t].head < askedAt[c]} /\ trouble' = trouble
  BY <1>2 DEF StartRun
<1>8. RunOK(k)' /\ BatchOf(k) = Batch(t)
  BY <1>1, <1>3, <1>6, <1>7 DEF RunOK, Batch, BatchOf
<1>9. runs[t].status \in ActiveRuns /\ k.status \in ActiveRuns
  BY <1>3, <1>6 DEF ActiveRuns
<1>10. NoOldHeadRun'
  <2>1. ASSUME NEW c \in given, runs[t].head < askedAt[c] PROVE c \in handed
    <3>1. c \in 1..posted /\ runs[t].head \in Nat
      BY <1>1, <1>3 DEF RunRec
    <3>2. askedAt[c] \in Nat
      BY <3>1, AskedTypes
    <3>3. askedAt[c] <= runs[t].head \/ c \in handed
      BY <1>1, <1>3, <1>9 DEF DeliveryInv, HeadInv
    <3> QED BY <2>1, <3>1, <3>2, <3>3
  <2> QED BY <1>7, <2>1 DEF DeliveryInv, HeadInv, NoOldHeadRun
<1>11. seen \subseteq seen' /\ seen' \subseteq 1..posted /\ trouble' \in Nat
  BY <1>1, <1>3, <1>7
<1> QED BY <1>1, <1>5, <1>6, <1>7, <1>8, <1>9, <1>10, <1>11, OneRunChanges

-----------------------------------------------------------------------------
(* Tasks that end *)

(* an active task ends, and its retry, if there is one, has its comments *)
LEMMA FailKeeps ==
  ASSUME DeliveryInv, NEW t \in 1..Len(runs), runs[t].status \in ActiveRuns,
         runs' \in Seq(RunRec), Len(runs) <= Len(runs'),
         runs'[t].status = "ended", runs'[t].head = runs[t].head, RunOK(runs[t])',
         \A u \in 1..Len(runs) : u # t => runs'[u] = runs[u],
         \A u \in 1..Len(runs') : u > Len(runs) =>
           RunOK(runs[u])' /\ runs'[u].head = runs[t].head /\ Batch(u)' = Batch(t),
         \A c \in Batch(t) \cup After(t) :
           c \in unkept' \cup seen
             \/ \E u \in 1..Len(runs') : runs'[u].status \in ActiveRuns /\ c \in Batch(u)',
         unkept \subseteq unkept', trouble' \in Nat,
         UNCHANGED <<posted, headSha, request, outcome, seen, askedAt, handed, stale>>
  PROVE  DeliveryInv'
<1>1. /\ Facts /\ DeliveryTypes /\ Len(runs) \in Nat /\ Len(runs') \in Nat /\ posted \in Nat
  BY RunsIndexed, LenProperties DEF DeliveryInv, Facts
<1>2. \A u \in 1..Len(runs') : u \in 1..Len(runs) \/ u > Len(runs)
  BY <1>1
<1>3. Facts'
  <2>1. DeliveryTypes'
    BY <1>1 DEF DeliveryTypes
  <2>2. RunsMove
    BY <1>1 DEF RunsMove, ActiveRuns
  <2>3. ASSUME NEW u \in 1..Len(runs') PROVE RunOK(runs[u])'
    <3>1. CASE u \in 1..Len(runs) /\ u # t
      BY <1>1, <3>1 DEF Facts, RunOK
    <3> QED BY <1>2, <3>1
  <2>4. /\ posted <= posted' /\ \A v \in Workers : request'[v] = request[v]
        /\ \A c \in 1..MaxComments : c > posted' => outcome'[c] = "none"
    BY <1>1 DEF Facts
  <2> QED BY <1>1, <2>1, <2>2, <2>3, <2>4, FactsStay
<1>4. PromiseInv'
  <2> SUFFICES ASSUME NEW c \in 1..posted, Kept(c), c \notin unkept' PROVE Kept(c)'
    BY DEF DeliveryInv, PromiseInv
  <2>1. PICK H : H = {t}
    OBVIOUS
  <2>2. /\ posted' \in Nat /\ posted <= posted' /\ Len(runs') \in Nat /\ Len(runs) <= Len(runs')
        /\ \A u \in 1..Len(runs) : u \notin H => runs'[u] = runs[u]
        /\ \A v \in Workers : request'[v] = request[v]
        /\ (c \in seen => c \in seen')
    BY <1>1, <2>1
  <2>3. Kept(c)' \/ \E u \in 1..Len(runs) : u \in H /\ KeepsIn(u, c)
    BY <1>1, <2>2, StillKept
  <2>4. CASE KeepsIn(t, c)
    <3>1. c \in Batch(t) \cup After(t)
      BY <2>4 DEF KeepsIn, ActiveRuns
    <3>2. CASE c \in seen
      BY <3>2 DEF Kept
    <3>3. CASE \E u \in 1..Len(runs') : runs'[u].status \in ActiveRuns /\ c \in Batch(u)'
      BY <3>3 DEF Kept, InRun
    <3> QED BY <3>1, <3>2, <3>3
  <2> QED BY <2>1, <2>3, <2>4
<1>5. HeadInv'
  <2> SUFFICES ASSUME NEW u \in 1..Len(runs'), runs'[u].status \in ActiveRuns,
                      NEW c \in Batch(u)'
               PROVE  askedAt'[c] <= runs'[u].head \/ c \in handed'
    BY DEF HeadInv, DeliveryInv, NoOldHeadRun
  <2>1. CASE u \in 1..Len(runs)
    <3>1. u # t
      BY DEF ActiveRuns
    <3>2. runs'[u] = runs[u] /\ c \in Batch(u)
      BY <2>1, <3>1 DEF Batch
    <3> QED BY <2>1, <3>2 DEF DeliveryInv, HeadInv
  <2>2. CASE u > Len(runs)
    BY <2>2 DEF DeliveryInv, HeadInv
  <2> QED BY <1>2, <2>1, <2>2
<1> QED BY <1>3, <1>4, <1>5 DEF DeliveryInv

LEMMA FailRunStep ==
  ASSUME DeliveryInv, NEW t \in DOMAIN runs, FailRun(t)
  PROVE  DeliveryInv'
<1>1. /\ t \in 1..Len(runs) /\ runs[t] \in RunRec /\ RunOK(runs[t]) /\ runs \in Seq(RunRec)
      /\ Len(runs) \in Nat /\ posted \in Nat /\ trouble \in Nat
      /\ Batch(t) = runs[t].coalesced \cup {runs[t].trigger} /\ Batch(t) \subseteq 1..posted
  BY RunFacts
<1>2. PICK k : k = Ended(t)
  OBVIOUS
<1>3. PICK ended : ended = [runs EXCEPT ![t] = k]
  OBVIOUS
<1>4. /\ k \in RunRec /\ RunOK(k) /\ k.status = "ended" /\ k.head = runs[t].head
      /\ ended \in Seq(RunRec) /\ Len(ended) = Len(runs)
      /\ \A u \in 1..Len(runs) : ended[u] = IF u = t THEN k ELSE runs[u]
  <2>1. /\ k \in RunRec /\ k.status = "ended" /\ k.head = runs[t].head
        /\ k.trigger = runs[t].trigger /\ k.coalesced = runs[t].coalesced
    BY <1>1, <1>2 DEF Ended, RunRec, NoComment
  <2>2. RunOK(k)
    BY <1>1, <2>1 DEF RunOK
  <2> QED BY <1>1, <1>3, <2>1, <2>2, ExceptSeq
<1>5. /\ runs[t].status \in ActiveRuns /\ trouble' \in Nat
      /\ UNCHANGED <<posted, headSha, request, outcome, seen, askedAt, handed, stale>>
  BY <1>1 DEF FailRun, Claimed, ActiveRuns, Trouble
<1>6. RunOK(k)'
  BY <1>4, <1>5 DEF RunOK
<1>7. CASE /\ runs' = Append(ended, RetryOf(t))
           /\ unkept' = unkept \cup (After(t) \ Batch(t))
  <2>1. PICK q : q = RetryOf(t)
    OBVIOUS
  <2>2. /\ q.status = "queued" /\ q.head = runs[t].head /\ q.trigger = runs[t].trigger
        /\ q.coalesced = runs[t].coalesced
    BY <2>1 DEF RetryOf, NewRun
  <2>3. q \in RunRec
    BY <1>1, <2>1 DEF RetryOf, NewRun, RunRec, NoComment
  <2>4. RunOK(q)'
    BY <1>1, <1>5, <2>2 DEF RunOK
  <2>5. /\ runs' \in Seq(RunRec) /\ Len(runs') = Len(runs) + 1 /\ runs'[Len(runs) + 1] = q
        /\ \A u \in 1..Len(runs) : runs'[u] = ended[u]
    BY <1>4, <1>7, <2>1, <2>3, AppendProperties
  <2>6. Len(runs) <= Len(runs') /\ Len(runs) + 1 \in 1..Len(runs')
    BY <1>1, <2>5
  <2>7. ASSUME NEW u \in 1..Len(runs'), u > Len(runs)
        PROVE  u = Len(runs) + 1 /\ runs'[u] = q
    BY <1>1, <2>5, <2>7
  <2>8. \A u \in 1..Len(runs') : u > Len(runs) =>
           RunOK(runs[u])' /\ runs'[u].head = runs[t].head /\ Batch(u)' = Batch(t)
    BY <2>2, <2>4, <2>7 DEF Batch
  <2>9. /\ runs'[t].status = "ended" /\ runs'[t].head = runs[t].head /\ RunOK(runs[t])'
        /\ \A u \in 1..Len(runs) : u # t => runs'[u] = runs[u]
    BY <1>1, <1>4, <1>6, <2>5
  <2>10. ASSUME NEW c \in Batch(t)
         PROVE  \E u \in 1..Len(runs') : runs'[u].status \in ActiveRuns /\ c \in Batch(u)'
    <3>1. Len(runs) + 1 > Len(runs)
      BY <1>1
    <3> QED BY <2>2, <2>5, <2>6, <2>8, <3>1 DEF ActiveRuns
  <2>11. \A c \in Batch(t) \cup After(t) :
           c \in unkept' \cup seen
             \/ \E u \in 1..Len(runs') : runs'[u].status \in ActiveRuns /\ c \in Batch(u)'
    BY <1>7, <2>10
  <2>12. unkept \subseteq unkept'
    BY <1>7
  <2> QED BY <1>1, <1>5, <2>5, <2>6, <2>8, <2>9, <2>11, <2>12, FailKeeps
<1>8. CASE /\ runs' = ended
           /\ unkept' = unkept \cup (After(t) \ Batch(t)) \cup (Batch(t) \ seen)
  <2>1. /\ runs' \in Seq(RunRec) /\ Len(runs) <= Len(runs')
        /\ runs'[t].status = "ended" /\ runs'[t].head = runs[t].head /\ RunOK(runs[t])'
        /\ \A u \in 1..Len(runs) : u # t => runs'[u] = runs[u]
    BY <1>1, <1>4, <1>6, <1>8
  <2>2. \A u \in 1..Len(runs') : ~ (u > Len(runs))
    BY <1>1, <1>4, <1>8
  <2>3. \A c \in Batch(t) \cup After(t) : c \in unkept' \cup seen
    BY <1>8
  <2> QED BY <1>1, <1>5, <1>8, <2>1, <2>2, <2>3, FailKeeps
<1> QED BY <1>2, <1>3, <1>7, <1>8 DEF FailRun

(* a task that has completed loses what it has not reconciled *)
LEMMA GiveUpRunStep ==
  ASSUME DeliveryInv, NEW t \in DOMAIN runs, GiveUpRun(t)
  PROVE  DeliveryInv'
<1>1. /\ t \in 1..Len(runs) /\ runs[t] \in RunRec /\ RunOK(runs[t]) /\ runs \in Seq(RunRec)
      /\ Len(runs) \in Nat /\ posted \in Nat /\ trouble \in Nat /\ Facts /\ DeliveryTypes
  BY RunFacts
<1>2. PICK k : k = [runs[t] EXCEPT !.working = FALSE]
  OBVIOUS
<1>3. runs' = [runs EXCEPT ![t] = k]
  BY <1>1, <1>2 DEF GiveUpRun
<1>4. /\ k \in RunRec /\ k.status = "completed" /\ k.head = runs[t].head
      /\ k.trigger = runs[t].trigger /\ k.coalesced = runs[t].coalesced
  BY <1>1, <1>2 DEF RunRec, GiveUpRun
<1>5. /\ UNCHANGED <<posted, headSha, request, outcome, seen, askedAt, handed, stale>>
      /\ trouble' \in Nat /\ runs[t].status = "completed"
      /\ unkept' = unkept \cup Missed(t)
  BY <1>1 DEF GiveUpRun, Trouble, Missed
<1>6. /\ runs' \in Seq(RunRec) /\ Len(runs') = Len(runs)
      /\ \A u \in 1..Len(runs) : runs'[u] = IF u = t THEN k ELSE runs[u]
  BY <1>1, <1>3, <1>4, ExceptSeq
<1>7. Facts'
  <2>1. DeliveryTypes'
    BY <1>1, <1>5, <1>6 DEF DeliveryTypes
  <2>2. RunsMove
    BY <1>1, <1>4, <1>6 DEF RunsMove
  <2>3. ASSUME NEW u \in 1..Len(runs') PROVE RunOK(runs[u])'
    <3>1. CASE u # t
      BY <1>1, <1>5, <1>6, <3>1 DEF Facts, RunOK
    <3>2. CASE u = t
      BY <1>1, <1>4, <1>5, <1>6, <3>2 DEF RunOK
    <3> QED BY <3>1, <3>2
  <2>4. /\ posted <= posted' /\ \A v \in Workers : request'[v] = request[v]
        /\ \A c \in 1..MaxComments : c > posted' => outcome'[c] = "none"
    BY <1>1, <1>5 DEF Facts
  <2> QED BY <1>1, <2>1, <2>2, <2>3, <2>4, FactsStay
<1>8. PromiseInv'
  <2> SUFFICES ASSUME NEW c \in 1..posted, Kept(c), c \notin unkept' PROVE Kept(c)'
    BY <1>5 DEF DeliveryInv, PromiseInv
  <2>1. PICK H : H = {t}
    OBVIOUS
  <2>2. /\ posted' \in Nat /\ posted <= posted' /\ Len(runs') \in Nat /\ Len(runs) <= Len(runs')
        /\ \A u \in 1..Len(runs) : u \notin H => runs'[u] = runs[u]
        /\ \A v \in Workers : request'[v] = request[v]
        /\ (c \in seen => c \in seen')
    BY <1>1, <1>5, <1>6, <2>1
  <2>3. Kept(c)' \/ \E u \in 1..Len(runs) : u \in H /\ KeepsIn(u, c)
    BY <1>1, <2>2, StillKept
  <2>4. ~KeepsIn(t, c)
    BY <1>5 DEF KeepsIn, ActiveRuns
  <2> QED BY <2>1, <2>3, <2>4
<1>9. HeadInv'
  <2> SUFFICES ASSUME NEW u \in 1..Len(runs'), runs'[u].status \in ActiveRuns,
                      NEW c \in Batch(u)'
               PROVE  askedAt'[c] <= runs'[u].head \/ c \in handed'
    BY <1>5 DEF HeadInv, DeliveryInv, NoOldHeadRun
  <2>1. u # t /\ u \in 1..Len(runs)
    BY <1>4, <1>6 DEF ActiveRuns
  <2>2. runs'[u] = runs[u] /\ c \in Batch(u)
    BY <1>6, <2>1 DEF Batch
  <2> QED BY <1>5, <2>1, <2>2 DEF DeliveryInv, HeadInv
<1> QED BY <1>7, <1>8, <1>9 DEF DeliveryInv

-----------------------------------------------------------------------------
(* Requests begin and are lost *)

LEMMA PushStep ==
  ASSUME DeliveryInv, Push
  PROVE  DeliveryInv'
<1>1. /\ Facts /\ DeliveryTypes /\ headSha \in Nat /\ headSha' = headSha + 1
      /\ UNCHANGED <<posted, runs, request, outcome, seen, askedAt, trouble, unkept, handed, stale>>
  BY DEF DeliveryInv, Facts, DeliveryTypes, Push
<1>2. DeliveryTypes'
  <2>1. headSha' \in Nat /\ 0..headSha \subseteq 0..headSha'
    BY <1>1
  <2>2. askedAt' \in [1..MaxComments -> 0..headSha']
    BY <1>1, <2>1 DEF DeliveryTypes
  <2> QED BY <1>1, <2>1, <2>2 DEF DeliveryTypes
<1>3. Facts'
  <2>1. \A t \in 1..Len(runs') : RunOK(runs[t])'
    BY <1>1 DEF Facts, RunOK
  <2>2. \A v \in Workers : RequestOK(request[v])'
    BY <1>1 DEF Facts, RequestOK
  <2> QED BY <1>1, <1>2, <2>1, <2>2 DEF Facts
<1>4. \A t : Batch(t)' = Batch(t) /\ After(t)' = After(t) /\ Missed(t)' = Missed(t)
  BY <1>1 DEF Batch, After, Missed
<1>5. PromiseInv'
  <2> SUFFICES ASSUME NEW c \in 1..posted, Kept(c) PROVE Kept(c)'
    BY <1>1 DEF DeliveryInv, PromiseInv
  <2>1. (InRun(c) => InRun(c)') /\ (InRequest(c) => InRequest(c)') /\ (InReplay(c) => InReplay(c)')
    BY <1>1, <1>4 DEF InRun, InRequest, InReplay, Replays, Left
  <2> QED BY <1>1, <2>1 DEF Kept
<1>6. HeadInv'
  BY <1>1, <1>4 DEF DeliveryInv, HeadInv, NoOldHeadRun
<1> QED BY <1>3, <1>5, <1>6 DEF DeliveryInv

LEMMA CrashRequestStep ==
  ASSUME DeliveryInv, NEW w \in Workers, CrashRequest(w)
  PROVE  DeliveryInv'
<1>1. /\ Facts /\ DeliveryTypes /\ posted \in Nat /\ Len(runs) \in Nat /\ trouble \in Nat
      /\ request \in [Workers -> RequestRec]
  BY RunsIndexed DEF DeliveryInv, Facts, DeliveryTypes
<1>2. /\ trouble' \in Nat /\ request' = [request EXCEPT ![w] = Waiting]
      /\ UNCHANGED <<posted, runs, headSha, outcome, seen, askedAt, handed, stale>>
      /\ unkept \subseteq unkept'
      /\ request[w].kind = "survivor" => Left(w) \subseteq unkept'
  BY <1>1 DEF CrashRequest, Trouble, Left
<1>3. Waiting \in RequestRec
  BY DEF Waiting, NoComment, RequestRec
<1>4. /\ request' \in [Workers -> RequestRec] /\ request'[w] = Waiting
      /\ \A v \in Workers : v # w => request'[v] = request[v]
  BY <1>1, <1>2, <1>3
<1>5. Facts'
  <2>1. DeliveryTypes'
    BY <1>1, <1>2, <1>4 DEF DeliveryTypes
  <2>2. RunsMove /\ posted <= posted'
    BY <1>1, <1>2 DEF RunsMove
  <2>3. \A t \in 1..Len(runs') : RunOK(runs[t])'
    BY <1>1, <1>2 DEF Facts, RunOK
  <2>4. RequestOK(request[w])'
    BY <1>4 DEF RequestOK, Waiting
  <2>5. \A c \in 1..MaxComments : c > posted' => outcome'[c] = "none"
    BY <1>1, <1>2 DEF Facts
  <2>6. \A v \in Workers : request'[v] = request[v] \/ RequestOK(request[v])'
    BY <1>4, <2>4
  <2> QED BY <1>1, <2>1, <2>2, <2>3, <2>5, <2>6, FactsStay
<1>6. PromiseInv'
  <2> SUFFICES ASSUME NEW c \in 1..posted, Kept(c), c \notin unkept' PROVE Kept(c)'
    BY <1>2 DEF DeliveryInv, PromiseInv
  <2>1. PICK H : H = {}
    OBVIOUS
  <2>2. /\ posted' \in Nat /\ posted <= posted' /\ Len(runs') \in Nat /\ Len(runs) <= Len(runs')
        /\ \A u \in 1..Len(runs) : u \notin H => runs'[u] = runs[u]
        /\ (c \in seen => c \in seen')
    BY <1>1, <1>2
  <2>3. ASSUME NEW v \in Workers
        PROVE  \/ request'[v] = request[v]
               \/ /\ request[v].kind = "survivor" => c \notin Left(v)
                  /\ request'[v].kind = "replay" => request'[v].of \in H
    BY <1>2, <1>4 DEF Waiting
  <2>4. Kept(c)' \/ \E u \in 1..Len(runs) : u \in H /\ KeepsIn(u, c)
    BY <1>1, <2>2, <2>3, StillKept
  <2> QED BY <2>1, <2>4
<1>7. HeadInv'
  BY <1>2 DEF DeliveryInv, HeadInv, NoOldHeadRun, Batch
<1> QED BY <1>5, <1>6, <1>7 DEF DeliveryInv

LEMMA PostStep ==
  ASSUME DeliveryInv, NEW w \in Workers, Post(w)
  PROVE  DeliveryInv'
<1>1. /\ Facts /\ DeliveryTypes /\ posted \in Nat /\ Len(runs) \in Nat /\ headSha \in Nat
      /\ request \in [Workers -> RequestRec] /\ DOMAIN runs = 1..Len(runs)
      /\ RequestOK(request[w]) /\ MaxComments \in Nat
  BY RunsIndexed, DeliveryAssumption DEF DeliveryInv, Facts, DeliveryTypes
<1>2. PICK n \in Nat : n = posted + 1
  BY <1>1
<1>3. /\ posted' = n /\ n \in 1..MaxComments /\ n > posted
      /\ askedAt' = [askedAt EXCEPT ![n] = headSha] /\ request[w] = Waiting
      /\ UNCHANGED <<runs, headSha, outcome, seen, trouble, unkept, handed, stale>>
  BY <1>1, <1>2 DEF Post, At, RequestOK
<1>4. /\ request' \in [Workers -> RequestRec]
      /\ \A v \in Workers : v # w => request'[v] = request[v]
      /\ request'[w].pc = "check" /\ request'[w].kind = "own" /\ request'[w].of = 0
      /\ request'[w].c = n /\ request'[w].todo = {}
  <2>1. PICK S : S = {n}
    OBVIOUS
  <2>2. S \in SUBSET Nat /\ S # {} /\ Resolve(w, "own", S, 0) /\ 0 \in Nat
    BY <1>2, <1>3, <2>1 DEF Post
  <2>3. /\ request' \in [Workers -> RequestRec]
        /\ \A v \in Workers : v # w => request'[v] = request[v]
        /\ request'[w].pc = "check" /\ request'[w].kind = "own" /\ request'[w].of = 0
        /\ request'[w].c \in S /\ request'[w].todo = S \ {request'[w].c}
    BY <1>1, <2>2, Resolves
  <2> QED BY <2>1, <2>3
<1>5. 1..posted \subseteq 1..n /\ posted <= posted'
  BY <1>1, <1>3
<1>6. Facts'
  <2>1. DeliveryTypes'
    <3>1. askedAt' \in [1..MaxComments -> 0..headSha]
      BY <1>1, <1>3 DEF DeliveryTypes
    <3> QED BY <1>1, <1>3, <1>4, <1>5, <3>1 DEF DeliveryTypes
  <2>2. RunsMove
    BY <1>1, <1>3 DEF RunsMove
  <2>3. \A t \in 1..Len(runs') : RunOK(runs[t])'
    BY <1>1, <1>3, <1>5 DEF Facts, RunOK
  <2>4. RequestOK(request[w])'
    BY <1>3, <1>4 DEF RequestOK
  <2>5. \A c \in 1..MaxComments : c > posted' => outcome'[c] = "none"
    BY <1>1, <1>3 DEF Facts
  <2>6. \A v \in Workers : request'[v] = request[v] \/ RequestOK(request[v])'
    BY <1>4, <2>4
  <2> QED BY <1>1, <1>5, <2>1, <2>2, <2>3, <2>5, <2>6, FactsStay
<1>7. PromiseInv'
  <2> SUFFICES ASSUME NEW c \in 1..n, outcome[c] \in Success, c \notin unkept PROVE Kept(c)'
    BY <1>3 DEF PromiseInv
  <2>1. c \in 1..posted /\ Kept(c)
    <3>1. outcome[n] = "none"
      BY <1>1, <1>3 DEF Facts
    <3>2. c # n
      BY <3>1 DEF Success
    <3> QED BY <1>1, <1>2, <3>2 DEF DeliveryInv, PromiseInv
  <2>2. PICK H : H = {}
    OBVIOUS
  <2>3. /\ posted' \in Nat /\ posted <= posted' /\ Len(runs') \in Nat /\ Len(runs) <= Len(runs')
        /\ \A u \in 1..Len(runs) : u \notin H => runs'[u] = runs[u]
        /\ (c \in seen => c \in seen')
    BY <1>1, <1>3, <1>5
  <2>4. ASSUME NEW v \in Workers
        PROVE  \/ request'[v] = request[v]
               \/ /\ request[v].kind = "survivor" => c \notin Left(v)
                  /\ request'[v].kind = "replay" => request'[v].of \in H
    BY <1>3, <1>4 DEF Waiting
  <2>5. Kept(c)' \/ \E u \in 1..Len(runs) : u \in H /\ KeepsIn(u, c)
    BY <1>1, <2>1, <2>3, <2>4, StillKept
  <2> QED BY <2>2, <2>5
<1>8. HeadInv'
  <2> SUFFICES ASSUME NEW t \in 1..Len(runs), runs[t].status \in ActiveRuns, NEW c \in Batch(t)
               PROVE  askedAt'[c] <= runs[t].head \/ c \in handed
    BY <1>3 DEF HeadInv, NoOldHeadRun, DeliveryInv, Batch
  <2>1. c \in 1..posted
    BY <1>1, RunFacts
  <2>2. c # n /\ c \in 1..MaxComments
    BY <1>1, <1>3, <2>1
  <2>3. askedAt'[c] = askedAt[c]
    BY <1>1, <1>3, <2>2 DEF DeliveryTypes
  <2> QED BY <2>3 DEF DeliveryInv, HeadInv
<1> QED BY <1>6, <1>7, <1>8 DEF DeliveryInv

LEMMA CompleteRunStep ==
  ASSUME DeliveryInv, NEW w \in Workers, NEW t \in DOMAIN runs, CompleteRun(w, t)
  PROVE  DeliveryInv'
<1>1. /\ t \in 1..Len(runs) /\ runs[t] \in RunRec /\ RunOK(runs[t]) /\ runs \in Seq(RunRec)
      /\ Len(runs) \in Nat /\ posted \in Nat /\ trouble \in Nat /\ Facts /\ DeliveryTypes
      /\ seen \subseteq 1..posted /\ Batch(t) \subseteq 1..posted
  BY RunFacts
<1>2. /\ request[w] = Waiting /\ request \in [Workers -> RequestRec]
      /\ runs[t].status \in {"running", "completed"} /\ runs[t].working
  BY <1>1 DEF CompleteRun, At, Facts, RequestOK, DeliveryTypes
<1>3. PICK on \in BOOLEAN : on = (Missed(t) # {} \/ trouble' # trouble)
  OBVIOUS
<1>4. PICK k : k = [runs[t] EXCEPT !.status = "completed", !.working = on]
  OBVIOUS
<1>5. runs' = [runs EXCEPT ![t] = k]
  BY <1>1, <1>3, <1>4 DEF CompleteRun, Missed
<1>6. /\ k \in RunRec /\ k.status = "completed" /\ k.head = runs[t].head /\ k.since = runs[t].since
      /\ k.trigger = runs[t].trigger /\ k.coalesced = runs[t].coalesced /\ k.working = on
      /\ k.delivered = runs[t].delivered
  BY <1>1, <1>4 DEF RunRec
<1>7. UNCHANGED <<posted, headSha, outcome, seen, askedAt, unkept, handed, stale>>
  BY DEF CompleteRun
<1>8. /\ runs' \in Seq(RunRec) /\ Len(runs') = Len(runs)
      /\ \A u \in 1..Len(runs) : runs'[u] = IF u = t THEN k ELSE runs[u]
  BY <1>1, <1>5, <1>6, ExceptSeq
<1>9. /\ request' \in [Workers -> RequestRec] /\ trouble' \in Nat
      /\ \A v \in Workers : v # w => request'[v] = request[v]
      /\ \/ Missed(t) = {} /\ request'[w] = Waiting
         \/ /\ Missed(t) # {} /\ request'[w].pc = "check" /\ request'[w].kind = "replay"
            /\ request'[w].of = t /\ request'[w].c \in Missed(t)
            /\ request'[w].todo = Missed(t) \ {request'[w].c}
  <2>1. CASE Missed(t) = {} /\ UNCHANGED request /\ (UNCHANGED trouble \/ Trouble)
    BY <1>1, <1>2, <2>1 DEF Trouble
  <2>2. CASE Missed(t) # {} /\ Resolve(w, "replay", Missed(t), t) /\ UNCHANGED trouble
    <3>1. Missed(t) \in SUBSET Nat /\ t \in Nat
      BY <1>1 DEF Missed, After
    <3>2. /\ request' \in [Workers -> RequestRec]
          /\ \A v \in Workers : v # w => request'[v] = request[v]
          /\ request'[w].pc = "check" /\ request'[w].kind = "replay" /\ request'[w].of = t
          /\ request'[w].c \in Missed(t) /\ request'[w].todo = Missed(t) \ {request'[w].c}
      BY <1>1, <2>2, <3>1, Resolves
    <3> QED BY <1>1, <2>2, <3>2
  <2> QED BY <2>1, <2>2 DEF CompleteRun, Missed
<1>10. Facts'
  <2>1. DeliveryTypes'
    BY <1>1, <1>7, <1>8, <1>9 DEF DeliveryTypes
  <2>2. RunsMove
    BY <1>1, <1>6, <1>8 DEF RunsMove
  <2>3. ASSUME NEW u \in 1..Len(runs') PROVE RunOK(runs[u])'
    <3>1. CASE u # t
      BY <1>1, <1>7, <1>8, <3>1 DEF Facts, RunOK
    <3>2. CASE u = t
      BY <1>1, <1>6, <1>7, <1>8, <3>2 DEF RunOK
    <3> QED BY <3>1, <3>2
  <2>4. RequestOK(request[w])'
    <3>1. CASE request'[w] = Waiting
      BY <3>1 DEF RequestOK, Waiting
    <3>2. CASE request'[w] # Waiting
      <4>1. Missed(t) \subseteq 1..posted
        BY <1>1 DEF Missed, After
      <4> QED BY <1>1, <1>6, <1>7, <1>8, <1>9, <3>2, <4>1 DEF RequestOK
    <3> QED BY <3>1, <3>2
  <2>5. /\ posted <= posted' /\ \A v \in Workers : request'[v] = request[v] \/ RequestOK(request[v])'
        /\ \A c \in 1..MaxComments : c > posted' => outcome'[c] = "none"
    BY <1>1, <1>7, <1>9, <2>4 DEF Facts
  <2> QED BY <1>1, <2>1, <2>2, <2>3, <2>5, FactsStay
<1>11. PromiseInv'
  <2> SUFFICES ASSUME NEW c \in 1..posted, Kept(c) PROVE Kept(c)'
    BY <1>7 DEF DeliveryInv, PromiseInv
  <2>1. PICK H : H = {t}
    OBVIOUS
  <2>2. /\ posted' \in Nat /\ posted <= posted' /\ Len(runs') \in Nat /\ Len(runs) <= Len(runs')
        /\ \A u \in 1..Len(runs) : u \notin H => runs'[u] = runs[u]
        /\ (c \in seen => c \in seen')
    BY <1>1, <1>7, <1>8, <2>1
  <2>3. ASSUME NEW v \in Workers
        PROVE  \/ request'[v] = request[v]
               \/ /\ request[v].kind = "survivor" => c \notin Left(v)
                  /\ request'[v].kind = "replay" => request'[v].of \in H
    BY <1>2, <1>9, <2>1 DEF Waiting
  <2>4. Kept(c)' \/ \E u \in 1..Len(runs) : u \in H /\ KeepsIn(u, c)
    BY <1>1, <2>2, <2>3, StillKept
  <2>5. CASE KeepsIn(t, c)
    <3>1. CASE c \in seen
      BY <1>7, <3>1 DEF Kept
    <3>2. CASE c \notin seen
      <4>1. c \in Missed(t)
        <5>1. CASE runs[t].status = "running"
          BY <1>1, <2>5, <3>2, <5>1 DEF KeepsIn, Missed, RunOK
        <5>2. CASE runs[t].status = "completed"
          BY <2>5, <5>2 DEF KeepsIn, ActiveRuns
        <5> QED BY <1>2, <5>1, <5>2
      <4>2. /\ t \in 1..Len(runs') /\ runs'[t].status = "completed" /\ runs'[t].working
            /\ c \in Missed(t)'
        BY <1>1, <1>3, <1>6, <1>7, <1>8, <4>1 DEF Missed, Batch, After
      <4>3. ASSUME NEW v \in Workers, Replays(v, t)' PROVE c \in Left(v)'
        <5>1. CASE v = w
          BY <1>9, <4>1, <5>1 DEF Left
        <5>2. CASE v # w
          <6>1. request'[v] = request[v] /\ Replays(v, t) /\ runs[t].status = "completed"
            BY <1>1, <1>9, <4>3, <5>2 DEF Replays, Facts, RequestOK
          <6> QED BY <2>5, <6>1 DEF KeepsIn, ActiveRuns, Left
        <5> QED BY <5>1, <5>2
      <4> QED BY <4>2, <4>3 DEF Kept, InReplay
    <3> QED BY <3>1, <3>2
  <2> QED BY <2>1, <2>4, <2>5
<1>12. HeadInv'
  <2> SUFFICES ASSUME NEW u \in 1..Len(runs'), runs'[u].status \in ActiveRuns,
                      NEW c \in Batch(u)'
               PROVE  askedAt'[c] <= runs'[u].head \/ c \in handed'
    BY <1>7 DEF HeadInv, DeliveryInv, NoOldHeadRun
  <2>1. u # t /\ u \in 1..Len(runs)
    BY <1>6, <1>8 DEF ActiveRuns
  <2>2. runs'[u] = runs[u] /\ c \in Batch(u)
    BY <1>8, <2>1 DEF Batch
  <2> QED BY <1>7, <2>1, <2>2 DEF DeliveryInv, HeadInv
<1> QED BY <1>10, <1>11, <1>12 DEF DeliveryInv

-----------------------------------------------------------------------------
(* An edit takes its comment out of every active task, and routes what else they had *)

LEMMA EditStep ==
  ASSUME DeliveryInv, NEW w \in Workers, NEW c \in 1..posted, Edit(w, c)
  PROVE  DeliveryInv'
<1>1. /\ Facts /\ DeliveryTypes /\ posted \in Nat /\ Len(runs) \in Nat /\ headSha \in Nat
      /\ request \in [Workers -> RequestRec] /\ DOMAIN runs = 1..Len(runs) /\ trouble \in Nat
      /\ RequestOK(request[w]) /\ runs \in Seq(RunRec)
      /\ \A t \in 1..Len(runs) : runs[t] \in RunRec /\ RunOK(runs[t])
  BY RunsIndexed DEF DeliveryInv, Facts, DeliveryTypes
<1>2. PICK hit : hit = {t \in Tasks(ActiveRuns) : c \in Batch(t)}
  OBVIOUS
<1>3. PICK survivors : survivors = (UNION {Batch(t) : t \in hit}) \ {c}
  OBVIOUS
<1>4. /\ request[w] = Waiting /\ trouble' \in Nat
      /\ runs' = [t \in DOMAIN runs |-> IF t \in hit THEN Ended(t) ELSE runs[t]]
      /\ outcome' = [outcome EXCEPT ![c] = "none"]
      /\ askedAt' = [askedAt EXCEPT ![c] = headSha]
      /\ seen' = seen \ {c}
      /\ unkept' = (unkept \cup UNION {After(t) : t \in hit}) \ (survivors \cup {c})
      /\ UNCHANGED <<posted, headSha, handed, stale>>
  BY <1>1, <1>2, <1>3 DEF Edit, At, RequestOK, Trouble
<1>5. IF survivors = {} THEN Resolve(w, "own", {c}, 0) ELSE Resolve(w, "survivor", survivors, c)
  BY <1>2, <1>3 DEF Edit
<1>6. c \in 1..MaxComments /\ c \in Nat
  BY AskedTypes
<1>7. \A t \in hit : t \in 1..Len(runs) /\ runs[t].status \in ActiveRuns /\ c \in Batch(t)
  BY <1>1, <1>2 DEF Tasks
<1>8. \A t \in 1..Len(runs) : Batch(t) \subseteq 1..posted
  BY <1>1, RunFacts
<1>9. survivors \subseteq 1..posted /\ survivors \in SUBSET Nat
  BY <1>1, <1>3, <1>7, <1>8
<1>10. \A t \in 1..Len(runs) :
         /\ Ended(t) \in RunRec /\ Ended(t).status = "ended" /\ Ended(t).head = runs[t].head
         /\ Ended(t).trigger = runs[t].trigger /\ Ended(t).coalesced = runs[t].coalesced
  <2> SUFFICES ASSUME NEW t \in 1..Len(runs)
               PROVE /\ Ended(t) \in RunRec /\ Ended(t).status = "ended"
                     /\ Ended(t).head = runs[t].head
                     /\ Ended(t).trigger = runs[t].trigger
                     /\ Ended(t).coalesced = runs[t].coalesced
    OBVIOUS
  <2> QED BY <1>1 DEF Ended, RunRec, NoComment
<1>11. /\ runs' \in Seq(RunRec) /\ Len(runs') = Len(runs)
       /\ \A t \in 1..Len(runs) : runs'[t] = IF t \in hit THEN Ended(t) ELSE runs[t]
  <2>1. runs' \in [1..Len(runs) -> RunRec]
    BY <1>1, <1>4, <1>10
  <2>2. runs' \in Seq(RunRec)
    BY <1>1, <2>1, SeqDef
  <2>3. DOMAIN runs' = 1..Len(runs) /\ DOMAIN runs' = 1..Len(runs') /\ Len(runs') \in Nat
    BY <2>1, <2>2, LenProperties
  <2> QED BY <1>1, <1>4, <2>2, <2>3
<1>12. /\ request' \in [Workers -> RequestRec]
       /\ \A v \in Workers : v # w => request'[v] = request[v]
       /\ request'[w].pc = "check"
       /\ \/ /\ survivors = {} /\ request'[w].kind = "own" /\ request'[w].c = c
             /\ request'[w].todo = {}
          \/ /\ survivors # {} /\ request'[w].kind = "survivor" /\ request'[w].of = c
             /\ request'[w].c \in survivors /\ request'[w].todo = survivors \ {request'[w].c}
  <2>1. CASE survivors = {}
    <3>1. PICK S : S = {c}
      OBVIOUS
    <3>2. S \in SUBSET Nat /\ S # {} /\ Resolve(w, "own", S, 0) /\ 0 \in Nat
      BY <1>5, <1>6, <2>1, <3>1
    <3>3. /\ request' \in [Workers -> RequestRec]
          /\ \A v \in Workers : v # w => request'[v] = request[v]
          /\ request'[w].pc = "check" /\ request'[w].kind = "own"
          /\ request'[w].c \in S /\ request'[w].todo = S \ {request'[w].c}
      BY <1>1, <3>2, Resolves
    <3> QED BY <2>1, <3>1, <3>3
  <2>2. CASE survivors # {}
    <3>1. survivors \in SUBSET Nat /\ Resolve(w, "survivor", survivors, c) /\ c \in Nat
      BY <1>1, <1>5, <1>6, <1>9, <2>2
    <3>2. DeliveryTypes
      BY <1>1
    <3>3. /\ request' \in [Workers -> RequestRec]
          /\ \A v \in Workers : v # w => request'[v] = request[v]
          /\ request'[w].pc = "check" /\ request'[w].kind = "survivor" /\ request'[w].of = c
          /\ request'[w].c \in survivors /\ request'[w].todo = survivors \ {request'[w].c}
      BY <2>2, <3>1, <3>2, Resolves
    <3> QED BY <2>2, <3>3
  <2> QED BY <2>1, <2>2
<1>13. Facts'
  <2>1. DeliveryTypes'
    <3>1. askedAt' \in [1..MaxComments -> 0..headSha]
      BY <1>1, <1>4, <1>6 DEF DeliveryTypes
    <3>2. outcome' \in [1..MaxComments -> {"none", "blocked"} \cup Success]
      BY <1>1, <1>4, <1>6 DEF DeliveryTypes
    <3> QED BY <1>1, <1>4, <1>11, <1>12, <3>1, <3>2 DEF DeliveryTypes
  <2>2. RunsMove
    BY <1>1, <1>7, <1>10, <1>11 DEF RunsMove, ActiveRuns
  <2>3. ASSUME NEW t \in 1..Len(runs') PROVE RunOK(runs[t])'
    <3>0. t \in 1..Len(runs) /\ RunOK(runs[t])
      BY <1>1, <1>11
    <3>1. CASE t \in hit
      BY <3>0, <1>4, <1>10, <1>11, <3>1 DEF RunOK
    <3>2. CASE t \notin hit
      <4>1. runs'[t] = runs[t]
        BY <3>0, <3>2, <1>11
      <4>2. runs[t].status = "running" => c \notin Batch(t)
        BY <1>1, <1>2, <3>0, <3>2 DEF Tasks, ActiveRuns
      <4>3. runs[t].status = "running" => runs[t].delivered \subseteq Batch(t)
        BY <1>1, <3>0, RunFacts DEF RunOK
      <4> QED BY <3>0, <4>1, <4>2, <4>3, <1>4 DEF RunOK
    <3> QED BY <3>1, <3>2
  <2>4. RequestOK(request[w])'
    BY <1>4, <1>9, <1>12 DEF RequestOK
  <2>5. \A a \in 1..MaxComments : a > posted' => outcome'[a] = "none"
    BY <1>1, <1>4, <1>6 DEF Facts, DeliveryTypes
  <2>6. /\ \A v \in Workers : request'[v] = request[v] \/ RequestOK(request[v])'
        /\ posted <= posted'
    BY <1>1, <1>4, <1>12, <2>4
  <2> QED BY <1>1, <2>1, <2>2, <2>3, <2>5, <2>6, FactsStay
<1>14. PromiseInv'
  <2> SUFFICES ASSUME NEW d \in 1..posted, outcome'[d] \in Success, d \notin unkept'
               PROVE  Kept(d)'
    BY <1>4 DEF PromiseInv
  <2>1. d # c /\ d \in 1..MaxComments
    <3>1. outcome'[c] = "none"
      BY <1>1, <1>4, <1>6 DEF DeliveryTypes
    <3> QED BY <3>1, AskedTypes DEF Success
  <2>2. CASE d \in survivors
    <3>1. request'[w].kind = "survivor" /\ d \in Left(w)'
      BY <1>12, <2>2 DEF Left
    <3> QED BY <3>1 DEF Kept, InRequest
  <2>3. CASE d \notin survivors
    <3>1. Kept(d)
      BY <1>1, <1>4, <2>1, <2>3 DEF DeliveryInv, PromiseInv, DeliveryTypes
    <3>2. /\ posted' \in Nat /\ posted <= posted' /\ Len(runs') \in Nat
          /\ Len(runs) <= Len(runs') /\ (d \in seen => d \in seen')
          /\ \A u \in 1..Len(runs) : u \notin hit => runs'[u] = runs[u]
      BY <1>1, <1>4, <1>11, <2>1
    <3>3. ASSUME NEW v \in Workers
          PROVE  \/ request'[v] = request[v]
                 \/ /\ request[v].kind = "survivor" => d \notin Left(v)
                    /\ request'[v].kind = "replay" => request'[v].of \in hit
      BY <1>4, <1>12 DEF Waiting
    <3>4. Kept(d)' \/ \E u \in 1..Len(runs) : u \in hit /\ KeepsIn(u, d)
      BY <1>1, <3>1, <3>2, <3>3, StillKept
    <3>5. ASSUME NEW u \in hit PROVE ~KeepsIn(u, d)
      <4>1. d \notin Batch(u)
        <5>1. \A e : e \in survivors <=> e # c /\ \E t \in hit : e \in Batch(t)
          BY <1>3
        <5> QED BY <5>1, <2>1, <2>3
      <4>2. d \notin After(u)
        BY <1>4, <2>1, <2>3
      <4> QED BY <4>1, <4>2, <1>7 DEF KeepsIn, ActiveRuns, Missed
    <3> QED BY <3>4, <3>5
  <2> QED BY <2>2, <2>3
<1>15. HeadInv'
  <2> SUFFICES ASSUME NEW u \in 1..Len(runs'), runs'[u].status \in ActiveRuns,
                      NEW d \in Batch(u)'
               PROVE  askedAt'[d] <= runs'[u].head \/ d \in handed'
    BY <1>4 DEF HeadInv, DeliveryInv, NoOldHeadRun
  <2>1. u \in 1..Len(runs) /\ u \notin hit
    BY <1>10, <1>11 DEF ActiveRuns
  <2>2. runs'[u] = runs[u] /\ d \in Batch(u)
    BY <1>11, <2>1 DEF Batch
  <2>3. d # c /\ d \in 1..MaxComments
    BY <1>1, <1>2, <1>8, <2>1, <2>2, AskedTypes DEF Tasks
  <2>4. askedAt'[d] = askedAt[d]
    BY <1>1, <1>4, <2>3 DEF DeliveryTypes
  <2> QED BY <1>4, <2>1, <2>2, <2>4 DEF DeliveryInv, HeadInv
<1> QED BY <1>13, <1>14, <1>15 DEF DeliveryInv

-----------------------------------------------------------------------------

LEMMA DeliveryInitially ==
  ASSUME DeliveryInit
  PROVE  DeliveryInv
<1>1. Len(runs) = 0 /\ runs \in Seq(RunRec) /\ posted = 0 /\ 0 \in 0..MaxComments
  BY EmptySeq, DeliveryAssumption DEF DeliveryInit
<1>2. Waiting \in RequestRec
  BY DEF Waiting, NoComment, RequestRec
<1>3. Facts
  <2>1. DeliveryTypes
    BY <1>1, <1>2 DEF DeliveryInit, DeliveryTypes
  <2>2. \A w \in Workers : RequestOK(request[w])
    BY DEF DeliveryInit, RequestOK, Waiting
  <2> QED BY <1>1, <2>1, <2>2 DEF Facts, DeliveryInit
<1>4. PromiseInv
  BY <1>1 DEF PromiseInv
<1>5. HeadInv
  BY <1>1 DEF HeadInv, NoOldHeadRun, DeliveryInit
<1> QED BY <1>3, <1>4, <1>5 DEF DeliveryInv

LEMMA DeliverySteps ==
  ASSUME DeliveryInv, [DeliveryNext]_deliveryVars
  PROVE  DeliveryInv'
<1>1. CASE DeliveryNext
  BY <1>1, PushStep, ResolveSteps, PostStep, CrashRequestStep, EditStep, CompleteRunStep,
     ClaimStep, StartRunStep, RequeueClaimStep, FailRunStep, GiveUpRunStep
     DEF DeliveryNext
<1>2. CASE UNCHANGED deliveryVars
  <2>1. /\ UNCHANGED <<posted, runs, headSha, request, outcome, seen, askedAt, trouble, unkept,
                       handed, stale>>
        /\ \A t : Batch(t)' = Batch(t) /\ After(t)' = After(t) /\ Missed(t)' = Missed(t)
    BY <1>2 DEF deliveryVars, Batch, After, Missed
  <2>2. Facts'
    <3>1. \A t \in 1..Len(runs') : RunOK(runs[t])'
      BY <2>1 DEF DeliveryInv, Facts, RunOK
    <3>2. \A v \in Workers : RequestOK(request[v])'
      BY <2>1 DEF DeliveryInv, Facts, RequestOK
    <3> QED BY <2>1, <3>1, <3>2 DEF DeliveryInv, Facts, DeliveryTypes
  <2>3. PromiseInv'
    <3> SUFFICES ASSUME NEW c \in 1..posted, Kept(c) PROVE Kept(c)'
      BY <2>1 DEF DeliveryInv, PromiseInv
    <3>1. (InRun(c) => InRun(c)') /\ (InRequest(c) => InRequest(c)') /\ (InReplay(c) => InReplay(c)')
      BY <2>1 DEF InRun, InRequest, InReplay, Replays, Left
    <3> QED BY <2>1, <3>1 DEF Kept
  <2>4. HeadInv'
    BY <2>1 DEF DeliveryInv, HeadInv, NoOldHeadRun
  <2> QED BY <2>2, <2>3, <2>4 DEF DeliveryInv
<1> QED BY <1>1, <1>2

LEMMA InvKeepsPromise ==
  ASSUME DeliveryInv
  PROVE  PromiseKept
<1> SUFFICES ASSUME NEW c \in 1..posted, Kept(c) PROVE Covered(c)
  BY DEF DeliveryInv, PromiseInv, PromiseKept
<1>1. DOMAIN runs = 1..Len(runs)
  BY RunsIndexed DEF DeliveryInv, Facts
<1> QED BY <1>1 DEF Kept, InRun, InRequest, InReplay, Left, Missed, Covered, Tasks

(* A comment reported as queued, coalesced or deferred has been given to an agent, is in a
   task still to be claimed or will be replayed, for any number of requests, comments and
   tasks and any troubles, unless it was lost in one of the ways the actions name
   (resolveCommentTriggerEnqueue, reconcileCommentsOnCompletion, UpdateComment) *)
THEOREM PromisesAreKept == DeliverySpec => []PromiseKept
<1>1. DeliveryInit => DeliveryInv
  BY DeliveryInitially
<1>2. DeliveryInv /\ [DeliveryNext]_deliveryVars => DeliveryInv'
  BY DeliverySteps
<1>3. DeliveryInv => PromiseKept
  BY InvKeepsPromise
<1> QED BY <1>1, <1>2, <1>3, PTL DEF DeliverySpec

(* No run is given a comment about a newer head than its own, unless the comment was handed
   to a task of another head that had been claimed (MergeCommentIntoPendingTask,
   RegisterPlannedCommentForActiveTask) *)
THEOREM OldHeadsAreNotAnswered == DeliverySpec => []NoOldHeadRun
<1>1. DeliveryInit => DeliveryInv
  BY DeliveryInitially
<1>2. DeliveryInv /\ [DeliveryNext]_deliveryVars => DeliveryInv'
  BY DeliverySteps
<1>3. DeliveryInv => NoOldHeadRun
  BY DEF DeliveryInv, HeadInv
<1> QED BY <1>1, <1>2, <1>3, PTL DEF DeliverySpec

=============================================================================
