----------------------------- MODULE IssueCache -----------------------------
(***************************************************************************)
(* The query cache of one client tab: the status board of a workspace, of  *)
(* which a window per status is loaded, and the details of opened issues.  *)
(* Local mutations patch it optimistically, websocket events patch it,     *)
(* refetches replace it; nothing in it carries a version.                  *)
(***************************************************************************)
EXTENDS Integers, FiniteSets

CONSTANTS
  Issues,        \* in the order of their position
  PaginatedStatuses,  \* PAGINATED_STATUSES, in order
  Window,        \* ISSUE_PAGE_SIZE
  Mutations,     \* slots for the mutations of this tab
  MaxWrites,     \* bound: commits of the server
  MaxMutations,  \* bound: calls of the mutation hooks
  Opened,        \* the issues whose detail is loaded when the tab is opened
  Starts,        \* the servers a tab may be opened on: a status or Gone per issue
  Gone, Nothing

ASSUME CacheAssumption ==
  /\ Issues \subseteq Nat /\ PaginatedStatuses \subseteq Nat /\ IsFiniteSet(Issues)
  /\ Window \in Nat \ {0} /\ MaxWrites \in Nat /\ MaxMutations \in Nat
  /\ Starts \subseteq [Issues -> PaginatedStatuses \cup {Gone}]
  /\ {Gone, Nothing} \cap Nat = {} /\ Gone # Nothing

VARIABLES
  server,     \* the status of an issue, or Gone
  committed,  \* history: the statuses an issue has had
  writes,     \* the number of commits
  last,       \* the commit that wrote an issue last
  pending,    \* events of commits not yet delivered to this tab nor lost
  board,      \* the loaded cards and the server total, per status
  detail,     \* the status in the detail cache of an issue, or Nothing
  fetch,      \* a refetch of the board, one request per status, is in flight
  dfetch,     \* the issues whose detail is being refetched
  mut,        \* the mutations in flight
  calls,      \* the number of mutations so far
  raced,      \* history: one of the races below happened since the last repair
  overlapped, \* history: two mutations of this tab were in flight together
  repair      \* the refetch after a reconnect will see everything

cacheVars == <<server, committed, writes, last, pending, board, detail, fetch,
               dfetch, mut, calls, raced, overlapped, repair>>
serverVars == <<server, committed, writes, last>>

-----------------------------------------------------------------------------
(* The bucketed cache *)

On(s) == {i \in Issues : server[i] = s}
FirstPage(s) == {i \in On(s) : Cardinality({j \in On(s) : j < i}) < Window}
ServerPage(s) == [cards |-> FirstPage(s), total |-> Cardinality(On(s))]

Buckets(b, i) == {s \in PaginatedStatuses : i \in b[s].cards}
Loaded(b, i) == Buckets(b, i) # {}
(* the first status that lists the issue *)
FindIssueLocation(b, i) == CHOOSE s \in Buckets(b, i) : \A r \in Buckets(b, i) : s <= r

Less(n) == IF n = 0 THEN 0 ELSE n - 1
AddIssue(b, i, s) ==
  IF i \in b[s].cards THEN b
  ELSE [b EXCEPT ![s] = [cards |-> b[s].cards \cup {i}, total |-> b[s].total + 1]]
RemoveIssue(b, i) ==
  IF ~Loaded(b, i) THEN b
  ELSE LET s == FindIssueLocation(b, i) IN
       [b EXCEPT ![s] = [cards |-> b[s].cards \ {i}, total |-> Less(b[s].total)]]
MoveBucketTotal_Blind(b, from, to) ==  \* mutant: the total moves even from a bucket to itself
  [s \in PaginatedStatuses |-> IF s = to THEN [b[s] EXCEPT !.total = b[s].total + 1]
                      ELSE IF s = from THEN [b[s] EXCEPT !.total = Less(b[s].total)] ELSE b[s]]
MoveBucketTotal(b, from, to) ==
  IF from = to THEN b
  ELSE [b EXCEPT ![from].total = Less(b[from].total), ![to].total = b[to].total + 1]
(* patchIssueInBuckets of a loaded card *)
PatchIssue(b, i, to) ==
  LET s == FindIssueLocation(b, i) IN
  IF s = to THEN b
  ELSE [b EXCEPT ![s] = [cards |-> b[s].cards \ {i}, total |-> Less(b[s].total)],
                 ![to] = [cards |-> b[to].cards \cup {i}, total |-> b[to].total + 1]]

(* applyIssueChange on the workspace board: a card beyond the window only moves the
   totals, when its old status is known, and marks the board stale *)
Reconciled(b, i, to, changed, base) ==
  CASE Loaded(b, i) -> PatchIssue(b, i, to)
    [] ~Loaded(b, i) /\ changed /\ base # Nothing -> MoveBucketTotal(b, base, to)
    [] OTHER -> b
StaleCard(b, i, to, changed, base) == ~Loaded(b, i) /\ changed /\ base # to
PatchDetail(i, to) ==
  detail' = IF detail[i] = Nothing THEN detail ELSE [detail EXCEPT ![i] = to]

-----------------------------------------------------------------------------
Idle == [issue |-> Nothing, to |-> Nothing, phase |-> "idle", n |-> 0, board |-> Nothing,
         detail |-> Nothing, stale |-> FALSE, moved |-> FALSE]
InFlight == {m \in Mutations : mut[m].phase # "idle"}

CacheInit ==
  /\ server \in Starts
  /\ committed = [i \in Issues |-> {server[i]} \ {Gone}]
  /\ writes = 0
  /\ last = [i \in Issues |-> 0]
  /\ pending = {}
  /\ board = [s \in PaginatedStatuses |-> ServerPage(s)]
  /\ detail = [i \in Issues |-> IF i \in Opened /\ server[i] # Gone THEN server[i]
                                ELSE Nothing]
  /\ fetch = FALSE
  /\ dfetch = {}
  /\ mut = [m \in Mutations |-> Idle]
  /\ calls = 0
  /\ raced = FALSE /\ overlapped = FALSE /\ repair = FALSE

(* Every cache change makes the snapshots of the mutations in flight old *)
Moved == [m \in Mutations |-> IF mut[m].phase = "idle" THEN mut[m]
                              ELSE [mut[m] EXCEPT !.moved = TRUE]]
(* what commit n says of an issue is old, and the event that would correct it has come
   already *)
Overtaken(i, n) == n # last[i] /\ ~\E e \in pending : e.issue = i /\ e.n = last[i]
FetchInFlight == fetch \/ dfetch # {}

-----------------------------------------------------------------------------
(* The server *)

(* The event is published after the commit.  A commit under a refetch may be read by
   some of its requests and not by others, or be overtaken by its own event *)
Commit(i, v) ==
  /\ writes < MaxWrites /\ server[i] # v
  /\ server' = [server EXCEPT ![i] = v]
  /\ committed' = [committed EXCEPT ![i] = @ \cup ({v} \ {Gone})]
  /\ writes' = writes + 1
  /\ last' = [last EXCEPT ![i] = writes']
  /\ pending' = pending \cup
       {[n |-> writes', issue |-> i, to |-> v,
         kind |-> CASE server[i] = Gone -> "created" [] v = Gone -> "deleted"
                    [] OTHER -> "updated"]}

RemoteWrite(i, v) ==
  /\ Commit(i, v)
  /\ server[i] = Gone => last[i] = 0
  /\ raced' = (raced \/ FetchInFlight)
  /\ repair' = FALSE
  /\ UNCHANGED <<board, detail, fetch, dfetch, mut, calls, overlapped>>

(* The request of a mutation reaches the server: committed or refused; the answer to a
   commit may be lost *)
Serve(m) ==
  LET i == mut[m].issue IN
  /\ mut[m].phase = "sent"
  /\ \/ /\ server[i] # Gone
        /\ \/ Commit(i, mut[m].to)
           \/ server[i] = mut[m].to /\ UNCHANGED <<serverVars, pending>>
        /\ \E p \in {"ok", "failed"} : mut' = [mut EXCEPT ![m].phase = p, ![m].n = last'[i]]
        /\ raced' = (raced \/ FetchInFlight)
     \/ mut' = [mut EXCEPT ![m].phase = "failed"] /\ UNCHANGED <<serverVars, pending, raced>>
  /\ repair' = FALSE
  /\ UNCHANGED <<board, detail, fetch, dfetch, calls, overlapped>>

-----------------------------------------------------------------------------
(* Mutations of this tab: useUpdateIssue, useDeleteIssue *)

Begin(m, i, to, stale) ==
  /\ mut[m].phase = "idle" /\ calls < MaxMutations
  /\ mut' = [Moved EXCEPT ![m] = [issue |-> i, to |-> to, phase |-> "sent", n |-> 0,
                                  board |-> board, detail |-> detail[i],
                                  stale |-> stale, moved |-> FALSE]]
  /\ calls' = calls + 1
  /\ overlapped' = (overlapped \/ InFlight # {})
  /\ repair' = FALSE

(* onMutate cancels the refetch of the board; its patch also clears the stale mark, so
   nothing starts it again *)
OnMutateUpdate(m, i, to) ==
  LET base == detail[i]
      changed == base # to IN
  /\ Loaded(board, i) \/ base # Nothing
  /\ Begin(m, i, to, StaleCard(board, i, to, changed, base))
  /\ fetch' = FALSE
  /\ board' = Reconciled(board, i, to, changed, base)
  /\ PatchDetail(i, to)
  /\ raced' = (raced \/ fetch \/ InFlight # {})
  /\ UNCHANGED <<serverVars, pending, dfetch>>

OnMutateDelete(m, i) ==
  /\ Loaded(board, i) \/ detail[i] # Nothing
  /\ Begin(m, i, Gone, TRUE)
  /\ fetch' = FALSE
  /\ board' = RemoveIssue(board, i)
  /\ detail' = [detail EXCEPT ![i] = Nothing]
  /\ dfetch' = dfetch \ {i}
  /\ raced' = (raced \/ InFlight # {})
  /\ UNCHANGED <<serverVars, pending>>

(* the detail has been overwritten since the optimistic patch: the answer patches it
   again, which hides the move of a card beyond the window from its own event *)
Miscounted(m) ==
  LET i == mut[m].issue IN
  ~Loaded(board, i) /\ detail[i] \notin {Nothing, mut[m].to} /\ ~mut[m].stale
(* onSuccess patches the entity the server returned, onSettled refetches what was
   marked stale *)
OnSuccess(m) ==
  LET i == mut[m].issue  to == mut[m].to IN
  /\ mut[m].phase = "ok"
  /\ mut' = [Moved EXCEPT ![m] = Idle]
  /\ IF to = Gone
     THEN /\ board' = RemoveIssue(board, i)
          /\ detail' = [detail EXCEPT ![i] = Nothing]
          /\ dfetch' = dfetch \ {i}
     ELSE board' = Reconciled(board, i, to, FALSE, to) /\ PatchDetail(i, to)
          /\ UNCHANGED dfetch
  /\ fetch' = (fetch \/ mut[m].stale)
  /\ raced' = (raced \/ Overtaken(i, mut[m].n) \/ Miscounted(m))
  /\ UNCHANGED <<serverVars, pending, calls, overlapped, repair>>

OnError_NoDetail(m) ==  \* mutant: the detail keeps the optimistic value
  /\ mut[m].phase = "failed"
  /\ mut' = [Moved EXCEPT ![m] = Idle]
  /\ board' = mut[m].board
  /\ fetch' = (fetch \/ mut[m].stale)
  /\ raced' = (raced \/ mut[m].moved)
  /\ UNCHANGED <<serverVars, pending, detail, dfetch, calls, overlapped, repair>>
(* onError restores the snapshots, over whatever was patched since *)
OnError(m) ==
  LET i == mut[m].issue IN
  /\ mut[m].phase = "failed"
  /\ mut' = [Moved EXCEPT ![m] = Idle]
  /\ board' = IF Loaded(mut[m].board, i) \/ mut[m].to = Gone
                 \/ Reconciled(mut[m].board, i, mut[m].to, TRUE, mut[m].detail) # mut[m].board
              THEN mut[m].board ELSE board
  /\ detail' = IF mut[m].detail = Nothing THEN detail
               ELSE [detail EXCEPT ![i] = mut[m].detail]
  /\ fetch' = (fetch \/ mut[m].stale)
  /\ raced' = (raced \/ mut[m].moved)
  /\ UNCHANGED <<serverVars, pending, dfetch, calls, overlapped, repair>>

-----------------------------------------------------------------------------
(* Events: onIssueCreated, onIssueUpdated, onIssueDeleted *)

DeliverEvent(e) ==
  LET i == e.issue IN
  /\ pending' = pending \ {e}
  /\ mut' = Moved
  /\ CASE e.kind = "created" ->
            board' = AddIssue(board, i, e.to) /\ UNCHANGED <<detail, fetch, dfetch>>
       [] e.kind = "updated" ->
            /\ board' = Reconciled(board, i, e.to, TRUE, detail[i])
            /\ fetch' = (fetch \/ StaleCard(board, i, e.to, TRUE, detail[i]))
            /\ PatchDetail(i, e.to)
            /\ UNCHANGED dfetch
       [] e.kind = "deleted" ->
            /\ board' = RemoveIssue(board, i)
            /\ detail' = [detail EXCEPT ![i] = Nothing]
            /\ dfetch' = dfetch \ {i}
            /\ fetch' = TRUE
  /\ raced' = (raced \/ Overtaken(e.issue, e.n))
  /\ UNCHANGED <<serverVars, calls, overlapped, repair>>

(* The websocket was down and is back: the events published meanwhile are lost, and
   onAuthenticated, not for the first time, invalidates everything *)
Reconnect ==
  \E lost \in SUBSET pending :
    /\ pending' = pending \ lost
    /\ fetch' = TRUE
    /\ dfetch' = {i \in Issues : detail[i] # Nothing}
    /\ repair' = (lost = pending /\ InFlight = {})
    /\ raced' = (raced \/ lost # {})
    /\ UNCHANGED <<serverVars, board, detail, mut, calls, overlapped>>

-----------------------------------------------------------------------------
(* Refetches.  They are answered as they land: a commit under way is a race, whichever
   of the requests has read it *)

(* a page that already counts a created issue whose event has yet to come *)
CountsUnannounced == \E e \in pending : e.kind = "created" /\ server[e.issue] # Gone
(* a page without the card that a mutation, not served yet, has moved: nothing is left to
   take the move of the total with, since the event will find the detail patched *)
DropsMovedCard == \E m \in InFlight :
  LET i == mut[m].issue IN
  /\ mut[m].phase = "sent" /\ detail[i] = mut[m].to
  /\ Loaded(mut[m].board, i) /\ ~Loaded(board', i)
(* the last of the refetches after a reconnect has seen everything *)
Lands(lists, details, race) ==
  LET repaired == repair /\ ~lists /\ details = {} IN
  /\ mut' = Moved
  /\ raced' = (race \/ (raced /\ ~repaired))
  /\ repair' = (repair /\ ~repaired)

FetchLands ==
  /\ fetch /\ fetch' = FALSE
  /\ board' = [s \in PaginatedStatuses |-> ServerPage(s)]
  /\ Lands(FALSE, dfetch, CountsUnannounced \/ DropsMovedCard)
  /\ UNCHANGED <<serverVars, pending, detail, dfetch, calls, overlapped>>

FetchFails ==
  /\ fetch /\ fetch' = FALSE
  /\ raced' = TRUE /\ repair' = FALSE
  /\ UNCHANGED <<serverVars, pending, board, detail, dfetch, mut, calls, overlapped>>

DetailLands(i) ==
  /\ i \in dfetch /\ server[i] # Gone
  /\ dfetch' = dfetch \ {i}
  /\ detail' = [detail EXCEPT ![i] = server[i]]
  /\ Lands(fetch, dfetch', FALSE)
  /\ UNCHANGED <<serverVars, pending, board, fetch, calls, overlapped>>

(* not found, or no answer: the detail stays *)
DetailFails(i) ==
  /\ i \in dfetch /\ dfetch' = dfetch \ {i}
  /\ raced' = TRUE /\ repair' = FALSE
  /\ UNCHANGED <<serverVars, pending, board, detail, fetch, mut, calls, overlapped>>

CacheNext ==
  \/ \E i \in Issues, v \in PaginatedStatuses \cup {Gone} : RemoteWrite(i, v)
  \/ \E m \in Mutations, i \in Issues :
       OnMutateDelete(m, i) \/ \E to \in PaginatedStatuses : OnMutateUpdate(m, i, to)
  \/ \E m \in Mutations : Serve(m) \/ OnSuccess(m) \/ OnError(m)
  \/ \E e \in pending : DeliverEvent(e)
  \/ Reconnect
  \/ \E i \in Issues : DetailLands(i) \/ DetailFails(i)
  \/ FetchLands \/ FetchFails

CacheSpec == CacheInit /\ [][CacheNext]_cacheVars

-----------------------------------------------------------------------------
(* Properties *)

Quiet == InFlight = {} /\ pending = {} /\ ~FetchInFlight

(* When nothing is in flight, every loaded card is in the column of its true status,
   the totals are those of the server and the open details are true, unless one of
   the races the actions name has happened since the last undisturbed reconnect: no
   other interleaving of patches, echoes, rollbacks and refetches leaves the board
   wrong or counts a move twice *)
BoardIsRight ==
  Quiet /\ ~raced =>
    /\ \A s \in PaginatedStatuses :
         board[s].cards \subseteq On(s) /\ board[s].total = Cardinality(On(s))
    /\ \A i \in Issues : detail[i] \in {server[i], Nothing}

(* As long as the mutations of the tab do not overlap, a settled tab shows only what
   the server has once committed, whatever is lost, reordered or overtaken *)
ShowsCommitted ==
  InFlight = {} /\ ~overlapped =>
    \A i \in Issues : Buckets(board, i) \cup ({detail[i]} \ {Nothing}) \subseteq committed[i]
=============================================================================
