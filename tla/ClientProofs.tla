---------------------------- MODULE ClientProofs ----------------------------
(***************************************************************************)
(* The clients: what a settings form, the cache of the issue board and the *)
(* restore of an unanswered prompt promise, for any number of values,      *)
(* issues, prompts and clients and every interleaving of their actions,    *)
(* events, answers and failures.  The three share no state, and each part  *)
(* below is a proof of its own.                                            *)
(***************************************************************************)
EXTENDS AutoSave, IssueCache, PromptRestore, FiniteSetTheorems, SequenceTheorems, TLAPS

-----------------------------------------------------------------------------
(***************************************************************************)
(* AutoSave: the newest value the hook took on is the one that lands.      *)
(***************************************************************************)

(* a request is under way exactly while the hook waits for it, and nothing is queued
   without one *)
OneRequest ==
  /\ saving = NoValue <=> reply = "none"
  /\ saving = NoValue => queued = NoValue

(* the newest value asked for is the last one under way *)
AskedIsLast ==
  asked # NoValue =>
    /\ queued # NoValue => asked = queued
    /\ queued = NoValue /\ saving # NoValue => asked = saving

(* an answer that confirms a request is about what the server has *)
OkIsStored == reply = "ok" => stored = saving

SaveInv == SaveTypeOK /\ OneRequest /\ AskedIsLast /\ OkIsStored /\ NewestAskedLands

(* what runSave does before its await keeps the invariant: the timer, a blur and the
   queue enter it *)
LEMMA RunSaveKeepsInv ==
  ASSUME SaveInv, NEW v \in Values, RunSave(v), stored' = stored,
         {form', persisted', observed'} \subseteq Values, refetch' \in Values \cup {NoValue},
         {enabled', mounted', timer'} \subseteq BOOLEAN
  PROVE SaveInv'
<1> USE AutoSaveAssumption
<1> USE DEF SaveInv, SaveTypeOK, OneRequest, AskedIsLast, OkIsStored, NewestAskedLands, Replies,
            SaveStatuses
<1>1. CASE UNCHANGED <<saving, reply, queued, saveStatus, asked>> /\ misjudged' \in BOOLEAN
  BY <1>1
<1>2. CASE /\ v # persisted /\ saving # NoValue /\ Keep(v) /\ asked' = v /\ misjudged' = FALSE
           /\ UNCHANGED <<saving, reply, saveStatus>>
  BY <1>2 DEF Keep
<1>3. CASE /\ saving = NoValue /\ Send(v) /\ asked' = v /\ misjudged' = FALSE
           /\ UNCHANGED queued
  BY <1>3 DEF Send, SetStatus
<1>. QED  BY <1>1, <1>2, <1>3 DEF RunSave

LEMMA SaveInitially == SaveInit => SaveInv
BY AutoSaveAssumption DEF SaveInit, SaveInv, SaveTypeOK, OneRequest, AskedIsLast, OkIsStored,
   NewestAskedLands, Replies, SaveStatuses

LEMMA SaveStep == SaveInv /\ [SaveNext]_saveVars => SaveInv'
<1> SUFFICES ASSUME SaveInv, [SaveNext]_saveVars PROVE SaveInv'
  OBVIOUS
<1> USE AutoSaveAssumption
<1> USE DEF SaveInv, SaveTypeOK, OneRequest, AskedIsLast, OkIsStored, NewestAskedLands, Replies,
            SaveStatuses
<1>1. ASSUME NEW v \in Values, NEW e \in BOOLEAN, Render(v, e) PROVE SaveInv'
  BY <1>1 DEF Render, cacheOfSaved
<1>2. CASE TimerFires
  BY <1>2, RunSaveKeepsInv DEF TimerFires, formVars, cacheOfSaved
<1>3. CASE Flush
  BY <1>3, RunSaveKeepsInv DEF Flush, formVars, cacheOfSaved
<1>4. CASE RefetchLands
  BY <1>4 DEF RefetchLands, formVars
<1>5. CASE Unmount
  BY <1>5 DEF Unmount, cacheOfSaved
<1>6. CASE RefetchReads
  BY <1>6 DEF RefetchReads, formVars
<1>7. CASE ServeSave
  BY <1>7 DEF ServeSave, formVars
<1>8. CASE SaveSucceeds
  <2>1. CASE SendQueued(saving, saveStatus)
    BY <1>8, <2>1 DEF SaveSucceeds, SendQueued, Send, SetStatus, formVars
  <2>2. CASE queued \in {NoValue, saving} /\ queued' = NoValue /\ saving' = NoValue
             /\ reply' = "none" /\ SetStatus("saved") /\ UNCHANGED asked
    BY <1>8, <2>2 DEF SaveSucceeds, SetStatus, formVars
  <2>. QED  BY <1>8, <2>1, <2>2 DEF SaveSucceeds
<1>9. CASE SaveFails
  <2>1. CASE SendQueued(persisted, "error")
    BY <1>9, <2>1 DEF SaveFails, SendQueued, Send, SetStatus, formVars, cacheOfSaved
  <2>2. CASE queued' = NoValue /\ saving' = NoValue /\ reply' = "none" /\ SetStatus("error")
             /\ asked' = NoValue
    BY <1>9, <2>2 DEF SaveFails, SetStatus, formVars, cacheOfSaved
  <2>. QED  BY <1>9, <2>1, <2>2 DEF SaveFails
<1>10. CASE UNCHANGED saveVars
  BY <1>10 DEF saveVars, formVars, cacheOfSaved
<1>. QED  BY <1>1, <1>2, <1>3, <1>4, <1>5, <1>6, <1>7, <1>8, <1>9, <1>10 DEF SaveNext

(* useAutoSave: once no request is under way, the server has the newest value the hook
   took on, unless that one failed or was dropped *)
THEOREM NewestValueLands == SaveSpec => []NewestAskedLands
<1>1. SaveInv => NewestAskedLands
  BY DEF SaveInv
<1>. QED  BY SaveInitially, SaveStep, <1>1, PTL DEF SaveSpec

-----------------------------------------------------------------------------
(* While no timer is set and the last comparison was right, the form is what the
   requests under way are about to make of the server; an error is shown only
   between requests *)
FormIsDestined ==
  mounted /\ enabled /\ ~timer /\ ~misjudged /\ saveStatus # "error" => form = Destined
ErrorIsLast == mounted /\ saveStatus = "error" => saving = NoValue
RestInv == SaveInv /\ FormIsDestined /\ ErrorIsLast

LEMMA RunSaveKeepsRest ==
  ASSUME RestInv, mounted, RunSave(form), UNCHANGED <<formVars, stored>>, timer' = FALSE
  PROVE FormIsDestined' /\ ErrorIsLast'
<1> USE AutoSaveAssumption
<1> USE DEF RestInv, SaveInv, SaveTypeOK, OneRequest, FormIsDestined, ErrorIsLast, Destined,
            formVars
<1>1. CASE /\ ~enabled \/ form = persisted
           /\ misjudged' = (enabled /\ Destined # form)
           /\ UNCHANGED <<saving, reply, queued, saveStatus, asked>>
  BY <1>1
<1>2. CASE /\ form # persisted /\ saving # NoValue /\ Keep(form)
           /\ UNCHANGED <<saving, reply, saveStatus>>
  BY <1>2 DEF Keep
<1>3. CASE saving = NoValue /\ Send(form) /\ UNCHANGED queued
  BY <1>3 DEF Send, SetStatus
<1>. QED  BY <1>1, <1>2, <1>3 DEF RunSave

LEMMA RestInitially == SaveInit => RestInv
BY SaveInitially DEF SaveInit, RestInv, FormIsDestined, ErrorIsLast, Destined

LEMMA RestStep == RestInv /\ [SaveNext]_saveVars => RestInv'
<1> SUFFICES ASSUME RestInv, [SaveNext]_saveVars PROVE FormIsDestined' /\ ErrorIsLast'
  BY SaveStep DEF RestInv
<1> USE AutoSaveAssumption
<1> USE DEF RestInv, SaveInv, SaveTypeOK, OneRequest, OkIsStored, FormIsDestined, ErrorIsLast,
            Destined
<1>1. ASSUME NEW v \in Values, NEW e \in BOOLEAN, Render(v, e)
      PROVE FormIsDestined' /\ ErrorIsLast'
  <2>1. CASE e /\ v # persisted
    BY <1>1, <2>1 DEF Render, cacheOfSaved
  <2>2. CASE ~e
    BY <1>1, <2>2 DEF Render, cacheOfSaved
  <2>3. CASE e /\ v = persisted
    BY <1>1, <2>3 DEF Render, cacheOfSaved
  <2>. QED  BY <2>1, <2>2, <2>3
<1>2. CASE TimerFires
  <2>1. CASE mounted
    BY <1>2, <2>1, RunSaveKeepsRest DEF TimerFires, formVars, cacheOfSaved
  <2>2. CASE ~mounted
    BY <1>2, <2>2 DEF TimerFires, formVars
  <2>. QED  BY <2>1, <2>2
<1>3. CASE Flush
  BY <1>3, RunSaveKeepsRest DEF Flush, formVars, cacheOfSaved
<1>4. CASE RefetchLands
  BY <1>4 DEF RefetchLands, formVars
<1>5. CASE Unmount
  BY <1>5 DEF Unmount, cacheOfSaved
<1>6. CASE RefetchReads
  BY <1>6 DEF RefetchReads, formVars
<1>7. CASE ServeSave
  BY <1>7 DEF ServeSave, formVars
<1>8. CASE SaveSucceeds
  <2>1. CASE SendQueued(saving, saveStatus)
    BY <1>8, <2>1 DEF SaveSucceeds, SendQueued, Send, SetStatus, formVars
  <2>2. CASE queued \in {NoValue, saving} /\ queued' = NoValue /\ saving' = NoValue
             /\ reply' = "none" /\ SetStatus("saved") /\ UNCHANGED asked
    BY <1>8, <2>2 DEF SaveSucceeds, SetStatus, formVars
  <2>. QED  BY <1>8, <2>1, <2>2 DEF SaveSucceeds
<1>9. CASE SaveFails
  <2>1. CASE SendQueued(persisted, "error")
    BY <1>9, <2>1 DEF SaveFails, SendQueued, Send, SetStatus, formVars, cacheOfSaved
  <2>2. CASE queued' = NoValue /\ saving' = NoValue /\ reply' = "none" /\ SetStatus("error")
             /\ asked' = NoValue
    BY <1>9, <2>2 DEF SaveFails, SetStatus, formVars, cacheOfSaved
  <2>. QED  BY <1>9, <2>1, <2>2 DEF SaveFails
<1>10. CASE UNCHANGED saveVars
  BY <1>10 DEF saveVars, formVars, cacheOfSaved
<1>. QED  BY <1>1, <1>2, <1>3, <1>4, <1>5, <1>6, <1>7, <1>8, <1>9, <1>10 DEF SaveNext

(* a settings form at rest shows what the server has or an error, unless its last
   comparison was made with a persisted value that requests under way, or a refetch
   that read before them, had made wrong *)
THEOREM FormAtRestIsSaved == SaveSpec => []RestIsSaved
<1>1. RestInv => RestIsSaved
  BY DEF RestInv, SaveInv, OneRequest, FormIsDestined, Destined, RestIsSaved, AtRest
<1>. QED  BY RestInitially, RestStep, <1>1, PTL DEF SaveSpec

-----------------------------------------------------------------------------
(***************************************************************************)
(* IssueCache: a settled tab shows only what the server has committed, and *)
(* a quiet one what the server has.                                        *)
(***************************************************************************)

Boards == [PaginatedStatuses -> [cards : SUBSET Issues, total : Nat]]
Statuses == PaginatedStatuses \cup {Nothing}
MutationRec ==
  [issue : Issues, to : PaginatedStatuses \cup {Gone}, phase : {"sent", "ok", "failed"},
   n : Nat, board : Boards, detail : Statuses, stale : BOOLEAN, moved : BOOLEAN]
EventRec == [n : Nat, issue : Issues, to : PaginatedStatuses \cup {Gone},
             kind : {"created", "updated", "deleted"}]

CacheTypes ==
  /\ server \in [Issues -> PaginatedStatuses \cup {Gone}]
  /\ committed \in [Issues -> SUBSET PaginatedStatuses]
  /\ writes \in Nat /\ last \in [Issues -> Nat]
  /\ pending \subseteq EventRec
  /\ board \in Boards /\ detail \in [Issues -> Statuses]
  /\ mut \in [Mutations -> MutationRec \cup {Idle}]

(* what the server says of an issue, and announces or confirms, it has committed *)
ServerTrue ==
  /\ \A i \in Issues : server[i] \in committed[i] \cup {Gone}
  /\ \A e \in pending : /\ e.to \in committed[e.issue] \cup {Gone}
                        /\ e.kind # "deleted" => e.to # Gone
  /\ \A m \in InFlight : mut[m].phase = "ok" => mut[m].to \in committed[mut[m].issue] \cup {Gone}

(* the only value shown that may not be committed is the one a mutation in flight has
   asked for, and there it has a snapshot to go back to *)
OnBoard(i, m) == IF mut[m].issue = i /\ Loaded(mut[m].board, i) THEN {mut[m].to} ELSE {}
OnDetail(i, m) == IF mut[m].issue = i /\ mut[m].detail # Nothing THEN {mut[m].to} ELSE {}
AsksOnly ==
  /\ \A m, k \in InFlight : m = k
  /\ \A m \in InFlight :
       /\ mut[m].detail \in committed[mut[m].issue] \cup {Nothing}
       /\ \A i \in Issues :
            /\ Buckets(mut[m].board, i) \subseteq committed[i]
            /\ Buckets(board, i) \subseteq committed[i] \cup OnBoard(i, m)
            /\ detail[i] \in committed[i] \cup {Nothing} \cup OnDetail(i, m)
  /\ InFlight = {} => \A i \in Issues :
       Buckets(board, i) \subseteq committed[i] /\ detail[i] \in committed[i] \cup {Nothing}

CommittedInv == CacheTypes /\ ServerTrue /\ (~overlapped => AsksOnly)

-----------------------------------------------------------------------------
(* The bucketed cache *)

LEMMA Names ==
  /\ Gone \notin PaginatedStatuses /\ Nothing \notin PaginatedStatuses /\ Gone # Nothing
  /\ Nothing \notin Issues
BY CacheAssumption

LEMMA BoardTyped ==
  ASSUME NEW b \in Boards, NEW s \in PaginatedStatuses
  PROVE  b[s].cards \in SUBSET Issues /\ b[s].total \in Nat /\ Less(b[s].total) \in Nat
BY DEF Boards, Less

(* putting a card into a status and a total beside it *)
LEMMA CardMoves ==
  ASSUME NEW b \in Boards, NEW i \in Issues, NEW to \in PaginatedStatuses
  PROVE  /\ PatchIssue(b, i, to) \in Boards
         /\ \A j \in Issues : Buckets(PatchIssue(b, i, to), j)
                                \subseteq Buckets(b, j) \cup (IF j = i THEN {to} ELSE {})
<1> DEFINE from == FindIssueLocation(b, i)
<1>1. CASE from = to
  BY <1>1 DEF PatchIssue
<1>2. CASE from # to
  <2>1. PICK x : x = [cards |-> b[from].cards \ {i}, total |-> Less(b[from].total)]
    OBVIOUS
  <2>2. PICK y : y = [cards |-> b[to].cards \cup {i}, total |-> b[to].total + 1]
    OBVIOUS
  <2>3. PatchIssue(b, i, to) = [b EXCEPT ![from] = x, ![to] = y]
    BY <1>2, <2>1, <2>2 DEF PatchIssue
  <2>4. y \in [cards : SUBSET Issues, total : Nat] /\ y.cards = b[to].cards \cup {i}
    BY <2>2, BoardTyped
  <2>5. from \in PaginatedStatuses =>
          x \in [cards : SUBSET Issues, total : Nat] /\ x.cards = b[from].cards \ {i}
    <3> SUFFICES ASSUME from \in PaginatedStatuses
                 PROVE  x \in [cards : SUBSET Issues, total : Nat] /\ x.cards = b[from].cards \ {i}
      OBVIOUS
    <3> HIDE DEF from
    <3> QED BY <2>1, BoardTyped
  <2> HIDE DEF from
  <2>6. PICK c : c = PatchIssue(b, i, to)
    OBVIOUS
  <2>7. c \in Boards
    BY <2>3, <2>4, <2>5, <2>6 DEF Boards
  <2>8. \A s \in PaginatedStatuses :
          c[s] = IF s = to THEN y ELSE IF s = from THEN x ELSE b[s]
    BY <2>3, <2>6 DEF Boards
  <2>9. \A j \in Issues : Buckets(c, j) \subseteq Buckets(b, j) \cup (IF j = i THEN {to} ELSE {})
    BY <2>4, <2>5, <2>8 DEF Buckets
  <2> QED BY <2>6, <2>7, <2>9
<1> QED BY <1>1, <1>2

LEMMA CardGoes ==
  ASSUME NEW b \in Boards, NEW i \in Issues
  PROVE  /\ RemoveIssue(b, i) \in Boards
         /\ \A j \in Issues : Buckets(RemoveIssue(b, i), j) \subseteq Buckets(b, j)
<1> DEFINE from == FindIssueLocation(b, i)
<1>1. CASE ~Loaded(b, i)
  BY <1>1 DEF RemoveIssue
<1>2. CASE Loaded(b, i)
  <2>1. PICK x : x = [cards |-> b[from].cards \ {i}, total |-> Less(b[from].total)]
    OBVIOUS
  <2>2. RemoveIssue(b, i) = [b EXCEPT ![from] = x]
    BY <1>2, <2>1 DEF RemoveIssue
  <2> HIDE DEF from
  <2>3. from \in PaginatedStatuses =>
          x \in [cards : SUBSET Issues, total : Nat] /\ x.cards = b[from].cards \ {i}
    BY <2>1, BoardTyped
  <2>4. PICK c : c = RemoveIssue(b, i)
    OBVIOUS
  <2>5. c \in Boards /\ \A s \in PaginatedStatuses : c[s] = IF s = from THEN x ELSE b[s]
    BY <2>2, <2>3, <2>4 DEF Boards
  <2>6. \A j \in Issues : Buckets(c, j) \subseteq Buckets(b, j)
    BY <2>3, <2>5 DEF Buckets
  <2> QED BY <2>4, <2>5, <2>6
<1> QED BY <1>1, <1>2

LEMMA CardComes ==
  ASSUME NEW b \in Boards, NEW i \in Issues, NEW to \in PaginatedStatuses
  PROVE  /\ AddIssue(b, i, to) \in Boards
         /\ \A j \in Issues : Buckets(AddIssue(b, i, to), j)
                                \subseteq Buckets(b, j) \cup (IF j = i THEN {to} ELSE {})
<1>1. CASE i \in b[to].cards
  BY <1>1 DEF AddIssue
<1>2. CASE i \notin b[to].cards
  <2>1. PICK y : y = [cards |-> b[to].cards \cup {i}, total |-> b[to].total + 1]
    OBVIOUS
  <2>2. AddIssue(b, i, to) = [b EXCEPT ![to] = y]
    BY <1>2, <2>1 DEF AddIssue
  <2>3. y \in [cards : SUBSET Issues, total : Nat] /\ y.cards = b[to].cards \cup {i}
    BY <2>1, BoardTyped
  <2>4. PICK c : c = AddIssue(b, i, to)
    OBVIOUS
  <2>5. c \in Boards /\ \A s \in PaginatedStatuses : c[s] = IF s = to THEN y ELSE b[s]
    BY <2>2, <2>3, <2>4 DEF Boards
  <2>6. \A j \in Issues : Buckets(c, j) \subseteq Buckets(b, j) \cup (IF j = i THEN {to} ELSE {})
    BY <2>3, <2>5 DEF Buckets
  <2> QED BY <2>4, <2>5, <2>6
<1> QED BY <1>1, <1>2

LEMMA TotalsMove ==
  ASSUME NEW b \in Boards, NEW from \in PaginatedStatuses, NEW to \in PaginatedStatuses
  PROVE  /\ MoveBucketTotal(b, from, to) \in Boards
         /\ \A j \in Issues : Buckets(MoveBucketTotal(b, from, to), j) = Buckets(b, j)
<1>1. CASE from = to
  BY <1>1 DEF MoveBucketTotal
<1>2. CASE from # to
  <2>1. PICK x : x = [b[from] EXCEPT !.total = Less(b[from].total)]
    OBVIOUS
  <2>2. PICK y : y = [b[to] EXCEPT !.total = b[to].total + 1]
    OBVIOUS
  <2>3. x \in [cards : SUBSET Issues, total : Nat] /\ x.cards = b[from].cards
    BY <2>1, BoardTyped DEF Boards
  <2>4. y \in [cards : SUBSET Issues, total : Nat] /\ y.cards = b[to].cards
    BY <2>2, BoardTyped DEF Boards
  <2>5. PICK c : c = MoveBucketTotal(b, from, to)
    OBVIOUS
  <2>6. c = [b EXCEPT ![from] = x, ![to] = y]
    BY <1>2, <2>1, <2>2, <2>5 DEF MoveBucketTotal, Boards
  <2>7. c \in Boards /\ \A s \in PaginatedStatuses :
          c[s] = IF s = to THEN y ELSE IF s = from THEN x ELSE b[s]
    BY <2>3, <2>4, <2>6 DEF Boards
  <2>8. \A j \in Issues : Buckets(c, j) = Buckets(b, j)
    BY <2>3, <2>4, <2>7 DEF Buckets
  <2> QED BY <2>5, <2>7, <2>8
<1> QED BY <1>1, <1>2

(* a change of an issue puts only its own card, only if it is loaded, into a new column *)
LEMMA ChangeMoves ==
  ASSUME NEW b \in Boards, NEW i \in Issues, NEW to \in PaginatedStatuses,
         NEW changed \in BOOLEAN, NEW base \in Statuses
  PROVE  /\ Reconciled(b, i, to, changed, base) \in Boards
         /\ \A j \in Issues : Buckets(Reconciled(b, i, to, changed, base), j)
              \subseteq Buckets(b, j) \cup (IF j = i /\ Loaded(b, i) THEN {to} ELSE {})
<1>1. CASE Loaded(b, i)
  <2>1. Reconciled(b, i, to, changed, base) = PatchIssue(b, i, to)
    BY <1>1 DEF Reconciled
  <2> QED BY <1>1, <2>1, CardMoves
<1>2. CASE ~Loaded(b, i) /\ changed /\ base # Nothing
  <2>1. Reconciled(b, i, to, changed, base) = MoveBucketTotal(b, base, to)
    BY <1>2 DEF Reconciled
  <2>2. base \in PaginatedStatuses
    BY <1>2 DEF Statuses
  <2> QED BY <2>1, <2>2, TotalsMove
<1>3. CASE ~Loaded(b, i) /\ ~(changed /\ base # Nothing)
  <2>1. Reconciled(b, i, to, changed, base) = b
    BY <1>3 DEF Reconciled
  <2> QED BY <2>1
<1> QED BY <1>1, <1>2, <1>3

(* what the server has, a page shows *)
LEMMA PagesAreTrue ==
  ASSUME CacheTypes, NEW c, c = [s \in PaginatedStatuses |-> ServerPage(s)]
  PROVE  c \in Boards /\ \A j \in Issues : Buckets(c, j) \subseteq {server[j]} \ {Gone}
<1>1. ASSUME NEW s \in PaginatedStatuses
      PROVE  ServerPage(s) \in [cards : SUBSET Issues, total : Nat]
               /\ ServerPage(s).cards = FirstPage(s)
  <2>1. On(s) \subseteq Issues /\ FirstPage(s) \subseteq Issues
    BY DEF On, FirstPage
  <2>2. Cardinality(On(s)) \in Nat
    BY <2>1, CacheAssumption, FS_Subset, FS_CardinalityType
  <2> QED BY <2>1, <2>2 DEF ServerPage
<1>2. c \in Boards
  BY <1>1 DEF Boards
<1>3. ASSUME NEW j \in Issues, NEW s \in Buckets(c, j) PROVE s = server[j] /\ s # Gone
  <2>1. s \in PaginatedStatuses /\ j \in FirstPage(s)
    BY <1>1, <1>3 DEF Buckets
  <2> QED BY <2>1, Names DEF FirstPage, On
<1> QED BY <1>2, <1>3

LEMMA InFlightTyped ==
  ASSUME CacheTypes
  PROVE  /\ InFlight \subseteq Mutations
         /\ \A m \in Mutations : IF m \in InFlight THEN mut[m] \in MutationRec ELSE mut[m] = Idle
BY DEF CacheTypes, InFlight, MutationRec, Idle

LEMMA MovedTyped ==
  ASSUME CacheTypes
  PROVE  /\ Moved \in [Mutations -> MutationRec \cup {Idle}]
         /\ \A m \in Mutations :
              /\ Moved[m].issue = mut[m].issue /\ Moved[m].to = mut[m].to
              /\ Moved[m].phase = mut[m].phase /\ Moved[m].board = mut[m].board
              /\ Moved[m].detail = mut[m].detail
<1> SUFFICES ASSUME NEW m \in Mutations
             PROVE  /\ Moved[m] \in MutationRec \cup {Idle}
                    /\ Moved[m].issue = mut[m].issue /\ Moved[m].to = mut[m].to
                    /\ Moved[m].phase = mut[m].phase /\ Moved[m].board = mut[m].board
                    /\ Moved[m].detail = mut[m].detail
  BY DEF Moved
<1>1. CASE m \notin InFlight
  BY <1>1, InFlightTyped DEF Moved, InFlight
<1>2. CASE m \in InFlight
  <2>1. PICK k : k = [mut[m] EXCEPT !.moved = TRUE]
    OBVIOUS
  <2>2. Moved[m] = k /\ mut[m] \in MutationRec
    BY <1>2, <2>1, InFlightTyped DEF Moved, InFlight
  <2>3. k.issue = mut[m].issue /\ k.to = mut[m].to /\ k.phase = mut[m].phase
    BY <2>1, <2>2 DEF MutationRec
  <2>4. k.board = mut[m].board /\ k.detail = mut[m].detail
    BY <2>1, <2>2 DEF MutationRec
  <2>5. k \in MutationRec
    BY <2>1, <2>2 DEF MutationRec
  <2> QED BY <2>2, <2>3, <2>4, <2>5
<1> QED BY <1>1, <1>2

-----------------------------------------------------------------------------
(* Steps that neither begin nor end a mutation *)

MutationsStay ==
  \A m \in Mutations :
    /\ mut'[m].issue = mut[m].issue /\ mut'[m].to = mut[m].to
    /\ mut'[m].board = mut[m].board /\ mut'[m].detail = mut[m].detail
    /\ mut'[m].phase = "idle" <=> mut[m].phase = "idle"
CommitsStay == \A i \in Issues : committed[i] \subseteq committed'[i]
ShowsNoMore ==
  \A i \in Issues : /\ Buckets(board', i) \subseteq Buckets(board, i) \cup committed'[i]
                    /\ detail'[i] \in {detail[i], Nothing} \cup committed'[i]

LEMMA AsksStay ==
  ASSUME CacheTypes, AsksOnly, MutationsStay, CommitsStay, ShowsNoMore
  PROVE  AsksOnly'
<1>1. /\ InFlight' = InFlight
      /\ \A m \in InFlight : /\ mut'[m].issue = mut[m].issue /\ mut'[m].to = mut[m].to
                             /\ mut'[m].board = mut[m].board /\ mut'[m].detail = mut[m].detail
  BY DEF InFlight, MutationsStay
<1>2. ASSUME NEW m \in InFlight, NEW i \in Issues
      PROVE  OnBoard(i, m)' = OnBoard(i, m) /\ OnDetail(i, m)' = OnDetail(i, m)
  BY <1>1 DEF OnBoard, OnDetail
<1>3. ASSUME NEW m \in InFlight
      PROVE  /\ mut'[m].detail \in committed'[mut[m].issue] \cup {Nothing}
             /\ \A i \in Issues :
                  /\ Buckets(mut[m].board, i) \subseteq committed'[i]
                  /\ Buckets(board', i) \subseteq committed'[i] \cup OnBoard(i, m)
                  /\ detail'[i] \in committed'[i] \cup {Nothing} \cup OnDetail(i, m)
  <2>1. mut[m].issue \in Issues
    BY InFlightTyped DEF MutationRec
  <2> QED BY <1>1, <2>1 DEF AsksOnly, CommitsStay, ShowsNoMore
<1>4. \A m \in InFlight, i \in Issues : Buckets(mut'[m].board, i) = Buckets(mut[m].board, i)
  BY <1>1
<1>5. InFlight = {} => \A i \in Issues :
        Buckets(board', i) \subseteq committed'[i] /\ detail'[i] \in committed'[i] \cup {Nothing}
  BY DEF AsksOnly, CommitsStay, ShowsNoMore
<1>6. \A m, k \in InFlight : m = k
  BY DEF AsksOnly
<1> QED BY <1>1, <1>2, <1>3, <1>4, <1>5, <1>6 DEF AsksOnly

(* what the server said stays true, what it says now it has committed *)
LEMMA ServerStaysTrue ==
  ASSUME CacheTypes, ServerTrue, CommitsStay, pending' \subseteq pending,
         \A i \in Issues : server'[i] \in committed'[i] \cup {Gone},
         \A m \in Mutations : mut'[m].phase = "ok" =>
           mut[m].phase = "ok" /\ mut'[m].issue = mut[m].issue /\ mut'[m].to = mut[m].to
  PROVE  ServerTrue'
<1>1. \A e \in pending' : e \in pending /\ e \in EventRec /\ e.issue \in Issues
  BY DEF CacheTypes, EventRec
<1>2. ASSUME NEW e \in pending'
      PROVE  e.to \in committed'[e.issue] \cup {Gone} /\ (e.kind # "deleted" => e.to # Gone)
  BY <1>1 DEF ServerTrue, CommitsStay
<1>3. ASSUME NEW m \in InFlight', mut'[m].phase = "ok"
      PROVE  mut'[m].to \in committed'[mut'[m].issue] \cup {Gone}
  <2>1. m \in Mutations /\ m \in InFlight /\ mut[m].phase = "ok"
    BY <1>3 DEF InFlight
  <2>2. mut[m].issue \in Issues
    BY <2>1, InFlightTyped DEF MutationRec
  <2> QED BY <1>3, <2>1, <2>2 DEF ServerTrue, CommitsStay
<1> QED BY <1>2, <1>3 DEF ServerTrue

-----------------------------------------------------------------------------
(* Commits *)

LEMMA CommitsAreTrue ==
  ASSUME CacheTypes, ServerTrue, NEW i \in Issues, NEW v \in PaginatedStatuses \cup {Gone},
         Commit(i, v)
  PROVE  /\ server' \in [Issues -> PaginatedStatuses \cup {Gone}]
         /\ committed' \in [Issues -> SUBSET PaginatedStatuses]
         /\ writes' \in Nat /\ last' \in [Issues -> Nat] /\ pending' \subseteq EventRec
         /\ CommitsStay /\ v \in committed'[i] \cup {Gone}
         /\ \A j \in Issues : server'[j] \in committed'[j] \cup {Gone}
         /\ \A e \in pending' : /\ e.to \in committed'[e.issue] \cup {Gone}
                                /\ e.kind # "deleted" => e.to # Gone
<1>1. /\ server' = [server EXCEPT ![i] = v] /\ writes' = writes + 1 /\ server[i] # v
      /\ committed' = [committed EXCEPT ![i] = committed[i] \cup ({v} \ {Gone})]
      /\ last' = [last EXCEPT ![i] = writes']
  BY DEF Commit
<1>2. PICK kind : kind = CASE server[i] = Gone -> "created" [] v = Gone -> "deleted"
                           [] OTHER -> "updated"
  OBVIOUS
<1>3. kind \in {"created", "updated", "deleted"} /\ (kind # "deleted" => v # Gone)
  BY <1>1, <1>2
<1>4. PICK e : e = [n |-> writes', issue |-> i, to |-> v, kind |-> kind]
  OBVIOUS
<1>5. pending' = pending \cup {e}
  BY <1>2, <1>4 DEF Commit
<1>6. /\ server' \in [Issues -> PaginatedStatuses \cup {Gone}]
      /\ committed' \in [Issues -> SUBSET PaginatedStatuses]
      /\ writes' \in Nat /\ last' \in [Issues -> Nat]
  BY <1>1 DEF CacheTypes
<1>7. e \in EventRec /\ e.issue = i /\ e.to = v /\ e.kind = kind
  BY <1>3, <1>4, <1>6 DEF EventRec
<1>8. /\ \A j \in Issues : committed'[j] = IF j = i THEN committed[i] \cup ({v} \ {Gone})
                                                    ELSE committed[j]
      /\ \A j \in Issues : server'[j] = IF j = i THEN v ELSE server[j]
  BY <1>1 DEF CacheTypes
<1>9. CommitsStay /\ v \in committed'[i] \cup {Gone}
  BY <1>8 DEF CommitsStay
<1>10. \A j \in Issues : server'[j] \in committed'[j] \cup {Gone}
  BY <1>8, <1>9 DEF ServerTrue
<1>11. ASSUME NEW f \in pending'
       PROVE  f.to \in committed'[f.issue] \cup {Gone} /\ (f.kind # "deleted" => f.to # Gone)
  <2>1. CASE f = e
    BY <1>3, <1>7, <1>9, <2>1
  <2>2. CASE f \in pending
    <3>1. f.issue \in Issues
      BY <2>2 DEF CacheTypes, EventRec
    <3> QED BY <2>2, <3>1, <1>9 DEF ServerTrue, CommitsStay
  <2> QED BY <1>5, <2>1, <2>2
<1>12. pending' \subseteq EventRec
  BY <1>5, <1>7 DEF CacheTypes
<1> QED BY <1>6, <1>9, <1>10, <1>11, <1>12

LEMMA Stays ==
  ASSUME CommittedInv, CacheTypes', ServerTrue', MutationsStay, CommitsStay, ShowsNoMore,
         overlapped' = overlapped
  PROVE  CommittedInv'
<1>1. CacheTypes /\ (~overlapped => AsksOnly)
  BY DEF CommittedInv
<1>2. ~overlapped => AsksOnly'
  BY <1>1, AsksStay
<1> QED BY <1>2 DEF CommittedInv

LEMMA RemoteWriteStep ==
  ASSUME CommittedInv, NEW i \in Issues, NEW v \in PaginatedStatuses \cup {Gone},
         RemoteWrite(i, v)
  PROVE  CommittedInv'
<1>1. CacheTypes /\ ServerTrue /\ Commit(i, v) /\ UNCHANGED <<board, detail, mut, overlapped>>
  BY DEF CommittedInv, RemoteWrite
<1>2. /\ server' \in [Issues -> PaginatedStatuses \cup {Gone}]
      /\ committed' \in [Issues -> SUBSET PaginatedStatuses]
      /\ writes' \in Nat /\ last' \in [Issues -> Nat] /\ pending' \subseteq EventRec
      /\ CommitsStay
      /\ \A j \in Issues : server'[j] \in committed'[j] \cup {Gone}
      /\ \A e \in pending' : /\ e.to \in committed'[e.issue] \cup {Gone}
                             /\ e.kind # "deleted" => e.to # Gone
  BY <1>1, CommitsAreTrue
<1>3. CacheTypes'
  BY <1>1, <1>2 DEF CacheTypes
<1>4. ServerTrue'
  <2>1. ASSUME NEW m \in InFlight', mut'[m].phase = "ok"
        PROVE  mut'[m].to \in committed'[mut'[m].issue] \cup {Gone}
    <3>1. m \in InFlight /\ mut[m].phase = "ok" /\ mut'[m] = mut[m]
      BY <1>1, <2>1 DEF InFlight
    <3>2. mut[m].issue \in Issues
      BY <1>1, <3>1, InFlightTyped DEF MutationRec
    <3> QED BY <1>1, <1>2, <3>1, <3>2 DEF ServerTrue, CommitsStay
  <2> QED BY <1>2, <2>1 DEF ServerTrue
<1>5. MutationsStay /\ ShowsNoMore
  BY <1>1 DEF MutationsStay, ShowsNoMore
<1> QED BY <1>1, <1>2, <1>3, <1>4, <1>5, Stays

(* the answer a mutation gets is ok only of what is committed *)
LEMMA ServeStep ==
  ASSUME CommittedInv, NEW m \in Mutations, Serve(m)
  PROVE  CommittedInv'
<1>1. CacheTypes /\ ServerTrue /\ UNCHANGED <<board, detail, overlapped>> /\ mut[m].phase = "sent"
  BY DEF CommittedInv, Serve
<1>2. m \in InFlight /\ mut[m] \in MutationRec
  BY <1>1, InFlightTyped DEF InFlight
<1>3. mut[m].issue \in Issues /\ mut[m].to \in PaginatedStatuses \cup {Gone}
  BY <1>2 DEF MutationRec
<1>4. ASSUME UNCHANGED <<serverVars, pending>>
      PROVE  /\ UNCHANGED <<server, committed, writes, last, pending>>
             /\ server' \in [Issues -> PaginatedStatuses \cup {Gone}]
             /\ committed' \in [Issues -> SUBSET PaginatedStatuses]
             /\ writes' \in Nat /\ last' \in [Issues -> Nat] /\ pending' \subseteq EventRec
             /\ CommitsStay
             /\ \A j \in Issues : server'[j] \in committed'[j] \cup {Gone}
             /\ \A e \in pending' : /\ e.to \in committed'[e.issue] \cup {Gone}
                                    /\ e.kind # "deleted" => e.to # Gone
  <2>1. UNCHANGED <<server, committed, writes, last, pending>>
    BY <1>4 DEF serverVars
  <2> QED BY <1>1, <2>1 DEF CacheTypes, ServerTrue, CommitsStay
<1>5. \E p \in {"ok", "failed"}, n \in Nat :
        /\ mut' = [mut EXCEPT ![m].phase = p, ![m].n = n]
        /\ p = "ok" => mut[m].to \in committed'[mut[m].issue] \cup {Gone}
  <2>1. CASE mut' = [mut EXCEPT ![m].phase = "failed"]
    <3>1. mut' = [mut EXCEPT ![m].phase = "failed", ![m].n = mut[m].n]
      <4>1. PICK k : k = [mut[m] EXCEPT !.phase = "failed"]
        OBVIOUS
      <4>2. PICK l : l = [mut[m] EXCEPT !.phase = "failed", !.n = mut[m].n]
        OBVIOUS
      <4>3. k = l
        BY <1>2, <4>1, <4>2 DEF MutationRec
      <4> QED BY <2>1, <4>1, <4>2, <4>3
    <3>2. mut[m].n \in Nat
      BY <1>2 DEF MutationRec
    <3> QED BY <3>1, <3>2
  <2>2. CASE \E p \in {"ok", "failed"} :
               mut' = [mut EXCEPT ![m].phase = p, ![m].n = last'[mut[m].issue]]
             /\ \/ Commit(mut[m].issue, mut[m].to)
                \/ server[mut[m].issue] = mut[m].to /\ UNCHANGED <<serverVars, pending>>
    <3>1. PICK p \in {"ok", "failed"} :
            mut' = [mut EXCEPT ![m].phase = p, ![m].n = last'[mut[m].issue]]
      BY <2>2
    <3>2. CASE Commit(mut[m].issue, mut[m].to)
      <4>1. last' \in [Issues -> Nat] /\ mut[m].to \in committed'[mut[m].issue] \cup {Gone}
        BY <1>1, <1>3, <3>2, CommitsAreTrue
      <4> QED BY <1>3, <3>1, <4>1
    <3>3. CASE server[mut[m].issue] = mut[m].to /\ UNCHANGED <<serverVars, pending>>
      <4>1. last' \in [Issues -> Nat] /\ mut[m].to \in committed'[mut[m].issue] \cup {Gone}
        BY <1>1, <1>3, <3>3, <1>4 DEF ServerTrue
      <4> QED BY <1>3, <3>1, <4>1
    <3> QED BY <2>2, <3>2, <3>3
  <2> QED BY <2>1, <2>2 DEF Serve
<1>6. /\ server' \in [Issues -> PaginatedStatuses \cup {Gone}]
      /\ committed' \in [Issues -> SUBSET PaginatedStatuses]
      /\ writes' \in Nat /\ last' \in [Issues -> Nat] /\ pending' \subseteq EventRec
      /\ CommitsStay
      /\ \A j \in Issues : server'[j] \in committed'[j] \cup {Gone}
      /\ \A e \in pending' : /\ e.to \in committed'[e.issue] \cup {Gone}
                             /\ e.kind # "deleted" => e.to # Gone
  <2>1. Commit(mut[m].issue, mut[m].to) \/ UNCHANGED <<serverVars, pending>>
    BY DEF Serve
  <2>2. CASE Commit(mut[m].issue, mut[m].to)
    BY <1>1, <1>3, <2>2, CommitsAreTrue
  <2> QED BY <1>4, <2>1, <2>2
<1>7. PICK p \in {"ok", "failed"}, n \in Nat :
        /\ mut' = [mut EXCEPT ![m].phase = p, ![m].n = n]
        /\ p = "ok" => mut[m].to \in committed'[mut[m].issue] \cup {Gone}
  BY <1>5
<1>8. PICK k : k = [mut[m] EXCEPT !.phase = p, !.n = n]
  OBVIOUS
<1>9. /\ k \in MutationRec /\ k.issue = mut[m].issue /\ k.to = mut[m].to /\ k.phase = p
      /\ k.board = mut[m].board /\ k.detail = mut[m].detail
  BY <1>2, <1>7, <1>8 DEF MutationRec
<1>10. \A l \in Mutations : mut'[l] = IF l = m THEN k ELSE mut[l]
  BY <1>1, <1>7, <1>8 DEF CacheTypes
<1>11. mut' \in [Mutations -> MutationRec \cup {Idle}]
  <2>1. mut' = [mut EXCEPT ![m] = k]
    BY <1>1, <1>7, <1>8 DEF CacheTypes
  <2> QED BY <1>1, <1>9, <2>1 DEF CacheTypes
<1>12. CacheTypes'
  BY <1>1, <1>6, <1>11 DEF CacheTypes
<1>13. ServerTrue'
  <2>1. ASSUME NEW l \in InFlight', mut'[l].phase = "ok"
        PROVE  mut'[l].to \in committed'[mut'[l].issue] \cup {Gone}
    <3>1. l \in Mutations
      BY <2>1 DEF InFlight
    <3>2. CASE l = m
      BY <1>7, <1>9, <1>10, <2>1, <3>1, <3>2
    <3>3. CASE l # m
      <4>1. l \in InFlight /\ mut'[l] = mut[l] /\ mut[l].phase = "ok"
        BY <1>10, <2>1, <3>1, <3>3 DEF InFlight
      <4>2. mut[l].issue \in Issues
        BY <1>1, <4>1, InFlightTyped DEF MutationRec
      <4> QED BY <1>1, <1>6, <4>1, <4>2 DEF ServerTrue, CommitsStay
    <3> QED BY <3>2, <3>3
  <2> QED BY <1>6, <2>1 DEF ServerTrue
<1>14. MutationsStay /\ ShowsNoMore
  <2>1. MutationsStay
    BY <1>1, <1>7, <1>9, <1>10 DEF MutationsStay
  <2> QED BY <1>1, <2>1 DEF ShowsNoMore
<1> QED BY <1>1, <1>6, <1>12, <1>13, <1>14, Stays

-----------------------------------------------------------------------------
(* Mutations begin and end *)

LEMMA BeginStep ==
  ASSUME CommittedInv, NEW m \in Mutations, NEW i \in Issues,
         NEW to \in PaginatedStatuses \cup {Gone}, NEW stale \in BOOLEAN, Begin(m, i, to, stale),
         UNCHANGED <<serverVars, pending>>, board' \in Boards, detail' \in [Issues -> Statuses],
         \A j \in Issues : Buckets(board', j) \subseteq
           Buckets(board, j) \cup (IF j = i /\ Loaded(board, i) THEN {to} ELSE {}),
         \A j \in Issues : detail'[j] \in
           {detail[j], Nothing} \cup (IF j = i /\ detail[i] # Nothing THEN {to} ELSE {})
  PROVE  CommittedInv'
<1>1. /\ CacheTypes /\ ServerTrue /\ mut[m].phase = "idle"
      /\ UNCHANGED <<server, committed, writes, last, pending>>
      /\ overlapped' = (overlapped \/ InFlight # {})
  BY DEF CommittedInv, Begin, serverVars
<1>2. PICK k : k = [issue |-> i, to |-> to, phase |-> "sent", n |-> 0, board |-> board,
                    detail |-> detail[i], stale |-> stale, moved |-> FALSE]
  OBVIOUS
<1>3. /\ k \in MutationRec /\ k.issue = i /\ k.to = to /\ k.phase = "sent"
      /\ k.board = board /\ k.detail = detail[i]
  BY <1>1, <1>2 DEF MutationRec, CacheTypes
<1>4. mut' = [Moved EXCEPT ![m] = k]
  BY <1>2 DEF Begin
<1>5. mut' \in [Mutations -> MutationRec \cup {Idle}]
  BY <1>1, <1>3, <1>4, MovedTyped
<1>6. \A l \in Mutations : IF l = m THEN mut'[l] = k
                                    ELSE /\ mut'[l].issue = mut[l].issue /\ mut'[l].to = mut[l].to
                                         /\ mut'[l].phase = mut[l].phase
  BY <1>1, <1>4, MovedTyped
<1>7. CacheTypes'
  BY <1>1, <1>5 DEF CacheTypes
<1>8. ServerTrue'
  BY <1>1, <1>3, <1>6, ServerStaysTrue DEF CommitsStay, ServerTrue
<1>9. ASSUME ~overlapped' PROVE AsksOnly'
  <2>1. /\ InFlight = {}
        /\ \A j \in Issues : Buckets(board, j) \subseteq committed[j]
                             /\ detail[j] \in committed[j] \cup {Nothing}
    BY <1>1, <1>9 DEF CommittedInv, AsksOnly
  <2>2. \A l \in InFlight' : l = m
    BY <1>6, <2>1 DEF InFlight
  <2>3. m \in InFlight' /\ mut'[m] = k
    BY <1>3, <1>6 DEF InFlight
  <2>4. \A j \in Issues : /\ OnBoard(j, m)' = (IF j = i /\ Loaded(board, i) THEN {to} ELSE {})
                          /\ OnDetail(j, m)' = (IF j = i /\ detail[i] # Nothing THEN {to} ELSE {})
    BY <1>3, <2>3 DEF OnBoard, OnDetail
  <2>5. /\ mut'[m].detail \in committed'[mut'[m].issue] \cup {Nothing}
        /\ \A j \in Issues : Buckets(mut'[m].board, j) \subseteq committed'[j]
    BY <1>1, <1>3, <2>1, <2>3
  <2>6. ASSUME NEW j \in Issues
        PROVE  /\ Buckets(board', j) \subseteq committed'[j] \cup OnBoard(j, m)'
               /\ detail'[j] \in committed'[j] \cup {Nothing} \cup OnDetail(j, m)'
    BY <1>1, <2>1, <2>4
  <2> QED BY <2>2, <2>3, <2>5, <2>6 DEF AsksOnly
<1> QED BY <1>7, <1>8, <1>9 DEF CommittedInv

LEMMA OnMutateUpdateStep ==
  ASSUME CommittedInv, NEW m \in Mutations, NEW i \in Issues, NEW to \in PaginatedStatuses,
         OnMutateUpdate(m, i, to)
  PROVE  CommittedInv'
<1>1. CacheTypes
  BY DEF CommittedInv
<1>2. PICK changed \in BOOLEAN, stale \in BOOLEAN :
        /\ Begin(m, i, to, stale)
        /\ board' = Reconciled(board, i, to, changed, detail[i])
  BY DEF OnMutateUpdate, StaleCard
<1>3. detail[i] \in Statuses /\ board \in Boards
  BY <1>1 DEF CacheTypes
<1>4. /\ board' \in Boards
      /\ \A j \in Issues : Buckets(board', j) \subseteq
           Buckets(board, j) \cup (IF j = i /\ Loaded(board, i) THEN {to} ELSE {})
  BY <1>2, <1>3, ChangeMoves
<1>5. /\ detail' \in [Issues -> Statuses]
      /\ \A j \in Issues : detail'[j] \in
           {detail[j], Nothing} \cup (IF j = i /\ detail[i] # Nothing THEN {to} ELSE {})
  <2>1. PatchDetail(i, to)
    BY DEF OnMutateUpdate
  <2> QED BY <1>1, <2>1 DEF PatchDetail, CacheTypes, Statuses
<1>6. UNCHANGED <<serverVars, pending>>
  BY DEF OnMutateUpdate
<1> QED BY <1>2, <1>4, <1>5, <1>6, BeginStep

LEMMA OnMutateDeleteStep ==
  ASSUME CommittedInv, NEW m \in Mutations, NEW i \in Issues, OnMutateDelete(m, i)
  PROVE  CommittedInv'
<1>1. CacheTypes
  BY DEF CommittedInv
<1>2. /\ Begin(m, i, Gone, TRUE) /\ board' = RemoveIssue(board, i)
      /\ detail' = [detail EXCEPT ![i] = Nothing] /\ UNCHANGED <<serverVars, pending>>
  BY DEF OnMutateDelete
<1>3. /\ board' \in Boards
      /\ \A j \in Issues : Buckets(board', j) \subseteq Buckets(board, j)
  BY <1>1, <1>2, CardGoes DEF CacheTypes
<1>4. /\ detail' \in [Issues -> Statuses]
      /\ \A j \in Issues : detail'[j] \in {detail[j], Nothing}
  BY <1>1, <1>2 DEF CacheTypes, Statuses
<1>5. \A j \in Issues : Buckets(board', j) \subseteq
           Buckets(board, j) \cup (IF j = i /\ Loaded(board, i) THEN {Gone} ELSE {})
  BY <1>3
<1>6. \A j \in Issues : detail'[j] \in
           {detail[j], Nothing} \cup (IF j = i /\ detail[i] # Nothing THEN {Gone} ELSE {})
  BY <1>4
<1> QED BY <1>2, <1>3, <1>4, <1>5, <1>6, BeginStep

(* the answer leaves nothing in flight: what it shows must be committed *)
LEMMA EndStep ==
  ASSUME CommittedInv, NEW m \in Mutations, m \in InFlight, mut' = [Moved EXCEPT ![m] = Idle],
         UNCHANGED <<serverVars, pending, overlapped>>, board' \in Boards,
         detail' \in [Issues -> Statuses],
         ~overlapped => \A j \in Issues : /\ Buckets(board', j) \subseteq committed[j]
                                          /\ detail'[j] \in committed[j] \cup {Nothing}
  PROVE  CommittedInv'
<1>1. /\ CacheTypes /\ ServerTrue
      /\ UNCHANGED <<server, committed, writes, last, pending, overlapped>>
  BY DEF CommittedInv, serverVars
<1>2. mut' \in [Mutations -> MutationRec \cup {Idle}]
  BY <1>1, MovedTyped
<1>3. \A l \in Mutations : IF l = m THEN mut'[l].phase = "idle"
                                    ELSE /\ mut'[l].issue = mut[l].issue /\ mut'[l].to = mut[l].to
                                         /\ mut'[l].phase = mut[l].phase
  BY <1>1, MovedTyped DEF Idle
<1>4. CacheTypes'
  BY <1>1, <1>2 DEF CacheTypes
<1>5. ServerTrue'
  BY <1>1, <1>3, ServerStaysTrue DEF CommitsStay, ServerTrue
<1>6. ASSUME ~overlapped' PROVE AsksOnly'
  <2>1. \A l \in InFlight : l = m
    BY <1>1, <1>6 DEF CommittedInv, AsksOnly
  <2>2. InFlight' = {}
    BY <1>3, <2>1 DEF InFlight
  <2>3. \A j \in Issues : Buckets(board', j) \subseteq committed'[j]
                          /\ detail'[j] \in committed'[j] \cup {Nothing}
    BY <1>1, <1>6
  <2> QED BY <2>2, <2>3 DEF AsksOnly
<1> QED BY <1>4, <1>5, <1>6 DEF CommittedInv

LEMMA OnSuccessStep ==
  ASSUME CommittedInv, NEW m \in Mutations, OnSuccess(m)
  PROVE  CommittedInv'
<1>1. CacheTypes /\ ServerTrue /\ board \in Boards /\ detail \in [Issues -> Statuses]
  BY DEF CommittedInv, CacheTypes
<1>2. m \in InFlight /\ mut[m] \in MutationRec /\ mut[m].phase = "ok"
  BY <1>1, InFlightTyped DEF OnSuccess, InFlight
<1>3. PICK i \in Issues, to \in PaginatedStatuses \cup {Gone} :
        i = mut[m].issue /\ to = mut[m].to
  BY <1>2 DEF MutationRec
<1>4. to \in committed[i] \cup {Gone}
  BY <1>1, <1>2, <1>3 DEF ServerTrue
<1>5. /\ mut' = [Moved EXCEPT ![m] = Idle] /\ UNCHANGED <<serverVars, pending, overlapped>>
      /\ IF to = Gone
         THEN board' = RemoveIssue(board, i) /\ detail' = [detail EXCEPT ![i] = Nothing]
         ELSE board' = Reconciled(board, i, to, FALSE, to) /\ PatchDetail(i, to)
  BY <1>3 DEF OnSuccess
<1>6. /\ board' \in Boards
      /\ \A j \in Issues : Buckets(board', j) \subseteq
           Buckets(board, j) \cup (IF j = i /\ to # Gone THEN {to} ELSE {})
  <2>1. CASE to = Gone
    BY <1>1, <1>5, <2>1, CardGoes
  <2>2. CASE to # Gone
    <3>1. to \in PaginatedStatuses /\ to \in Statuses
      BY <2>2 DEF Statuses
    <3>2. board' = Reconciled(board, i, to, FALSE, to)
      BY <1>5, <2>2
    <3>3. /\ board' \in Boards
          /\ \A j \in Issues : Buckets(board', j) \subseteq
               Buckets(board, j) \cup (IF j = i /\ Loaded(board, i) THEN {to} ELSE {})
      BY <1>1, <3>1, <3>2, ChangeMoves
    <3> QED BY <2>2, <3>3
  <2> QED BY <2>1, <2>2
<1>7. /\ detail' \in [Issues -> Statuses]
      /\ \A j \in Issues : detail'[j] \in
           (IF j = i /\ to = Gone THEN {} ELSE {detail[j]}) \cup {Nothing}
             \cup (IF j = i /\ to # Gone THEN {to} ELSE {})
  <2>1. CASE to = Gone
    BY <1>1, <1>5, <2>1 DEF Statuses
  <2>2. CASE to # Gone
    BY <1>1, <1>5, <2>2 DEF Statuses, PatchDetail
  <2> QED BY <2>1, <2>2
<1>8. ASSUME ~overlapped, NEW j \in Issues
      PROVE  Buckets(board', j) \subseteq committed[j] /\ detail'[j] \in committed[j] \cup {Nothing}
  <2>1. /\ Buckets(board, j) \subseteq committed[j] \cup OnBoard(j, m)
        /\ detail[j] \in committed[j] \cup {Nothing} \cup OnDetail(j, m)
    BY <1>2, <1>8 DEF CommittedInv, AsksOnly
  <2>2. OnBoard(j, m) \cup OnDetail(j, m) \subseteq IF j = i THEN {to} ELSE {}
    BY <1>3 DEF OnBoard, OnDetail
  <2>3. Buckets(board', j) \subseteq PaginatedStatuses /\ Gone \notin PaginatedStatuses
    BY Names DEF Buckets
  <2> QED BY <1>4, <1>6, <1>7, <2>1, <2>2, <2>3
<1> QED BY <1>2, <1>5, <1>6, <1>7, <1>8, EndStep

LEMMA OnErrorStep ==
  ASSUME CommittedInv, NEW m \in Mutations, OnError(m)
  PROVE  CommittedInv'
<1>1. CacheTypes /\ board \in Boards /\ detail \in [Issues -> Statuses]
  BY DEF CommittedInv, CacheTypes
<1>2. m \in InFlight /\ mut[m] \in MutationRec
  BY <1>1, InFlightTyped DEF OnError, InFlight
<1>3. PICK i \in Issues : i = mut[m].issue
  BY <1>2 DEF MutationRec
<1>4. /\ mut' = [Moved EXCEPT ![m] = Idle] /\ UNCHANGED <<serverVars, pending, overlapped>>
      /\ board' = mut[m].board \/ (board' = board /\ ~Loaded(mut[m].board, i))
      /\ detail' = IF mut[m].detail = Nothing THEN detail
                   ELSE [detail EXCEPT ![i] = mut[m].detail]
  BY <1>3 DEF OnError
<1>5. board' \in Boards /\ detail' \in [Issues -> Statuses]
  BY <1>1, <1>2, <1>4 DEF MutationRec
<1>6. ASSUME ~overlapped, NEW j \in Issues
      PROVE  Buckets(board', j) \subseteq committed[j] /\ detail'[j] \in committed[j] \cup {Nothing}
  <2>1. /\ Buckets(board, j) \subseteq committed[j] \cup OnBoard(j, m)
        /\ detail[j] \in committed[j] \cup {Nothing} \cup OnDetail(j, m)
        /\ Buckets(mut[m].board, j) \subseteq committed[j]
        /\ mut[m].detail \in committed[i] \cup {Nothing}
    BY <1>2, <1>3, <1>6 DEF CommittedInv, AsksOnly
  <2>2. /\ ~Loaded(mut[m].board, i) => OnBoard(j, m) = {}
        /\ mut[m].detail = Nothing \/ j # i => OnDetail(j, m) = {}
    BY <1>3 DEF OnBoard, OnDetail
  <2>3. Buckets(board', j) \subseteq committed[j]
    BY <1>4, <2>1, <2>2
  <2>4. detail'[j] \in committed[j] \cup {Nothing}
    BY <1>1, <1>4, <2>1, <2>2
  <2> QED BY <2>3, <2>4
<1> QED BY <1>2, <1>4, <1>5, <1>6, EndStep

-----------------------------------------------------------------------------
(* Events and refetches *)

LEMMA RefreshStep ==
  ASSUME CommittedInv, UNCHANGED <<serverVars, overlapped>>, pending' \subseteq pending,
         mut' = mut \/ mut' = Moved, board' \in Boards, detail' \in [Issues -> Statuses],
         \A j \in Issues : /\ Buckets(board', j) \subseteq Buckets(board, j) \cup committed[j]
                           /\ detail'[j] \in {detail[j], Nothing} \cup committed[j]
  PROVE  CommittedInv'
<1>1. CacheTypes /\ ServerTrue /\ UNCHANGED <<server, committed, writes, last, overlapped>>
  BY DEF CommittedInv, serverVars
<1>2. /\ mut' \in [Mutations -> MutationRec \cup {Idle}]
      /\ \A m \in Mutations :
           /\ mut'[m].issue = mut[m].issue /\ mut'[m].to = mut[m].to
           /\ mut'[m].phase = mut[m].phase /\ mut'[m].board = mut[m].board
           /\ mut'[m].detail = mut[m].detail
  <2>1. CASE mut' = mut
    BY <1>1, <2>1 DEF CacheTypes
  <2>2. CASE mut' = Moved
    BY <1>1, <2>2, MovedTyped
  <2> QED BY <2>1, <2>2
<1>3. CacheTypes'
  BY <1>1, <1>2 DEF CacheTypes
<1>4. CommitsStay /\ MutationsStay /\ ShowsNoMore
  BY <1>1, <1>2 DEF CommitsStay, MutationsStay, ShowsNoMore
<1>5. ServerTrue'
  BY <1>1, <1>2, <1>4, ServerStaysTrue DEF ServerTrue
<1> QED BY <1>1, <1>3, <1>4, <1>5, Stays

LEMMA DeliverEventStep ==
  ASSUME CommittedInv, NEW e \in pending, DeliverEvent(e)
  PROVE  CommittedInv'
<1>1. CacheTypes /\ ServerTrue /\ board \in Boards /\ detail \in [Issues -> Statuses]
  BY DEF CommittedInv, CacheTypes
<1>2. PICK i \in Issues, to \in PaginatedStatuses \cup {Gone} :
        i = e.issue /\ to = e.to /\ to \in committed[i] \cup {Gone}
        /\ e.kind \in {"created", "updated", "deleted"} /\ (e.kind # "deleted" => to # Gone)
  BY <1>1 DEF CacheTypes, EventRec, ServerTrue
<1>3. UNCHANGED <<serverVars, overlapped>> /\ pending' \subseteq pending /\ mut' = Moved
  BY DEF DeliverEvent
<1>4. /\ board' \in Boards /\ detail' \in [Issues -> Statuses]
      /\ \A j \in Issues : /\ Buckets(board', j) \subseteq Buckets(board, j) \cup committed[j]
                           /\ detail'[j] \in {detail[j], Nothing} \cup committed[j]
  <2>1. CASE e.kind = "created"
    <3>1. board' = AddIssue(board, i, to) /\ detail' = detail
      BY <1>2, <2>1 DEF DeliverEvent
    <3>2. to \in PaginatedStatuses /\ to \in committed[i]
      BY <1>2, <2>1
    <3>3. /\ board' \in Boards
          /\ \A j \in Issues : Buckets(board', j)
                                 \subseteq Buckets(board, j) \cup (IF j = i THEN {to} ELSE {})
      BY <1>1, <3>1, <3>2, CardComes
    <3> QED BY <1>1, <3>1, <3>2, <3>3
  <2>2. CASE e.kind = "updated"
    <3>1. board' = Reconciled(board, i, to, TRUE, detail[i]) /\ PatchDetail(i, to)
      BY <1>2, <2>2 DEF DeliverEvent
    <3>2. to \in PaginatedStatuses /\ to \in committed[i] /\ detail[i] \in Statuses
      BY <1>1, <1>2, <2>2
    <3>3. /\ board' \in Boards
          /\ \A j \in Issues : Buckets(board', j) \subseteq
               Buckets(board, j) \cup (IF j = i /\ Loaded(board, i) THEN {to} ELSE {})
      BY <1>1, <3>1, <3>2, ChangeMoves
    <3>4. /\ detail' \in [Issues -> Statuses]
          /\ \A j \in Issues : detail'[j] \in {detail[j]} \cup committed[j]
      BY <1>1, <3>1, <3>2 DEF PatchDetail, Statuses
    <3> QED BY <3>2, <3>3, <3>4
  <2>3. CASE e.kind = "deleted"
    <3>1. board' = RemoveIssue(board, i) /\ detail' = [detail EXCEPT ![i] = Nothing]
      BY <1>2, <2>3 DEF DeliverEvent
    <3>2. board' \in Boards /\ \A j \in Issues : Buckets(board', j) \subseteq Buckets(board, j)
      BY <1>1, <3>1, CardGoes
    <3> QED BY <1>1, <3>1, <3>2 DEF Statuses
  <2> QED BY <1>2, <2>1, <2>2, <2>3
<1> QED BY <1>3, <1>4, RefreshStep

LEMMA FetchLandsStep ==
  ASSUME CommittedInv, FetchLands
  PROVE  CommittedInv'
<1>1. CacheTypes /\ ServerTrue
  BY DEF CommittedInv
<1>2. /\ board' = [s \in PaginatedStatuses |-> ServerPage(s)] /\ mut' = Moved
      /\ UNCHANGED <<serverVars, pending, detail, overlapped>>
  BY DEF FetchLands, Lands
<1>3. board' \in Boards /\ \A j \in Issues : Buckets(board', j) \subseteq {server[j]} \ {Gone}
  BY <1>1, <1>2, PagesAreTrue
<1>4. /\ detail' \in [Issues -> Statuses]
      /\ \A j \in Issues : /\ Buckets(board', j) \subseteq Buckets(board, j) \cup committed[j]
                           /\ detail'[j] \in {detail[j], Nothing} \cup committed[j]
  BY <1>1, <1>2, <1>3 DEF CacheTypes, ServerTrue
<1> QED BY <1>2, <1>3, <1>4, RefreshStep

LEMMA DetailLandsStep ==
  ASSUME CommittedInv, NEW i \in Issues, DetailLands(i)
  PROVE  CommittedInv'
<1>1. CacheTypes /\ ServerTrue
  BY DEF CommittedInv
<1>2. /\ detail' = [detail EXCEPT ![i] = server[i]] /\ mut' = Moved /\ server[i] # Gone
      /\ UNCHANGED <<serverVars, pending, board, overlapped>>
  BY DEF DetailLands, Lands
<1>3. server[i] \in committed[i] /\ server[i] \in Statuses
  BY <1>1, <1>2 DEF ServerTrue, CacheTypes, Statuses
<1>4. /\ board' \in Boards /\ detail' \in [Issues -> Statuses]
      /\ \A j \in Issues : /\ Buckets(board', j) \subseteq Buckets(board, j) \cup committed[j]
                           /\ detail'[j] \in {detail[j], Nothing} \cup committed[j]
  BY <1>1, <1>2, <1>3 DEF CacheTypes
<1> QED BY <1>2, <1>4, RefreshStep

(* the cache is left alone *)
LEMMA QuietStep ==
  ASSUME CommittedInv, UNCHANGED <<serverVars, board, detail, mut, overlapped>>,
         pending' \subseteq pending
  PROVE  CommittedInv'
<1>1. /\ board' \in Boards /\ detail' \in [Issues -> Statuses]
      /\ \A j \in Issues : /\ Buckets(board', j) \subseteq Buckets(board, j) \cup committed[j]
                           /\ detail'[j] \in {detail[j], Nothing} \cup committed[j]
  BY DEF CommittedInv, CacheTypes
<1> QED BY <1>1, RefreshStep

-----------------------------------------------------------------------------
LEMMA CommittedInit == CacheInit => CommittedInv
<1> SUFFICES ASSUME CacheInit PROVE CommittedInv
  OBVIOUS
<1>1. /\ server \in [Issues -> PaginatedStatuses \cup {Gone}]
      /\ committed = [i \in Issues |-> {server[i]} \ {Gone}] /\ pending = {}
      /\ mut = [m \in Mutations |-> Idle] /\ InFlight = {}
  BY CacheAssumption DEF CacheInit, InFlight, Idle
<1>2. /\ detail \in [Issues -> Statuses]
      /\ \A i \in Issues : detail[i] \in {server[i], Nothing} /\ detail[i] # Gone
  BY <1>1, Names DEF CacheInit, Statuses
<1>3. \A i \in Issues : committed[i] = {server[i]} \ {Gone}
  BY <1>1
<1>4. ASSUME NEW s \in PaginatedStatuses
      PROVE  ServerPage(s) \in [cards : SUBSET Issues, total : Nat]
               /\ ServerPage(s).cards = FirstPage(s)
  <2>1. On(s) \subseteq Issues /\ FirstPage(s) \subseteq Issues
    BY DEF On, FirstPage
  <2>2. Cardinality(On(s)) \in Nat
    BY <2>1, CacheAssumption, FS_Subset, FS_CardinalityType
  <2> QED BY <2>1, <2>2 DEF ServerPage
<1>5. board = [s \in PaginatedStatuses |-> ServerPage(s)]
  BY DEF CacheInit
<1>6. CacheTypes
  BY <1>1, <1>2, <1>4, <1>5 DEF CacheTypes, CacheInit, Boards
<1>7. \A i \in Issues : Buckets(board, i) \subseteq {server[i]} \ {Gone}
  BY <1>5, <1>6, PagesAreTrue
<1>8. ServerTrue
  BY <1>1, <1>3 DEF ServerTrue
<1>9. AsksOnly
  BY <1>1, <1>2, <1>3, <1>7 DEF AsksOnly
<1> QED BY <1>6, <1>8, <1>9 DEF CommittedInv

LEMMA CommittedStep == CommittedInv /\ [CacheNext]_cacheVars => CommittedInv'
<1> SUFFICES ASSUME CommittedInv, [CacheNext]_cacheVars PROVE CommittedInv'
  OBVIOUS
<1>1. ASSUME NEW i \in Issues, NEW v \in PaginatedStatuses \cup {Gone}, RemoteWrite(i, v)
      PROVE  CommittedInv'
  BY <1>1, RemoteWriteStep
<1>2. ASSUME NEW m \in Mutations, NEW i \in Issues, OnMutateDelete(m, i)
      PROVE  CommittedInv'
  BY <1>2, OnMutateDeleteStep
<1>3. ASSUME NEW m \in Mutations, NEW i \in Issues, NEW to \in PaginatedStatuses,
             OnMutateUpdate(m, i, to)
      PROVE  CommittedInv'
  BY <1>3, OnMutateUpdateStep
<1>4. ASSUME NEW m \in Mutations, Serve(m) \/ OnSuccess(m) \/ OnError(m)
      PROVE  CommittedInv'
  BY <1>4, ServeStep, OnSuccessStep, OnErrorStep
<1>5. ASSUME NEW e \in pending, DeliverEvent(e)
      PROVE  CommittedInv'
  BY <1>5, DeliverEventStep
<1>6. CASE Reconnect
  BY <1>6, QuietStep DEF Reconnect
<1>7. ASSUME NEW i \in Issues, DetailLands(i) \/ DetailFails(i)
      PROVE  CommittedInv'
  <2>1. CASE DetailLands(i)
    BY <2>1, DetailLandsStep
  <2>2. CASE DetailFails(i)
    BY <2>2, QuietStep DEF DetailFails
  <2> QED BY <1>7, <2>1, <2>2
<1>8. CASE FetchLands
  BY <1>8, FetchLandsStep
<1>9. CASE FetchFails
  BY <1>9, QuietStep DEF FetchFails
<1>10. CASE UNCHANGED cacheVars
  BY <1>10, QuietStep DEF cacheVars, serverVars
<1> QED BY <1>1, <1>2, <1>3, <1>4, <1>5, <1>6, <1>7, <1>8, <1>9, <1>10 DEF CacheNext

LEMMA CommittedShows == CommittedInv => ShowsCommitted
<1> SUFFICES ASSUME CommittedInv, InFlight = {}, ~overlapped, NEW i \in Issues
             PROVE  Buckets(board, i) \cup ({detail[i]} \ {Nothing}) \subseteq committed[i]
  BY DEF ShowsCommitted
<1>1. Buckets(board, i) \subseteq committed[i] /\ detail[i] \in committed[i] \cup {Nothing}
  BY DEF CommittedInv, AsksOnly
<1> QED BY <1>1

(* For any number of issues, statuses, writes and mutations, and any window: whatever is
   lost, reordered, refused or overtaken, a tab whose mutations never overlapped and which
   waits for no answer shows no card and no detail in a status the server has never
   committed: the optimistic patch, its rollback, the echo of the event and the refetches
   (applyIssueChange, onMutate, onError, onSuccess and the websocket handlers) leave
   nothing of a refused change behind. *)
THEOREM SettledTabIsTrue == CacheSpec => []ShowsCommitted
<1>1. CacheSpec => []CommittedInv
  BY CommittedInit, CommittedStep, PTL DEF CacheSpec
<1> QED BY <1>1, CommittedShows, PTL

-----------------------------------------------------------------------------
(***************************************************************************)
(* IssueCache: once nothing is in flight, the board is that of the server. *)
(***************************************************************************)

(* the event that would correct an issue is on its way; an event that says s is *)
Newest(i) == \E e \in pending : e.issue = i /\ e.n = last[i]
Announced(i, s) == \E e \in pending : e.issue = i /\ e.to = s
Known(i) == server[i] # Gone \/ last[i] # 0

(* the events of an issue are numbered by its commits; it is created once *)
EventsOK ==
  /\ \A i \in Issues : last[i] <= writes
  /\ \A e \in pending : /\ 1 <= e.n /\ e.n <= last[e.issue]
                        /\ e.n = last[e.issue] => e.to = server[e.issue]
  /\ \A e, f \in pending :
       e.kind = "created" /\ f.kind = "created" /\ e.issue = f.issue => e = f
AnswerOK(m) ==
  /\ mut[m].n <= writes /\ (mut[m].to = Gone => mut[m].stale)
  /\ mut[m].phase = "ok" /\ mut[m].n = last[mut[m].issue] => mut[m].to = server[mut[m].issue]
AnswersOK == \A m \in InFlight : AnswerOK(m)

(* a tab knows only of issues that were created *)
KnownMutation(m) ==
  Known(mut[m].issue) /\ \A i \in Issues : Loaded(mut[m].board, i) => Known(i)
KnownInv ==
  /\ \A i \in Issues : Loaded(board, i) \/ detail[i] # Nothing => Known(i)
  /\ \A m \in InFlight : KnownMutation(m)
  /\ dfetch \subseteq Issues /\ \A i \in dfetch : detail[i] # Nothing

(* after a reconnect that has lost everything, what has been refetched is true *)
RepairInv ==
  repair => /\ pending = {} /\ InFlight = {}
            /\ fetch \/ board = [s \in PaginatedStatuses |-> ServerPage(s)]
            /\ \A i \in Issues \ dfetch : detail[i] \in {server[i], Nothing}

BoardFacts == CommittedInv /\ EventsOK /\ AnswersOK /\ KnownInv /\ RepairInv

-----------------------------------------------------------------------------
(* What the board and its totals say: there is a column for every issue, that of its card if
   it is loaded, that the totals count.  It is the column of the server, or one that an
   event on its way will correct. *)
Columns == [Issues -> PaginatedStatuses \cup {Gone}]
InColumn(B, s) == {i \in Issues : B[i] = s}
Counts(b, B) ==
  \A s \in PaginatedStatuses : /\ b[s].total = Cardinality(InColumn(B, s))
                               /\ \A i \in b[s].cards : B[i] = s
Right(b, B, i, x) ==
  \/ B[i] = server[i] \/ Announced(i, B[i])
  \/ Newest(i) /\ (Loaded(b, i) \/ x \in {Nothing, B[i]})
Explains(b, B) ==
  /\ Counts(b, B)
  /\ \A e \in pending : e.kind = "created" => B[e.issue] = Gone
  /\ \A i \in dfetch : Loaded(b, i) \/ B[i] = server[i]
Fine(b, d) == \E B \in Columns : Explains(b, B) /\ \A i \in Issues : Right(b, B, i, d[i])

(* the issue of a mutation in flight: its answer or its event must set right what is not *)
RightUnder(m, B) ==
  LET i == mut[m].issue  to == mut[m].to  x == detail[i] IN
  \/ Loaded(board, i) \/ x \notin {Nothing, to}
  \/ IF mut[m].phase = "sent" /\ x = to THEN B[i] = to \/ Announced(i, B[i])
     ELSE Right(board, B, i, x)
FineUnder(m) ==
  \E B \in Columns : /\ Explains(board, B) /\ RightUnder(m, B)
                     /\ \A i \in Issues \ {mut[m].issue} : Right(board, B, i, detail[i])
Restored(m) == [detail EXCEPT ![mut[m].issue] = mut[m].detail]

(* no refetch of the board is under way or to come *)
Clean == ~fetch /\ \A m \in InFlight : ~mut[m].stale
BoardInv ==
  Clean => /\ InFlight = {} => Fine(board, detail)
           /\ \A m \in InFlight : /\ mut[m].phase # "failed" => FineUnder(m)
                                  /\ ~mut[m].moved => Fine(mut[m].board, Restored(m))

DetailOK(i, x) == x \in {server[i], Nothing} \/ Newest(i)
Asked(i, m) ==
  /\ mut[m].issue = i /\ mut[m].phase # "ok" /\ detail[i] = mut[m].to
  /\ Loaded(mut[m].board, i) \/ mut[m].stale
DetailInv == \A i \in Issues : DetailOK(i, detail[i]) \/ \E m \in InFlight : Asked(i, m)
SnapshotInv ==
  \A m \in InFlight : ~mut[m].moved =>
    /\ DetailOK(mut[m].issue, mut[m].detail)
    /\ mut[m].detail = Nothing => detail[mut[m].issue] = Nothing
    /\ ~mut[m].stale /\ ~Loaded(mut[m].board, mut[m].issue) => board = mut[m].board

(* an issue whose creation is still to be heard of is nowhere in the cache *)
CreatedInv ==
  \A e \in pending : e.kind = "created" =>
    /\ detail[e.issue] = Nothing /\ ~Loaded(board, e.issue)
    /\ \A m \in InFlight : mut[m].issue # e.issue /\ ~Loaded(mut[m].board, e.issue)
OneMutation == \A m, k \in InFlight : m = k

Tidy == OneMutation /\ DetailInv /\ SnapshotInv /\ CreatedInv /\ BoardInv
TidyInv == BoardFacts /\ (~raced => Tidy)

-----------------------------------------------------------------------------
(* Counting *)

LEMMA ColumnsFinite ==
  ASSUME NEW B \in Columns, NEW s
  PROVE  IsFiniteSet(InColumn(B, s)) /\ Cardinality(InColumn(B, s)) \in Nat
BY CacheAssumption, FS_Subset, FS_CardinalityType DEF InColumn

LEMMA ColumnGrows ==
  ASSUME NEW B \in Columns, NEW C \in Columns, NEW i \in Issues, NEW to,
         B[i] # to, C[i] = to, \A j \in Issues \ {i} : C[j] = B[j]
  PROVE  /\ Cardinality(InColumn(C, to)) = Cardinality(InColumn(B, to)) + 1
         /\ Cardinality(InColumn(B, B[i])) # 0
         /\ Cardinality(InColumn(C, B[i])) = Cardinality(InColumn(B, B[i])) - 1
         /\ \A s : s \notin {to, B[i]} => InColumn(C, s) = InColumn(B, s)
<1>1. InColumn(C, to) = InColumn(B, to) \cup {i} /\ i \notin InColumn(B, to)
  BY DEF InColumn
<1>2. InColumn(C, B[i]) = InColumn(B, B[i]) \ {i} /\ i \in InColumn(B, B[i])
  BY DEF InColumn
<1>3. Cardinality(InColumn(C, to)) = Cardinality(InColumn(B, to)) + 1
  BY <1>1, ColumnsFinite, FS_AddElement
<1>4. Cardinality(InColumn(C, B[i])) = Cardinality(InColumn(B, B[i])) - 1
  BY <1>2, ColumnsFinite, FS_RemoveElement
<1>5. Cardinality(InColumn(B, B[i])) # 0
  BY <1>4, ColumnsFinite
<1>6. \A s : s \notin {to, B[i]} => InColumn(C, s) = InColumn(B, s)
  BY DEF InColumn
<1> QED BY <1>3, <1>4, <1>5, <1>6

LEMMA LocationOf ==
  ASSUME NEW b \in Boards, NEW B \in Columns, Counts(b, B), NEW i \in Issues, Loaded(b, i)
  PROVE  FindIssueLocation(b, i) = B[i] /\ B[i] \in PaginatedStatuses /\ i \in b[B[i]].cards
<1>1. \A s \in Buckets(b, i) : s = B[i]
  BY DEF Buckets, Counts
<1>2. Buckets(b, i) = {B[i]} /\ B[i] \in PaginatedStatuses /\ i \in b[B[i]].cards
  BY <1>1 DEF Loaded, Buckets
<1>3. \A s \in PaginatedStatuses : s <= s
  <2>1. PaginatedStatuses \subseteq Nat
    BY CacheAssumption
  <2> QED BY <2>1
<1> QED BY <1>2, <1>3 DEF FindIssueLocation

LEMMA PatchCounts ==
  ASSUME NEW b \in Boards, NEW B \in Columns, Counts(b, B), NEW i \in Issues, Loaded(b, i),
         NEW to \in PaginatedStatuses
  PROVE  /\ Counts(PatchIssue(b, i, to), [B EXCEPT ![i] = to])
         /\ \A j \in Issues : Loaded(PatchIssue(b, i, to), j) <=> Loaded(b, j)
<1>1. FindIssueLocation(b, i) = B[i] /\ B[i] \in PaginatedStatuses /\ i \in b[B[i]].cards
  BY LocationOf
<1>2. CASE B[i] = to
  <2>1. PatchIssue(b, i, to) = b /\ [B EXCEPT ![i] = to] = B
    BY <1>1, <1>2 DEF PatchIssue, Columns
  <2> QED BY <2>1
<1>3. CASE B[i] # to
  <2>1. PICK from : from = B[i]
    OBVIOUS
  <2>2. PICK x : x = [cards |-> b[from].cards \ {i}, total |-> Less(b[from].total)]
    OBVIOUS
  <2>3. PICK y : y = [cards |-> b[to].cards \cup {i}, total |-> b[to].total + 1]
    OBVIOUS
  <2>4. PICK c : c = PatchIssue(b, i, to)
    OBVIOUS
  <2>5. PICK C : C = [B EXCEPT ![i] = to]
    OBVIOUS
  <2>6. c = [b EXCEPT ![from] = x, ![to] = y]
    BY <1>1, <1>3, <2>1, <2>2, <2>3, <2>4 DEF PatchIssue
  <2>7. \A s \in PaginatedStatuses : c[s] = IF s = to THEN y ELSE IF s = from THEN x ELSE b[s]
    BY <2>6 DEF Boards
  <2>8. C \in Columns /\ C[i] = to /\ \A j \in Issues \ {i} : C[j] = B[j]
    BY <2>5 DEF Columns
  <2>9. /\ Cardinality(InColumn(C, to)) = Cardinality(InColumn(B, to)) + 1
        /\ Cardinality(InColumn(B, from)) # 0
        /\ Cardinality(InColumn(C, from)) = Cardinality(InColumn(B, from)) - 1
        /\ \A s : s \notin {to, from} => InColumn(C, s) = InColumn(B, s)
    BY <1>3, <2>1, <2>8, ColumnGrows
  <2>10. ASSUME NEW s \in PaginatedStatuses
         PROVE  c[s].total = Cardinality(InColumn(C, s)) /\ \A j \in c[s].cards : C[j] = s
    <3>1. b[s].total = Cardinality(InColumn(B, s)) /\ \A j \in b[s].cards : B[j] = s /\ j \in Issues
      BY DEF Counts, Boards
    <3>2. CASE s = to
      BY <2>3, <2>7, <2>8, <2>9, <3>1, <3>2
    <3>3. CASE s = from /\ s # to
      BY <2>1, <2>2, <2>7, <2>8, <2>9, <3>1, <3>3 DEF Less
    <3>4. CASE s \notin {to, from}
      <4>1. c[s] = b[s] /\ i \notin b[s].cards
        BY <2>1, <2>7, <3>1, <3>4
      <4> QED BY <2>8, <2>9, <3>1, <3>4, <4>1
    <3> QED BY <3>2, <3>3, <3>4
  <2>11. ASSUME NEW j \in Issues PROVE Loaded(c, j) <=> Loaded(b, j)
    <3>1. CASE j = i
      BY <2>3, <2>7, <3>1 DEF Loaded, Buckets
    <3>2. CASE j # i
      <4>1. \A s \in PaginatedStatuses : j \in c[s].cards <=> j \in b[s].cards
        BY <2>1, <2>2, <2>3, <2>7, <3>2
      <4> QED BY <4>1 DEF Loaded, Buckets
    <3> QED BY <3>1, <3>2
  <2> QED BY <2>4, <2>5, <2>10, <2>11 DEF Counts
<1> QED BY <1>2, <1>3

LEMMA AddCounts ==
  ASSUME NEW b \in Boards, NEW B \in Columns, Counts(b, B), NEW i \in Issues, ~Loaded(b, i),
         NEW to \in PaginatedStatuses, B[i] = Gone
  PROVE  /\ Counts(AddIssue(b, i, to), [B EXCEPT ![i] = to])
         /\ \A j \in Issues : Loaded(AddIssue(b, i, to), j) <=> Loaded(b, j) \/ j = i
<1>1. PICK y : y = [cards |-> b[to].cards \cup {i}, total |-> b[to].total + 1]
  OBVIOUS
<1>2. PICK c : c = AddIssue(b, i, to)
  OBVIOUS
<1>3. PICK C : C = [B EXCEPT ![i] = to]
  OBVIOUS
<1>4. i \notin b[to].cards
  BY DEF Loaded, Buckets
<1>5. \A s \in PaginatedStatuses : c[s] = IF s = to THEN y ELSE b[s]
  BY <1>1, <1>2, <1>4 DEF AddIssue, Boards
<1>6. C \in Columns /\ C[i] = to /\ \A j \in Issues \ {i} : C[j] = B[j]
  BY <1>3 DEF Columns
<1>7. /\ Cardinality(InColumn(C, to)) = Cardinality(InColumn(B, to)) + 1
      /\ \A s : s \notin {to, Gone} => InColumn(C, s) = InColumn(B, s)
  BY <1>6, ColumnGrows, Names
<1>8. ASSUME NEW s \in PaginatedStatuses
      PROVE  c[s].total = Cardinality(InColumn(C, s)) /\ \A j \in c[s].cards : C[j] = s
  <2>1. /\ b[s].total = Cardinality(InColumn(B, s))
        /\ \A j \in b[s].cards : B[j] = s /\ j \in Issues /\ j # i
    BY Names DEF Counts, Boards
  <2>2. CASE s = to
    BY <1>1, <1>5, <1>6, <1>7, <2>1, <2>2
  <2>3. CASE s # to
    <3>1. s # Gone
      BY Names
    <3> QED BY <1>5, <1>6, <1>7, <2>1, <2>3, <3>1
  <2> QED BY <2>2, <2>3
<1>9. ASSUME NEW j \in Issues PROVE Loaded(c, j) <=> Loaded(b, j) \/ j = i
  BY <1>1, <1>5 DEF Loaded, Buckets
<1> QED BY <1>2, <1>3, <1>8, <1>9 DEF Counts

LEMMA PageCounts ==
  ASSUME CacheTypes, NEW c, c = [s \in PaginatedStatuses |-> ServerPage(s)]
  PROVE  Counts(c, server) /\ server \in Columns
<1>1. \A s \in PaginatedStatuses : c[s].total = Cardinality(On(s)) /\ c[s].cards = FirstPage(s)
  BY DEF ServerPage
<1>2. \A s : InColumn(server, s) = On(s) /\ FirstPage(s) \subseteq On(s)
  BY DEF InColumn, On, FirstPage
<1> QED BY <1>1, <1>2 DEF Counts, CacheTypes, Columns, On

-----------------------------------------------------------------------------
(* What is true of every step *)

SameMutation(m) ==
  /\ mut'[m].issue = mut[m].issue /\ mut'[m].to = mut[m].to /\ mut'[m].phase = mut[m].phase
  /\ mut'[m].n = mut[m].n /\ mut'[m].board = mut[m].board /\ mut'[m].detail = mut[m].detail
  /\ mut'[m].stale = mut[m].stale
SameMutations == \A m \in Mutations : SameMutation(m)

LEMMA MovedIsSame ==
  ASSUME CacheTypes
  PROVE  \A m \in Mutations :
           /\ Moved[m].issue = mut[m].issue /\ Moved[m].to = mut[m].to
           /\ Moved[m].phase = mut[m].phase /\ Moved[m].n = mut[m].n
           /\ Moved[m].board = mut[m].board /\ Moved[m].detail = mut[m].detail
           /\ Moved[m].stale = mut[m].stale /\ (m \in InFlight => Moved[m].moved)
<1> SUFFICES ASSUME NEW m \in Mutations
             PROVE  /\ Moved[m].issue = mut[m].issue /\ Moved[m].to = mut[m].to
                    /\ Moved[m].phase = mut[m].phase /\ Moved[m].n = mut[m].n
                    /\ Moved[m].board = mut[m].board /\ Moved[m].detail = mut[m].detail
                    /\ Moved[m].stale = mut[m].stale /\ (m \in InFlight => Moved[m].moved)
  OBVIOUS
<1>1. CASE m \notin InFlight
  BY <1>1 DEF Moved, InFlight
<1>2. CASE m \in InFlight
  <2>1. PICK k : k = [mut[m] EXCEPT !.moved = TRUE]
    OBVIOUS
  <2>2. Moved[m] = k /\ mut[m] \in MutationRec
    BY <1>2, <2>1, InFlightTyped DEF Moved, InFlight
  <2>3. k.issue = mut[m].issue /\ k.to = mut[m].to /\ k.phase = mut[m].phase /\ k.n = mut[m].n
    BY <2>1, <2>2 DEF MutationRec
  <2>4. k.board = mut[m].board /\ k.detail = mut[m].detail /\ k.stale = mut[m].stale /\ k.moved
    BY <2>1, <2>2 DEF MutationRec
  <2> QED BY <2>2, <2>3, <2>4
<1> QED BY <1>1, <1>2

LEMMA MovedSame ==
  ASSUME CacheTypes, mut' = Moved
  PROVE  /\ SameMutations /\ InFlight' = InFlight /\ \A m \in InFlight : mut'[m].moved
<1>1. SameMutations
  BY MovedIsSame DEF SameMutations, SameMutation
<1>2. InFlight' = InFlight
  BY <1>1 DEF SameMutations, SameMutation, InFlight
<1>3. \A m \in InFlight : mut'[m].moved
  BY MovedIsSame, InFlightTyped
<1> QED BY <1>1, <1>2, <1>3

LEMMA CommitMoves ==
  ASSUME CacheTypes, NEW i \in Issues, NEW v \in PaginatedStatuses \cup {Gone}, Commit(i, v)
  PROVE  /\ \A j \in Issues : /\ server'[j] = IF j = i THEN v ELSE server[j]
                              /\ last'[j] = IF j = i THEN writes' ELSE last[j]
         /\ writes' = writes + 1 /\ server[i] # v
         /\ \E e \in EventRec : /\ e.n = writes' /\ e.issue = i /\ e.to = v
                                /\ e.kind = "created" <=> server[i] = Gone
                                /\ pending' = pending \cup {e}
<1>1. /\ server' = [server EXCEPT ![i] = v] /\ writes' = writes + 1 /\ server[i] # v
      /\ last' = [last EXCEPT ![i] = writes']
  BY DEF Commit
<1>2. PICK kind : kind = CASE server[i] = Gone -> "created" [] v = Gone -> "deleted"
                           [] OTHER -> "updated"
  OBVIOUS
<1>3. kind \in {"created", "updated", "deleted"} /\ (kind = "created" <=> server[i] = Gone)
  BY <1>1, <1>2
<1>4. PICK e : e = [n |-> writes', issue |-> i, to |-> v, kind |-> kind]
  OBVIOUS
<1>5. pending' = pending \cup {e}
  BY <1>2, <1>4 DEF Commit
<1>6. writes' \in Nat
  BY <1>1 DEF CacheTypes
<1>7. e \in EventRec /\ e.n = writes' /\ e.issue = i /\ e.to = v /\ e.kind = kind
  BY <1>3, <1>4, <1>6 DEF EventRec
<1>8. \A j \in Issues : /\ server'[j] = IF j = i THEN v ELSE server[j]
                        /\ last'[j] = IF j = i THEN writes' ELSE last[j]
  BY <1>1 DEF CacheTypes
<1> QED BY <1>1, <1>3, <1>5, <1>7, <1>8

LEMMA EventsTyped ==
  ASSUME CacheTypes
  PROVE  \A e \in pending : e \in EventRec /\ e.issue \in Issues /\ e.n \in Nat
BY DEF CacheTypes, EventRec

LEMMA CommitEvents ==
  ASSUME CacheTypes, EventsOK, NEW i \in Issues, NEW v \in PaginatedStatuses \cup {Gone},
         Commit(i, v), server[i] = Gone => last[i] = 0
  PROVE  EventsOK'
<1>1. PICK e \in EventRec : /\ e.n = writes' /\ e.issue = i /\ e.to = v
                            /\ e.kind = "created" <=> server[i] = Gone
                            /\ pending' = pending \cup {e}
  BY CommitMoves
<1>2. /\ \A j \in Issues : /\ server'[j] = IF j = i THEN v ELSE server[j]
                           /\ last'[j] = IF j = i THEN writes' ELSE last[j]
      /\ writes' = writes + 1 /\ writes \in Nat /\ last \in [Issues -> Nat]
  BY CommitMoves DEF CacheTypes
<1>3. \A j \in Issues : last'[j] <= writes'
  BY <1>2 DEF EventsOK
<1>4. ASSUME NEW f \in pending'
      PROVE  1 <= f.n /\ f.n <= last'[f.issue] /\ (f.n = last'[f.issue] => f.to = server'[f.issue])
  <2>1. CASE f = e
    BY <1>1, <1>2, <2>1
  <2>2. CASE f \in pending
    <3>1. /\ f.issue \in Issues /\ f.n \in Nat /\ 1 <= f.n /\ f.n <= last[f.issue]
          /\ last[f.issue] <= writes /\ (f.n = last[f.issue] => f.to = server[f.issue])
      BY <2>2, EventsTyped DEF EventsOK
    <3> QED BY <1>2, <3>1
  <2> QED BY <1>1, <2>1, <2>2
<1>5. ASSUME NEW f \in pending, f.kind = "created", f.issue = i PROVE server[i] # Gone
  <2>1. 1 <= f.n /\ f.n <= last[i] /\ f.n \in Nat /\ last[i] \in Nat
    BY <1>2, <1>5, EventsTyped DEF EventsOK
  <2> QED BY <2>1
<1>6. ASSUME NEW f \in pending', NEW g \in pending', f.kind = "created", g.kind = "created",
             f.issue = g.issue
      PROVE  f = g
  BY <1>1, <1>5, <1>6 DEF EventsOK
<1> QED BY <1>3, <1>4, <1>6 DEF EventsOK

LEMMA EventsStay ==
  ASSUME CacheTypes, EventsOK, UNCHANGED <<server, writes, last>>, pending' \subseteq pending
  PROVE  EventsOK'
<1>1. \A f \in pending' : f \in pending
  OBVIOUS
<1> QED BY <1>1 DEF EventsOK

(* an answer is about a commit that was, and the numbers of commits go up *)
LEMMA AnswersStay ==
  ASSUME CacheTypes, EventsOK, AnswersOK, writes' \in Nat, writes <= writes',
         \A i \in Issues : \/ last'[i] = last[i] /\ server'[i] = server[i]
                           \/ last'[i] > writes,
         \A m \in InFlight' : SameMutation(m) \/ AnswerOK(m)'
  PROVE  AnswersOK'
<1>1. ASSUME NEW m \in InFlight', SameMutation(m) PROVE AnswerOK(m)'
  <2>1. m \in InFlight
    BY <1>1 DEF InFlight, SameMutation
  <2>2. mut[m].issue \in Issues /\ mut[m].n \in Nat /\ writes \in Nat
    BY <2>1, InFlightTyped DEF MutationRec, CacheTypes
  <2>3. /\ mut[m].n <= writes /\ (mut[m].to = Gone => mut[m].stale)
        /\ mut[m].phase = "ok" /\ mut[m].n = last[mut[m].issue] => mut[m].to = server[mut[m].issue]
    BY <2>1 DEF AnswersOK, AnswerOK
  <2> QED BY <1>1, <2>2, <2>3 DEF SameMutation, AnswerOK
<1> QED BY <1>1 DEF AnswersOK

LEMMA KnownStays ==
  ASSUME CacheTypes, KnownInv, \A i \in Issues : Known(i) => Known(i)',
         \A i \in Issues : Loaded(board, i)' \/ detail'[i] # Nothing => Known(i)',
         \A m \in InFlight' : SameMutation(m) \/ KnownMutation(m)',
         dfetch' \subseteq Issues, \A i \in dfetch' : detail'[i] # Nothing
  PROVE  KnownInv'
<1>1. ASSUME NEW m \in InFlight', SameMutation(m) PROVE KnownMutation(m)'
  <2>1. m \in InFlight /\ SameMutation(m)
    BY <1>1 DEF InFlight, SameMutation
  <2>2. mut[m].issue \in Issues /\ Known(mut[m].issue)
    BY <2>1, InFlightTyped DEF MutationRec, KnownInv, KnownMutation
  <2>3. Known(mut[m].issue)'
    <3>1. PICK i \in Issues : i = mut[m].issue
      BY <2>2
    <3>2. Known(i)' /\ mut'[m].issue = i
      BY <2>1, <2>2, <3>1 DEF SameMutation
    <3> QED BY <3>2 DEF Known
  <2>4. ASSUME NEW i \in Issues, Loaded(mut[m].board, i)' PROVE Known(i)'
    <3>1. Loaded(mut[m].board, i)
      BY <2>1, <2>4 DEF Loaded, Buckets, SameMutation
    <3> QED BY <2>1, <3>1 DEF KnownInv, KnownMutation
  <2> QED BY <2>3, <2>4 DEF KnownMutation
<1> QED BY <1>1 DEF KnownInv

-----------------------------------------------------------------------------
(* Commits *)

LEMMA CommitKeeps ==
  ASSUME CacheTypes, EventsOK, NEW i \in Issues, NEW v \in PaginatedStatuses \cup {Gone},
         Commit(i, v)
  PROVE  /\ Newest(i)'
         /\ \A j \in Issues : Newest(j) => Newest(j)'
         /\ \A j \in Issues : \A s : Announced(j, s) => Announced(j, s)'
         /\ Announced(i, v)'
<1>1. PICK e \in EventRec : /\ e.n = writes' /\ e.issue = i /\ e.to = v
                            /\ e.kind = "created" <=> server[i] = Gone
                            /\ pending' = pending \cup {e}
  BY CommitMoves
<1>2. /\ \A j \in Issues : /\ server'[j] = IF j = i THEN v ELSE server[j]
                           /\ last'[j] = IF j = i THEN writes' ELSE last[j]
  BY CommitMoves
<1>3. Newest(i)' /\ Announced(i, v)'
  BY <1>1, <1>2 DEF Newest, Announced
<1>4. ASSUME NEW j \in Issues, Newest(j) PROVE Newest(j)'
  BY <1>1, <1>2, <1>3, <1>4 DEF Newest
<1>5. \A j \in Issues : \A s : Announced(j, s) => Announced(j, s)'
  BY <1>1 DEF Announced
<1> QED BY <1>3, <1>4, <1>5

(* the newest event says what the server says *)
LEMMA NewestSays ==
  ASSUME EventsOK, NEW i \in Issues, Newest(i)
  PROVE  Announced(i, server[i])
BY DEF EventsOK, Newest, Announced

LEMMA CommitKeepsDetail ==
  ASSUME CacheTypes, EventsOK, NEW i \in Issues, NEW v \in PaginatedStatuses \cup {Gone},
         Commit(i, v), NEW j \in Issues, NEW x, DetailOK(j, x)
  PROVE  DetailOK(j, x)'
<1>1. /\ Newest(i)' /\ (Newest(j) => Newest(j)')
      /\ server'[j] = IF j = i THEN v ELSE server[j]
  BY CommitKeeps, CommitMoves
<1> QED BY <1>1 DEF DetailOK

LEMMA CommitKeepsRight ==
  ASSUME CacheTypes, EventsOK, NEW i \in Issues, NEW v \in PaginatedStatuses \cup {Gone},
         Commit(i, v), NEW b, NEW B, NEW j \in Issues, NEW x, DetailOK(j, x), Right(b, B, j, x)
  PROVE  Right(b, B, j, x)'
<1>1. /\ Newest(i)' /\ (Newest(j) => Newest(j)')
      /\ server'[j] = IF j = i THEN v ELSE server[j]
      /\ Announced(j, B[j]) => Announced(j, B[j])'
  BY CommitKeeps, CommitMoves
<1>2. Newest(j) => Announced(j, server[j])
  BY NewestSays
<1>3. CASE j # i
  BY <1>1, <1>3 DEF Right, Loaded, Buckets
<1>4. CASE j = i /\ B[i] = server[i]
  BY <1>1, <1>2, <1>4 DEF Right, DetailOK
<1>5. CASE j = i /\ B[i] # server[i]
  BY <1>1, <1>5 DEF Right, Loaded, Buckets
<1> QED BY <1>3, <1>4, <1>5

LEMMA UnknownColumn ==
  ASSUME CacheTypes, EventsOK, NEW i \in Issues, ~Known(i), NEW b, NEW B, NEW x, Right(b, B, i, x)
  PROVE  B[i] = Gone
<1>1. server[i] = Gone /\ last[i] = 0
  BY DEF Known
<1>2. \A e \in pending : e.issue = i => FALSE
  <2>1. \A e \in pending : e.n \in Nat /\ 1 <= e.n /\ e.n <= last[e.issue]
    BY EventsTyped DEF EventsOK
  <2> QED BY <1>1, <2>1
<1> QED BY <1>1, <1>2 DEF Right, Announced, Newest

LEMMA CommitKeepsExplains ==
  ASSUME CacheTypes, EventsOK, NEW i \in Issues, NEW v \in PaginatedStatuses \cup {Gone},
         Commit(i, v), dfetch' = {}, NEW b, NEW B \in Columns, Explains(b, B),
         server[i] = Gone => B[i] = Gone
  PROVE  Explains(b, B)'
<1>1. PICK e \in EventRec : /\ e.n = writes' /\ e.issue = i /\ e.to = v
                            /\ e.kind = "created" <=> server[i] = Gone
                            /\ pending' = pending \cup {e}
  BY CommitMoves
<1> QED BY <1>1 DEF Explains, Counts, InColumn

LEMMA DetailsAreOK ==
  ASSUME CacheTypes, OneMutation, DetailInv
  PROVE  /\ InFlight = {} => \A j \in Issues : DetailOK(j, detail[j])
         /\ \A m \in InFlight :
              /\ \A j \in Issues \ {mut[m].issue} : DetailOK(j, detail[j])
              /\ mut[m].phase # "failed" =>
                   \/ DetailOK(mut[m].issue, detail[mut[m].issue])
                   \/ mut[m].phase = "sent" /\ detail[mut[m].issue] = mut[m].to
              /\ SnapshotInv /\ ~mut[m].moved =>
                   \A j \in Issues : DetailOK(j, Restored(m)[j])
<1>1. InFlight = {} => \A j \in Issues : DetailOK(j, detail[j])
  BY DEF DetailInv
<1> SUFFICES ASSUME NEW m \in InFlight
             PROVE  /\ \A j \in Issues \ {mut[m].issue} : DetailOK(j, detail[j])
                    /\ mut[m].phase # "failed" =>
                         \/ DetailOK(mut[m].issue, detail[mut[m].issue])
                         \/ mut[m].phase = "sent" /\ detail[mut[m].issue] = mut[m].to
                    /\ SnapshotInv /\ ~mut[m].moved =>
                         \A j \in Issues : DetailOK(j, Restored(m)[j])
  BY <1>1
<1>2. mut[m].issue \in Issues /\ mut[m].phase \in {"sent", "ok", "failed"}
  BY InFlightTyped DEF MutationRec
<1>3. \A j \in Issues : DetailOK(j, detail[j]) \/ Asked(j, m)
  BY DEF DetailInv, OneMutation
<1>4. \A j \in Issues \ {mut[m].issue} : DetailOK(j, detail[j])
  BY <1>3 DEF Asked
<1>5. ASSUME mut[m].phase # "failed"
      PROVE  \/ DetailOK(mut[m].issue, detail[mut[m].issue])
             \/ mut[m].phase = "sent" /\ detail[mut[m].issue] = mut[m].to
  BY <1>2, <1>3, <1>5 DEF Asked
<1>6. ASSUME SnapshotInv, ~mut[m].moved, NEW j \in Issues PROVE DetailOK(j, Restored(m)[j])
  <2>1. CASE j = mut[m].issue
    <3>1. Restored(m)[j] = mut[m].detail
      BY <1>2, <2>1 DEF Restored, CacheTypes
    <3> QED BY <1>6, <2>1, <3>1 DEF SnapshotInv
  <2>2. CASE j # mut[m].issue
    <3>1. Restored(m)[j] = detail[j]
      BY <2>2 DEF Restored, CacheTypes
    <3> QED BY <1>4, <2>2, <3>1
  <2> QED BY <2>1, <2>2
<1> QED BY <1>4, <1>5, <1>6

(* a commit, while no detail is being refetched, or none *)
ServerMoves ==
  /\ UNCHANGED dfetch
  /\ \/ UNCHANGED <<server, last, pending>>
     \/ /\ dfetch = {}
        /\ \E i \in Issues, v \in PaginatedStatuses \cup {Gone} :
             Commit(i, v) /\ (server[i] = Gone => last[i] = 0)

LEMMA ServerKeeps ==
  ASSUME CacheTypes, EventsOK, ServerMoves
  PROVE  /\ \A j \in Issues : \A s : Announced(j, s) => Announced(j, s)'
         /\ \A j \in Issues : \A x : DetailOK(j, x) => DetailOK(j, x)'
         /\ \A j \in Issues : \A x, b, B : DetailOK(j, x) /\ Right(b, B, j, x) => Right(b, B, j, x)'
         /\ \A b : \A B \in Columns :
              Explains(b, B) /\ (\A j \in Issues : ~Known(j) => B[j] = Gone) => Explains(b, B)'
<1>1. CASE UNCHANGED <<server, last, pending>> /\ UNCHANGED dfetch
  <2>1. \A j \in Issues : \A s : Announced(j, s) => Announced(j, s)'
    BY <1>1 DEF Announced
  <2>2. \A j \in Issues : \A x : DetailOK(j, x) => DetailOK(j, x)'
    BY <1>1 DEF DetailOK, Newest
  <2>3. \A j \in Issues : \A x, b, B : DetailOK(j, x) /\ Right(b, B, j, x) => Right(b, B, j, x)'
    BY <1>1 DEF Right, Newest, Announced, Loaded, Buckets
  <2>4. \A b : \A B \in Columns :
          Explains(b, B) /\ (\A j \in Issues : ~Known(j) => B[j] = Gone) => Explains(b, B)'
    BY <1>1 DEF Explains, Counts, InColumn, Loaded, Buckets
  <2> QED BY <2>1, <2>2, <2>3, <2>4
<1>2. CASE dfetch' = {} /\ \E i \in Issues, v \in PaginatedStatuses \cup {Gone} :
             Commit(i, v) /\ (server[i] = Gone => last[i] = 0)
  <2>1. PICK i \in Issues, v \in PaginatedStatuses \cup {Gone} :
          Commit(i, v) /\ (server[i] = Gone => last[i] = 0)
    BY <1>2
  <2>2. \A j \in Issues : \A s : Announced(j, s) => Announced(j, s)'
    BY <2>1, CommitKeeps
  <2>3. \A j \in Issues : \A x : DetailOK(j, x) => DetailOK(j, x)'
    BY <2>1, CommitKeepsDetail
  <2>4. \A j \in Issues : \A x, b, B : DetailOK(j, x) /\ Right(b, B, j, x) => Right(b, B, j, x)'
    BY <2>1, CommitKeepsRight
  <2>5. \A b : \A B \in Columns :
          Explains(b, B) /\ (\A j \in Issues : ~Known(j) => B[j] = Gone) => Explains(b, B)'
    <3>1. server[i] = Gone => ~Known(i)
      BY <2>1 DEF Known
    <3> QED BY <1>2, <2>1, <3>1, CommitKeepsExplains
  <2> QED BY <2>2, <2>3, <2>4, <2>5
<1> QED BY <1>1, <1>2 DEF ServerMoves

LEMMA ServerKeepsFine ==
  ASSUME CacheTypes, EventsOK, ServerMoves, NEW b, NEW d,
         \A j \in Issues : DetailOK(j, d[j]), Fine(b, d)
  PROVE  Fine(b, d)'
<1>1. PICK B \in Columns : Explains(b, B) /\ \A j \in Issues : Right(b, B, j, d[j])
  BY DEF Fine
<1>2. \A j \in Issues : ~Known(j) => B[j] = Gone
  BY <1>1, UnknownColumn
<1>3. Explains(b, B)'
  BY <1>1, <1>2, ServerKeeps
<1>4. ASSUME NEW j \in Issues PROVE Right(b, B, j, d[j])'
  <2>1. PICK x : x = d[j]
    OBVIOUS
  <2>2. DetailOK(j, x) /\ Right(b, B, j, x)
    BY <1>1, <2>1
  <2>3. Right(b, B, j, x)'
    BY <2>2, ServerKeeps
  <2> QED BY <2>1, <2>3 DEF Right
<1> QED BY <1>3, <1>4 DEF Fine, Columns

(* the answer to a mutation tells what the server has then *)
LEMMA ServerKeepsUnder ==
  ASSUME CacheTypes, OneMutation, DetailInv, KnownInv, EventsOK, ServerMoves,
         UNCHANGED <<board, detail>>, NEW m \in InFlight,
         mut'[m].issue = mut[m].issue, mut'[m].to = mut[m].to,
         \/ mut'[m].phase = mut[m].phase
         \/ mut[m].phase = "sent" /\ mut'[m].phase = "ok" /\ server'[mut[m].issue] = mut[m].to,
         mut[m].phase # "failed", FineUnder(m)
  PROVE  FineUnder(m)'
<1>1. PICK k \in Issues : k = mut[m].issue
  BY InFlightTyped DEF MutationRec
<1>2. PICK to, b, d, p, q : /\ to = mut[m].to /\ b = board /\ d = detail
                            /\ p = mut[m].phase /\ q = mut'[m].phase
  OBVIOUS
<1>3. mut'[m].issue = k /\ mut'[m].to = to /\ board' = b /\ detail' = d
  BY <1>1, <1>2
<1>4. PICK B \in Columns : /\ Explains(b, B) /\ RightUnder(m, B)
                           /\ \A j \in Issues \ {k} : Right(b, B, j, d[j])
  BY <1>1, <1>2 DEF FineUnder
<1>5. \A j \in Issues : ~Known(j) => B[j] = Gone
  <2>1. Known(k)
    BY <1>1 DEF KnownInv, KnownMutation
  <2> QED BY <1>4, <2>1, UnknownColumn
<1>6. Explains(b, B)'
  BY <1>4, <1>5, ServerKeeps
<1>7. ASSUME NEW j \in Issues \ {k} PROVE Right(b, B, j, d[j])'
  <2>1. PICK x : x = d[j]
    OBVIOUS
  <2>2. DetailOK(j, x) /\ Right(b, B, j, x)
    BY <1>1, <1>2, <1>4, <2>1, DetailsAreOK
  <2>3. Right(b, B, j, x)'
    BY <2>2, ServerKeeps
  <2> QED BY <2>1, <2>3 DEF Right
<1>8. RightUnder(m, B)'
  <2>1. PICK x : x = d[k]
    OBVIOUS
  <2>2. Announced(k, B[k]) => Announced(k, B[k])'
    BY ServerKeeps
  <2>3. DetailOK(k, x) /\ Right(b, B, k, x) => Right(b, B, k, x)'
    BY ServerKeeps
  <2>4. \/ Loaded(b, k) \/ x \notin {Nothing, to}
        \/ p = "sent" /\ x = to /\ (B[k] = to \/ Announced(k, B[k]))
        \/ ~(p = "sent" /\ x = to) /\ Right(b, B, k, x)
    BY <1>1, <1>2, <1>4, <2>1 DEF RightUnder
  <2>5. DetailOK(k, x) \/ (p = "sent" /\ x = to)
    BY <1>1, <1>2, <2>1, DetailsAreOK
  <2>6. q = p \/ (p = "sent" /\ q = "ok" /\ server'[k] = to)
    BY <1>1, <1>2
  <2>7. B[k] = to /\ server'[k] = to => Right(b, B, k, x)'
    BY DEF Right
  <2>8. Announced(k, B[k])' => Right(b, B, k, x)'
    BY DEF Right, Announced
  <2>9. \/ Loaded(b, k) \/ x \notin {Nothing, to}
        \/ q = "sent" /\ x = to /\ (B[k] = to \/ Announced(k, B[k])')
        \/ ~(q = "sent" /\ x = to) /\ Right(b, B, k, x)'
    BY <2>2, <2>3, <2>4, <2>5, <2>6, <2>7, <2>8
  <2> QED BY <1>2, <1>3, <2>1, <2>9 DEF RightUnder, Loaded, Buckets, Right, Announced, Newest
<1>9. Explains(board, B)' /\ \A j \in Issues \ {mut'[m].issue} : Right(board, B, j, detail[j])'
  BY <1>3, <1>6, <1>7 DEF Explains, Counts, InColumn, Right, Loaded, Buckets
<1> QED BY <1>8, <1>9 DEF FineUnder, Columns

LEMMA RemoteWriteFacts ==
  ASSUME BoardFacts, CacheTypes', NEW i \in Issues, NEW v \in PaginatedStatuses \cup {Gone},
         RemoteWrite(i, v)
  PROVE  (EventsOK /\ AnswersOK /\ KnownInv /\ RepairInv)'
<1>1. CacheTypes /\ EventsOK /\ AnswersOK /\ KnownInv
  BY DEF BoardFacts, CommittedInv
<1>2. /\ Commit(i, v) /\ (server[i] = Gone => last[i] = 0) /\ repair' = FALSE
      /\ UNCHANGED <<board, detail, dfetch, mut>>
  BY DEF RemoteWrite
<1>3. EventsOK'
  BY <1>1, <1>2, CommitEvents
<1>4. /\ \A j \in Issues : /\ server'[j] = IF j = i THEN v ELSE server[j]
                           /\ last'[j] = IF j = i THEN writes' ELSE last[j]
      /\ writes' = writes + 1 /\ writes \in Nat /\ writes' \in Nat
  BY <1>1, <1>2, CommitMoves DEF CacheTypes
<1>5. SameMutations
  BY <1>2 DEF SameMutations, SameMutation
<1>6. AnswersOK'
  <2>1. writes <= writes' /\ \A j \in Issues : \/ last'[j] = last[j] /\ server'[j] = server[j]
                                               \/ last'[j] > writes
    BY <1>4
  <2> QED BY <1>1, <1>4, <1>5, <2>1, AnswersStay DEF SameMutations, InFlight
<1>7. KnownInv'
  <2>1. \A j \in Issues : Known(j) => Known(j)'
    BY <1>1, <1>4 DEF Known, CacheTypes
  <2>2. \A j \in Issues : Loaded(board, j)' \/ detail'[j] # Nothing => Known(j)'
    BY <1>1, <1>2, <2>1 DEF KnownInv, Loaded, Buckets
  <2> QED BY <1>1, <1>2, <1>5, <2>1, <2>2, KnownStays DEF SameMutations, InFlight, KnownInv
<1>8. RepairInv'
  BY <1>2 DEF RepairInv
<1> QED BY <1>3, <1>6, <1>7, <1>8

LEMMA NewlyCreated ==
  ASSUME CacheTypes, ServerMoves, NEW e \in pending', e.kind = "created", e \notin pending
  PROVE  e.issue \in Issues /\ ~Known(e.issue)
<1>1. PICK i \in Issues, v \in PaginatedStatuses \cup {Gone} :
        Commit(i, v) /\ (server[i] = Gone => last[i] = 0)
  BY DEF ServerMoves
<1>2. PICK f \in EventRec : /\ f.n = writes' /\ f.issue = i /\ f.to = v
                            /\ f.kind = "created" <=> server[i] = Gone
                            /\ pending' = pending \cup {f}
  BY <1>1, CommitMoves
<1> QED BY <1>1, <1>2 DEF Known

LEMMA ServerTidy ==
  ASSUME BoardFacts, Tidy, ServerMoves, UNCHANGED <<board, detail, fetch>>,
         InFlight' = InFlight,
         \A m \in InFlight :
           /\ mut'[m].issue = mut[m].issue /\ mut'[m].to = mut[m].to
           /\ mut'[m].board = mut[m].board /\ mut'[m].detail = mut[m].detail
           /\ mut'[m].stale = mut[m].stale /\ mut'[m].moved = mut[m].moved
           /\ \/ mut'[m].phase = mut[m].phase
              \/ mut[m].phase = "sent" /\ mut'[m].phase = "failed"
              \/ mut[m].phase = "sent" /\ mut'[m].phase = "ok" /\ server'[mut[m].issue] = mut[m].to
  PROVE  Tidy'
<1>1. CacheTypes /\ EventsOK /\ KnownInv
  BY DEF BoardFacts, CommittedInv
<1>2. OneMutation /\ DetailInv /\ SnapshotInv /\ CreatedInv /\ BoardInv
  BY DEF Tidy
<1>3. OneMutation'
  BY <1>2 DEF OneMutation
<1>4. DetailInv'
  <2> SUFFICES ASSUME NEW j \in Issues
               PROVE  (DetailOK(j, detail[j]) \/ \E m \in InFlight : Asked(j, m))'
    BY DEF DetailInv
  <2>1. PICK x : x = detail[j]
    OBVIOUS
  <2>2. CASE DetailOK(j, x)
    <3>1. DetailOK(j, x)'
      BY <1>1, <2>2, ServerKeeps
    <3> QED BY <2>1, <3>1 DEF DetailOK
  <2>3. CASE ~DetailOK(j, x)
    <3>1. PICK m \in InFlight : Asked(j, m)
      BY <1>2, <2>1, <2>3 DEF DetailInv
    <3>2. CASE mut'[m].phase = "ok"
      <4>1. server'[j] = detail[j]
        BY <3>1, <3>2 DEF Asked
      <4> QED BY <4>1 DEF DetailOK
    <3>3. CASE mut'[m].phase # "ok"
      <4>1. Asked(j, m)'
        BY <3>1, <3>3 DEF Asked, Loaded, Buckets
      <4> QED BY <4>1
    <3> QED BY <3>2, <3>3
  <2> QED BY <2>2, <2>3
<1>5. SnapshotInv'
  <2> SUFFICES ASSUME NEW m \in InFlight, ~mut[m].moved
               PROVE  /\ DetailOK(mut[m].issue, mut[m].detail)'
                      /\ mut[m].detail = Nothing => detail[mut[m].issue] = Nothing
                      /\ ~mut[m].stale /\ ~Loaded(mut[m].board, mut[m].issue) => board = mut[m].board
    BY DEF SnapshotInv, Loaded, Buckets
  <2>1. PICK k \in Issues : k = mut[m].issue
    BY <1>1, InFlightTyped DEF MutationRec
  <2>2. PICK x : x = mut[m].detail
    OBVIOUS
  <2>3. DetailOK(k, x)
    BY <1>2, <2>1, <2>2 DEF SnapshotInv
  <2>4. DetailOK(k, x)'
    BY <1>1, <2>3, ServerKeeps
  <2>5. mut'[m].issue = k /\ mut'[m].detail = x
    BY <2>1, <2>2
  <2>6. DetailOK(mut[m].issue, mut[m].detail)'
    BY <2>4, <2>5 DEF DetailOK, Newest
  <2> QED BY <1>2, <2>6 DEF SnapshotInv
<1>6. CreatedInv'
  <2> SUFFICES ASSUME NEW e \in pending', e.kind = "created"
               PROVE  /\ detail[e.issue] = Nothing /\ ~Loaded(board, e.issue)
                      /\ \A m \in InFlight : mut[m].issue # e.issue /\ ~Loaded(mut[m].board, e.issue)
    BY DEF CreatedInv, Loaded, Buckets
  <2>1. CASE e \in pending
    BY <1>2, <2>1 DEF CreatedInv
  <2>2. CASE e \notin pending
    <3>1. e.issue \in Issues /\ ~Known(e.issue)
      BY <1>1, <2>2, NewlyCreated
    <3> QED BY <1>1, <3>1 DEF KnownInv, KnownMutation
  <2> QED BY <2>1, <2>2
<1>7. BoardInv'
  <2> SUFFICES ASSUME Clean
               PROVE  /\ InFlight = {} => Fine(board, detail)'
                      /\ \A m \in InFlight : /\ mut'[m].phase # "failed" => FineUnder(m)'
                                             /\ ~mut[m].moved => Fine(mut[m].board, Restored(m))'
    BY DEF BoardInv, Clean
  <2>1. PICK b, d : b = board /\ d = detail
    OBVIOUS
  <2>2. ASSUME InFlight = {} PROVE Fine(board, detail)'
    <3>1. \A j \in Issues : DetailOK(j, d[j])
      BY <1>1, <1>2, <2>1, <2>2, DetailsAreOK
    <3>2. Fine(b, d)
      BY <1>2, <2>1, <2>2 DEF BoardInv
    <3>3. Fine(b, d)'
      BY <1>1, <3>1, <3>2, ServerKeepsFine
    <3> QED BY <2>1, <3>3
  <2>3. ASSUME NEW m \in InFlight, mut'[m].phase # "failed" PROVE FineUnder(m)'
    <3>1. mut[m].phase # "failed" /\ FineUnder(m)
      BY <1>2, <2>3 DEF BoardInv
    <3> QED BY <1>1, <1>2, <2>3, <3>1, ServerKeepsUnder
  <2>4. ASSUME NEW m \in InFlight, ~mut[m].moved PROVE Fine(mut[m].board, Restored(m))'
    <3>1. PICK c, r : c = mut[m].board /\ r = Restored(m)
      OBVIOUS
    <3>2. \A j \in Issues : DetailOK(j, r[j])
      BY <1>1, <1>2, <2>4, <3>1, DetailsAreOK
    <3>3. Fine(c, r)
      BY <1>2, <2>4, <3>1 DEF BoardInv
    <3>4. Fine(c, r)'
      BY <1>1, <3>2, <3>3, ServerKeepsFine
    <3>5. mut'[m].board = c /\ Restored(m)' = r
      BY <3>1 DEF Restored
    <3> QED BY <3>4, <3>5
  <2> QED BY <2>2, <2>3, <2>4
<1> QED BY <1>3, <1>4, <1>5, <1>6, <1>7 DEF Tidy

LEMMA RemoteWriteTidy ==
  ASSUME BoardFacts, Tidy, NEW i \in Issues, NEW v \in PaginatedStatuses \cup {Gone},
         RemoteWrite(i, v), ~raced'
  PROVE  Tidy'
<1>1. ~FetchInFlight /\ UNCHANGED <<board, detail, fetch, dfetch, mut>>
  BY DEF RemoteWrite
<1>2. ServerMoves
  BY <1>1 DEF RemoteWrite, ServerMoves, FetchInFlight
<1>3. InFlight' = InFlight
  BY <1>1 DEF InFlight
<1> QED BY <1>1, <1>2, <1>3, ServerTidy

LEMMA ServeMoves ==
  ASSUME CacheTypes, NEW m \in Mutations, Serve(m)
  PROVE  /\ m \in InFlight /\ mut[m] \in MutationRec /\ mut[m].phase = "sent"
         /\ \/ /\ Commit(mut[m].issue, mut[m].to) /\ server[mut[m].issue] # Gone
               /\ raced' = (raced \/ FetchInFlight)
            \/ UNCHANGED <<server, writes, last, pending>>
         /\ \A l \in Mutations \ {m} : mut'[l] = mut[l]
         /\ mut'[m].issue = mut[m].issue /\ mut'[m].to = mut[m].to
         /\ mut'[m].board = mut[m].board /\ mut'[m].detail = mut[m].detail
         /\ mut'[m].stale = mut[m].stale /\ mut'[m].moved = mut[m].moved
         /\ \/ mut'[m].phase = "failed"
            \/ mut'[m].phase = "ok" /\ server'[mut[m].issue] = mut[m].to
         /\ mut'[m].n \in {mut[m].n, last'[mut[m].issue]}
         /\ InFlight' = InFlight /\ UNCHANGED <<board, detail, fetch, dfetch>> /\ ~repair'
<1>1. mut[m].phase = "sent" /\ UNCHANGED <<board, detail, fetch, dfetch>> /\ ~repair'
  BY DEF Serve
<1>2. m \in InFlight /\ mut[m] \in MutationRec
  BY <1>1, InFlightTyped DEF InFlight
<1>3. mut[m].issue \in Issues /\ mut[m].to \in PaginatedStatuses \cup {Gone}
  BY <1>2 DEF MutationRec
<1>4. /\ \/ /\ Commit(mut[m].issue, mut[m].to) /\ server[mut[m].issue] # Gone
            /\ raced' = (raced \/ FetchInFlight)
         \/ UNCHANGED <<server, writes, last, pending>>
      /\ \/ mut' = [mut EXCEPT ![m].phase = "failed"]
         \/ \E p \in {"ok", "failed"} : mut' = [mut EXCEPT ![m].phase = p, ![m].n = last'[mut[m].issue]]
                                        /\ server'[mut[m].issue] = mut[m].to
  <2>1. CASE mut' = [mut EXCEPT ![m].phase = "failed"] /\ UNCHANGED <<serverVars, pending, raced>>
    BY <2>1 DEF serverVars
  <2>2. CASE /\ server[mut[m].issue] # Gone /\ Commit(mut[m].issue, mut[m].to)
             /\ \E p \in {"ok", "failed"} : mut' = [mut EXCEPT ![m].phase = p, ![m].n = last'[mut[m].issue]]
             /\ raced' = (raced \/ FetchInFlight)
    <3>1. server'[mut[m].issue] = mut[m].to
      BY <1>3, <2>2, CommitMoves
    <3> QED BY <2>2, <3>1
  <2>3. CASE /\ server[mut[m].issue] = mut[m].to /\ UNCHANGED <<serverVars, pending>>
             /\ \E p \in {"ok", "failed"} : mut' = [mut EXCEPT ![m].phase = p, ![m].n = last'[mut[m].issue]]
    BY <2>3 DEF serverVars
  <2> QED BY <2>1, <2>2, <2>3 DEF Serve
<1>5. \E p \in {"ok", "failed"}, n \in {mut[m].n, last'[mut[m].issue]} :
        /\ mut' = [mut EXCEPT ![m].phase = p, ![m].n = n]
        /\ p = "ok" => server'[mut[m].issue] = mut[m].to
  <2>1. CASE mut' = [mut EXCEPT ![m].phase = "failed"]
    <3>1. PICK k : k = [mut[m] EXCEPT !.phase = "failed"]
      OBVIOUS
    <3>2. PICK l : l = [mut[m] EXCEPT !.phase = "failed", !.n = mut[m].n]
      OBVIOUS
    <3>3. k = l
      BY <1>2, <3>1, <3>2 DEF MutationRec
    <3>4. mut' = [mut EXCEPT ![m].phase = "failed", ![m].n = mut[m].n]
      BY <2>1, <3>1, <3>2, <3>3
    <3> QED BY <3>4
  <2>2. CASE \E p \in {"ok", "failed"} : mut' = [mut EXCEPT ![m].phase = p, ![m].n = last'[mut[m].issue]]
                                         /\ server'[mut[m].issue] = mut[m].to
    BY <2>2
  <2> QED BY <1>4, <2>1, <2>2
<1>6. PICK p \in {"ok", "failed"}, n \in {mut[m].n, last'[mut[m].issue]} :
        /\ mut' = [mut EXCEPT ![m].phase = p, ![m].n = n]
        /\ p = "ok" => server'[mut[m].issue] = mut[m].to
  BY <1>5
<1>7. PICK k : k = [mut[m] EXCEPT !.phase = p, !.n = n]
  OBVIOUS
<1>8. /\ k.issue = mut[m].issue /\ k.to = mut[m].to /\ k.phase = p /\ k.n = n
      /\ k.board = mut[m].board /\ k.detail = mut[m].detail
      /\ k.stale = mut[m].stale /\ k.moved = mut[m].moved
  BY <1>2, <1>7 DEF MutationRec
<1>9. \A l \in Mutations : mut'[l] = IF l = m THEN k ELSE mut[l]
  BY <1>6, <1>7 DEF CacheTypes
<1>10. InFlight' = InFlight
  BY <1>2, <1>8, <1>9 DEF InFlight
<1>11. mut'[m] = k /\ \A l \in Mutations \ {m} : mut'[l] = mut[l]
  BY <1>9
<1>12. /\ mut'[m].issue = mut[m].issue /\ mut'[m].to = mut[m].to
       /\ mut'[m].board = mut[m].board /\ mut'[m].detail = mut[m].detail
       /\ mut'[m].stale = mut[m].stale /\ mut'[m].moved = mut[m].moved
       /\ mut'[m].phase = p /\ mut'[m].n = n
  BY <1>8, <1>11
<1>13. \/ mut'[m].phase = "failed"
       \/ mut'[m].phase = "ok" /\ server'[mut[m].issue] = mut[m].to
  BY <1>6, <1>12
<1>14. mut'[m].n \in {mut[m].n, last'[mut[m].issue]}
  BY <1>12
<1> QED BY <1>1, <1>2, <1>4, <1>10, <1>11, <1>12, <1>13, <1>14

LEMMA ServeTidy ==
  ASSUME BoardFacts, Tidy, NEW m \in Mutations, Serve(m), ~raced'
  PROVE  Tidy'
<1>1. CacheTypes
  BY DEF BoardFacts, CommittedInv
<1>2. mut[m] \in MutationRec /\ UNCHANGED <<board, detail, fetch, dfetch>> /\ InFlight' = InFlight
  BY <1>1, ServeMoves
<1>3. mut[m].issue \in Issues /\ mut[m].to \in PaginatedStatuses \cup {Gone}
  BY <1>2 DEF MutationRec
<1>4. \/ /\ Commit(mut[m].issue, mut[m].to) /\ server[mut[m].issue] # Gone
         /\ raced' = (raced \/ FetchInFlight)
      \/ UNCHANGED <<server, writes, last, pending>>
  BY <1>1, ServeMoves
<1>5. ServerMoves
  BY <1>2, <1>3, <1>4 DEF ServerMoves, FetchInFlight
<1>6. ASSUME NEW l \in InFlight
      PROVE  /\ mut'[l].issue = mut[l].issue /\ mut'[l].to = mut[l].to
             /\ mut'[l].board = mut[l].board /\ mut'[l].detail = mut[l].detail
             /\ mut'[l].stale = mut[l].stale /\ mut'[l].moved = mut[l].moved
             /\ \/ mut'[l].phase = mut[l].phase
                \/ mut[l].phase = "sent" /\ mut'[l].phase = "failed"
                \/ mut[l].phase = "sent" /\ mut'[l].phase = "ok" /\ server'[mut[l].issue] = mut[l].to
  <2>1. CASE l = m
    BY <1>1, <2>1, ServeMoves
  <2>2. CASE l # m
    <3>1. mut'[l] = mut[l]
      BY <1>1, <2>2, ServeMoves DEF InFlight
    <3> QED BY <3>1
  <2> QED BY <2>1, <2>2
<1> QED BY <1>2, <1>5, <1>6, ServerTidy

LEMMA ServeFacts ==
  ASSUME BoardFacts, CacheTypes', NEW m \in Mutations, Serve(m)
  PROVE  (EventsOK /\ AnswersOK /\ KnownInv /\ RepairInv)'
<1>1. CacheTypes /\ EventsOK /\ AnswersOK /\ KnownInv
  BY DEF BoardFacts, CommittedInv
<1>2. /\ m \in InFlight /\ mut[m] \in MutationRec /\ InFlight' = InFlight
      /\ UNCHANGED <<board, detail, dfetch>> /\ ~repair'
  BY <1>1, ServeMoves
<1>3. PICK i \in Issues, to \in PaginatedStatuses \cup {Gone} : i = mut[m].issue /\ to = mut[m].to
  BY <1>2 DEF MutationRec
<1>4. (Commit(i, to) /\ server[i] # Gone) \/ UNCHANGED <<server, writes, last, pending>>
  BY <1>1, <1>3, ServeMoves
<1>5. EventsOK'
  <2>1. CASE Commit(i, to) /\ server[i] # Gone
    BY <1>1, <2>1, CommitEvents
  <2>2. CASE UNCHANGED <<server, writes, last, pending>>
    BY <1>1, <2>2, EventsStay
  <2> QED BY <1>4, <2>1, <2>2
<1>6. /\ \A j \in Issues : \/ last'[j] = last[j] /\ server'[j] = server[j]
                           \/ last'[j] > writes
      /\ writes <= writes' /\ writes' \in Nat
      /\ \A j \in Issues : Known(j) => Known(j)'
  <2>1. CASE Commit(i, to)
    <3>1. /\ \A j \in Issues : /\ server'[j] = IF j = i THEN to ELSE server[j]
                               /\ last'[j] = IF j = i THEN writes' ELSE last[j]
          /\ writes' = writes + 1 /\ writes \in Nat
      BY <1>1, <2>1, CommitMoves DEF CacheTypes
    <3> QED BY <3>1 DEF Known
  <2>2. CASE UNCHANGED <<server, writes, last, pending>>
    BY <1>1, <2>2 DEF Known, CacheTypes
  <2> QED BY <1>4, <2>1, <2>2
<1>7. \A l \in Mutations \ {m} : SameMutation(l)
  <2>1. \A l \in Mutations \ {m} : mut'[l] = mut[l]
    BY <1>1, ServeMoves
  <2> QED BY <2>1 DEF SameMutation
<1>8. AnswersOK'
  <2>1. AnswerOK(m)'
    <3>1. /\ mut'[m].issue = i /\ mut'[m].to = to /\ mut'[m].stale = mut[m].stale
          /\ mut'[m].n \in {mut[m].n, last'[i]}
          /\ mut'[m].phase = "ok" => server'[i] = to
      BY <1>1, <1>3, ServeMoves
    <3>2. mut[m].n <= writes /\ mut[m].n \in Nat /\ writes \in Nat /\ (to = Gone => mut[m].stale)
      BY <1>1, <1>2, <1>3 DEF AnswersOK, AnswerOK, MutationRec, CacheTypes
    <3>3. last'[i] <= writes'
      BY <1>5 DEF EventsOK
    <3>4. mut'[m].n <= writes'
      BY <1>6, <3>1, <3>2, <3>3
    <3> QED BY <3>1, <3>2, <3>4 DEF AnswerOK
  <2>2. \A l \in InFlight' : SameMutation(l) \/ AnswerOK(l)'
    BY <1>7, <2>1 DEF InFlight
  <2> QED BY <1>1, <1>6, <2>2, AnswersStay
<1>9. KnownInv'
  <2>1. \A j \in Issues : Loaded(board, j)' \/ detail'[j] # Nothing => Known(j)'
    BY <1>1, <1>2, <1>6 DEF KnownInv, Loaded, Buckets
  <2>2. KnownMutation(m)'
    <3>1. Known(i) /\ \A j \in Issues : Loaded(mut[m].board, j) => Known(j)
      BY <1>1, <1>2, <1>3 DEF KnownInv, KnownMutation
    <3>2. Known(i)' /\ mut'[m].issue = i /\ mut'[m].board = mut[m].board
      BY <1>1, <1>3, <1>6, <3>1, ServeMoves
    <3>3. Known(mut[m].issue)'
      BY <3>2 DEF Known
    <3> QED BY <1>6, <3>1, <3>2, <3>3 DEF KnownMutation, Loaded, Buckets
  <2>3. \A l \in InFlight' : SameMutation(l) \/ KnownMutation(l)'
    BY <1>7, <2>2 DEF InFlight
  <2> QED BY <1>1, <1>2, <1>6, <2>1, <2>3, KnownStays DEF KnownInv
<1>10. RepairInv'
  BY <1>2 DEF RepairInv
<1> QED BY <1>5, <1>8, <1>9, <1>10

-----------------------------------------------------------------------------
(* Refetches *)

LEMMA PagesLoad ==
  ASSUME CacheTypes, NEW c, c = [s \in PaginatedStatuses |-> ServerPage(s)],
         NEW i \in Issues, server[i] = Gone
  PROVE  ~Loaded(c, i)
<1>1. \A s \in PaginatedStatuses : c[s].cards \subseteq On(s)
  BY DEF ServerPage, FirstPage, On
<1>2. \A s \in PaginatedStatuses : i \notin c[s].cards
  BY <1>1, Names DEF On
<1> QED BY <1>2 DEF Loaded, Buckets

LEMMA FetchLandsFacts ==
  ASSUME BoardFacts, CacheTypes', FetchLands
  PROVE  (EventsOK /\ AnswersOK /\ KnownInv /\ RepairInv)'
<1>1. CacheTypes /\ EventsOK /\ AnswersOK /\ KnownInv /\ RepairInv
  BY DEF BoardFacts, CommittedInv
<1>2. /\ UNCHANGED <<server, writes, last, pending, detail, dfetch>>
      /\ board' = [s \in PaginatedStatuses |-> ServerPage(s)]
      /\ mut' = Moved /\ (repair' => repair)
  BY DEF FetchLands, Lands, serverVars
<1>3. SameMutations /\ InFlight' = InFlight
  BY <1>1, <1>2, MovedSame
<1>4. EventsOK'
  BY <1>1, <1>2, EventsStay
<1>5. AnswersOK'
  BY <1>1, <1>2, <1>3, AnswersStay DEF SameMutations, InFlight, CacheTypes
<1>6. KnownInv'
  <2>1. \A i \in Issues : Known(i) => Known(i)'
    BY <1>2 DEF Known
  <2>2. \A i \in Issues : server[i] = Gone => ~Loaded(board, i)'
    <3>1. PICK c : c = board'
      OBVIOUS
    <3>2. \A i \in Issues : server[i] = Gone => ~Loaded(c, i)
      BY <1>1, <1>2, <3>1, PagesLoad
    <3> QED BY <3>1, <3>2 DEF Loaded, Buckets
  <2>3. \A i \in Issues : Loaded(board, i)' \/ detail'[i] # Nothing => Known(i)'
    BY <1>1, <1>2, <2>1, <2>2 DEF KnownInv, Known
  <2> QED BY <1>1, <1>2, <1>3, <2>1, <2>3, KnownStays DEF SameMutations, InFlight, KnownInv
<1>7. RepairInv'
  <2>1. [s \in PaginatedStatuses |-> ServerPage(s)]' = [s \in PaginatedStatuses |-> ServerPage(s)]
    BY <1>2 DEF ServerPage, FirstPage, On
  <2> QED BY <1>1, <1>2, <1>3, <2>1 DEF RepairInv
<1> QED BY <1>4, <1>5, <1>6, <1>7

LEMMA FetchLandsTidy ==
  ASSUME BoardFacts, CacheTypes', ~raced => Tidy, FetchLands, ~raced'
  PROVE  Tidy'
<1>1. CacheTypes /\ EventsOK /\ RepairInv
  BY DEF BoardFacts, CommittedInv
<1>2. /\ UNCHANGED <<server, writes, last, pending, detail, dfetch>> /\ ~fetch'
      /\ board' = [s \in PaginatedStatuses |-> ServerPage(s)] /\ mut' = Moved
      /\ repair' = (repair /\ ~(repair /\ dfetch = {}))
      /\ raced' = (CountsUnannounced \/ DropsMovedCard \/ (raced /\ ~(repair /\ dfetch = {})))
  BY DEF FetchLands, Lands, serverVars
<1>3. /\ SameMutations /\ InFlight' = InFlight /\ \A m \in InFlight : mut'[m].moved
  BY <1>1, <1>2, MovedSame
<1>4. PICK c : c = board'
  OBVIOUS
<1>5. Counts(c, server) /\ server \in Columns
  BY <1>1, <1>2, <1>4, PageCounts
<1>6. CASE repair /\ dfetch = {}
  <2>1. pending = {} /\ InFlight = {} /\ \A i \in Issues : detail[i] \in {server[i], Nothing}
    BY <1>1, <1>6 DEF RepairInv
  <2>2. OneMutation' /\ SnapshotInv' /\ CreatedInv'
    BY <1>2, <1>3, <2>1 DEF OneMutation, SnapshotInv, CreatedInv
  <2>3. DetailInv'
    BY <1>2, <2>1 DEF DetailInv, DetailOK
  <2>4. Explains(c, server)' /\ \A i \in Issues : Right(c, server, i, detail[i])'
    BY <1>2, <1>5, <1>6, <2>1 DEF Explains, Counts, InColumn, Right
  <2>5. Fine(board, detail)'
    BY <1>2, <1>4, <1>5, <2>4 DEF Fine, Columns, Explains, Counts, InColumn, Right, Loaded, Buckets
  <2>6. BoardInv'
    BY <1>3, <2>1, <2>5 DEF BoardInv
  <2> QED BY <2>2, <2>3, <2>6 DEF Tidy
<1>7. CASE ~(repair /\ dfetch = {})
  <2>1. OneMutation /\ DetailInv /\ CreatedInv
    BY <1>2, <1>7 DEF Tidy
  <2>2. ~CountsUnannounced /\ ~DropsMovedCard
    BY <1>2
  <2>3. OneMutation' /\ SnapshotInv'
    BY <1>3, <2>1 DEF OneMutation, SnapshotInv
  <2>4. \A i \in Issues : \A m \in InFlight : Asked(i, m) => Asked(i, m)'
    BY <1>2, <1>3 DEF Asked, SameMutations, SameMutation, Loaded, Buckets, InFlight
  <2>5. DetailInv'
    BY <1>2, <1>3, <2>1, <2>4 DEF DetailInv, DetailOK, Newest
  <2>6. CreatedInv'
    <3> SUFFICES ASSUME NEW e \in pending, e.kind = "created"
                 PROVE  (/\ detail[e.issue] = Nothing /\ ~Loaded(board, e.issue)
                         /\ \A m \in InFlight : mut[m].issue # e.issue /\ ~Loaded(mut[m].board, e.issue))'
      BY <1>2 DEF CreatedInv
    <3>1. e.issue \in Issues /\ server[e.issue] = Gone
      BY <1>1, <2>2, EventsTyped DEF CountsUnannounced
    <3>2. ~Loaded(c, e.issue)
      BY <1>1, <1>2, <1>4, <3>1, PagesLoad
    <3>3. /\ detail[e.issue] = Nothing
          /\ \A m \in InFlight : mut[m].issue # e.issue /\ ~Loaded(mut[m].board, e.issue)
      BY <2>1 DEF CreatedInv
    <3>4. \A m \in InFlight : mut'[m].issue = mut[m].issue /\ mut'[m].board = mut[m].board
      BY <1>3 DEF SameMutations, SameMutation, InFlight
    <3> QED BY <1>2, <1>3, <1>4, <3>2, <3>3, <3>4 DEF Loaded, Buckets
  <2>7. Explains(c, server)' /\ \A i \in Issues : Right(c, server, i, detail[i])'
    <3>1. \A e \in pending : e.kind = "created" => server[e.issue] = Gone
      BY <2>2 DEF CountsUnannounced
    <3> QED BY <1>2, <1>5, <3>1 DEF Explains, Counts, InColumn, Right
  <2>8. Fine(board, detail)'
    BY <1>2, <1>4, <1>5, <2>7 DEF Fine, Columns, Explains, Counts, InColumn, Right, Loaded, Buckets
  <2>9. ASSUME NEW m \in InFlight, ~mut[m].stale PROVE FineUnder(m)'
    <3>1. PICK k \in Issues : k = mut[m].issue
      BY <1>1, InFlightTyped DEF MutationRec
    <3>2. PICK to, x : to = mut[m].to /\ x = detail[k]
      OBVIOUS
    <3>3. mut'[m].issue = k /\ mut'[m].to = to /\ mut'[m].phase = mut[m].phase /\ detail'[k] = x
      BY <1>2, <1>3, <3>1, <3>2 DEF SameMutations, SameMutation, InFlight
    <3>4. ASSUME mut[m].phase = "sent", x = to, ~Loaded(c, k)
          PROVE  server[k] = to \/ Announced(k, server[k])
      <4>1. ~Loaded(mut[m].board, k)
        BY <1>4, <2>2, <3>1, <3>2, <3>4 DEF DropsMovedCard, Loaded, Buckets
      <4>2. DetailOK(k, x)
        BY <2>1, <2>9, <3>1, <3>2, <4>1 DEF DetailInv, OneMutation, Asked
      <4>3. to # Nothing
        BY <1>1, <3>2, InFlightTyped, Names DEF MutationRec
      <4> QED BY <1>1, <3>4, <4>2, <4>3, NewestSays DEF DetailOK
    <3>5. RightUnder(m, server)'
      BY <1>2, <1>4, <3>3, <3>4 DEF RightUnder, Right, Announced, Loaded, Buckets
    <3> QED BY <1>2, <1>4, <1>5, <2>7, <3>5
            DEF FineUnder, Columns, Explains, Counts, InColumn, Right, Loaded, Buckets, RightUnder, Announced
  <2>10. BoardInv'
    <3>1. \A m \in InFlight : mut'[m].stale = mut[m].stale
      BY <1>3 DEF SameMutations, SameMutation, InFlight
    <3> QED BY <1>3, <2>8, <2>9, <3>1 DEF BoardInv, Clean
  <2> QED BY <2>3, <2>5, <2>6, <2>10 DEF Tidy
<1> QED BY <1>6, <1>7

LEMMA DetailLandsFacts ==
  ASSUME BoardFacts, CacheTypes', NEW i \in Issues, DetailLands(i)
  PROVE  (EventsOK /\ AnswersOK /\ KnownInv /\ RepairInv)'
<1>1. CacheTypes /\ EventsOK /\ AnswersOK /\ KnownInv /\ RepairInv
  BY DEF BoardFacts, CommittedInv
<1>2. /\ UNCHANGED <<server, writes, last, pending, board, fetch>>
      /\ i \in dfetch /\ server[i] # Gone /\ dfetch' = dfetch \ {i}
      /\ detail' = [detail EXCEPT ![i] = server[i]]
      /\ mut' = Moved /\ (repair' => repair)
  BY DEF DetailLands, Lands, serverVars
<1>3. SameMutations /\ InFlight' = InFlight
  BY <1>1, <1>2, MovedSame
<1>4. \A j \in Issues : detail'[j] = IF j = i THEN server[i] ELSE detail[j]
  BY <1>1, <1>2 DEF CacheTypes
<1>5. EventsOK'
  BY <1>1, <1>2, EventsStay
<1>6. AnswersOK'
  BY <1>1, <1>2, <1>3, AnswersStay DEF SameMutations, InFlight, CacheTypes
<1>7. KnownInv'
  <2>1. \A j \in Issues : Known(j) => Known(j)'
    BY <1>2 DEF Known
  <2>2. \A j \in Issues : Loaded(board, j)' \/ detail'[j] # Nothing => Known(j)'
    BY <1>1, <1>2, <1>4, <2>1 DEF KnownInv, Known, Loaded, Buckets
  <2>3. dfetch' \subseteq Issues /\ \A j \in dfetch' : detail'[j] # Nothing
    BY <1>1, <1>2, <1>4 DEF KnownInv
  <2> QED BY <1>1, <1>2, <1>3, <2>1, <2>2, <2>3, KnownStays DEF SameMutations, InFlight
<1>8. RepairInv'
  <2>1. [s \in PaginatedStatuses |-> ServerPage(s)]' = [s \in PaginatedStatuses |-> ServerPage(s)]
    BY <1>2 DEF ServerPage, FirstPage, On
  <2> QED BY <1>1, <1>2, <1>3, <1>4, <2>1 DEF RepairInv
<1> QED BY <1>5, <1>6, <1>7, <1>8

LEMMA DetailLandsTidy ==
  ASSUME BoardFacts, ~raced => Tidy, NEW i \in Issues, DetailLands(i), ~raced'
  PROVE  Tidy'
<1>1. CacheTypes /\ EventsOK /\ KnownInv /\ RepairInv
  BY DEF BoardFacts, CommittedInv
<1>2. /\ UNCHANGED <<server, writes, last, pending, board, fetch>>
      /\ i \in dfetch /\ server[i] # Gone /\ dfetch' = dfetch \ {i}
      /\ detail' = [detail EXCEPT ![i] = server[i]] /\ mut' = Moved
      /\ ~raced \/ (repair /\ ~fetch /\ dfetch' = {})
  BY DEF DetailLands, Lands, serverVars
<1>3. /\ SameMutations /\ InFlight' = InFlight /\ \A m \in InFlight : mut'[m].moved
  BY <1>1, <1>2, MovedSame
<1>4. \A j \in Issues : detail'[j] = IF j = i THEN server[i] ELSE detail[j]
  BY <1>1, <1>2 DEF CacheTypes
<1>5. PICK b, d : b = board /\ d = detail'
  OBVIOUS
<1>6. CASE repair /\ ~fetch /\ dfetch' = {}
  <2>1. /\ pending = {} /\ InFlight = {} /\ board = [s \in PaginatedStatuses |-> ServerPage(s)]
        /\ \A j \in Issues : d[j] \in {server[j], Nothing}
    BY <1>1, <1>2, <1>4, <1>5, <1>6 DEF RepairInv
  <2>2. OneMutation' /\ SnapshotInv' /\ CreatedInv'
    BY <1>2, <1>3, <2>1 DEF OneMutation, SnapshotInv, CreatedInv
  <2>3. DetailInv'
    BY <1>2, <1>5, <2>1 DEF DetailInv, DetailOK
  <2>4. Counts(b, server) /\ server \in Columns
    BY <1>1, <1>5, <2>1, PageCounts
  <2>5. Explains(b, server)' /\ \A j \in Issues : Right(b, server, j, d[j])'
    BY <1>2, <1>6, <2>1, <2>4 DEF Explains, Counts, InColumn, Right
  <2>6. Fine(board, detail)'
    BY <1>2, <1>5, <2>4, <2>5 DEF Fine, Columns, Explains, Counts, InColumn, Right, Loaded, Buckets
  <2>7. BoardInv'
    BY <1>3, <2>1, <2>6 DEF BoardInv
  <2> QED BY <2>2, <2>3, <2>7 DEF Tidy
<1>7. CASE ~(repair /\ ~fetch /\ dfetch' = {})
  <2>1. OneMutation /\ DetailInv /\ CreatedInv /\ BoardInv
    BY <1>2, <1>7 DEF Tidy
  <2>2. OneMutation' /\ SnapshotInv'
    BY <1>3, <2>1 DEF OneMutation, SnapshotInv
  <2>3. \A j \in Issues \ {i} : \A m \in InFlight : Asked(j, m) => Asked(j, m)'
    BY <1>3, <1>4 DEF Asked, SameMutations, SameMutation, Loaded, Buckets, InFlight
  <2>4. DetailInv'
    BY <1>2, <1>3, <1>4, <2>1, <2>3 DEF DetailInv, DetailOK, Newest
  <2>5. CreatedInv'
    <3> SUFFICES ASSUME NEW e \in pending, e.kind = "created"
                 PROVE  (/\ detail[e.issue] = Nothing /\ ~Loaded(board, e.issue)
                         /\ \A m \in InFlight : mut[m].issue # e.issue /\ ~Loaded(mut[m].board, e.issue))'
      BY <1>2 DEF CreatedInv
    <3>1. /\ detail[e.issue] = Nothing /\ ~Loaded(board, e.issue)
          /\ \A m \in InFlight : mut[m].issue # e.issue /\ ~Loaded(mut[m].board, e.issue)
      BY <2>1 DEF CreatedInv
    <3>2. detail[i] # Nothing /\ e.issue \in Issues
      BY <1>1, <1>2, EventsTyped DEF KnownInv
    <3>3. \A m \in InFlight : mut'[m].issue = mut[m].issue /\ mut'[m].board = mut[m].board
      BY <1>3 DEF SameMutations, SameMutation, InFlight
    <3> QED BY <1>2, <1>3, <1>4, <3>1, <3>2, <3>3 DEF Loaded, Buckets
  <2>6. ASSUME NEW B \in Columns, Explains(board, B)
        PROVE  /\ Explains(board, B)' /\ (Loaded(b, i) \/ B[i] = server[i])
               /\ \A j \in Issues : Right(board, B, j, detail[j]) => Right(board, B, j, detail[j])'
    <3>1. Explains(board, B)'
      BY <1>2, <2>6 DEF Explains, Counts, InColumn, Loaded, Buckets
    <3>2. Loaded(b, i) \/ B[i] = server[i]
      BY <1>2, <1>5, <2>6 DEF Explains
    <3>3. ASSUME NEW j \in Issues, Right(board, B, j, detail[j]) PROVE Right(board, B, j, detail[j])'
      <4>1. CASE j = i
        BY <1>2, <1>5, <3>2, <3>3, <4>1 DEF Right, Announced, Newest, Loaded, Buckets
      <4>2. CASE j # i
        <5>1. detail'[j] = detail[j]
          BY <1>4, <4>2
        <5> QED BY <1>2, <3>3, <5>1 DEF Right, Announced, Newest, Loaded, Buckets
      <4> QED BY <4>1, <4>2
    <3> QED BY <3>1, <3>2, <3>3
  <2>7. ASSUME Fine(board, detail) PROVE Fine(board, detail)'
    <3>1. PICK B \in Columns : /\ Explains(board, B) /\ \A j \in Issues : Right(board, B, j, detail[j])
      BY <2>7 DEF Fine
    <3>2. Explains(board, B)' /\ \A j \in Issues : Right(board, B, j, detail[j])'
      BY <2>6, <3>1
    <3> QED BY <3>2 DEF Fine, Columns
  <2>8. ASSUME NEW m \in InFlight, FineUnder(m) PROVE FineUnder(m)'
    <3>1. PICK k \in Issues : k = mut[m].issue
      BY <1>1, InFlightTyped DEF MutationRec
    <3>2. PICK to : to = mut[m].to
      OBVIOUS
    <3>3. mut'[m].issue = k /\ mut'[m].to = to /\ mut'[m].phase = mut[m].phase
      BY <1>3, <3>1, <3>2 DEF SameMutations, SameMutation, InFlight
    <3>4. PICK B \in Columns : /\ Explains(board, B) /\ RightUnder(m, B)
                               /\ \A j \in Issues \ {k} : Right(board, B, j, detail[j])
      BY <2>8, <3>1 DEF FineUnder
    <3>5. /\ Explains(board, B)' /\ (Loaded(b, i) \/ B[i] = server[i])
          /\ \A j \in Issues \ {k} : Right(board, B, j, detail[j])'
      BY <2>6, <3>4
    <3>6. RightUnder(m, B)'
      <4>1. CASE k = i
        BY <1>2, <1>4, <1>5, <3>3, <3>5, <4>1 DEF RightUnder, Right, Loaded, Buckets
      <4>2. CASE k # i
        <5>1. detail'[k] = detail[k]
          BY <1>4, <4>2
        <5> QED BY <1>2, <3>1, <3>2, <3>3, <3>4, <5>1
                DEF RightUnder, Right, Announced, Newest, Loaded, Buckets
      <4> QED BY <4>1, <4>2
    <3> QED BY <3>3, <3>5, <3>6 DEF FineUnder, Columns
  <2>9. BoardInv'
    <3>1. \A m \in InFlight : mut'[m].stale = mut[m].stale /\ mut'[m].phase = mut[m].phase
      BY <1>3 DEF SameMutations, SameMutation, InFlight
    <3> QED BY <1>2, <1>3, <2>1, <2>7, <2>8, <3>1 DEF BoardInv, Clean
  <2> QED BY <2>2, <2>4, <2>5, <2>9 DEF Tidy
<1> QED BY <1>6, <1>7

LEMMA FetchFailsFacts ==
  ASSUME BoardFacts, FetchFails \/ \E i \in Issues : DetailFails(i)
  PROVE  (EventsOK /\ AnswersOK /\ KnownInv /\ RepairInv)' /\ raced'
<1>1. CacheTypes /\ EventsOK /\ AnswersOK /\ KnownInv
  BY DEF BoardFacts, CommittedInv
<1>2. /\ UNCHANGED <<server, writes, last, pending, board, detail, mut>>
      /\ dfetch' \subseteq dfetch /\ ~repair' /\ raced'
  BY DEF FetchFails, DetailFails, serverVars
<1>3. EventsOK'
  BY <1>1, <1>2, EventsStay
<1>4. AnswersOK'
  BY <1>1, <1>2 DEF AnswersOK, AnswerOK, InFlight
<1>5. KnownInv'
  BY <1>1, <1>2 DEF KnownInv, KnownMutation, Known, InFlight, Loaded, Buckets
<1>6. RepairInv'
  BY <1>2 DEF RepairInv
<1> QED BY <1>2, <1>3, <1>4, <1>5, <1>6

LEMMA ReconnectFacts ==
  ASSUME BoardFacts, Reconnect
  PROVE  (EventsOK /\ AnswersOK /\ KnownInv /\ RepairInv)'
<1>1. CacheTypes /\ EventsOK /\ AnswersOK /\ KnownInv
  BY DEF BoardFacts, CommittedInv
<1>2. /\ UNCHANGED <<server, writes, last, board, detail, mut>>
      /\ pending' \subseteq pending /\ fetch' = TRUE
      /\ dfetch' = {i \in Issues : detail[i] # Nothing}
      /\ repair' => pending' = {} /\ InFlight = {}
  BY DEF Reconnect, serverVars
<1>3. EventsOK'
  BY <1>1, <1>2, EventsStay
<1>4. AnswersOK'
  BY <1>1, <1>2 DEF AnswersOK, AnswerOK, InFlight
<1>5. KnownInv'
  BY <1>1, <1>2 DEF KnownInv, KnownMutation, Known, InFlight, Loaded, Buckets
<1>6. RepairInv'
  BY <1>2 DEF RepairInv, InFlight
<1> QED BY <1>3, <1>4, <1>5, <1>6

LEMMA ReconnectTidy ==
  ASSUME BoardFacts, Tidy, Reconnect, ~raced'
  PROVE  Tidy'
<1>1. UNCHANGED <<server, last, pending, board, detail, mut>> /\ fetch' = TRUE
  BY DEF Reconnect, serverVars
<1>2. OneMutation /\ DetailInv /\ SnapshotInv /\ CreatedInv
  BY DEF Tidy
<1>3. OneMutation'
  BY <1>1, <1>2 DEF OneMutation, InFlight
<1>4. DetailInv'
  BY <1>1, <1>2 DEF DetailInv, DetailOK, Newest, Asked, InFlight, Loaded, Buckets
<1>5. SnapshotInv'
  BY <1>1, <1>2 DEF SnapshotInv, DetailOK, Newest, InFlight, Loaded, Buckets
<1>6. CreatedInv'
  BY <1>1, <1>2 DEF CreatedInv, InFlight, Loaded, Buckets
<1>7. BoardInv'
  BY <1>1 DEF BoardInv, Clean
<1> QED BY <1>3, <1>4, <1>5, <1>6, <1>7 DEF Tidy

-----------------------------------------------------------------------------
(* Mutations begin *)

LEMMA BeginMoves ==
  ASSUME CacheTypes, NEW m \in Mutations, NEW i \in Issues, NEW to \in PaginatedStatuses \cup {Gone},
         NEW stale \in BOOLEAN, Begin(m, i, to, stale)
  PROVE  /\ mut'[m].issue = i /\ mut'[m].to = to /\ mut'[m].phase = "sent" /\ mut'[m].n = 0
         /\ mut'[m].board = board /\ mut'[m].detail = detail[i] /\ mut'[m].stale = stale
         /\ ~mut'[m].moved /\ m \notin InFlight /\ InFlight' = InFlight \cup {m}
         /\ \A l \in Mutations \ {m} : SameMutation(l)
         /\ ~repair'
<1>1. PICK k : k = [issue |-> i, to |-> to, phase |-> "sent", n |-> 0, board |-> board,
                    detail |-> detail[i], stale |-> stale, moved |-> FALSE]
  OBVIOUS
<1>2. /\ k.issue = i /\ k.to = to /\ k.phase = "sent" /\ k.n = 0 /\ k.board = board
      /\ k.detail = detail[i] /\ k.stale = stale /\ ~k.moved
  BY <1>1
<1>3. /\ mut' = [Moved EXCEPT ![m] = k] /\ ~repair' /\ m \notin InFlight
  BY <1>1 DEF Begin, InFlight
<1>4. mut'[m] = k /\ \A l \in Mutations \ {m} : mut'[l] = Moved[l]
  BY <1>3 DEF Moved
<1>5. \A l \in Mutations \ {m} : SameMutation(l)
  BY <1>4, MovedIsSame DEF SameMutation
<1>6. InFlight' = InFlight \cup {m}
  BY <1>2, <1>4, <1>5 DEF InFlight, SameMutation
<1> QED BY <1>2, <1>3, <1>4, <1>5, <1>6

LEMMA BeginFacts ==
  ASSUME BoardFacts, NEW m \in Mutations, NEW i \in Issues,
         NEW to \in PaginatedStatuses \cup {Gone}, NEW stale \in BOOLEAN, Begin(m, i, to, stale),
         UNCHANGED <<serverVars, pending>>, to = Gone => stale, Loaded(board, i) \/ detail[i] # Nothing,
         \A j \in Issues : /\ Loaded(board, j)' => Loaded(board, j)
                           /\ detail'[j] # Nothing => detail[j] # Nothing,
         dfetch' \subseteq Issues, \A j \in dfetch' : detail'[j] # Nothing
  PROVE  (EventsOK /\ AnswersOK /\ KnownInv /\ RepairInv)'
<1>1. CacheTypes /\ EventsOK /\ AnswersOK /\ KnownInv
  BY DEF BoardFacts, CommittedInv
<1>2. UNCHANGED <<server, writes, last, pending>>
  BY DEF serverVars
<1>3. EventsOK'
  BY <1>1, <1>2, EventsStay
<1>4. /\ mut'[m].issue = i /\ mut'[m].to = to /\ mut'[m].phase = "sent" /\ mut'[m].n = 0
      /\ mut'[m].board = board /\ mut'[m].stale = stale /\ ~repair'
      /\ \A l \in Mutations \ {m} : SameMutation(l)
  BY <1>1, BeginMoves
<1>5. AnswersOK'
  <2>1. AnswerOK(m)'
    BY <1>1, <1>2, <1>4 DEF AnswerOK, CacheTypes
  <2>2. \A l \in InFlight' : SameMutation(l) \/ AnswerOK(l)'
    BY <1>4, <2>1 DEF InFlight
  <2> QED BY <1>1, <1>2, <2>2, AnswersStay DEF CacheTypes
<1>6. KnownInv'
  <2>1. \A j \in Issues : Known(j) => Known(j)'
    BY <1>2 DEF Known
  <2>2. \A j \in Issues : Loaded(board, j)' \/ detail'[j] # Nothing => Known(j)'
    BY <1>1, <2>1 DEF KnownInv
  <2>3. KnownMutation(m)'
    <3>1. Known(i)' /\ mut'[m].issue = i /\ mut'[m].board = board
      BY <1>1, <1>4, <2>1 DEF KnownInv
    <3>2. Known(mut[m].issue)'
      BY <3>1 DEF Known
    <3>3. \A j \in Issues : Loaded(mut[m].board, j)' => Known(j)'
      BY <1>1, <2>1, <3>1 DEF KnownInv, Loaded, Buckets
    <3> QED BY <3>2, <3>3 DEF KnownMutation
  <2>4. \A l \in InFlight' : SameMutation(l) \/ KnownMutation(l)'
    BY <1>4, <2>3 DEF InFlight
  <2> QED BY <1>1, <2>1, <2>2, <2>4, KnownStays
<1>7. RepairInv'
  BY <1>4 DEF RepairInv
<1> QED BY <1>3, <1>5, <1>6, <1>7

(* a change loads nothing that was not loaded *)
LEMMA ChangeLoads ==
  ASSUME NEW b \in Boards, NEW i \in Issues, NEW to \in PaginatedStatuses,
         NEW changed \in BOOLEAN, NEW base \in Statuses, NEW j \in Issues,
         Loaded(Reconciled(b, i, to, changed, base), j)
  PROVE  Loaded(b, j)
<1>1. PICK c : c = Reconciled(b, i, to, changed, base)
  OBVIOUS
<1>2. Buckets(c, j) \subseteq Buckets(b, j) \cup (IF j = i /\ Loaded(b, i) THEN {to} ELSE {})
  BY <1>1, ChangeMoves
<1>3. Buckets(c, j) # {}
  BY <1>1 DEF Loaded
<1> QED BY <1>2, <1>3 DEF Loaded

LEMMA UpdateBegins ==
  ASSUME CacheTypes, NEW m \in Mutations, NEW i \in Issues, NEW to \in PaginatedStatuses,
         OnMutateUpdate(m, i, to)
  PROVE  /\ Loaded(board, i) \/ detail[i] # Nothing
         /\ Begin(m, i, to, ~Loaded(board, i) /\ detail[i] # to)
         /\ UNCHANGED <<serverVars, pending, dfetch>> /\ ~fetch'
         /\ board' = Reconciled(board, i, to, detail[i] # to, detail[i])
         /\ \A j \in Issues : detail'[j] = IF j = i /\ detail[i] # Nothing THEN to ELSE detail[j]
         /\ ~raced' => ~raced /\ ~fetch /\ InFlight = {}
         /\ \A j \in Issues : /\ Loaded(board, j)' => Loaded(board, j)
                              /\ detail'[j] # Nothing <=> detail[j] # Nothing
<1>1. /\ Loaded(board, i) \/ detail[i] # Nothing
      /\ Begin(m, i, to, StaleCard(board, i, to, detail[i] # to, detail[i]))
      /\ UNCHANGED <<serverVars, pending, dfetch>> /\ ~fetch'
      /\ board' = Reconciled(board, i, to, detail[i] # to, detail[i])
      /\ PatchDetail(i, to)
      /\ ~raced' => ~raced /\ ~fetch /\ InFlight = {}
  BY DEF OnMutateUpdate
<1>2. StaleCard(board, i, to, detail[i] # to, detail[i]) = (~Loaded(board, i) /\ detail[i] # to)
  BY DEF StaleCard
<1>3. \A j \in Issues : detail'[j] = IF j = i /\ detail[i] # Nothing THEN to ELSE detail[j]
  BY <1>1 DEF PatchDetail, CacheTypes
<1>4. ASSUME NEW j \in Issues, Loaded(board, j)' PROVE Loaded(board, j)
  <2>1. PICK b, c, x : b = board /\ c = board' /\ x = detail[i]
    OBVIOUS
  <2>2. Loaded(c, j) /\ c = Reconciled(b, i, to, x # to, x) /\ b \in Boards /\ x \in Statuses
    BY <1>1, <1>4, <2>1 DEF CacheTypes, Loaded, Buckets
  <2>3. Loaded(b, j)
    BY <2>2, ChangeLoads
  <2> QED BY <2>1, <2>3
<1>5. \A j \in Issues : detail'[j] # Nothing <=> detail[j] # Nothing
  BY <1>3, Names
<1> QED BY <1>1, <1>2, <1>3, <1>4, <1>5

LEMMA OnMutateUpdateFacts ==
  ASSUME BoardFacts, NEW m \in Mutations, NEW i \in Issues, NEW to \in PaginatedStatuses,
         OnMutateUpdate(m, i, to)
  PROVE  (EventsOK /\ AnswersOK /\ KnownInv /\ RepairInv)'
<1>1. CacheTypes /\ KnownInv
  BY DEF BoardFacts, CommittedInv
<1>2. PICK stale \in BOOLEAN : stale = (~Loaded(board, i) /\ detail[i] # to)
  OBVIOUS
<1>3. /\ Loaded(board, i) \/ detail[i] # Nothing
      /\ Begin(m, i, to, stale) /\ UNCHANGED <<serverVars, pending, dfetch>>
      /\ \A j \in Issues : /\ Loaded(board, j)' => Loaded(board, j)
                           /\ detail'[j] # Nothing <=> detail[j] # Nothing
  BY <1>1, <1>2, UpdateBegins
<1>4. dfetch' \subseteq Issues /\ \A j \in dfetch' : detail'[j] # Nothing
  BY <1>1, <1>3 DEF KnownInv
<1>5. to = Gone => stale
  BY Names
<1> QED BY <1>3, <1>4, <1>5, BeginFacts

LEMMA DeleteBegins ==
  ASSUME CacheTypes, NEW m \in Mutations, NEW i \in Issues, OnMutateDelete(m, i)
  PROVE  /\ Loaded(board, i) \/ detail[i] # Nothing
         /\ Begin(m, i, Gone, TRUE) /\ UNCHANGED <<serverVars, pending>>
         /\ \A j \in Issues : detail'[j] = IF j = i THEN Nothing ELSE detail[j]
         /\ ~raced' => ~raced /\ InFlight = {}
         /\ dfetch' = dfetch \ {i}
         /\ \A j \in Issues : Loaded(board, j)' => Loaded(board, j)
<1>1. /\ Loaded(board, i) \/ detail[i] # Nothing
      /\ Begin(m, i, Gone, TRUE) /\ UNCHANGED <<serverVars, pending>>
      /\ board' = RemoveIssue(board, i) /\ detail' = [detail EXCEPT ![i] = Nothing]
      /\ dfetch' = dfetch \ {i} /\ (~raced' => ~raced /\ InFlight = {})
  BY DEF OnMutateDelete
<1>2. \A j \in Issues : detail'[j] = IF j = i THEN Nothing ELSE detail[j]
  BY <1>1 DEF CacheTypes
<1>3. \A j \in Issues : Loaded(board, j)' => Loaded(board, j)
  <2>1. PICK b, c : b = board /\ c = board'
    OBVIOUS
  <2>2. \A j \in Issues : Buckets(c, j) \subseteq Buckets(b, j)
    BY <1>1, <2>1, CardGoes DEF CacheTypes
  <2>3. \A j \in Issues : Loaded(c, j) => Loaded(b, j)
    BY <2>2 DEF Loaded
  <2> QED BY <2>1, <2>3 DEF Loaded, Buckets
<1> QED BY <1>1, <1>2, <1>3

LEMMA OnMutateDeleteFacts ==
  ASSUME BoardFacts, NEW m \in Mutations, NEW i \in Issues, OnMutateDelete(m, i)
  PROVE  (EventsOK /\ AnswersOK /\ KnownInv /\ RepairInv)'
<1>1. CacheTypes /\ KnownInv
  BY DEF BoardFacts, CommittedInv
<1>2. /\ Loaded(board, i) \/ detail[i] # Nothing
      /\ Begin(m, i, Gone, TRUE) /\ UNCHANGED <<serverVars, pending>>
      /\ \A j \in Issues : detail'[j] = IF j = i THEN Nothing ELSE detail[j]
      /\ dfetch' = dfetch \ {i}
      /\ \A j \in Issues : Loaded(board, j)' => Loaded(board, j)
  BY <1>1, DeleteBegins
<1>3. dfetch' \subseteq Issues /\ \A j \in dfetch' : detail'[j] # Nothing
  BY <1>1, <1>2 DEF KnownInv
<1>4. \A j \in Issues : detail'[j] # Nothing => detail[j] # Nothing
  BY <1>2
<1> QED BY <1>2, <1>3, <1>4, BeginFacts

LEMMA BeginTidy ==
  ASSUME BoardFacts, Tidy, InFlight = {}, NEW m \in Mutations, NEW i \in Issues,
         NEW to \in PaginatedStatuses \cup {Gone}, NEW stale \in BOOLEAN, Begin(m, i, to, stale),
         UNCHANGED <<server, last, pending>>, Loaded(board, i) \/ detail[i] # Nothing,
         \A j \in Issues : Loaded(board, j)' => Loaded(board, j),
         \A j \in Issues \ {i} : detail'[j] = detail[j],
         \/ detail'[i] = Nothing
         \/ /\ detail'[i] = to /\ detail[i] # Nothing
            /\ Loaded(board, i) \/ stale \/ detail[i] = to,
         ~stale /\ ~Loaded(board, i) => board' = board
  PROVE  (OneMutation /\ DetailInv /\ SnapshotInv /\ CreatedInv)'
<1>1. CacheTypes /\ EventsOK /\ DetailInv /\ CreatedInv
  BY DEF BoardFacts, CommittedInv, Tidy
<1>2. /\ mut'[m].issue = i /\ mut'[m].to = to /\ mut'[m].phase = "sent"
      /\ mut'[m].board = board /\ mut'[m].detail = detail[i] /\ mut'[m].stale = stale
      /\ InFlight' = {m}
  BY <1>1, BeginMoves
<1>3. \A j \in Issues : DetailOK(j, detail[j])
  BY <1>1 DEF DetailInv
<1>4. \A j \in Issues : \A x : DetailOK(j, x) => DetailOK(j, x)'
  BY DEF DetailOK, Newest
<1>5. OneMutation'
  BY <1>2 DEF OneMutation
<1>6. DetailInv'
  <2> SUFFICES ASSUME NEW j \in Issues PROVE DetailOK(j, detail[j])' \/ Asked(j, m)'
    BY <1>2 DEF DetailInv
  <2>1. PICK x : x = detail'[j]
    OBVIOUS
  <2>2. CASE x = Nothing
    BY <2>1, <2>2 DEF DetailOK
  <2>3. CASE x = detail[j]
    <3>1. DetailOK(j, x)'
      BY <1>3, <1>4, <2>3
    <3> QED BY <2>1, <3>1 DEF DetailOK
  <2>4. CASE j = i /\ x = to /\ (Loaded(board, i) \/ stale)
    <3>1. Loaded(mut[m].board, i)' \/ mut'[m].stale
      BY <1>2, <2>4 DEF Loaded, Buckets
    <3> QED BY <1>2, <2>1, <2>4, <3>1 DEF Asked
  <2> QED BY <2>1, <2>2, <2>3, <2>4
<1>7. SnapshotInv'
  <2>1. PICK x : x = detail[i]
    OBVIOUS
  <2>2. DetailOK(i, x)'
    BY <1>3, <1>4, <2>1
  <2>3. DetailOK(mut[m].issue, mut[m].detail)'
    BY <1>2, <2>1, <2>2 DEF DetailOK, Newest
  <2> QED BY <1>2, <2>3 DEF SnapshotInv, Loaded, Buckets
<1>8. CreatedInv'
  <2> SUFFICES ASSUME NEW e \in pending, e.kind = "created"
               PROVE  (/\ detail[e.issue] = Nothing /\ ~Loaded(board, e.issue)
                       /\ \A l \in InFlight : mut[l].issue # e.issue /\ ~Loaded(mut[l].board, e.issue))'
    BY DEF CreatedInv
  <2>1. detail[e.issue] = Nothing /\ ~Loaded(board, e.issue) /\ e.issue \in Issues
    BY <1>1, EventsTyped DEF CreatedInv
  <2>2. e.issue # i
    BY <2>1
  <2> QED BY <1>2, <2>1, <2>2 DEF Loaded, Buckets
<1> QED BY <1>5, <1>6, <1>7, <1>8

LEMMA OnMutateDeleteTidy ==
  ASSUME BoardFacts, Tidy, NEW m \in Mutations, NEW i \in Issues, OnMutateDelete(m, i), ~raced'
  PROVE  Tidy'
<1>1. CacheTypes
  BY DEF BoardFacts, CommittedInv
<1>2. /\ Loaded(board, i) \/ detail[i] # Nothing
      /\ Begin(m, i, Gone, TRUE) /\ UNCHANGED <<serverVars, pending>>
      /\ \A j \in Issues : detail'[j] = IF j = i THEN Nothing ELSE detail[j]
      /\ InFlight = {}
      /\ \A j \in Issues : Loaded(board, j)' => Loaded(board, j)
  BY <1>1, DeleteBegins
<1>3. (OneMutation /\ DetailInv /\ SnapshotInv /\ CreatedInv)'
  <2>1. UNCHANGED <<server, last, pending>>
    BY <1>2 DEF serverVars
  <2> QED BY <1>2, <2>1, BeginTidy
<1>4. m \in InFlight' /\ mut'[m].stale
  BY <1>1, <1>2, BeginMoves
<1>5. BoardInv'
  BY <1>4 DEF BoardInv, Clean
<1> QED BY <1>3, <1>5 DEF Tidy

LEMMA ExplainsStays ==
  ASSUME NEW b, NEW B \in Columns, Explains(b, B), UNCHANGED server,
         pending' \subseteq pending, dfetch' \subseteq dfetch
  PROVE  Explains(b, B)'
BY DEF Explains, Counts, InColumn, Loaded, Buckets

(* the creation of an issue is not still to be heard of *)
Heard(i) == \A e \in pending : e.kind = "created" => e.issue # i
Recounted(b, B, c, i, to) ==
  \E C \in Columns : /\ Explains(c, C) /\ C[i] = to /\ \A j \in Issues \ {i} : C[j] = B[j]
                     /\ \A j \in Issues : Loaded(c, j) <=> Loaded(b, j)

(* a loaded card is patched: the totals count it where it is now *)
LEMMA PatchExplains ==
  ASSUME CacheTypes, KnownInv, NEW b \in Boards, NEW B \in Columns, Explains(b, B),
         NEW i \in Issues, Loaded(b, i), Heard(i),
         NEW to \in PaginatedStatuses
  PROVE  Recounted(b, B, PatchIssue(b, i, to), i, to)
<1>1. PICK C : C = [B EXCEPT ![i] = to]
  OBVIOUS
<1>2. PICK c : c = PatchIssue(b, i, to)
  OBVIOUS
<1>3. Counts(c, C) /\ \A j \in Issues : Loaded(c, j) <=> Loaded(b, j)
  BY <1>1, <1>2, PatchCounts DEF Explains
<1>4. C \in Columns /\ C[i] = to /\ \A j \in Issues \ {i} : C[j] = B[j]
  BY <1>1 DEF Columns
<1>5. \A e \in pending : e.kind = "created" => C[e.issue] = Gone
  BY <1>4, EventsTyped DEF Explains, Heard
<1>6. \A j \in dfetch : Loaded(c, j) \/ C[j] = server[j]
  BY <1>3, <1>4 DEF Explains, KnownInv
<1>7. Explains(c, C)
  BY <1>3, <1>5, <1>6 DEF Explains
<1> QED BY <1>2, <1>3, <1>4, <1>7 DEF Recounted

LEMMA OnMutateUpdateTidy ==
  ASSUME BoardFacts, Tidy, NEW m \in Mutations, NEW i \in Issues, NEW to \in PaginatedStatuses,
         OnMutateUpdate(m, i, to), ~raced'
  PROVE  Tidy'
<1>1. CacheTypes /\ EventsOK /\ board \in Boards
  BY DEF BoardFacts, CommittedInv, CacheTypes
<1>2. PICK stale \in BOOLEAN : stale = (~Loaded(board, i) /\ detail[i] # to)
  OBVIOUS
<1>3. /\ Loaded(board, i) \/ detail[i] # Nothing
      /\ Begin(m, i, to, stale)
      /\ UNCHANGED <<serverVars, pending, dfetch>> /\ ~fetch'
      /\ board' = Reconciled(board, i, to, detail[i] # to, detail[i])
      /\ \A j \in Issues : detail'[j] = IF j = i /\ detail[i] # Nothing THEN to ELSE detail[j]
      /\ ~fetch /\ InFlight = {}
      /\ \A j \in Issues : Loaded(board, j)' => Loaded(board, j)
  BY <1>1, <1>2, UpdateBegins
<1>4. UNCHANGED <<server, last, pending>>
  BY <1>3 DEF serverVars
<1>5. ~stale /\ ~Loaded(board, i) => board' = board
  BY <1>2, <1>3 DEF Reconciled
<1>6. (OneMutation /\ DetailInv /\ SnapshotInv /\ CreatedInv)'
  <2>1. \/ detail'[i] = Nothing
        \/ /\ detail'[i] = to /\ detail[i] # Nothing
           /\ Loaded(board, i) \/ stale \/ detail[i] = to
    BY <1>2, <1>3
  <2>2. \A j \in Issues \ {i} : detail'[j] = detail[j]
    BY <1>3
  <2> QED BY <1>3, <1>4, <1>5, <2>1, <2>2, BeginTidy
<1>7. /\ mut'[m].issue = i /\ mut'[m].to = to /\ mut'[m].phase = "sent"
      /\ mut'[m].board = board /\ mut'[m].detail = detail[i] /\ mut'[m].stale = stale
      /\ InFlight' = {m}
  BY <1>1, <1>3, BeginMoves
<1>8. DetailInv /\ CreatedInv /\ BoardInv
  BY DEF Tidy
<1>9. PICK b, d : b = board /\ d = detail
  OBVIOUS
<1>10. PICK B \in Columns : Explains(b, B) /\ \A j \in Issues : Right(b, B, j, d[j])
  BY <1>3, <1>8, <1>9 DEF BoardInv, Clean, Fine
<1>11. Fine(mut[m].board, Restored(m))'
  <2>1. Restored(m)' = d
    <3>1. detail' \in [Issues -> Statuses] /\ d \in [Issues -> Statuses]
      BY <1>1, <1>3, <1>9 DEF PatchDetail, OnMutateUpdate, CacheTypes, Statuses
    <3>2. Restored(m)' = [detail' EXCEPT ![i] = d[i]]
      BY <1>7, <1>9 DEF Restored
    <3> QED BY <1>3, <1>9, <3>1, <3>2
  <2>2. mut'[m].board = b
    BY <1>7, <1>9
  <2>3. Explains(b, B)' /\ \A j \in Issues : Right(b, B, j, d[j])'
    BY <1>3, <1>4, <1>10 DEF Explains, Counts, InColumn, Right, Announced, Newest, Loaded, Buckets
  <2>4. Fine(b, d)'
    BY <2>3 DEF Fine, Columns
  <2> QED BY <2>1, <2>2, <2>4
<1>12. ASSUME ~stale PROVE FineUnder(m)'
  <2>1. CASE Loaded(b, i)
    <3>1. PICK c : c = board'
      OBVIOUS
    <3>2. c = PatchIssue(b, i, to)
      BY <1>3, <1>9, <2>1, <3>1 DEF Reconciled
    <3>3. \A e \in pending : e.kind = "created" => e.issue # i
      BY <1>8, <1>9, <2>1 DEF CreatedInv
    <3>4. PICK C \in Columns : /\ Explains(c, C) /\ C[i] = to
                               /\ \A j \in Issues \ {i} : C[j] = B[j]
                               /\ \A j \in Issues : Loaded(c, j) <=> Loaded(b, j)
      <4>1. CacheTypes /\ KnownInv /\ b \in Boards /\ Explains(b, B)
        BY <1>1, <1>9, <1>10 DEF BoardFacts
      <4>2. Heard(i)
        BY <3>3 DEF Heard
      <4>3. Recounted(b, B, PatchIssue(b, i, to), i, to)
        BY <2>1, <4>1, <4>2, PatchExplains
      <4> QED BY <3>2, <4>3 DEF Recounted
    <3>5. Explains(c, C)'
      BY <1>3, <1>4, <3>4, ExplainsStays
    <3>6. ASSUME NEW j \in Issues \ {i} PROVE Right(c, C, j, detail[j])'
      <4>1. detail'[j] = d[j] /\ C[j] = B[j] /\ (Loaded(c, j) <=> Loaded(b, j)) /\ Right(b, B, j, d[j])
        BY <1>3, <1>9, <1>10, <3>4
      <4> QED BY <1>4, <4>1 DEF Right, Announced, Newest, Loaded, Buckets
    <3>7. RightUnder(m, C)'
      BY <1>7, <2>1, <3>1, <3>4 DEF RightUnder, Loaded, Buckets
    <3>8. Explains(board, C)' /\ \A j \in Issues \ {mut'[m].issue} : Right(board, C, j, detail[j])'
      BY <1>7, <3>1, <3>5, <3>6 DEF Explains, Counts, InColumn, Right, Loaded, Buckets
    <3> QED BY <3>4, <3>7, <3>8 DEF FineUnder, Columns
  <2>2. CASE ~Loaded(b, i)
    <3>1. d[i] = to /\ board' = b /\ to # Nothing
      BY <1>2, <1>5, <1>9, <1>12, <2>2, Names
    <3>2. \A j \in Issues : detail'[j] = d[j]
      BY <1>3, <1>9, <3>1
    <3>3. Right(b, B, i, to) /\ DetailOK(i, to)
      BY <1>3, <1>8, <1>9, <1>10, <3>1 DEF DetailInv
    <3>4. B[i] = to \/ Announced(i, B[i])
      BY <1>1, <2>2, <3>1, <3>3, NewestSays DEF Right, DetailOK
    <3>5. RightUnder(m, B)'
      BY <1>4, <1>7, <3>1, <3>2, <3>4 DEF RightUnder, Announced
    <3>6. Explains(board, B)'
      BY <1>3, <1>4, <1>10, <3>1 DEF Explains, Counts, InColumn, Loaded, Buckets
    <3>7. ASSUME NEW j \in Issues PROVE Right(board, B, j, detail[j])'
      <4>1. Right(b, B, j, d[j]) /\ detail'[j] = d[j]
        BY <1>10, <3>2
      <4> QED BY <1>4, <3>1, <4>1 DEF Right, Announced, Newest, Loaded, Buckets
    <3> QED BY <3>5, <3>6, <3>7 DEF FineUnder, Columns
  <2> QED BY <2>1, <2>2
<1>13. BoardInv'
  BY <1>7, <1>11, <1>12 DEF BoardInv, Clean
<1> QED BY <1>6, <1>13 DEF Tidy

-----------------------------------------------------------------------------
(* Mutations end *)

LEMMA EndMoves ==
  ASSUME CacheTypes, NEW m \in InFlight, mut' = [Moved EXCEPT ![m] = Idle]
  PROVE  /\ InFlight' = InFlight \ {m}
         /\ \A l \in Mutations \ {m} : SameMutation(l)
<1>1. m \in Mutations /\ Idle.phase = "idle"
  BY InFlightTyped DEF Idle
<1>2. mut'[m] = Idle /\ \A l \in Mutations \ {m} : mut'[l] = Moved[l]
  BY <1>1 DEF Moved
<1>3. \A l \in Mutations \ {m} : SameMutation(l)
  BY <1>2, MovedIsSame DEF SameMutation
<1>4. InFlight' = InFlight \ {m}
  BY <1>1, <1>2, <1>3 DEF InFlight, SameMutation
<1> QED BY <1>3, <1>4

LEMMA EndFacts ==
  ASSUME BoardFacts, NEW m \in InFlight, mut' = [Moved EXCEPT ![m] = Idle],
         UNCHANGED <<serverVars, pending, repair>>,
         \A j \in Issues : Loaded(board, j)' \/ detail'[j] # Nothing => Known(j),
         dfetch' \subseteq Issues, \A j \in dfetch' : detail'[j] # Nothing
  PROVE  (EventsOK /\ AnswersOK /\ KnownInv /\ RepairInv)'
<1>1. CacheTypes /\ EventsOK /\ AnswersOK /\ KnownInv /\ RepairInv
  BY DEF BoardFacts, CommittedInv
<1>2. UNCHANGED <<server, writes, last, pending>> /\ writes \in Nat
  BY <1>1 DEF serverVars, CacheTypes
<1>3. InFlight' = InFlight \ {m} /\ \A l \in Mutations \ {m} : SameMutation(l)
  BY <1>1, EndMoves
<1>4. EventsOK'
  BY <1>1, <1>2, EventsStay
<1>5. \A l \in InFlight' : SameMutation(l)
  BY <1>1, <1>3, InFlightTyped
<1>6. AnswersOK'
  BY <1>1, <1>2, <1>5, AnswersStay
<1>7. KnownInv'
  <2>1. \A j \in Issues : Known(j) => Known(j)'
    BY <1>2 DEF Known
  <2> QED BY <1>1, <1>5, <2>1, KnownStays
<1>8. RepairInv'
  BY <1>1 DEF RepairInv
<1> QED BY <1>4, <1>6, <1>7, <1>8

LEMMA EndTidy ==
  ASSUME BoardFacts, Tidy, NEW m \in InFlight, mut' = [Moved EXCEPT ![m] = Idle],
         \A j \in Issues : DetailOK(j, detail[j])',
         \A e \in pending' : e.kind = "created" => detail'[e.issue] = Nothing /\ ~Loaded(board, e.issue)',
         ~fetch' => Fine(board, detail)'
  PROVE  Tidy'
<1>1. CacheTypes /\ OneMutation
  BY DEF BoardFacts, CommittedInv, Tidy
<1>2. InFlight' = {}
  BY <1>1, EndMoves DEF OneMutation
<1>3. OneMutation' /\ SnapshotInv' /\ CreatedInv' /\ DetailInv'
  BY <1>2 DEF OneMutation, SnapshotInv, CreatedInv, DetailInv
<1>4. BoardInv'
  BY <1>2 DEF BoardInv, Clean
<1> QED BY <1>3, <1>4 DEF Tidy

LEMMA SuccessMoves ==
  ASSUME CacheTypes, NEW m \in Mutations, OnSuccess(m), NEW i, i = mut[m].issue, NEW to, to = mut[m].to
  PROVE  /\ m \in InFlight /\ mut[m] \in MutationRec /\ mut[m].phase = "ok"
         /\ i \in Issues /\ to \in PaginatedStatuses \cup {Gone}
         /\ mut' = [Moved EXCEPT ![m] = Idle] /\ UNCHANGED <<serverVars, pending, repair>>
         /\ fetch' = (fetch \/ mut[m].stale)
         /\ \A j \in Issues : detail'[j] = IF j # i THEN detail[j]
                                           ELSE IF to = Gone \/ detail[i] = Nothing THEN Nothing ELSE to
         /\ to # Gone /\ Loaded(board, i) => board' = PatchIssue(board, i, to)
         /\ to # Gone /\ ~Loaded(board, i) => board' = board
         /\ dfetch' = IF to = Gone THEN dfetch \ {i} ELSE dfetch
         /\ raced' = (raced \/ Overtaken(i, mut[m].n) \/ Miscounted(m))
         /\ \A j \in Issues : Loaded(board, j)' => Loaded(board, j)
<1>1. /\ mut' = [Moved EXCEPT ![m] = Idle] /\ UNCHANGED <<serverVars, pending, repair>>
      /\ mut[m].phase = "ok" /\ fetch' = (fetch \/ mut[m].stale)
      /\ raced' = (raced \/ Overtaken(i, mut[m].n) \/ Miscounted(m))
      /\ IF to = Gone
         THEN /\ board' = RemoveIssue(board, i) /\ detail' = [detail EXCEPT ![i] = Nothing]
              /\ dfetch' = dfetch \ {i}
         ELSE board' = Reconciled(board, i, to, FALSE, to) /\ PatchDetail(i, to) /\ UNCHANGED dfetch
  BY DEF OnSuccess
<1>2. m \in InFlight /\ mut[m] \in MutationRec
  BY <1>1, InFlightTyped DEF InFlight
<1>3. i \in Issues /\ to \in PaginatedStatuses \cup {Gone}
  BY <1>2 DEF MutationRec
<1>4. \A j \in Issues : detail'[j] = IF j # i THEN detail[j]
                                     ELSE IF to = Gone \/ detail[i] = Nothing THEN Nothing ELSE to
  BY <1>1, <1>3 DEF PatchDetail, CacheTypes
<1>5. /\ to # Gone /\ Loaded(board, i) => board' = PatchIssue(board, i, to)
      /\ to # Gone /\ ~Loaded(board, i) => board' = board
  BY <1>1 DEF Reconciled
<1>6. ASSUME NEW j \in Issues, Loaded(board, j)' PROVE Loaded(board, j)
  <2>1. PICK b, c : b = board /\ c = board'
    OBVIOUS
  <2>2. Loaded(c, j) /\ b \in Boards
    BY <1>6, <2>1 DEF CacheTypes, Loaded, Buckets
  <2>3. CASE to = Gone
    <3>1. Buckets(c, j) \subseteq Buckets(b, j)
      BY <1>1, <1>3, <2>1, <2>2, <2>3, CardGoes
    <3> QED BY <2>1, <2>2, <3>1 DEF Loaded
  <2>4. CASE to # Gone
    <3>1. to \in PaginatedStatuses /\ to \in Statuses /\ c = Reconciled(b, i, to, FALSE, to)
      BY <1>1, <1>3, <2>1, <2>4 DEF Statuses
    <3>2. Loaded(b, j)
      BY <1>3, <2>2, <3>1, ChangeLoads
    <3> QED BY <2>1, <3>2
  <2> QED BY <2>3, <2>4
<1>7. dfetch' = IF to = Gone THEN dfetch \ {i} ELSE dfetch
  BY <1>1
<1> QED BY <1>1, <1>2, <1>3, <1>4, <1>5, <1>6, <1>7

LEMMA OnSuccessFacts ==
  ASSUME BoardFacts, NEW m \in Mutations, OnSuccess(m)
  PROVE  (EventsOK /\ AnswersOK /\ KnownInv /\ RepairInv)'
<1>1. CacheTypes /\ KnownInv
  BY DEF BoardFacts, CommittedInv
<1>2. PICK i, to : i = mut[m].issue /\ to = mut[m].to
  OBVIOUS
<1>3. /\ m \in InFlight
      /\ mut' = [Moved EXCEPT ![m] = Idle] /\ UNCHANGED <<serverVars, pending, repair>>
      /\ \A j \in Issues : detail'[j] = IF j # i THEN detail[j]
                                        ELSE IF to = Gone \/ detail[i] = Nothing THEN Nothing ELSE to
      /\ dfetch' = IF to = Gone THEN dfetch \ {i} ELSE dfetch
      /\ \A j \in Issues : Loaded(board, j)' => Loaded(board, j)
      /\ to \in PaginatedStatuses \cup {Gone}
  BY <1>1, <1>2, SuccessMoves
<1>4. \A j \in Issues : Loaded(board, j)' \/ detail'[j] # Nothing => Known(j)
  BY <1>1, <1>3 DEF KnownInv
<1>5. dfetch' \subseteq Issues /\ \A j \in dfetch' : detail'[j] # Nothing
  BY <1>1, <1>3, Names DEF KnownInv
<1> QED BY <1>3, <1>4, <1>5, EndFacts

LEMMA OnSuccessTidy ==
  ASSUME BoardFacts, Tidy, NEW m \in Mutations, OnSuccess(m), ~raced'
  PROVE  Tidy'
<1>1. CacheTypes /\ EventsOK /\ KnownInv /\ AnswersOK /\ DetailInv /\ OneMutation /\ CreatedInv /\ BoardInv
  BY DEF BoardFacts, CommittedInv, Tidy
<1>2. PICK i \in Issues, to \in PaginatedStatuses \cup {Gone} : i = mut[m].issue /\ to = mut[m].to
  <2>1. mut[m] \in MutationRec
    BY <1>1, SuccessMoves
  <2> QED BY <2>1 DEF MutationRec
<1>3. /\ m \in InFlight /\ mut[m].phase = "ok"
      /\ mut' = [Moved EXCEPT ![m] = Idle] /\ UNCHANGED <<serverVars, pending, repair>>
      /\ fetch' = (fetch \/ mut[m].stale)
      /\ \A j \in Issues : detail'[j] = IF j # i THEN detail[j]
                                        ELSE IF to = Gone \/ detail[i] = Nothing THEN Nothing ELSE to
      /\ to # Gone /\ Loaded(board, i) => board' = PatchIssue(board, i, to)
      /\ to # Gone /\ ~Loaded(board, i) => board' = board
      /\ dfetch' = IF to = Gone THEN dfetch \ {i} ELSE dfetch
      /\ raced' = (raced \/ Overtaken(i, mut[m].n) \/ Miscounted(m))
      /\ \A j \in Issues : Loaded(board, j)' => Loaded(board, j)
  BY <1>1, <1>2, SuccessMoves
<1>4. UNCHANGED <<server, last, pending>>
  BY <1>3 DEF serverVars
<1>5. to = server[i] \/ Newest(i)
  BY <1>1, <1>2, <1>3 DEF AnswersOK, AnswerOK, Overtaken, Newest
<1>6. \A j \in Issues : DetailOK(j, detail[j])
  BY <1>1, <1>3 DEF DetailInv, OneMutation, Asked
<1>7. ASSUME NEW j \in Issues PROVE DetailOK(j, detail[j])'
  <2>1. PICK x : x = detail'[j]
    OBVIOUS
  <2>2. DetailOK(j, x)
    BY <1>3, <1>5, <1>6, <2>1 DEF DetailOK
  <2>3. DetailOK(j, x)'
    BY <1>4, <2>2 DEF DetailOK, Newest
  <2> QED BY <2>1, <2>3 DEF DetailOK
<1>8. \A e \in pending : e.kind = "created" => e.issue # i /\ e.issue \in Issues
  BY <1>1, <1>2, <1>3, EventsTyped DEF CreatedInv
<1>9. \A e \in pending' : e.kind = "created" => detail'[e.issue] = Nothing /\ ~Loaded(board, e.issue)'
  BY <1>1, <1>3, <1>4, <1>8 DEF CreatedInv
<1>10. ASSUME ~fetch' PROVE Fine(board, detail)'
  <2>1. ~fetch /\ ~mut[m].stale /\ to \in PaginatedStatuses
    BY <1>1, <1>2, <1>3, <1>10 DEF AnswersOK, AnswerOK
  <2>2. PICK b, d, c : b = board /\ d = detail /\ c = board'
    OBVIOUS
  <2>3. to # Gone /\ dfetch' = dfetch /\ b \in Boards
    BY <1>1, <1>3, <2>1, <2>2, Names DEF CacheTypes
  <2>4. PICK B \in Columns : /\ Explains(b, B) /\ RightUnder(m, B)
                             /\ \A j \in Issues \ {i} : Right(b, B, j, d[j])
    <3>1. FineUnder(m)
      BY <1>1, <1>3, <2>1 DEF BoardInv, Clean, OneMutation
    <3> QED BY <1>2, <2>2, <3>1 DEF FineUnder
  <2>5. CASE Loaded(b, i)
    <3>1. c = PatchIssue(b, i, to)
      BY <1>3, <2>2, <2>3, <2>5
    <3>2. PICK C \in Columns : /\ Explains(c, C) /\ C[i] = to
                               /\ \A j \in Issues \ {i} : C[j] = B[j]
                               /\ \A j \in Issues : Loaded(c, j) <=> Loaded(b, j)
      <4>1. Heard(i)
        BY <1>8 DEF Heard
      <4>2. Recounted(b, B, PatchIssue(b, i, to), i, to)
        BY <1>1, <2>1, <2>3, <2>4, <2>5, <4>1, PatchExplains
      <4> QED BY <3>1, <4>2 DEF Recounted
    <3>3. Explains(c, C)'
      BY <1>4, <2>3, <3>2, ExplainsStays
    <3>4. ASSUME NEW j \in Issues PROVE Right(c, C, j, detail[j])'
      <4>1. CASE j = i
        <5>1. Loaded(c, i) /\ C[i] = to
          BY <2>5, <3>2
        <5> QED BY <1>4, <1>5, <4>1, <5>1 DEF Right, Newest, Loaded, Buckets
      <4>2. CASE j # i
        <5>1. detail'[j] = d[j] /\ C[j] = B[j] /\ (Loaded(c, j) <=> Loaded(b, j)) /\ Right(b, B, j, d[j])
          BY <1>3, <2>2, <2>4, <3>2, <4>2
        <5> QED BY <1>4, <5>1 DEF Right, Announced, Newest, Loaded, Buckets
      <4> QED BY <4>1, <4>2
    <3>5. Explains(board, C)' /\ \A j \in Issues : Right(board, C, j, detail[j])'
      BY <2>2, <3>3, <3>4 DEF Explains, Counts, InColumn, Right, Loaded, Buckets
    <3> QED BY <3>2, <3>5 DEF Fine, Columns
  <2>6. CASE ~Loaded(b, i)
    <3>1. c = b /\ d[i] \in {Nothing, to}
      BY <1>2, <1>3, <2>1, <2>2, <2>3, <2>6 DEF Miscounted
    <3>2. \A j \in Issues : detail'[j] = d[j]
      BY <1>3, <2>2, <2>3, <3>1
    <3>3. \A j \in Issues : Right(b, B, j, d[j])
      BY <1>2, <1>3, <2>2, <2>4, <2>6, <3>1 DEF RightUnder
    <3>4. Explains(board, B)'
      BY <1>4, <2>2, <2>3, <2>4, <3>1 DEF Explains, Counts, InColumn, Loaded, Buckets
    <3>5. ASSUME NEW j \in Issues PROVE Right(board, B, j, detail[j])'
      <4>1. Right(b, B, j, d[j]) /\ detail'[j] = d[j]
        BY <3>2, <3>3
      <4> QED BY <1>4, <2>2, <3>1, <4>1 DEF Right, Announced, Newest, Loaded, Buckets
    <3> QED BY <3>4, <3>5 DEF Fine, Columns
  <2> QED BY <2>5, <2>6
<1> QED BY <1>3, <1>7, <1>9, <1>10, EndTidy

LEMMA ErrorMoves ==
  ASSUME CacheTypes, NEW m \in Mutations, OnError(m)
  PROVE  /\ m \in InFlight /\ mut[m] \in MutationRec
         /\ mut' = [Moved EXCEPT ![m] = Idle] /\ UNCHANGED <<serverVars, pending, dfetch, repair>>
         /\ board' = mut[m].board \/ (board' = board /\ ~Loaded(mut[m].board, mut[m].issue))
         /\ \A j \in Issues : detail'[j] = IF j = mut[m].issue /\ mut[m].detail # Nothing
                                           THEN mut[m].detail ELSE detail[j]
         /\ fetch' = (fetch \/ mut[m].stale) /\ raced' = (raced \/ mut[m].moved)
<1>1. /\ mut' = [Moved EXCEPT ![m] = Idle] /\ UNCHANGED <<serverVars, pending, dfetch, repair>>
      /\ board' = mut[m].board \/ (board' = board /\ ~Loaded(mut[m].board, mut[m].issue))
      /\ detail' = IF mut[m].detail = Nothing THEN detail
                   ELSE [detail EXCEPT ![mut[m].issue] = mut[m].detail]
      /\ fetch' = (fetch \/ mut[m].stale) /\ raced' = (raced \/ mut[m].moved)
  BY DEF OnError
<1>2. m \in InFlight /\ mut[m] \in MutationRec
  BY InFlightTyped DEF OnError, InFlight
<1>3. \A j \in Issues : detail'[j] = IF j = mut[m].issue /\ mut[m].detail # Nothing
                                     THEN mut[m].detail ELSE detail[j]
  BY <1>1, <1>2 DEF CacheTypes, MutationRec
<1> QED BY <1>1, <1>2, <1>3

LEMMA OnErrorFacts ==
  ASSUME BoardFacts, NEW m \in Mutations, OnError(m)
  PROVE  (EventsOK /\ AnswersOK /\ KnownInv /\ RepairInv)'
<1>1. CacheTypes /\ KnownInv
  BY DEF BoardFacts, CommittedInv
<1>2. /\ m \in InFlight
      /\ mut' = [Moved EXCEPT ![m] = Idle] /\ UNCHANGED <<serverVars, pending, dfetch, repair>>
      /\ board' = mut[m].board \/ board' = board
      /\ \A j \in Issues : detail'[j] = IF j = mut[m].issue /\ mut[m].detail # Nothing
                                        THEN mut[m].detail ELSE detail[j]
  BY <1>1, ErrorMoves
<1>3. ASSUME NEW j \in Issues, Loaded(board, j)' \/ detail'[j] # Nothing PROVE Known(j)
  <2>1. CASE Loaded(board, j)'
    <3>1. Loaded(board, j) \/ Loaded(mut[m].board, j)
      BY <1>2, <2>1 DEF Loaded, Buckets
    <3> QED BY <1>1, <1>2, <3>1 DEF KnownInv, KnownMutation
  <2>2. CASE detail'[j] # Nothing
    <3>1. j = mut[m].issue \/ detail[j] # Nothing
      BY <1>2, <2>2
    <3> QED BY <1>1, <1>2, <3>1 DEF KnownInv, KnownMutation
  <2> QED BY <1>3, <2>1, <2>2
<1>4. dfetch' \subseteq Issues /\ \A j \in dfetch' : detail'[j] # Nothing
  BY <1>1, <1>2 DEF KnownInv
<1>5. UNCHANGED <<serverVars, pending, repair>>
  BY <1>2
<1> QED BY <1>2, <1>3, <1>4, <1>5, EndFacts

LEMMA OnErrorTidy ==
  ASSUME BoardFacts, CacheTypes', Tidy, NEW m \in Mutations, OnError(m), ~raced'
  PROVE  Tidy'
<1>1. CacheTypes /\ OneMutation /\ DetailInv /\ SnapshotInv /\ CreatedInv /\ BoardInv
  BY DEF BoardFacts, CommittedInv, Tidy
<1>2. /\ m \in InFlight /\ mut[m] \in MutationRec
      /\ mut' = [Moved EXCEPT ![m] = Idle] /\ UNCHANGED <<serverVars, pending, dfetch, repair>>
      /\ board' = mut[m].board \/ (board' = board /\ ~Loaded(mut[m].board, mut[m].issue))
      /\ \A j \in Issues : detail'[j] = IF j = mut[m].issue /\ mut[m].detail # Nothing
                                        THEN mut[m].detail ELSE detail[j]
      /\ fetch' = (fetch \/ mut[m].stale) /\ ~mut[m].moved
  BY <1>1, ErrorMoves
<1>3. UNCHANGED <<server, last, pending, dfetch>>
  BY <1>2 DEF serverVars
<1>4. PICK r : r = Restored(m)
  OBVIOUS
<1>5. detail' = r
  <2>1. /\ mut[m].issue \in Issues /\ mut[m].detail \in Statuses
        /\ mut[m].detail = Nothing => detail[mut[m].issue] = Nothing
    BY <1>1, <1>2 DEF SnapshotInv, MutationRec
  <2>2. detail' \in [Issues -> Statuses] /\ detail \in [Issues -> Statuses]
    BY <1>1 DEF CacheTypes
  <2>3. r = [detail EXCEPT ![mut[m].issue] = mut[m].detail]
    BY <1>4 DEF Restored
  <2>4. r \in [Issues -> Statuses] /\ \A j \in Issues : r[j] = detail'[j]
    BY <1>2, <2>1, <2>2, <2>3
  <2> QED BY <2>2, <2>4
<1>6. ASSUME NEW j \in Issues PROVE DetailOK(j, detail[j])'
  <2>1. PICK x : x = r[j]
    OBVIOUS
  <2>2. DetailOK(j, x)
    BY <1>1, <1>2, <1>4, <2>1, DetailsAreOK
  <2>3. DetailOK(j, x)'
    BY <1>3, <2>2 DEF DetailOK, Newest
  <2> QED BY <1>5, <2>1, <2>3 DEF DetailOK
<1>7. ASSUME NEW e \in pending', e.kind = "created"
      PROVE  detail'[e.issue] = Nothing /\ ~Loaded(board, e.issue)'
  <2>1. /\ e.issue \in Issues /\ detail[e.issue] = Nothing /\ ~Loaded(board, e.issue)
        /\ mut[m].issue # e.issue /\ ~Loaded(mut[m].board, e.issue)
    BY <1>1, <1>2, <1>3, <1>7, EventsTyped DEF CreatedInv
  <2> QED BY <1>2, <2>1 DEF Loaded, Buckets
<1>8. ASSUME ~fetch' PROVE Fine(board, detail)'
  <2>1. PICK b : b = mut[m].board
    OBVIOUS
  <2>2. ~fetch /\ ~mut[m].stale
    BY <1>2, <1>8
  <2>3. board' = b
    BY <1>1, <1>2, <2>1, <2>2 DEF SnapshotInv
  <2>4. Fine(b, r)
    BY <1>1, <1>2, <1>4, <2>1, <2>2 DEF BoardInv, Clean, OneMutation
  <2>5. PICK B \in Columns : Explains(b, B) /\ \A j \in Issues : Right(b, B, j, r[j])
    BY <2>4 DEF Fine
  <2>6. Explains(board, B)' /\ \A j \in Issues : Right(board, B, j, detail[j])'
    BY <1>3, <1>5, <2>3, <2>5 DEF Explains, Counts, InColumn, Right, Announced, Newest, Loaded, Buckets
  <2> QED BY <2>6 DEF Fine, Columns
<1> QED BY <1>2, <1>6, <1>7, <1>8, EndTidy

-----------------------------------------------------------------------------
(* Events *)

Delivered(e, i, to) ==
  /\ i \in Issues /\ e.kind \in {"created", "updated", "deleted"}
  /\ e.kind # "deleted" => to \in PaginatedStatuses /\ dfetch' = dfetch
  /\ e.kind = "deleted" => dfetch' = dfetch \ {i}
  /\ UNCHANGED <<serverVars, repair>> /\ pending' = pending \ {e} /\ mut' = Moved
  /\ raced' = (raced \/ Overtaken(i, e.n))
  /\ e.kind = "created" => board' = AddIssue(board, i, to) /\ fetch' = fetch
  /\ e.kind = "updated" => /\ board' = Reconciled(board, i, to, TRUE, detail[i])
                           /\ fetch' = (fetch \/ (~Loaded(board, i) /\ detail[i] # to))
  /\ e.kind = "deleted" => fetch'
  /\ \A j \in Issues : detail'[j] = IF j # i \/ e.kind = "created" THEN detail[j]
                                    ELSE IF e.kind = "deleted" \/ detail[i] = Nothing THEN Nothing
                                    ELSE to
  /\ \A j \in Issues : Loaded(board, j)' => Loaded(board, j) \/ (j = i /\ e.kind = "created")

LEMMA DeliverMoves ==
  ASSUME CommittedInv, NEW e \in pending, DeliverEvent(e), NEW i, i = e.issue, NEW to, to = e.to
  PROVE  Delivered(e, i, to)
<1>1. CacheTypes /\ ServerTrue
  BY DEF CommittedInv
<1>2. i \in Issues /\ to \in PaginatedStatuses \cup {Gone} /\ e.kind \in {"created", "updated", "deleted"}
  BY <1>1 DEF CacheTypes, EventRec
<1>3. e.kind # "deleted" => to \in PaginatedStatuses
  BY <1>1, <1>2 DEF ServerTrue
<1>4. /\ UNCHANGED <<serverVars, repair>> /\ pending' = pending \ {e} /\ mut' = Moved
      /\ raced' = (raced \/ Overtaken(i, e.n))
      /\ e.kind = "created" => board' = AddIssue(board, i, to) /\ UNCHANGED <<detail, fetch, dfetch>>
      /\ e.kind = "updated" => /\ board' = Reconciled(board, i, to, TRUE, detail[i])
                               /\ fetch' = (fetch \/ StaleCard(board, i, to, TRUE, detail[i]))
                               /\ PatchDetail(i, to) /\ UNCHANGED dfetch
      /\ e.kind = "deleted" => /\ board' = RemoveIssue(board, i) /\ fetch' = TRUE
                               /\ detail' = [detail EXCEPT ![i] = Nothing]
                               /\ dfetch' = dfetch \ {i}
  BY DEF DeliverEvent
<1>5. \A j \in Issues : detail'[j] = IF j # i \/ e.kind = "created" THEN detail[j]
                                     ELSE IF e.kind = "deleted" \/ detail[i] = Nothing THEN Nothing
                                     ELSE to
  BY <1>1, <1>2, <1>4 DEF PatchDetail, CacheTypes
<1>6. ASSUME NEW j \in Issues, Loaded(board, j)'
      PROVE  Loaded(board, j) \/ (j = i /\ e.kind = "created")
  <2>1. PICK b, c, x : b = board /\ c = board' /\ x = detail[i]
    OBVIOUS
  <2>2. Loaded(c, j) /\ b \in Boards /\ x \in Statuses
    BY <1>1, <1>2, <1>6, <2>1 DEF CacheTypes, Loaded, Buckets
  <2>3. CASE e.kind = "created"
    <3>1. Buckets(c, j) \subseteq Buckets(b, j) \cup (IF j = i THEN {to} ELSE {})
      BY <1>2, <1>3, <1>4, <2>1, <2>2, <2>3, CardComes
    <3> QED BY <2>1, <2>2, <2>3, <3>1 DEF Loaded
  <2>4. CASE e.kind = "deleted"
    <3>1. Buckets(c, j) \subseteq Buckets(b, j)
      BY <1>2, <1>4, <2>1, <2>2, <2>4, CardGoes
    <3> QED BY <2>1, <2>2, <3>1 DEF Loaded
  <2>5. CASE e.kind = "updated"
    <3>1. to \in PaginatedStatuses /\ c = Reconciled(b, i, to, TRUE, x)
      BY <1>3, <1>4, <2>1, <2>5
    <3>2. Loaded(b, j)
      BY <1>2, <2>2, <3>1, ChangeLoads
    <3> QED BY <2>1, <3>2
  <2> QED BY <1>2, <2>3, <2>4, <2>5
<1>7. StaleCard(board, i, to, TRUE, detail[i]) = (~Loaded(board, i) /\ detail[i] # to)
  BY DEF StaleCard
<1> QED BY <1>2, <1>3, <1>4, <1>5, <1>6, <1>7 DEF Delivered

LEMMA DeliverEventFacts ==
  ASSUME BoardFacts, NEW e \in pending, DeliverEvent(e)
  PROVE  (EventsOK /\ AnswersOK /\ KnownInv /\ RepairInv)'
<1>1. CommittedInv /\ CacheTypes /\ EventsOK /\ AnswersOK /\ KnownInv /\ RepairInv
  BY DEF BoardFacts, CommittedInv
<1>2. PICK i, to : i = e.issue /\ to = e.to
  OBVIOUS
<1>3. /\ i \in Issues /\ e.kind \in {"created", "updated", "deleted"}
      /\ UNCHANGED <<serverVars, repair>> /\ pending' = pending \ {e} /\ mut' = Moved
      /\ e.kind # "deleted" => to \in PaginatedStatuses /\ dfetch' = dfetch
      /\ e.kind = "deleted" => dfetch' = dfetch \ {i}
      /\ \A j \in Issues : detail'[j] = IF j # i \/ e.kind = "created" THEN detail[j]
                                        ELSE IF e.kind = "deleted" \/ detail[i] = Nothing THEN Nothing
                                        ELSE to
      /\ \A j \in Issues : Loaded(board, j)' => Loaded(board, j) \/ (j = i /\ e.kind = "created")
  <2>1. Delivered(e, i, to)
    BY <1>1, <1>2, DeliverMoves
  <2> QED BY <2>1 DEF Delivered
<1>4. UNCHANGED <<server, writes, last>> /\ pending' \subseteq pending /\ writes \in Nat
  BY <1>1, <1>3 DEF serverVars, CacheTypes
<1>5. SameMutations /\ InFlight' = InFlight
  BY <1>1, <1>3, MovedSame
<1>6. EventsOK'
  BY <1>1, <1>4, EventsStay
<1>7. AnswersOK'
  BY <1>1, <1>4, <1>5, AnswersStay DEF SameMutations, InFlight
<1>8. KnownInv'
  <2>1. Known(i)
    <3>1. 1 <= e.n /\ e.n <= last[i] /\ e.n \in Nat /\ last[i] \in Nat
      BY <1>1, <1>2, <1>3, EventsTyped DEF EventsOK, CacheTypes
    <3> QED BY <3>1 DEF Known
  <2>2. \A j \in Issues : Known(j) => Known(j)'
    BY <1>4 DEF Known
  <2>3. \A j \in Issues : Loaded(board, j)' \/ detail'[j] # Nothing => Known(j)'
    BY <1>1, <1>3, <2>1, <2>2 DEF KnownInv
  <2>4. dfetch' \subseteq Issues /\ \A j \in dfetch' : detail'[j] # Nothing
    BY <1>1, <1>3, Names DEF KnownInv
  <2> QED BY <1>1, <1>5, <2>2, <2>3, <2>4, KnownStays DEF SameMutations, InFlight
<1>9. RepairInv'
  BY <1>1, <1>3 DEF RepairInv
<1> QED BY <1>6, <1>7, <1>8, <1>9

(* what an event leaves of the events still to come *)
LEMMA DeliverHears ==
  ASSUME CacheTypes, EventsOK, NEW e \in pending, NEW i \in Issues, i = e.issue,
         NEW to, to = e.to, pending' = pending \ {e}, UNCHANGED <<server, last>>,
         ~Overtaken(i, e.n)
  PROVE  /\ to = server[i] \/ Newest(i)'
         /\ \A s : Announced(i, s) => Announced(i, s)' \/ s = to
         /\ Newest(i) => Newest(i)' \/ to = server[i]
         /\ \A j \in Issues \ {i} : /\ Newest(j) <=> Newest(j)'
                                    /\ \A s : Announced(j, s) <=> Announced(j, s)'
<1>1. to = server[i] \/ Newest(i)'
  <2>1. CASE e.n = last[i]
    BY <2>1 DEF EventsOK
  <2>2. CASE e.n # last[i]
    <3>1. PICK f \in pending : f.issue = i /\ f.n = last[i]
      BY <2>2 DEF Overtaken
    <3>2. f # e
      BY <2>2, <3>1
    <3> QED BY <3>1, <3>2 DEF Newest
  <2> QED BY <2>1, <2>2
<1>2. \A s : Announced(i, s) => Announced(i, s)' \/ s = to
  BY DEF Announced
<1>3. ASSUME NEW j \in Issues \ {i}
      PROVE  /\ Newest(j) <=> Newest(j)'
             /\ \A s : Announced(j, s) <=> Announced(j, s)'
  BY DEF Newest, Announced
<1>4. Newest(i) => Newest(i)' \/ to = server[i]
  BY <1>1
<1> QED BY <1>1, <1>2, <1>3, <1>4

(* an event that does not make the board stale moves its issue in the columns, or finds
   it beyond the window and its detail moved already *)
Shifted(B, c, i, to) ==
  \E C \in Columns :
    /\ Explains(c, C)'
    /\ \A j \in Issues \ {i} : C[j] = B[j] /\ (Loaded(c, j) <=> Loaded(board, j))
    /\ \/ Loaded(c, i) /\ C[i] = to
       \/ c = board /\ C = B /\ ~Loaded(c, i) /\ detail[i] = to /\ to # Nothing

LEMMA DeliverShifts ==
  ASSUME BoardFacts, CreatedInv, NEW e \in pending, NEW i, i = e.issue, NEW to,
         Delivered(e, i, to), ~fetch', NEW B \in Columns, Explains(board, B),
         NEW c, c = board'
  PROVE  Shifted(B, c, i, to)
<1>1. CacheTypes /\ EventsOK /\ KnownInv
  BY DEF BoardFacts, CommittedInv
<1>2. PICK b, x : b = board /\ x = detail[i]
  OBVIOUS
<1>3. /\ i \in Issues /\ to \in PaginatedStatuses /\ dfetch' = dfetch
      /\ server' = server /\ pending' = pending \ {e} /\ b \in Boards
      /\ e.kind \in {"created", "updated"}
      /\ e.kind = "created" => c = AddIssue(b, i, to)
      /\ e.kind = "updated" => /\ c = Reconciled(b, i, to, TRUE, x)
                               /\ Loaded(b, i) \/ x = to
  BY <1>1, <1>2 DEF Delivered, serverVars, CacheTypes
<1>4. Explains(b, B) /\ to # Nothing
  BY <1>2, <1>3, Names
<1>5. CASE e.kind = "created"
  <2>1. B[i] = Gone /\ ~Loaded(b, i)
    BY <1>2, <1>4, <1>5 DEF Explains, CreatedInv
  <2>2. PICK C : C = [B EXCEPT ![i] = to]
    OBVIOUS
  <2>3. C \in Columns /\ C[i] = to /\ \A j \in Issues \ {i} : C[j] = B[j]
    BY <1>3, <2>2 DEF Columns
  <2>4. Counts(c, C) /\ \A j \in Issues : Loaded(c, j) <=> Loaded(b, j) \/ j = i
    <3>1. Counts(b, B)
      BY <1>4 DEF Explains
    <3>2. /\ Counts(AddIssue(b, i, to), [B EXCEPT ![i] = to])
          /\ \A j \in Issues : Loaded(AddIssue(b, i, to), j) <=> Loaded(b, j) \/ j = i
      BY <1>3, <2>1, <3>1, AddCounts
    <3> QED BY <1>3, <1>5, <2>2, <3>2
  <2>5. \A f \in pending' : f.kind = "created" => C[f.issue] = Gone
    <3>1. ASSUME NEW f \in pending', f.kind = "created" PROVE C[f.issue] = Gone
      <4>1. f \in pending /\ f # e /\ f.issue \in Issues
        BY <1>1, <1>3, <3>1, EventsTyped
      <4>2. f.issue # i
        BY <1>1, <1>5, <3>1, <4>1 DEF EventsOK
      <4> QED BY <1>4, <2>3, <3>1, <4>1, <4>2 DEF Explains
    <3> QED BY <3>1
  <2>6. \A j \in dfetch' : Loaded(c, j) \/ C[j] = server'[j]
    <3>1. dfetch \subseteq Issues
      BY <1>1 DEF KnownInv
    <3> QED BY <1>3, <1>4, <2>3, <2>4, <3>1 DEF Explains
  <2>7. Explains(c, C)'
    BY <2>4, <2>5, <2>6 DEF Explains, Counts, InColumn, Loaded, Buckets
  <2> QED BY <1>2, <1>3, <2>3, <2>4, <2>7 DEF Shifted
<1>6. CASE e.kind = "updated" /\ Loaded(b, i)
  <2>1. c = PatchIssue(b, i, to)
    BY <1>3, <1>6 DEF Reconciled
  <2>2. Heard(i)
    BY <1>2, <1>6 DEF Heard, CreatedInv
  <2>3. Recounted(b, B, c, i, to)
    BY <1>1, <1>3, <1>4, <1>6, <2>1, <2>2, PatchExplains
  <2>4. PICK C \in Columns : /\ Explains(c, C) /\ C[i] = to /\ \A j \in Issues \ {i} : C[j] = B[j]
                             /\ \A j \in Issues : Loaded(c, j) <=> Loaded(b, j)
    BY <2>3 DEF Recounted
  <2>5. Explains(c, C)'
    BY <1>3, <2>4, ExplainsStays
  <2> QED BY <1>2, <1>3, <1>6, <2>4, <2>5 DEF Shifted
<1>7. CASE e.kind = "updated" /\ ~Loaded(b, i)
  <2>1. x = to /\ c = b
    BY <1>3, <1>4, <1>7 DEF Reconciled, MoveBucketTotal
  <2>2. Explains(c, B)'
    BY <1>3, <1>4, <2>1, ExplainsStays
  <2> QED BY <1>2, <1>4, <1>7, <2>1, <2>2 DEF Shifted
<1> QED BY <1>3, <1>5, <1>6, <1>7

(* what is right stays right, of every issue the event is not about; its own becomes right *)
Righted(b, B, c, C, i, to) ==
  /\ \A j \in Issues \ {i} : \A x : Right(b, B, j, x) => Right(c, C, j, x)'
  /\ \A x : Loaded(c, i) => Right(c, C, i, x)'
  /\ ~Loaded(c, i) /\ Right(b, B, i, to) => Right(c, C, i, to)'
  /\ ~Loaded(c, i) /\ Announced(i, B[i]) => Announced(i, C[i])' \/ C[i] = to

LEMMA DeliverRights ==
  ASSUME BoardFacts, NEW e \in pending, NEW i \in Issues, i = e.issue,
         NEW to, to = e.to, Delivered(e, i, to), ~raced',
         NEW B \in Columns, NEW C \in Columns, NEW b, b = board, NEW c,
         \A j \in Issues \ {i} : C[j] = B[j] /\ (Loaded(c, j) <=> Loaded(b, j)),
         \/ Loaded(c, i) /\ C[i] = to
         \/ c = b /\ C = B /\ ~Loaded(c, i) /\ detail[i] = to /\ to # Nothing
  PROVE  Righted(b, B, c, C, i, to)
<1>1. CacheTypes /\ EventsOK
  BY DEF BoardFacts, CommittedInv
<1>2. UNCHANGED <<server, last>> /\ pending' = pending \ {e} /\ ~Overtaken(i, e.n)
  BY DEF Delivered, serverVars
<1>3. /\ to = server[i] \/ Newest(i)'
      /\ \A s : Announced(i, s) => Announced(i, s)' \/ s = to
      /\ \A j \in Issues \ {i} : /\ Newest(j) <=> Newest(j)'
                                 /\ \A s : Announced(j, s) <=> Announced(j, s)'
      /\ Newest(i) => Newest(i)' \/ to = server[i]
  BY <1>1, <1>2, DeliverHears
<1>4. ASSUME NEW j \in Issues \ {i}, NEW x, Right(b, B, j, x) PROVE Right(c, C, j, x)'
  <2>1. PICK s : s = B[j]
    OBVIOUS
  <2>2. C[j] = s /\ (Loaded(c, j) <=> Loaded(b, j))
    BY <2>1
  <2>3. \/ s = server[j] \/ Announced(j, s)
        \/ Newest(j) /\ (Loaded(b, j) \/ x \in {Nothing, s})
    BY <1>4, <2>1 DEF Right
  <2>4. \/ s = server'[j] \/ Announced(j, s)'
        \/ Newest(j)' /\ (Loaded(c, j) \/ x \in {Nothing, s})
    BY <1>2, <1>3, <2>2, <2>3
  <2> QED BY <2>2, <2>4 DEF Right, Announced, Loaded, Buckets
<1>5. ASSUME NEW x, C[i] = to, Loaded(c, i) \/ x = to PROVE Right(c, C, i, x)'
  BY <1>2, <1>3, <1>5 DEF Right, Loaded, Buckets
<1>6. ASSUME ~Loaded(c, i), Right(b, B, i, to) PROVE Right(c, C, i, to)'
  <2>1. PICK s : s = B[i]
    OBVIOUS
  <2>2. c = b /\ C[i] = s /\ to # Nothing
    BY <1>6, <2>1
  <2>3. s = server[i] \/ Announced(i, s) \/ s = to
    BY <1>6, <2>1, <2>2 DEF Right
  <2>4. s = server'[i] \/ Announced(i, s)' \/ s = to
    BY <1>2, <1>3, <2>3
  <2>5. s = to => Right(c, C, i, to)'
    BY <1>5, <2>2
  <2> QED BY <2>2, <2>4, <2>5 DEF Right, Announced
<1>7. ASSUME ~Loaded(c, i), Announced(i, B[i]) PROVE Announced(i, C[i])' \/ C[i] = to
  <2>1. PICK s : s = B[i]
    OBVIOUS
  <2>2. C[i] = s /\ (Announced(i, s)' \/ s = to)
    BY <1>3, <1>7, <2>1
  <2> QED BY <2>2 DEF Announced
<1> QED BY <1>4, <1>5, <1>6, <1>7 DEF Righted

LEMMA DeliverEventTidy ==
  ASSUME BoardFacts, Tidy, NEW e \in pending, DeliverEvent(e), ~raced'
  PROVE  Tidy'
<1>1. /\ CommittedInv /\ CacheTypes /\ EventsOK /\ KnownInv
      /\ OneMutation /\ DetailInv /\ CreatedInv /\ BoardInv
  BY DEF BoardFacts, CommittedInv, Tidy
<1>2. PICK i, to : i = e.issue /\ to = e.to
  OBVIOUS
<1>3. Delivered(e, i, to)
  BY <1>1, <1>2, DeliverMoves
<1>4. /\ i \in Issues /\ e.kind \in {"created", "updated", "deleted"}
      /\ UNCHANGED <<server, last>> /\ pending' = pending \ {e} /\ mut' = Moved /\ ~Overtaken(i, e.n)
      /\ \A j \in Issues : detail'[j] = IF j # i \/ e.kind = "created" THEN detail[j]
                                        ELSE IF e.kind = "deleted" \/ detail[i] = Nothing THEN Nothing
                                        ELSE to
      /\ \A j \in Issues : Loaded(board, j)' => Loaded(board, j) \/ (j = i /\ e.kind = "created")
      /\ fetch => fetch'
      /\ e.kind = "deleted" => fetch'
  <2>1. /\ i \in Issues /\ e.kind \in {"created", "updated", "deleted"}
        /\ UNCHANGED <<server, last>> /\ pending' = pending \ {e} /\ mut' = Moved
        /\ \A j \in Issues : detail'[j] = IF j # i \/ e.kind = "created" THEN detail[j]
                                          ELSE IF e.kind = "deleted" \/ detail[i] = Nothing THEN Nothing
                                          ELSE to
        /\ \A j \in Issues : Loaded(board, j)' => Loaded(board, j) \/ (j = i /\ e.kind = "created")
    BY <1>3 DEF Delivered, serverVars
  <2>2. ~Overtaken(i, e.n)
    BY <1>3 DEF Delivered
  <2>3. (fetch => fetch') /\ (e.kind = "deleted" => fetch')
    <3>1. e.kind = "created" \/ e.kind = "updated" \/ e.kind = "deleted"
      BY <2>1
    <3>2. e.kind = "created" => (fetch => fetch')
      BY <1>3 DEF Delivered
    <3>3. e.kind = "updated" => (fetch => fetch')
      BY <1>3 DEF Delivered
    <3>4. e.kind = "deleted" => fetch'
      BY <1>3 DEF Delivered
    <3> QED BY <3>1, <3>2, <3>3, <3>4
  <2> QED BY <2>1, <2>2, <2>3
<1>5. SameMutations /\ InFlight' = InFlight /\ \A m \in InFlight : mut'[m].moved
  BY <1>1, <1>4, MovedSame
<1>6. /\ to = server[i] \/ Newest(i)'
      /\ \A j \in Issues \ {i} : Newest(j) <=> Newest(j)'
  BY <1>1, <1>2, <1>4, DeliverHears
<1>7. \A m \in InFlight : SameMutation(m)
  BY <1>5 DEF SameMutations, InFlight
<1>8. OneMutation' /\ SnapshotInv'
  BY <1>1, <1>5 DEF OneMutation, SnapshotInv
<1>9. DetailInv'
  <2>1. ASSUME NEW j \in Issues PROVE DetailOK(j, detail[j])' \/ \E m \in InFlight' : Asked(j, m)'
    <3>1. CASE j = i
      <4>1. detail'[i] \in {Nothing, to}
        BY <1>1, <1>2, <1>4 DEF CreatedInv
      <4> QED BY <1>4, <1>6, <3>1, <4>1 DEF DetailOK
    <3>2. CASE j # i
      <4>1. PICK x : x = detail[j]
        OBVIOUS
      <4>2. detail'[j] = x
        BY <1>4, <3>2, <4>1
      <4>3. DetailOK(j, x) \/ \E m \in InFlight : Asked(j, m)
        BY <1>1, <4>1 DEF DetailInv
      <4>4. CASE DetailOK(j, x)
        <5>1. x \in {server'[j], Nothing} \/ Newest(j)'
          BY <1>4, <1>6, <3>2, <4>4 DEF DetailOK
        <5> QED BY <4>2, <5>1 DEF DetailOK
      <4>5. CASE \E m \in InFlight : Asked(j, m)
        <5>1. PICK m \in InFlight : Asked(j, m)
          BY <4>5
        <5>2. Asked(j, m)'
          BY <1>7, <4>1, <4>2, <5>1 DEF Asked, SameMutation, Loaded, Buckets
        <5> QED BY <1>5, <5>2
      <4> QED BY <4>3, <4>4, <4>5
    <3> QED BY <3>1, <3>2
  <2> QED BY <2>1 DEF DetailInv
<1>10. CreatedInv'
  <2>1. ASSUME NEW f \in pending', f.kind = "created"
        PROVE  /\ detail'[f.issue] = Nothing /\ ~Loaded(board, f.issue)'
               /\ \A m \in InFlight' : mut'[m].issue # f.issue /\ ~Loaded(mut[m].board, f.issue)'
    <3>1. f \in pending /\ f # e /\ f.issue \in Issues
      BY <1>1, <1>4, <2>1, EventsTyped
    <3>2. /\ detail[f.issue] = Nothing /\ ~Loaded(board, f.issue)
          /\ \A m \in InFlight : mut[m].issue # f.issue /\ ~Loaded(mut[m].board, f.issue)
      BY <1>1, <2>1, <3>1 DEF CreatedInv
    <3>3. f.issue = i => e.kind # "created"
      BY <1>1, <1>2, <2>1, <3>1 DEF EventsOK
    <3>4. detail'[f.issue] = Nothing
      BY <1>4, <3>1, <3>2, <3>3
    <3>5. ~Loaded(board, f.issue)'
      BY <1>4, <3>1, <3>2, <3>3
    <3> QED BY <1>5, <1>7, <3>2, <3>4, <3>5 DEF SameMutation, Loaded, Buckets
  <2> QED BY <2>1 DEF CreatedInv
<1>11. ASSUME Clean' PROVE InFlight' = {} => Fine(board, detail)'
  <2> SUFFICES ASSUME InFlight = {} PROVE Fine(board, detail)'
    BY <1>5
  <2>1. ~fetch' /\ Clean
    BY <1>4, <1>11 DEF Clean
  <2>2. PICK b, c, d : b = board /\ c = board' /\ d = detail
    OBVIOUS
  <2>3. PICK B \in Columns : Explains(board, B) /\ \A j \in Issues : Right(b, B, j, d[j])
    BY <1>1, <2>1, <2>2 DEF BoardInv, Fine
  <2>4. Shifted(B, c, i, to)
    BY <1>1, <1>2, <1>3, <2>1, <2>2, <2>3, DeliverShifts
  <2>5. PICK C \in Columns :
          /\ Explains(c, C)'
          /\ \A j \in Issues \ {i} : C[j] = B[j] /\ (Loaded(c, j) <=> Loaded(b, j))
          /\ \/ Loaded(c, i) /\ C[i] = to
             \/ c = b /\ C = B /\ ~Loaded(c, i) /\ d[i] = to /\ to # Nothing
    BY <2>2, <2>4 DEF Shifted
  <2>6. /\ \A j \in Issues \ {i} : \A x : Right(b, B, j, x) => Right(c, C, j, x)'
        /\ \A x : Loaded(c, i) => Right(c, C, i, x)'
        /\ ~Loaded(c, i) /\ Right(b, B, i, to) => Right(c, C, i, to)'
    <3>1. Righted(b, B, c, C, i, to)
      BY <1>2, <1>3, <1>4, <2>2, <2>5, DeliverRights
    <3> QED BY <3>1 DEF Righted
  <2>7. ASSUME NEW j \in Issues PROVE Right(c, C, j, detail[j])'
    <3>1. PICK x : x = d[j]
      OBVIOUS
    <3>2. CASE j # i
      <4>1. Right(c, C, j, x)' /\ detail'[j] = x
        BY <1>4, <2>2, <2>3, <2>6, <3>1, <3>2
      <4> QED BY <4>1 DEF Right
    <3>3. CASE j = i /\ Loaded(c, i)
      BY <2>6, <3>3 DEF Right
    <3>4. CASE j = i /\ ~Loaded(c, i)
      <4>1. Right(c, C, i, to)' /\ d[i] = to /\ to # Nothing
        BY <2>3, <2>5, <2>6, <3>4
      <4>2. detail'[i] = to
        <5>1. e.kind # "deleted"
          BY <1>4, <2>1
        <5> QED BY <1>4, <2>2, <4>1, <5>1
      <4> QED BY <3>4, <4>1, <4>2 DEF Right
    <3> QED BY <3>2, <3>3, <3>4
  <2>8. Explains(board, C)' /\ \A j \in Issues : Right(board, C, j, detail[j])'
    BY <2>2, <2>5, <2>7 DEF Explains, Counts, InColumn, Right, Loaded, Buckets
  <2> QED BY <2>8 DEF Fine, Columns
<1>12. ASSUME Clean', NEW m \in InFlight, mut[m].phase # "failed" PROVE FineUnder(m)'
  <2>1. ~fetch' /\ Clean
    BY <1>4, <1>5, <1>7, <1>12 DEF Clean, SameMutation
  <2>2. PICK b, c, d : b = board /\ c = board' /\ d = detail
    OBVIOUS
  <2>3. PICK k, t, p : k = mut[m].issue /\ t = mut[m].to /\ p = mut[m].phase
    OBVIOUS
  <2>4. k \in Issues /\ mut'[m].issue = k /\ mut'[m].to = t /\ mut'[m].phase = p
    BY <1>1, <1>7, <2>3, InFlightTyped DEF MutationRec, SameMutation
  <2>5. PICK B \in Columns : /\ Explains(board, B) /\ RightUnder(m, B)
                             /\ \A j \in Issues \ {k} : Right(b, B, j, d[j])
    BY <1>1, <1>12, <2>1, <2>2, <2>3 DEF BoardInv, FineUnder
  <2>6. Shifted(B, c, i, to)
    BY <1>1, <1>2, <1>3, <2>1, <2>2, <2>5, DeliverShifts
  <2>7. PICK C \in Columns :
          /\ Explains(c, C)'
          /\ \A j \in Issues \ {i} : C[j] = B[j] /\ (Loaded(c, j) <=> Loaded(b, j))
          /\ \/ Loaded(c, i) /\ C[i] = to
             \/ c = b /\ C = B /\ ~Loaded(c, i) /\ d[i] = to /\ to # Nothing
    BY <2>2, <2>6 DEF Shifted
  <2>8. /\ \A j \in Issues \ {i} : \A x : Right(b, B, j, x) => Right(c, C, j, x)'
        /\ \A x : Loaded(c, i) => Right(c, C, i, x)'
        /\ ~Loaded(c, i) /\ Right(b, B, i, to) => Right(c, C, i, to)'
        /\ ~Loaded(c, i) /\ Announced(i, B[i]) => Announced(i, C[i])' \/ C[i] = to
    <3>1. /\ \A j \in Issues \ {i} : C[j] = B[j] /\ (Loaded(c, j) <=> Loaded(b, j))
          /\ \/ Loaded(c, i) /\ C[i] = to
             \/ c = b /\ C = B /\ ~Loaded(c, i) /\ detail[i] = to /\ to # Nothing
      BY <2>2, <2>7
    <3>2. Righted(b, B, c, C, i, to)
      BY <1>2, <1>3, <1>4, <2>2, <3>1, DeliverRights
    <3> QED BY <3>2 DEF Righted
  <2>9. ~Loaded(c, i) => d[i] = to /\ detail'[i] = to /\ to # Nothing
    <3>1. e.kind # "deleted"
      BY <1>4, <2>1
    <3> QED BY <1>4, <2>2, <2>7, <3>1
  <2>10. ASSUME NEW j \in Issues \ {k} PROVE Right(c, C, j, detail[j])'
    <3>1. PICK x : x = d[j]
      OBVIOUS
    <3>2. CASE j # i
      <4>1. Right(c, C, j, x)' /\ detail'[j] = x
        BY <1>4, <2>2, <2>5, <2>8, <3>1, <3>2
      <4> QED BY <4>1 DEF Right
    <3>3. CASE j = i /\ Loaded(c, i)
      BY <2>8, <3>3 DEF Right
    <3>4. CASE j = i /\ ~Loaded(c, i)
      <4>1. Right(c, C, i, to)' /\ detail'[i] = to
        BY <2>5, <2>8, <2>9, <3>4
      <4> QED BY <3>4, <4>1 DEF Right
    <3> QED BY <3>2, <3>3, <3>4
  <2>11. \/ Loaded(b, k) \/ d[k] \notin {Nothing, t}
         \/ p = "sent" /\ d[k] = t /\ (B[k] = t \/ Announced(k, B[k]))
         \/ ~(p = "sent" /\ d[k] = t) /\ Right(b, B, k, d[k])
    BY <2>2, <2>3, <2>5 DEF RightUnder
  <2>12. \/ Loaded(c, k) \/ detail'[k] \notin {Nothing, t}
         \/ p = "sent" /\ detail'[k] = t /\ (C[k] = t \/ Announced(k, C[k])')
         \/ ~(p = "sent" /\ detail'[k] = t) /\ Right(c, C, k, detail[k])'
    <3>1. CASE k # i
      <4>1. PICK x : x = d[k]
        OBVIOUS
      <4>2. detail'[k] = x /\ C[k] = B[k] /\ (Loaded(c, k) <=> Loaded(b, k))
        BY <1>4, <2>2, <2>4, <2>7, <3>1, <4>1
      <4>3. Right(b, B, k, x) => Right(c, C, k, x)'
        BY <2>4, <2>8, <3>1
      <4>4. Announced(k, B[k]) => Announced(k, C[k])'
        <5>1. PICK s : s = B[k]
          OBVIOUS
        <5>2. Announced(k, s) => Announced(k, s)'
          BY <1>1, <1>2, <1>4, <2>4, <3>1, DeliverHears
        <5> QED BY <4>2, <5>1, <5>2 DEF Announced
      <4>5. \/ Loaded(c, k) \/ x \notin {Nothing, t}
            \/ p = "sent" /\ x = t /\ (C[k] = t \/ Announced(k, C[k])')
            \/ ~(p = "sent" /\ x = t) /\ Right(c, C, k, x)'
        BY <2>11, <4>1, <4>2, <4>3, <4>4
      <4> QED BY <4>2, <4>5 DEF Right
    <3>2. CASE k = i /\ ~Loaded(c, i)
      <4>1. d[i] = to /\ detail'[i] = to /\ to # Nothing /\ c = b /\ C = B
        BY <2>7, <2>9, <3>2
      <4>2. Right(c, C, i, to)' => Right(c, C, i, detail[i])'
        BY <4>1 DEF Right
      <4>3. Right(b, B, i, to) => Right(c, C, i, to)'
        BY <2>8, <3>2
      <4>4. Announced(i, B[i]) => Announced(i, C[i])' \/ C[i] = to
        BY <2>8, <3>2
      <4> QED BY <2>11, <3>2, <4>1, <4>2, <4>3, <4>4
    <3>3. CASE k = i /\ Loaded(c, i)
      BY <3>3
    <3> QED BY <3>1, <3>2, <3>3
  <2>13. RightUnder(m, C)'
    BY <2>2, <2>4, <2>12 DEF RightUnder, Right, Announced, Newest, Loaded, Buckets
  <2>14. Explains(board, C)' /\ \A j \in Issues \ {mut'[m].issue} : Right(board, C, j, detail[j])'
    BY <2>2, <2>4, <2>7, <2>10 DEF Explains, Counts, InColumn, Right, Loaded, Buckets
  <2> QED BY <2>13, <2>14 DEF FineUnder, Columns
<1>13. BoardInv'
  BY <1>5, <1>7, <1>11, <1>12 DEF BoardInv, SameMutation
<1> QED BY <1>8, <1>9, <1>10, <1>13 DEF Tidy

-----------------------------------------------------------------------------
LEMMA TidyInit == CacheInit => TidyInv
<1> SUFFICES ASSUME CacheInit PROVE TidyInv
  OBVIOUS
<1>1. CommittedInv /\ CacheTypes
  BY CommittedInit DEF CommittedInv
<1>2. /\ board = [s \in PaginatedStatuses |-> ServerPage(s)] /\ pending = {} /\ dfetch = {}
      /\ ~repair /\ writes = 0 /\ \A i \in Issues : last[i] = 0
      /\ mut = [m \in Mutations |-> Idle]
      /\ \A i \in Issues : detail[i] \in {server[i], Nothing} /\ (detail[i] # Nothing => server[i] # Gone)
  BY DEF CacheInit
<1>3. InFlight = {}
  BY <1>2 DEF InFlight, Idle
<1>4. EventsOK /\ AnswersOK
  BY <1>2, <1>3 DEF EventsOK, AnswersOK
<1>5. ASSUME NEW i \in Issues, Loaded(board, i) PROVE server[i] # Gone
  <2>1. Buckets(board, i) \subseteq {server[i]} \ {Gone}
    BY <1>1, <1>2, PagesAreTrue
  <2> QED BY <1>5, <2>1 DEF Loaded
<1>6. KnownInv /\ RepairInv
  BY <1>2, <1>3, <1>5 DEF KnownInv, RepairInv, Known
<1>7. DetailInv
  BY <1>2 DEF DetailInv, DetailOK
<1>8. OneMutation /\ SnapshotInv /\ CreatedInv
  BY <1>2, <1>3 DEF OneMutation, SnapshotInv, CreatedInv
<1>9. Fine(board, detail)
  <2>1. Counts(board, server) /\ server \in Columns
    BY <1>1, <1>2, PageCounts
  <2>2. Explains(board, server) /\ \A i \in Issues : Right(board, server, i, detail[i])
    BY <1>2, <2>1 DEF Explains, Right
  <2> QED BY <2>1, <2>2 DEF Fine
<1>10. BoardInv
  BY <1>3, <1>9 DEF BoardInv
<1> QED BY <1>1, <1>4, <1>6, <1>7, <1>8, <1>10 DEF TidyInv, BoardFacts, Tidy

LEMMA TidyStep == TidyInv /\ [CacheNext]_cacheVars => TidyInv'
<1> SUFFICES ASSUME BoardFacts, ~raced => Tidy, [CacheNext]_cacheVars
             PROVE  BoardFacts' /\ (~raced' => Tidy')
  BY DEF TidyInv
<1>1. CommittedInv' /\ CacheTypes'
  BY CommittedStep DEF BoardFacts, CommittedInv
<1>2. ASSUME NEW i \in Issues, NEW v \in PaginatedStatuses \cup {Gone}, RemoteWrite(i, v)
      PROVE  BoardFacts' /\ (~raced' => Tidy')
  <2>1. ~raced' => ~raced
    BY <1>2 DEF RemoteWrite
  <2> QED BY <1>1, <1>2, <2>1, RemoteWriteFacts, RemoteWriteTidy DEF BoardFacts
<1>3. ASSUME NEW m \in Mutations, NEW i \in Issues, OnMutateDelete(m, i)
      PROVE  BoardFacts' /\ (~raced' => Tidy')
  <2>1. ~raced' => ~raced
    BY <1>3 DEF OnMutateDelete
  <2> QED BY <1>1, <1>3, <2>1, OnMutateDeleteFacts, OnMutateDeleteTidy DEF BoardFacts
<1>4. ASSUME NEW m \in Mutations, NEW i \in Issues, NEW to \in PaginatedStatuses,
             OnMutateUpdate(m, i, to)
      PROVE  BoardFacts' /\ (~raced' => Tidy')
  <2>1. ~raced' => ~raced
    BY <1>4 DEF OnMutateUpdate
  <2> QED BY <1>1, <1>4, <2>1, OnMutateUpdateFacts, OnMutateUpdateTidy DEF BoardFacts
<1>5. ASSUME NEW m \in Mutations, Serve(m)
      PROVE  BoardFacts' /\ (~raced' => Tidy')
  <2>1. ~raced' => ~raced
    BY <1>5 DEF Serve
  <2> QED BY <1>1, <1>5, <2>1, ServeFacts, ServeTidy DEF BoardFacts
<1>6. ASSUME NEW m \in Mutations, OnSuccess(m)
      PROVE  BoardFacts' /\ (~raced' => Tidy')
  <2>1. ~raced' => ~raced
    BY <1>6 DEF OnSuccess
  <2> QED BY <1>1, <1>6, <2>1, OnSuccessFacts, OnSuccessTidy DEF BoardFacts
<1>7. ASSUME NEW m \in Mutations, OnError(m)
      PROVE  BoardFacts' /\ (~raced' => Tidy')
  <2>1. ~raced' => ~raced
    BY <1>7 DEF OnError
  <2> QED BY <1>1, <1>7, <2>1, OnErrorFacts, OnErrorTidy DEF BoardFacts
<1>8. ASSUME NEW e \in pending, DeliverEvent(e)
      PROVE  BoardFacts' /\ (~raced' => Tidy')
  <2>1. ~raced' => ~raced
    BY <1>8 DEF DeliverEvent
  <2> QED BY <1>1, <1>8, <2>1, DeliverEventFacts, DeliverEventTidy DEF BoardFacts
<1>9. CASE Reconnect
  <2>1. ~raced' => ~raced
    BY <1>9 DEF Reconnect
  <2> QED BY <1>1, <1>9, <2>1, ReconnectFacts, ReconnectTidy DEF BoardFacts
<1>10. CASE FetchLands
  BY <1>1, <1>10, FetchLandsFacts, FetchLandsTidy DEF BoardFacts
<1>11. ASSUME NEW i \in Issues, DetailLands(i)
       PROVE  BoardFacts' /\ (~raced' => Tidy')
  BY <1>1, <1>11, DetailLandsFacts, DetailLandsTidy DEF BoardFacts
<1>12. CASE FetchFails \/ \E i \in Issues : DetailFails(i)
  BY <1>1, <1>12, FetchFailsFacts DEF BoardFacts
<1>13. CASE UNCHANGED cacheVars
  <2>1. UNCHANGED <<server, committed, writes, last, pending, board, detail, fetch,
                    dfetch, mut, calls, raced, overlapped, repair>>
    BY <1>13 DEF cacheVars
  <2>2. InFlight' = InFlight
    BY <2>1 DEF InFlight
  <2>3. EventsOK'
    BY <2>1 DEF BoardFacts, EventsOK
  <2>4. AnswersOK'
    BY <2>1, <2>2 DEF BoardFacts, AnswersOK, AnswerOK
  <2>5. KnownInv'
    BY <2>1, <2>2 DEF BoardFacts, KnownInv, KnownMutation, Known, Loaded, Buckets
  <2>6. RepairInv'
    BY <2>1, <2>2 DEF BoardFacts, RepairInv, ServerPage, FirstPage, On
  <2>7. ~raced' => Tidy'
    BY <2>1, <2>2, ServerTidy DEF ServerMoves
  <2> QED BY <1>1, <2>3, <2>4, <2>5, <2>6, <2>7 DEF BoardFacts
<1> QED BY <1>2, <1>3, <1>4, <1>5, <1>6, <1>7, <1>8, <1>9, <1>10, <1>11, <1>12, <1>13 DEF CacheNext

LEMMA TidyBoard == TidyInv => BoardIsRight
<1> SUFFICES ASSUME BoardFacts, Tidy, Quiet
             PROVE  /\ \A s \in PaginatedStatuses :
                         board[s].cards \subseteq On(s) /\ board[s].total = Cardinality(On(s))
                    /\ \A i \in Issues : detail[i] \in {server[i], Nothing}
  BY DEF TidyInv, BoardIsRight
<1>1. InFlight = {} /\ pending = {} /\ ~fetch /\ CacheTypes
  BY DEF Quiet, FetchInFlight, BoardFacts, CommittedInv
<1>2. PICK B \in Columns : Explains(board, B) /\ \A i \in Issues : Right(board, B, i, detail[i])
  BY <1>1 DEF Tidy, BoardInv, Clean, Fine
<1>3. \A i \in Issues : B[i] = server[i]
  BY <1>1, <1>2 DEF Right, Announced, Newest
<1>4. \A s \in PaginatedStatuses : InColumn(B, s) = On(s)
  BY <1>3 DEF InColumn, On
<1>5. ASSUME NEW s \in PaginatedStatuses
      PROVE  board[s].cards \subseteq On(s) /\ board[s].total = Cardinality(On(s))
  <2>1. board[s].cards \subseteq Issues
    BY <1>1 DEF CacheTypes, Boards
  <2> QED BY <1>2, <1>3, <1>4, <2>1 DEF Explains, Counts, On
<1>6. \A i \in Issues : detail[i] \in {server[i], Nothing}
  BY <1>1 DEF Tidy, DetailInv, DetailOK, Newest
<1> QED BY <1>5, <1>6

(* For any number of issues, statuses, commits and mutations, any window and whatever is
   opened: once nothing is in flight, every loaded card is in the column of its status, the
   totals are the server's and the open details are true, unless one of the races that the
   actions name has happened since the last undisturbed reconnect.  No other interleaving of
   the optimistic patches (onMutate), the answers (onSuccess, onSettled), the rollbacks
   (onError), the websocket handlers and the refetches counts a move twice or loses one. *)
THEOREM QuietBoardIsRight == CacheSpec => []BoardIsRight
<1>1. CacheSpec => []TidyInv
  BY TidyInit, TidyStep, PTL DEF CacheSpec
<1> QED BY <1>1, TidyBoard, PTL

-----------------------------------------------------------------------------
(***************************************************************************)
(* PromptRestore: a prompt comes back only if it was not answered, and to one *)
(* composer only.                                                          *)
(***************************************************************************)

(* The verdict of the server *)

Turns == {"unsent", "queued", "running", "deferred", "settled"}
ServerTypeOK ==
  /\ turn \in [Prompts -> Turns]
  /\ tail \in [Prompts -> {"none", "held", "posted", "stray"}]

(* what an agent has said, or is about to store, belongs to a prompt that its daemon
   still works on and that is in the transcript, unless it is late *)
Untouched(p) ==
  /\ turn[p] \in {"unsent", "queued"} => p \notin working \cup said /\ tail[p] = "none"
  /\ turn[p] = "queued" => p \in inChat
Drained(p) ==
  /\ tail[p] = "held" => p \in working
  /\ tail[p] = "posted" => p \in working \cup late
  /\ tail[p] = "stray" => p \in late
WorkedOnIsInChat(p) == p \in working => p \in inChat \cup late
Unanswered(p) == turn[p] # "unsent" /\ p \notin inChat \cup late => p \notin said

VerdictInv ==
  /\ ServerTypeOK
  /\ \A p \in Prompts : Untouched(p) /\ Drained(p) /\ WorkedOnIsInChat(p) /\ Unanswered(p)

LEMMA VerdictInitially == RestoreInit => VerdictInv
BY DEF RestoreInit, VerdictInv, ServerTypeOK, Turns, Untouched, Drained, WorkedOnIsInChat,
   Unanswered

(* the steps of the clients do not touch what the verdict is about *)
LEMMA VerdictFrame ==
  ASSUME VerdictInv, UNCHANGED <<turn, inChat, said, working, tail, late>>
  PROVE VerdictInv'
BY DEF VerdictInv, ServerTypeOK, Untouched, Drained, WorkedOnIsInChat, Unanswered

LEMMA VerdictServerStep ==
  ASSUME VerdictInv, NEW p \in Prompts, ServerStep(p)
  PROVE VerdictInv'
<1> USE DEF VerdictInv, ServerTypeOK, Turns, Untouched, Drained, WorkedOnIsInChat, Unanswered,
            histories
<1>1. CASE SendPrompt(p)
  BY <1>1 DEF SendPrompt, Turn
<1>2. CASE StartTurn(p)
  BY <1>2 DEF StartTurn, Turn
<1>3. CASE CompleteTurn(p)
  BY <1>3 DEF CompleteTurn, Turn
<1>4. CASE AgentSpeaks(p)
  BY <1>4 DEF AgentSpeaks, TailMoves
<1>5. CASE PostMessages(p)
  BY <1>5 DEF PostMessages, TailMoves
<1>6. CASE StoreMessages(p)
  BY <1>6 DEF StoreMessages, TailMoves
<1>7. CASE PostFails(p)
  BY <1>7 DEF PostFails, TailMoves
<1>8. CASE DaemonDies(p)
  BY <1>8 DEF DaemonDies
<1>9. CASE AckTaskCancelled(p)
  BY <1>9 DEF AckTaskCancelled, Settle
<1>10. CASE SweepDeferred(p)
  BY <1>10 DEF SweepDeferred, Settle
<1>. QED  BY <1>1, <1>2, <1>3, <1>4, <1>5, <1>6, <1>7, <1>8, <1>9, <1>10 DEF ServerStep

LEMMA VerdictCancel ==
  ASSUME VerdictInv, NEW c \in Clients, NEW p \in Prompts, CancelTurn(c, p)
  PROVE VerdictInv'
BY DEF CancelTurn, Turn, VerdictInv, ServerTypeOK, Turns, Untouched, Drained, WorkedOnIsInChat,
   Unanswered, histories

LEMMA VerdictStep == VerdictInv /\ [RestoreNext]_restoreVars => VerdictInv'
<1> SUFFICES ASSUME VerdictInv, [RestoreNext]_restoreVars PROVE VerdictInv'
  OBVIOUS
<1>1. ASSUME NEW p \in Prompts, ServerStep(p) PROVE VerdictInv'
  BY <1>1, VerdictServerStep
<1>2. ASSUME NEW c \in Clients, ClientStep(c) PROVE VerdictInv'
  BY <1>2, VerdictFrame DEF ClientStep, Appear, Vanish, ListDraftRestores, RestoresLand, Offer,
     Apply, Type, EndDraft, CloseApp, serverSide, histories
<1>3. ASSUME NEW c \in Clients, NEW p \in Prompts, CancelTurn(c, p) PROVE VerdictInv'
  BY <1>3, VerdictCancel
<1>4. ASSUME NEW c \in Clients, NEW p \in Prompts,
             \/ EnqueueLocalRestore(c, p) \/ LoseAnswer(c, p)
             \/ Reconcile(c, p) \/ ServeConsume(c, p) \/ ConsumeSettles(c, p)
      PROVE VerdictInv'
  BY <1>4, VerdictFrame DEF EnqueueLocalRestore, LoseAnswer, Reconcile, ServeConsume,
     ConsumeSettles, serverSide, histories
<1>5. CASE UNCHANGED restoreVars
  BY <1>5, VerdictFrame DEF restoreVars, serverSide, histories
<1>. QED  BY <1>1, <1>2, <1>3, <1>4, <1>5 DEF RestoreNext

(* finalizeCancelledChatMessage and FinalizeDeferredCancelledChat: a prompt that is taken
   back was not answered, unless the server gave up on a daemon that still worked or a
   post outlived its timeout *)
THEOREM TakenBackWasUnanswered == RestoreSpec => []TakenBackIsUnanswered
<1>1. VerdictInv => TakenBackIsUnanswered
  BY DEF VerdictInv, Unanswered, TakenBackIsUnanswered
<1>. QED  BY VerdictInitially, VerdictStep, <1>1, PTL DEF RestoreSpec

-----------------------------------------------------------------------------
(* Two facts about queues *)

Entries(q) == {q[k] : k \in DOMAIN q}

LEMMA EntriesOfAppend ==
  ASSUME NEW q \in Seq(Prompts), NEW p \in Prompts
  PROVE Append(q, p) \in Seq(Prompts) /\ Entries(Append(q, p)) = Entries(q) \cup {p}
<1>1. /\ Append(q, p) \in Seq(Prompts) /\ Len(Append(q, p)) = Len(q) + 1 /\ Len(q) \in Nat
      /\ \A k \in 1 .. Len(q) : Append(q, p)[k] = q[k]
      /\ Append(q, p)[Len(q) + 1] = p
  BY AppendProperties
<1>2. DOMAIN Append(q, p) = 1 .. (Len(q) + 1) /\ DOMAIN q = 1 .. Len(q)
  BY <1>1, LenProperties
<1>3. 1 .. (Len(q) + 1) = (1 .. Len(q)) \cup {Len(q) + 1}
  BY <1>1
<1>. QED  BY <1>1, <1>2, <1>3 DEF Entries

LEMMA EntriesOfTail ==
  ASSUME NEW q \in Seq(Prompts), q # <<>>
  PROVE /\ Tail(q) \in Seq(Prompts) /\ Head(q) \in Prompts
        /\ Entries(q) = Entries(Tail(q)) \cup {Head(q)}
<1>1. /\ Tail(q) \in Seq(Prompts) /\ Head(q) \in Prompts /\ Len(Tail(q)) = Len(q) - 1
      /\ \A k \in 1 .. Len(Tail(q)) : Tail(q)[k] = q[k + 1]
  BY HeadTailProperties
<1>2. Len(q) \in Nat /\ Len(q) # 0 /\ Head(q) = q[1]
  BY EmptySeq, LenProperties
<1>3. DOMAIN q = 1 .. Len(q) /\ DOMAIN Tail(q) = 1 .. (Len(q) - 1)
  BY <1>1, <1>2, LenProperties
<1>4. ASSUME NEW k \in 1 .. Len(q) PROVE q[k] \in Entries(Tail(q)) \cup {Head(q)}
  <2>1. CASE k = 1
    BY <1>2, <2>1
  <2>2. CASE k # 1
    <3>1. k - 1 \in 1 .. (Len(q) - 1) /\ (k - 1) + 1 = k
      BY <1>2, <2>2
    <3>2. Tail(q)[k - 1] = q[k]
      BY <1>1, <3>1
    <3>. QED  BY <1>3, <3>1, <3>2 DEF Entries
  <2>. QED  BY <2>1, <2>2
<1>5. ASSUME NEW k \in 1 .. (Len(q) - 1) PROVE Tail(q)[k] \in Entries(q)
  <2>1. k + 1 \in 1 .. Len(q)
    BY <1>2
  <2>. QED  BY <1>1, <1>3, <2>1 DEF Entries
<1>6. 1 \in 1 .. Len(q)
  BY <1>2
<1>7. /\ Entries(q) = {q[k] : k \in 1 .. Len(q)}
      /\ Entries(Tail(q)) = {Tail(q)[k] : k \in 1 .. (Len(q) - 1)}
  BY <1>3 DEF Entries
<1>8. Entries(q) \subseteq Entries(Tail(q)) \cup {Head(q)}
  BY <1>4, <1>7
<1>9. Entries(Tail(q)) \cup {Head(q)} \subseteq Entries(q)
  BY <1>2, <1>5, <1>6, <1>7
<1>. QED  BY <1>1, <1>8, <1>9

-----------------------------------------------------------------------------
(* No prompt is lost *)

Requests == [pc : {"none", "read"}, rows : SUBSET Prompts]
Slots == [p : Prompts \cup {NoPrompt}, durable : BOOLEAN]
HandOffTypeOK ==
  /\ turn \in [Prompts -> Turns]
  /\ rows \in SUBSET Prompts /\ answers \in SUBSET (Clients \X Prompts)
  /\ slot \in [Clients -> Slots]
  /\ list \in [Clients -> SUBSET Prompts] /\ ledger \in [Clients -> SUBSET Prompts]
  /\ listing \in [Clients -> Requests]
  /\ draft \in [Clients -> Prompts \cup {NoPrompt, Own}]
  /\ queue \in [Clients -> Seq(Prompts)]
  /\ consume \in [Clients -> [Prompts -> {"none", "sent", "ok", "failed"}]]

(* a slot holds a prompt, and one without a row is the head of the queue *)
SlotIsHead(c) ==
  slot[c] # NoSlot =>
    /\ slot[c].p \in Prompts
    /\ ~slot[c].durable => queue[c] # <<>> /\ slot[c].p = Head(queue[c])

(* only a prompt that has been handed over is recorded and consumed *)
HandedOver(c, p) ==
  p \in ledger[c] \/ consume[c][p] = "sent" => p \in handled \/ draft[c] = p

KeptInv ==
  /\ HandOffTypeOK
  /\ \A c \in Clients : SlotIsHead(c)
  /\ \A c \in Clients, p \in Prompts : HandedOver(c, p)
  /\ PromptIsKept

LEMMA KeptInitially == RestoreInit => KeptInv
<1> SUFFICES ASSUME RestoreInit PROVE KeptInv
  OBVIOUS
<1>1. HandOffTypeOK
  <2>1. <<>> \in Seq(Prompts)
    BY EmptySeq
  <2>. QED  BY <2>1 DEF RestoreInit, HandOffTypeOK, Turns, Slots, Requests, NoSlot,
       NoRequest
<1>2. PromptIsKept
  BY DEF RestoreInit, PromptIsKept, Held
<1>. QED  BY <1>1, <1>2 DEF RestoreInit, KeptInv, SlotIsHead, HandedOver

LEMMA KeptServerStep ==
  ASSUME KeptInv, NEW p \in Prompts, ServerStep(p)
  PROVE KeptInv'
<1>1. UNCHANGED <<answers, clientSide, handled, lost>> /\ rows' \in {rows, rows \cup {p}}
  BY DEF ServerStep, SendPrompt, StartTurn, CompleteTurn, AgentSpeaks, PostMessages,
     StoreMessages, PostFails, DaemonDies, AckTaskCancelled, SweepDeferred, Settle, histories
<1>2. \/ turn' = turn
      \/ turn[p] = "unsent" /\ turn' = [turn EXCEPT ![p] = "queued"] /\ p \in inChat'
      \/ turn[p] # "unsent" /\ \E t \in Turns : turn' = [turn EXCEPT ![p] = t]
  BY DEF ServerStep, SendPrompt, StartTurn, CompleteTurn, AgentSpeaks, PostMessages,
     StoreMessages, PostFails, DaemonDies, AckTaskCancelled, SweepDeferred, Settle, Turn, Turns
<1>3. HandOffTypeOK'
  <2>1. turn \in [Prompts -> Turns] /\ "queued" \in Turns
    BY DEF KeptInv, HandOffTypeOK, Turns
  <2>2. turn' \in [Prompts -> Turns]
    BY <1>2, <2>1
  <2>3. rows' \in SUBSET Prompts
    BY <1>1 DEF KeptInv, HandOffTypeOK
  <2> QED BY <1>1, <2>2, <2>3 DEF KeptInv, HandOffTypeOK, clientSide
<1>4. (\A c \in Clients : SlotIsHead(c)') /\ (\A c \in Clients, q \in Prompts : HandedOver(c, q)')
  BY <1>1 DEF KeptInv, SlotIsHead, HandedOver, clientSide
<1>5. inChat \cup rows \subseteq inChat' \cup rows'
  BY DEF ServerStep, SendPrompt, StartTurn, CompleteTurn, AgentSpeaks, PostMessages,
     StoreMessages, PostFails, DaemonDies, AckTaskCancelled, SweepDeferred, Settle
<1>6. \A q \in Prompts : turn'[q] # "unsent" => turn[q] # "unsent" \/ q \in inChat'
  BY <1>2 DEF KeptInv, HandOffTypeOK, Turns
<1>7. PromptIsKept'
  BY <1>1, <1>5, <1>6 DEF KeptInv, PromptIsKept, Held, Queued, clientSide
<1>. QED  BY <1>3, <1>4, <1>7 DEF KeptInv

LEMMA KeptCancel ==
  ASSUME KeptInv, NEW c \in Clients, NEW p \in Prompts, CancelTurn(c, p)
  PROVE KeptInv'
<1>1. UNCHANGED <<rows, clientSide, handled, lost>> /\ answers \subseteq answers'
      /\ answers' \in SUBSET (Clients \X Prompts)
  BY DEF CancelTurn, histories, KeptInv, HandOffTypeOK
<1>2. turn[p] # "unsent" /\ \E t \in Turns : turn' = [turn EXCEPT ![p] = t]
  BY DEF CancelTurn, Turn, Turns
<1>3. HandOffTypeOK'
  BY <1>1, <1>2 DEF KeptInv, HandOffTypeOK, Turns, clientSide
<1>4. (\A d \in Clients : SlotIsHead(d)') /\ (\A d \in Clients, q \in Prompts : HandedOver(d, q)')
  BY <1>1 DEF KeptInv, SlotIsHead, HandedOver, clientSide
<1>5. inChat' = inChat \/ (inChat' = inChat \ {p} /\ <<c, p>> \in answers')
  BY DEF CancelTurn
<1>6. \A q \in Prompts : turn'[q] # "unsent" => turn[q] # "unsent"
  BY <1>2 DEF KeptInv, HandOffTypeOK, Turns
<1>7. PromptIsKept'
  BY <1>1, <1>5, <1>6 DEF KeptInv, PromptIsKept, Held, Queued, clientSide
<1>. QED  BY <1>3, <1>4, <1>7 DEF KeptInv

LEMMA KeptAnswer ==
  ASSUME KeptInv, NEW c \in Clients, NEW p \in Prompts,
         EnqueueLocalRestore(c, p) \/ LoseAnswer(c, p)
  PROVE KeptInv'
<1>1. CASE EnqueueLocalRestore(c, p)
  <2>1. /\ answers' = answers \ {<<c, p>>} /\ queue' = [queue EXCEPT ![c] = Append(@, p)]
        /\ UNCHANGED <<turn, inChat, rows, slot, list, listing, ledger, draft, consume, handled,
                       lost>>
    BY <1>1 DEF EnqueueLocalRestore, serverSide, histories
  <2>2. /\ Append(queue[c], p) \in Seq(Prompts)
        /\ Entries(Append(queue[c], p)) = Entries(queue[c]) \cup {p}
    BY EntriesOfAppend DEF KeptInv, HandOffTypeOK
  <2>3. HandOffTypeOK'
    BY <2>1, <2>2 DEF KeptInv, HandOffTypeOK
  <2>4. ASSUME NEW d \in Clients PROVE SlotIsHead(d)'
    <3>1. queue[c] \in Seq(Prompts)
      BY DEF KeptInv, HandOffTypeOK
    <3>2. queue[c] # <<>> => Append(queue[c], p) # <<>> /\ Head(Append(queue[c], p)) = Head(queue[c])
      BY <3>1, HeadTailAppend, AppendProperties
    <3>. QED  BY <2>1, <3>2 DEF KeptInv, HandOffTypeOK, SlotIsHead
  <2>5. \A d \in Clients, q \in Prompts : HandedOver(d, q)'
    BY <2>1 DEF KeptInv, HandedOver
  <2>6. PromptIsKept'
    <3>1. \A d \in Clients : Queued(d) = Entries(queue[d]) /\ Queued(d)' = Entries(queue'[d])
      BY DEF Queued, Entries
    <3>2. \A d \in Clients : queue'[d] = IF d = c THEN Append(queue[c], p) ELSE queue[d]
      BY <2>1 DEF KeptInv, HandOffTypeOK
    <3>3. (\A d \in Clients : Queued(d) \subseteq Queued(d)') /\ p \in Queued(c)'
      BY <2>2, <3>1, <3>2
    <3>. QED  BY <2>1, <3>3 DEF KeptInv, PromptIsKept, Held
  <2>. QED  BY <2>3, <2>4, <2>5, <2>6 DEF KeptInv
<1>2. CASE LoseAnswer(c, p)
  <2>1. /\ answers' = answers \ {<<c, p>>} /\ lost' = lost \cup {p}
        /\ UNCHANGED <<turn, inChat, rows, queue, slot, list, listing, ledger, draft, consume,
                       handled>>
    BY <1>2 DEF LoseAnswer, serverSide, clientSide
  <2>2. PromptIsKept'
    BY <2>1 DEF KeptInv, PromptIsKept, Held, Queued
  <2>. QED  BY <2>1, <2>2 DEF KeptInv, HandOffTypeOK, SlotIsHead, HandedOver
<1>. QED  BY <1>1, <1>2

(* the steps of a client that hand nothing over *)
LEMMA KeptClientFrame ==
  ASSUME KeptInv, NEW c \in Clients,
         \/ Appear(c) \/ Vanish(c) \/ ListDraftRestores(c) \/ RestoresLand(c) \/ Offer(c)
         \/ Type(c) \/ EndDraft(c)
  PROVE KeptInv'
<1>1. UNCHANGED <<turn, inChat, rows, answers, queue, consume, ledger, lost>>
  BY DEF Appear, Vanish, ListDraftRestores, RestoresLand, Offer, Type, EndDraft, serverSide,
     histories
<1>2. CASE Appear(c) \/ ListDraftRestores(c) \/ RestoresLand(c)
  <2>1. UNCHANGED <<slot, draft, handled>>
    BY <1>2 DEF Appear, ListDraftRestores, RestoresLand, histories
  <2>r. listing[c].rows \in SUBSET Prompts
    BY DEF KeptInv, HandOffTypeOK, Requests
  <2>a. list' \in [Clients -> SUBSET Prompts]
    BY <1>2, <2>r DEF Appear, ListDraftRestores, RestoresLand, KeptInv, HandOffTypeOK
  <2>b. NoRequest \in Requests /\ [pc |-> "read", rows |-> rows] \in Requests
    BY DEF KeptInv, HandOffTypeOK, NoRequest, Requests
  <2>c. listing' \in [Clients -> Requests]
    BY <1>2, <2>b DEF Appear, ListDraftRestores, RestoresLand, KeptInv, HandOffTypeOK
  <2>2. HandOffTypeOK'
    BY <1>1, <2>1, <2>a, <2>c DEF KeptInv, HandOffTypeOK
  <2>3. PromptIsKept'
    BY <1>1, <2>1 DEF KeptInv, PromptIsKept, Held, Queued
  <2>. QED  BY <1>1, <2>1, <2>2, <2>3 DEF KeptInv, SlotIsHead, HandedOver
<1>3. CASE Vanish(c) \/ Offer(c)
  <2>1. UNCHANGED <<draft, handled, list, listing>>
    BY <1>3 DEF Vanish, Offer, histories
  <2>2. \/ slot' = [slot EXCEPT ![c] = NoSlot]
        \/ queue[c] # <<>> /\ slot' = [slot EXCEPT ![c] = [p |-> Head(queue[c]), durable |-> FALSE]]
        \/ \E p \in Prompts : slot' = [slot EXCEPT ![c] = [p |-> p, durable |-> TRUE]]
    BY <1>3 DEF Vanish, Offer, KeptInv, HandOffTypeOK
  <2>3. queue[c] # <<>> => Head(queue[c]) \in Prompts
    BY EntriesOfTail DEF KeptInv, HandOffTypeOK
  <2>a. /\ NoSlot \in Slots
        /\ \A p \in Prompts : [p |-> p, durable |-> TRUE] \in Slots
        /\ \A p \in Prompts : [p |-> p, durable |-> FALSE] \in Slots
    BY DEF Slots, NoSlot
  <2>4. slot' \in [Clients -> Slots]
    BY <2>2, <2>3, <2>a DEF KeptInv, HandOffTypeOK
  <2>5. HandOffTypeOK'
    BY <1>1, <2>1, <2>4 DEF KeptInv, HandOffTypeOK
  <2>6. ASSUME NEW d \in Clients PROVE SlotIsHead(d)'
    <3>1. CASE d # c
      <4>1. slot'[d] = slot[d]
        BY <2>2, <3>1 DEF KeptInv, HandOffTypeOK
      <4>. QED  BY <1>1, <4>1 DEF KeptInv, SlotIsHead
    <3>2. CASE d = c
      <4>1. \/ slot'[c] = NoSlot
            \/ queue[c] # <<>> /\ slot'[c] = [p |-> Head(queue[c]), durable |-> FALSE]
            \/ \E p \in Prompts : slot'[c] = [p |-> p, durable |-> TRUE]
        BY <2>2 DEF KeptInv, HandOffTypeOK
      <4>2. CASE slot'[c] = NoSlot
        BY <3>2, <4>2 DEF SlotIsHead
      <4>3. CASE queue[c] # <<>> /\ slot'[c] = [p |-> Head(queue[c]), durable |-> FALSE]
        <5>1. slot'[c].p = Head(queue'[c]) /\ queue'[c] # <<>> /\ slot'[c].p \in Prompts
          BY <1>1, <2>3, <4>3
        <5>. QED  BY <3>2, <5>1 DEF SlotIsHead
      <4>4. CASE \E p \in Prompts : slot'[c] = [p |-> p, durable |-> TRUE]
        <5>1. slot'[c].p \in Prompts /\ slot'[c].durable = TRUE
          BY <4>4
        <5>. QED  BY <3>2, <5>1 DEF SlotIsHead
      <4>. QED  BY <4>1, <4>2, <4>3, <4>4
    <3>. QED  BY <3>1, <3>2
  <2>7. PromptIsKept'
    BY <1>1, <2>1 DEF KeptInv, PromptIsKept, Held, Queued
  <2>. QED  BY <1>1, <2>1, <2>5, <2>6, <2>7 DEF KeptInv, HandedOver
<1>4. CASE Type(c) \/ EndDraft(c)
  <2>1. UNCHANGED <<slot, list, listing>> /\ handled \subseteq handled'
    BY <1>4 DEF Type, EndDraft, histories
  <2>2. \/ draft[c] = NoPrompt /\ draft' = [draft EXCEPT ![c] = Own]
        \/ draft' = [draft EXCEPT ![c] = NoPrompt] /\ (draft[c] # Own => draft[c] \in handled')
    BY <1>4 DEF Type, EndDraft
  <2>3. HandOffTypeOK'
    BY <1>1, <2>1, <2>2 DEF KeptInv, HandOffTypeOK
  <2>4. \A d \in Clients, p \in Prompts : draft[d] = p => p \in handled' \/ draft'[d] = p
    BY <2>2, RestoreAssumption DEF KeptInv, HandOffTypeOK
  <2>5. PromptIsKept'
    BY <1>1, <2>1, <2>4 DEF KeptInv, PromptIsKept, Held, Queued
  <2>6. \A d \in Clients, p \in Prompts : HandedOver(d, p)'
    BY <1>1, <2>1, <2>4 DEF KeptInv, HandedOver
  <2>. QED  BY <1>1, <2>1, <2>3, <2>5, <2>6 DEF KeptInv, SlotIsHead
<1>. QED  BY <1>2, <1>3, <1>4

(* the request of a consume takes the prompt from the list, and nothing else *)
LEMMA ConsumeTypes ==
  ASSUME HandOffTypeOK, NEW c \in Clients, NEW p \in Prompts, Consume(c, p)
  PROVE /\ list' \in [Clients -> SUBSET Prompts]
        /\ consume' \in [Clients -> [Prompts -> {"none", "sent", "ok", "failed"}]]
        /\ \A d \in Clients, q \in Prompts :
             consume'[d][q] = IF d = c /\ q = p THEN "sent" ELSE consume[d][q]
BY DEF Consume, HandOffTypeOK

LEMMA KeptReconcile ==
  ASSUME KeptInv, NEW c \in Clients, NEW p \in Prompts, Reconcile(c, p)
  PROVE KeptInv'
<1>1. /\ UNCHANGED <<turn, inChat, rows, answers, queue, slot, listing, draft, ledger, handled,
                     lost>>
      /\ p \in ledger[c] /\ Consume(c, p)
  BY DEF Reconcile, serverSide, histories
<1>2. HandOffTypeOK'
  BY <1>1, ConsumeTypes DEF KeptInv, HandOffTypeOK
<1>3. \A d \in Clients, q \in Prompts : HandedOver(d, q)'
  BY <1>1, ConsumeTypes DEF KeptInv, HandedOver
<1>4. PromptIsKept'
  BY <1>1 DEF KeptInv, PromptIsKept, Held, Queued
<1>. QED  BY <1>1, <1>2, <1>3, <1>4 DEF KeptInv, SlotIsHead

LEMMA KeptApply ==
  ASSUME KeptInv, NEW c \in Clients, Apply(c)
  PROVE KeptInv'
<1> DEFINE p == slot[c].p
<1>1. /\ slot[c] # NoSlot /\ draft[c] = NoPrompt
      /\ draft' = [draft EXCEPT ![c] = p] /\ slot' = [slot EXCEPT ![c] = NoSlot]
      /\ UNCHANGED <<turn, inChat, rows, answers, listing, handled, lost>>
  BY DEF Apply, TakesOver, serverSide
<1>2. p \in Prompts
  BY <1>1 DEF KeptInv, SlotIsHead
<1> HIDE DEF p
<1>3. draft' \in [Clients -> Prompts \cup {NoPrompt, Own}]
  BY <1>1, <1>2 DEF KeptInv, HandOffTypeOK
<1>4. slot' \in [Clients -> Slots]
  BY <1>1 DEF KeptInv, HandOffTypeOK, Slots, NoSlot
<1>5. draft'[c] = p /\ \A d \in Clients, q \in Prompts : draft[d] = q => draft'[d] = q
  BY <1>1, RestoreAssumption DEF KeptInv, HandOffTypeOK
<1>6. CASE slot[c].durable /\ MarkApplied(c, p) /\ Consume(c, p) /\ UNCHANGED queue
  <2>1. ledger' = [ledger EXCEPT ![c] = @ \cup {p}]
    BY <1>6 DEF MarkApplied
  <2>2. HandOffTypeOK'
    BY <1>1, <1>2, <1>3, <1>4, <1>6, <2>1, ConsumeTypes DEF KeptInv, HandOffTypeOK
  <2>3. \A d \in Clients : SlotIsHead(d)'
    BY <1>1, <1>6 DEF KeptInv, HandOffTypeOK, SlotIsHead
  <2>4. ASSUME NEW d \in Clients, NEW q \in Prompts PROVE HandedOver(d, q)'
    <3>1. CASE d = c /\ q = p
      BY <1>5, <3>1 DEF HandedOver
    <3>2. CASE ~(d = c /\ q = p)
      <4>1. (q \in ledger'[d] => q \in ledger[d]) /\ consume'[d][q] = consume[d][q]
        BY <1>2, <1>6, <2>1, <3>2, ConsumeTypes DEF KeptInv, HandOffTypeOK
      <4>. QED  BY <1>1, <1>5, <4>1 DEF KeptInv, HandedOver
    <3>. QED  BY <3>1, <3>2
  <2>5. PromptIsKept'
    BY <1>1, <1>5, <1>6 DEF KeptInv, PromptIsKept, Held, Queued
  <2>. QED  BY <2>2, <2>3, <2>4, <2>5 DEF KeptInv
<1>7. CASE ~slot[c].durable /\ queue' = [queue EXCEPT ![c] = Tail(@)]
           /\ UNCHANGED <<ledger, consuming, consume, latest, list>>
  <2>1. queue[c] # <<>> /\ p = Head(queue[c])
    BY <1>1, <1>7 DEF KeptInv, SlotIsHead, p
  <2>2. Tail(queue[c]) \in Seq(Prompts) /\ Entries(queue[c]) = Entries(Tail(queue[c])) \cup {p}
    BY <2>1, EntriesOfTail DEF KeptInv, HandOffTypeOK
  <2>3. HandOffTypeOK'
    BY <1>1, <1>3, <1>4, <1>7, <2>2 DEF KeptInv, HandOffTypeOK
  <2>4. ASSUME NEW d \in Clients PROVE SlotIsHead(d)'
    <3>1. CASE d = c
      BY <1>1, <3>1 DEF KeptInv, HandOffTypeOK, SlotIsHead
    <3>2. CASE d # c
      <4>1. slot'[d] = slot[d] /\ queue'[d] = queue[d]
        BY <1>1, <1>7, <3>2 DEF KeptInv, HandOffTypeOK
      <4>. QED  BY <4>1 DEF KeptInv, SlotIsHead
    <3>. QED  BY <3>1, <3>2
  <2>5. \A d \in Clients, q \in Prompts : HandedOver(d, q)'
    BY <1>1, <1>5, <1>7 DEF KeptInv, HandedOver
  <2>6. \A d \in Clients : Queued(d) = Entries(queue[d]) /\ Queued(d)' = Entries(queue'[d])
    BY DEF Queued, Entries
  <2>7. \A d \in Clients : queue'[d] = IF d = c THEN Tail(queue[c]) ELSE queue[d]
    BY <1>7 DEF KeptInv, HandOffTypeOK
  <2>8. \A d \in Clients : Queued(d) \subseteq Queued(d)' \cup {p}
    BY <2>2, <2>6, <2>7
  <2>9. PromptIsKept'
    BY <1>1, <1>5, <2>8 DEF KeptInv, PromptIsKept, Held
  <2>. QED  BY <2>3, <2>4, <2>5, <2>9 DEF KeptInv
<1>. QED  BY <1>6, <1>7 DEF Apply, p

LEMMA KeptServeConsume ==
  ASSUME KeptInv, NEW c \in Clients, NEW p \in Prompts, ServeConsume(c, p)
  PROVE KeptInv'
<1>1. /\ UNCHANGED <<turn, inChat, answers, queue, slot, list, listing, draft, ledger, handled,
                     lost>>
      /\ consume[c][p] = "sent" /\ rows' \in {rows, rows \ {p}}
      /\ \E r \in {"ok", "failed"} : consume' = [consume EXCEPT ![c][p] = r]
  BY DEF ServeConsume, histories
<1>2. /\ consume' \in [Clients -> [Prompts -> {"none", "sent", "ok", "failed"}]]
      /\ \A d \in Clients, q \in Prompts : consume'[d][q] = "sent" => consume[d][q] = "sent"
  BY <1>1 DEF KeptInv, HandOffTypeOK
<1>3. HandOffTypeOK'
  BY <1>1, <1>2 DEF KeptInv, HandOffTypeOK
<1>4. \A d \in Clients, q \in Prompts : HandedOver(d, q)'
  BY <1>1, <1>2 DEF KeptInv, HandedOver
<1>5. p \in handled \/ draft[c] = p
  BY <1>1 DEF KeptInv, HandedOver
<1>6. PromptIsKept'
  BY <1>1, <1>5 DEF KeptInv, PromptIsKept, Held, Queued
<1>. QED  BY <1>1, <1>3, <1>4, <1>6 DEF KeptInv, SlotIsHead

LEMMA KeptConsumeSettles ==
  ASSUME KeptInv, NEW c \in Clients, NEW p \in Prompts, ConsumeSettles(c, p)
  PROVE KeptInv'
<1>1. /\ UNCHANGED <<turn, inChat, rows, answers, queue, slot, list, listing, draft, handled,
                     lost>>
      /\ consume' = [consume EXCEPT ![c][p] = "none"]
      /\ ledger' \in {ledger, [ledger EXCEPT ![c] = @ \ {p}]}
  BY DEF ConsumeSettles, serverSide
<1>2. /\ consume' \in [Clients -> [Prompts -> {"none", "sent", "ok", "failed"}]]
      /\ \A d \in Clients, q \in Prompts : consume'[d][q] = "sent" => consume[d][q] = "sent"
  BY <1>1 DEF KeptInv, HandOffTypeOK
<1>3. /\ ledger' \in [Clients -> SUBSET Prompts]
      /\ \A d \in Clients : ledger'[d] \subseteq ledger[d]
  <2>1. ledger \in [Clients -> SUBSET Prompts]
    BY DEF KeptInv, HandOffTypeOK
  <2>2. CASE ledger' = [ledger EXCEPT ![c] = @ \ {p}]
    BY <2>1, <2>2
  <2> QED BY <1>1, <2>1, <2>2
<1>4. HandOffTypeOK'
  BY <1>1, <1>2, <1>3 DEF KeptInv, HandOffTypeOK
<1>5. \A d \in Clients, q \in Prompts : HandedOver(d, q)'
  BY <1>1, <1>2, <1>3 DEF KeptInv, HandedOver
<1>6. PromptIsKept'
  BY <1>1 DEF KeptInv, PromptIsKept, Held, Queued
<1>. QED  BY <1>1, <1>4, <1>5, <1>6 DEF KeptInv, SlotIsHead

LEMMA KeptCloseApp ==
  ASSUME KeptInv, NEW c \in Clients, CloseApp(c)
  PROVE KeptInv'
<1>1. /\ UNCHANGED <<turn, inChat, draft, ledger, queue, handled>>
      /\ list' = [list EXCEPT ![c] = {}] /\ listing' = [listing EXCEPT ![c] = NoRequest]
      /\ slot' = [slot EXCEPT ![c] = NoSlot]
      /\ consume' = [consume EXCEPT ![c] = [p \in Prompts |-> "none"]]
      /\ answers' = {a \in answers : a[1] # c}
      /\ lost' = lost \cup {p \in Prompts : <<c, p>> \in answers}
  BY DEF CloseApp
<1>2. PICK S \in SUBSET {p \in Prompts : consume[c][p] = "sent"} : rows' = rows \ S
  BY DEF CloseApp
<1>3. HandOffTypeOK'
  <2>1. NoSlot \in Slots /\ NoRequest \in Requests
    BY DEF Slots, Requests, NoSlot, NoRequest
  <2>2. /\ list' \in [Clients -> SUBSET Prompts] /\ listing' \in [Clients -> Requests]
        /\ slot' \in [Clients -> Slots]
        /\ consume' \in [Clients -> [Prompts -> {"none", "sent", "ok", "failed"}]]
    BY <1>1, <2>1 DEF KeptInv, HandOffTypeOK
  <2>. QED  BY <1>1, <1>2, <2>2 DEF KeptInv, HandOffTypeOK
<1>4. ASSUME NEW d \in Clients PROVE SlotIsHead(d)'
  <2>1. slot'[d] \in {NoSlot, slot[d]}
    BY <1>1 DEF KeptInv, HandOffTypeOK
  <2>. QED  BY <1>1, <2>1 DEF KeptInv, SlotIsHead
<1>5. \A d \in Clients, q \in Prompts : consume'[d][q] = "sent" => consume[d][q] = "sent"
  BY <1>1 DEF KeptInv, HandOffTypeOK
<1>6. \A d \in Clients, q \in Prompts : HandedOver(d, q)'
  BY <1>1, <1>5 DEF KeptInv, HandedOver
<1>7. \A p \in S : p \in handled \/ draft[c] = p
  BY DEF KeptInv, HandedOver
<1>8. \A d \in Clients, p \in Prompts : <<d, p>> \in answers /\ p \notin lost' => <<d, p>> \in answers'
  BY <1>1
<1>9. PromptIsKept'
  BY <1>1, <1>2, <1>7, <1>8 DEF KeptInv, PromptIsKept, Held, Queued
<1>. QED  BY <1>3, <1>4, <1>6, <1>9 DEF KeptInv

LEMMA KeptStep == KeptInv /\ [RestoreNext]_restoreVars => KeptInv'
<1> SUFFICES ASSUME KeptInv, [RestoreNext]_restoreVars PROVE KeptInv'
  OBVIOUS
<1>1. ASSUME NEW p \in Prompts, ServerStep(p) PROVE KeptInv'
  BY <1>1, KeptServerStep
<1>2. ASSUME NEW c \in Clients, ClientStep(c) PROVE KeptInv'
  BY <1>2, KeptClientFrame, KeptApply, KeptCloseApp DEF ClientStep
<1>3. ASSUME NEW c \in Clients, NEW p \in Prompts,
             \/ CancelTurn(c, p) \/ EnqueueLocalRestore(c, p) \/ LoseAnswer(c, p)
             \/ Reconcile(c, p) \/ ServeConsume(c, p) \/ ConsumeSettles(c, p)
      PROVE KeptInv'
  BY <1>3, KeptCancel, KeptAnswer, KeptReconcile, KeptServeConsume, KeptConsumeSettles
<1>4. CASE UNCHANGED restoreVars
  BY <1>4 DEF restoreVars, serverSide, clientSide, histories, KeptInv, HandOffTypeOK, SlotIsHead,
     HandedOver, PromptIsKept, Held, Queued
<1>. QED  BY <1>1, <1>2, <1>3, <1>4 DEF RestoreNext

(* useChatDraftRestore: the hand-off is lossless, whatever is closed, hidden, refused or
   lost on the way, except for the answer of a synchronous cancel *)
THEOREM HandOffIsLossless == RestoreSpec => []PromptIsKept
<1>1. KeptInv => PromptIsKept
  BY DEF KeptInv
<1>. QED  BY KeptInitially, KeptStep, <1>1, PTL DEF RestoreSpec

-----------------------------------------------------------------------------
(* No prompt is handed over twice *)

(* nothing is known of a prompt whose turn has not been settled *)
Untaken(c, p) ==
  turn[p] # "settled" =>
    /\ p \notin rows \cup list[c] \cup listing[c].rows \cup ledger[c] \cup Queued(c)
    /\ <<c, p>> \notin answers \cup applied
    /\ slot[c].p # p /\ consume[c][p] = "none"

(* a prompt that came back with the answer has no row, and is queued once *)
LocalOnly(c, p) ==
  /\ p \in Queued(c) \/ <<c, p>> \in answers =>
       /\ p \notin rows \cup list[c] \cup listing[c].rows
       /\ <<c, p>> \notin applied
       /\ slot[c].durable => slot[c].p # p
  /\ <<c, p>> \in answers => p \notin Queued(c)
NoRepeats(c) == \A i, j \in DOMAIN queue[c] : queue[c][i] = queue[c][j] => i = j

(* the ledger, or the absence of its row, keeps an applied prompt from being offered *)
Recorded(c, p) ==
  <<c, p>> \in applied \ crossed =>
    /\ p \in rows \cup list[c] => p \in ledger[c]
    /\ slot[c].p # p
Confirmed(c, p) == consume[c][p] = "ok" => p \notin rows

OnceInv ==
  /\ KeptInv
  /\ \A c \in Clients : NoRepeats(c)
  /\ \A c \in Clients, p \in Prompts :
       Untaken(c, p) /\ LocalOnly(c, p) /\ Recorded(c, p) /\ Confirmed(c, p)
  /\ AppliedOnce

LEMMA OnceInitially == RestoreInit => OnceInv
<1> SUFFICES ASSUME RestoreInit PROVE OnceInv
  OBVIOUS
<1>1. \A c \in Clients : Queued(c) = {} /\ NoRepeats(c)
  BY EmptySeq DEF RestoreInit, Queued, NoRepeats
<1>2. \A p \in Prompts : NoPrompt # p
  BY RestoreAssumption
<1>. QED  BY KeptInitially, <1>1, <1>2 DEF OnceInv, RestoreInit, Untaken, LocalOnly, Recorded,
     Confirmed, AppliedOnce, NoSlot, NoRequest

LEMMA OnceServerStep ==
  ASSUME OnceInv, NEW p \in Prompts, ServerStep(p)
  PROVE OnceInv'
<1>1. KeptInv'
  BY KeptServerStep DEF OnceInv
<1>2. UNCHANGED <<answers, clientSide, applied, again, crossed>>
  BY DEF ServerStep, SendPrompt, StartTurn, CompleteTurn, AgentSpeaks, PostMessages,
     StoreMessages, PostFails, DaemonDies, AckTaskCancelled, SweepDeferred, histories
<1>3. \/ turn' = turn
      \/ turn[p] # "settled" /\ \E t \in Turns : turn' = [turn EXCEPT ![p] = t]
  BY DEF ServerStep, SendPrompt, StartTurn, CompleteTurn, AgentSpeaks, PostMessages,
     StoreMessages, PostFails, DaemonDies, AckTaskCancelled, SweepDeferred, Settle, Turn, Turns
<1>4. rows' = rows \/ (rows' = rows \cup {p} /\ turn[p] = "deferred"
                         /\ turn' = [turn EXCEPT ![p] = "settled"])
  BY DEF ServerStep, SendPrompt, StartTurn, CompleteTurn, AgentSpeaks, PostMessages,
     StoreMessages, PostFails, DaemonDies, AckTaskCancelled, SweepDeferred, Settle
<1>5. \A q \in Prompts : turn'[q] # "settled" => turn[q] # "settled"
  BY <1>3 DEF OnceInv, KeptInv, HandOffTypeOK
<1>6. \A q \in Prompts : q \in rows' => q \in rows \/ (turn[q] # "settled" /\ turn'[q] = "settled")
  BY <1>4 DEF OnceInv, KeptInv, HandOffTypeOK
<1>7. \A c \in Clients : Queued(c)' = Queued(c) /\ NoRepeats(c)'
  BY <1>2 DEF OnceInv, Queued, NoRepeats, clientSide
<1>8. ASSUME NEW c \in Clients, NEW q \in Prompts
      PROVE Untaken(c, q)' /\ LocalOnly(c, q)' /\ Recorded(c, q)' /\ Confirmed(c, q)'
  <2>1. Untaken(c, q) /\ LocalOnly(c, q) /\ Recorded(c, q) /\ Confirmed(c, q)
    BY DEF OnceInv
  <2>. QED  BY <1>2, <1>5, <1>6, <1>7, <2>1 DEF Untaken, LocalOnly, Recorded, Confirmed, clientSide
<1>. QED  BY <1>1, <1>2, <1>7, <1>8 DEF OnceInv, AppliedOnce

LEMMA OnceCancel ==
  ASSUME OnceInv, NEW c \in Clients, NEW p \in Prompts, CancelTurn(c, p)
  PROVE OnceInv'
<1>1. KeptInv'
  BY KeptCancel DEF OnceInv
<1>2. UNCHANGED <<rows, clientSide, applied, again, crossed>>
  BY DEF CancelTurn, histories
<1>3. turn[p] # "settled" /\ \E t \in Turns : turn' = [turn EXCEPT ![p] = t]
  BY DEF CancelTurn, Turn, Turns
<1>4. \A q \in Prompts : turn'[q] # "settled" => turn[q] # "settled"
  BY <1>3 DEF OnceInv, KeptInv, HandOffTypeOK
<1>5. answers' = answers \/ (answers' = answers \cup {<<c, p>>} /\ turn' = [turn EXCEPT ![p] = "settled"])
  BY DEF CancelTurn, Turn
<1>6. \A d \in Clients, q \in Prompts :
        <<d, q>> \in answers' => <<d, q>> \in answers \/ (turn[q] # "settled" /\ turn'[q] = "settled")
  BY <1>3, <1>5 DEF OnceInv, KeptInv, HandOffTypeOK
<1>7. \A d \in Clients : Queued(d)' = Queued(d) /\ NoRepeats(d)'
  BY <1>2 DEF OnceInv, Queued, NoRepeats, clientSide
<1>8. ASSUME NEW d \in Clients, NEW q \in Prompts
      PROVE Untaken(d, q)' /\ LocalOnly(d, q)' /\ Recorded(d, q)' /\ Confirmed(d, q)'
  <2>1. Untaken(d, q) /\ LocalOnly(d, q) /\ Recorded(d, q) /\ Confirmed(d, q)
    BY DEF OnceInv
  <2>. QED  BY <1>2, <1>4, <1>6, <1>7, <2>1 DEF Untaken, LocalOnly, Recorded, Confirmed, clientSide
<1>. QED  BY <1>1, <1>2, <1>7, <1>8 DEF OnceInv, AppliedOnce

LEMMA OnceAnswer ==
  ASSUME OnceInv, NEW c \in Clients, NEW p \in Prompts,
         EnqueueLocalRestore(c, p) \/ LoseAnswer(c, p)
  PROVE OnceInv'
<1>1. KeptInv'
  BY KeptAnswer DEF OnceInv
<1>2. CASE EnqueueLocalRestore(c, p)
  <2>1. /\ <<c, p>> \in answers /\ answers' = answers \ {<<c, p>>}
        /\ queue' = [queue EXCEPT ![c] = Append(@, p)]
        /\ UNCHANGED <<turn, rows, list, listing, ledger, slot, consume, applied, again, crossed>>
    BY <1>2 DEF EnqueueLocalRestore, serverSide, histories
  <2>2. queue[c] \in Seq(Prompts) /\ p \notin Queued(c)
    BY <2>1 DEF OnceInv, KeptInv, HandOffTypeOK, LocalOnly
  <2>3. \A d \in Clients : queue'[d] = IF d = c THEN Append(queue[c], p) ELSE queue[d]
    BY <2>1 DEF OnceInv, KeptInv, HandOffTypeOK
  <2>4. \A d \in Clients : Queued(d) = Entries(queue[d]) /\ Queued(d)' = Entries(queue'[d])
    BY DEF Queued, Entries
  <2>5. \A d \in Clients : Queued(d)' = IF d = c THEN Queued(c) \cup {p} ELSE Queued(d)
    BY <2>2, <2>3, <2>4, EntriesOfAppend
  <2>6. NoRepeats(c)'
    <3>1. /\ Len(Append(queue[c], p)) = Len(queue[c]) + 1 /\ Len(queue[c]) \in Nat
          /\ Append(queue[c], p) \in Seq(Prompts)
          /\ \A k \in 1 .. Len(queue[c]) : Append(queue[c], p)[k] = queue[c][k]
          /\ Append(queue[c], p)[Len(queue[c]) + 1] = p
      BY <2>2, AppendProperties, LenProperties
    <3>2. DOMAIN queue[c] = 1 .. Len(queue[c])
          /\ DOMAIN Append(queue[c], p) = 1 .. (Len(queue[c]) + 1)
      BY <2>2, <3>1, LenProperties
    <3>3. \A k \in 1 .. Len(queue[c]) : queue[c][k] # p
      BY <2>2, <3>2 DEF Queued
    <3>4. \A i, j \in 1 .. Len(queue[c]) : queue[c][i] = queue[c][j] => i = j
      BY <3>2 DEF OnceInv, NoRepeats
    <3>5. ASSUME NEW i \in 1 .. (Len(queue[c]) + 1), NEW j \in 1 .. (Len(queue[c]) + 1),
                 Append(queue[c], p)[i] = Append(queue[c], p)[j]
          PROVE i = j
      BY <3>1, <3>3, <3>4, <3>5
    <3>. QED  BY <2>3, <3>2, <3>5 DEF NoRepeats
  <2>7. \A d \in Clients : NoRepeats(d)'
    BY <2>3, <2>6 DEF OnceInv, NoRepeats
  <2>8. ASSUME NEW d \in Clients, NEW q \in Prompts
        PROVE Untaken(d, q)' /\ LocalOnly(d, q)' /\ Recorded(d, q)' /\ Confirmed(d, q)'
    <3>1. Untaken(d, q) /\ LocalOnly(d, q) /\ Recorded(d, q) /\ Confirmed(d, q)
      BY DEF OnceInv
    <3>2. q \in Queued(d)' => q \in Queued(d) \/ <<d, q>> \in answers
      BY <2>1, <2>5
    <3>3. <<d, q>> \in answers' => <<d, q>> \in answers /\ q \notin Queued(d)'
      BY <2>1, <2>5, <3>1 DEF LocalOnly
    <3>. QED  BY <2>1, <3>1, <3>2, <3>3 DEF Untaken, LocalOnly, Recorded, Confirmed
  <2>. QED  BY <1>1, <2>1, <2>7, <2>8 DEF OnceInv, AppliedOnce
<1>3. CASE LoseAnswer(c, p)
  BY <1>1, <1>3 DEF LoseAnswer, serverSide, clientSide, OnceInv, AppliedOnce, Untaken, LocalOnly,
     Recorded, Confirmed, NoRepeats, Queued
<1>. QED  BY <1>2, <1>3

(* the steps of a client that neither offer, apply nor consume *)
LEMMA OnceClientFrame ==
  ASSUME OnceInv, NEW c \in Clients,
         \/ Appear(c) \/ Vanish(c) \/ ListDraftRestores(c) \/ RestoresLand(c)
         \/ Type(c) \/ EndDraft(c)
  PROVE OnceInv'
<1>1. KeptInv'
  BY KeptClientFrame DEF OnceInv
<1>2. UNCHANGED <<turn, rows, answers, queue, consume, ledger, applied, again>>
      /\ crossed \subseteq crossed'
  BY DEF Appear, Vanish, ListDraftRestores, RestoresLand, Type, EndDraft, serverSide, histories
<1>3. AppliedOnce' /\ \A d \in Clients : NoRepeats(d)' /\ Queued(d)' = Queued(d)
  BY <1>2 DEF OnceInv, AppliedOnce, NoRepeats, Queued
<1>4. CASE Appear(c) \/ Type(c) \/ EndDraft(c)
  <2>1. UNCHANGED <<slot, list, listing, crossed>>
    BY <1>4 DEF Appear, Type, EndDraft, histories
  <2>. QED  BY <1>1, <1>2, <1>3, <2>1 DEF OnceInv, Untaken, LocalOnly, Recorded, Confirmed
<1>5. CASE Vanish(c)
  <2>1. UNCHANGED <<list, listing, crossed>> /\ slot' = [slot EXCEPT ![c] = NoSlot]
    BY <1>5 DEF Vanish, histories
  <2>2. \A d \in Clients : slot'[d] = slot[d] \/ slot'[d].p = NoPrompt
    BY <2>1 DEF OnceInv, KeptInv, HandOffTypeOK, NoSlot
  <2>3. \A q \in Prompts : q # NoPrompt
    BY RestoreAssumption
  <2>. QED  BY <1>1, <1>2, <1>3, <2>1, <2>2, <2>3 DEF OnceInv, Untaken, LocalOnly, Recorded,
       Confirmed
<1>6. CASE ListDraftRestores(c)
  <2>1. UNCHANGED <<list, slot, crossed>>
        /\ listing' = [listing EXCEPT ![c] = [pc |-> "read", rows |-> rows]]
    BY <1>6 DEF ListDraftRestores, histories
  <2>2. \A d \in Clients : listing'[d].rows \in {listing[d].rows, rows}
    BY <2>1 DEF OnceInv, KeptInv, HandOffTypeOK
  <2>. QED  BY <1>1, <1>2, <1>3, <2>1, <2>2 DEF OnceInv, Untaken, LocalOnly, Recorded, Confirmed
<1>7. CASE RestoresLand(c)
  <2>1. /\ UNCHANGED slot
        /\ list' = [list EXCEPT ![c] = listing[c].rows]
        /\ listing' = [listing EXCEPT ![c] = NoRequest]
        /\ crossed' = crossed \cup {<<c, p>> : p \in listing[c].rows \ (rows \cup ledger[c])}
    BY <1>7 DEF RestoresLand
  <2>2. \A d \in Clients : /\ listing'[d].rows \subseteq listing[d].rows
                           /\ list'[d] = IF d = c THEN listing[c].rows ELSE list[d]
    BY <2>1 DEF OnceInv, KeptInv, HandOffTypeOK, NoRequest
  <2>3. ASSUME NEW d \in Clients, NEW q \in Prompts
        PROVE Untaken(d, q)' /\ LocalOnly(d, q)' /\ Recorded(d, q)' /\ Confirmed(d, q)'
    <3>1. Untaken(d, q) /\ LocalOnly(d, q) /\ Recorded(d, q) /\ Confirmed(d, q)
      BY DEF OnceInv
    <3>2. Untaken(d, q)' /\ LocalOnly(d, q)' /\ Confirmed(d, q)'
      BY <1>2, <1>3, <2>1, <2>2, <3>1 DEF Untaken, LocalOnly, Confirmed
    <3>3. <<d, q>> \notin crossed' /\ q \in list'[d] => q \in rows \cup ledger[d] \/ q \in list[d]
      BY <2>1, <2>2
    <3>4. Recorded(d, q)'
      BY <1>2, <2>1, <3>1, <3>3 DEF Recorded
    <3>. QED  BY <3>2, <3>4
  <2>. QED  BY <1>1, <1>3, <2>3 DEF OnceInv
<1>. QED  BY <1>4, <1>5, <1>6, <1>7

LEMMA OnceOffer ==
  ASSUME OnceInv, NEW c \in Clients, Offer(c)
  PROVE OnceInv'
<1>1. KeptInv'
  BY KeptClientFrame DEF OnceInv
<1>2. UNCHANGED <<turn, rows, answers, queue, consume, ledger, list, listing, applied, again,
                  crossed>>
  BY DEF Offer, serverSide, histories
<1>3. AppliedOnce' /\ \A d \in Clients : NoRepeats(d)' /\ Queued(d)' = Queued(d)
  BY <1>2 DEF OnceInv, AppliedOnce, NoRepeats, Queued
<1>4. PICK p \in Prompts :
        \/ p \in Queued(c) /\ slot' = [slot EXCEPT ![c] = [p |-> p, durable |-> FALSE]]
        \/ p \in list[c] \ ledger[c] /\ slot' = [slot EXCEPT ![c] = [p |-> p, durable |-> TRUE]]
  <2>1. CASE queue[c] # <<>> /\ slot' = [slot EXCEPT ![c] = [p |-> Head(queue[c]), durable |-> FALSE]]
    <3>1. Head(queue[c]) \in Prompts /\ Head(queue[c]) \in Entries(queue[c])
      BY <2>1, EntriesOfTail DEF OnceInv, KeptInv, HandOffTypeOK
    <3>. QED  BY <2>1, <3>1 DEF Queued, Entries
  <2>2. CASE \E q \in list[c] \ ledger[c] : slot' = [slot EXCEPT ![c] = [p |-> q, durable |-> TRUE]]
    BY <2>2 DEF OnceInv, KeptInv, HandOffTypeOK
  <2>. QED  BY <2>1, <2>2 DEF Offer
<1>5. /\ \A d \in Clients : d # c => slot'[d] = slot[d]
      /\ slot'[c].p = p
      /\ (p \in Queued(c) /\ slot'[c].durable = FALSE) \/ p \in list[c] \ ledger[c]
  BY <1>4 DEF OnceInv, KeptInv, HandOffTypeOK
<1>6. ASSUME NEW d \in Clients, NEW q \in Prompts
      PROVE Untaken(d, q)' /\ LocalOnly(d, q)' /\ Recorded(d, q)' /\ Confirmed(d, q)'
  <2>1. Untaken(d, q) /\ LocalOnly(d, q) /\ Recorded(d, q) /\ Confirmed(d, q)
    BY DEF OnceInv
  <2>2. CASE d # c \/ q # p
    BY <1>2, <1>3, <1>5, <2>1, <2>2 DEF Untaken, LocalOnly, Recorded, Confirmed
  <2>3. CASE d = c /\ q = p
    BY <1>2, <1>3, <1>5, <2>1, <2>3 DEF Untaken, LocalOnly, Recorded, Confirmed
  <2>. QED  BY <2>2, <2>3
<1>. QED  BY <1>1, <1>3, <1>6 DEF OnceInv

LEMMA OnceReconcile ==
  ASSUME OnceInv, NEW c \in Clients, NEW p \in Prompts, Reconcile(c, p)
  PROVE OnceInv'
<1>1. KeptInv'
  BY KeptReconcile DEF OnceInv
<1>2. /\ UNCHANGED <<turn, rows, answers, queue, ledger, slot, listing, applied, again, crossed>>
      /\ p \in ledger[c] /\ Consume(c, p)
  BY DEF Reconcile, serverSide, histories
<1>3. AppliedOnce' /\ \A d \in Clients : NoRepeats(d)' /\ Queued(d)' = Queued(d)
  BY <1>2 DEF OnceInv, AppliedOnce, NoRepeats, Queued
<1>4. /\ \A d \in Clients : list'[d] \subseteq list[d]
      /\ \A d \in Clients, q \in Prompts :
           consume'[d][q] = IF d = c /\ q = p THEN "sent" ELSE consume[d][q]
  BY <1>2, ConsumeTypes DEF OnceInv, KeptInv, HandOffTypeOK, Consume
<1>5. turn[p] = "settled"
  BY <1>2 DEF OnceInv, Untaken
<1>6. ASSUME NEW d \in Clients, NEW q \in Prompts
      PROVE Untaken(d, q)' /\ LocalOnly(d, q)' /\ Recorded(d, q)' /\ Confirmed(d, q)'
  <2>1. Untaken(d, q) /\ LocalOnly(d, q) /\ Recorded(d, q) /\ Confirmed(d, q)
    BY DEF OnceInv
  <2>. QED  BY <1>2, <1>3, <1>4, <1>5, <2>1 DEF Untaken, LocalOnly, Recorded, Confirmed
<1>. QED  BY <1>1, <1>3, <1>6 DEF OnceInv

LEMMA OnceServeConsume ==
  ASSUME OnceInv, NEW c \in Clients, NEW p \in Prompts, ServeConsume(c, p)
  PROVE OnceInv'
<1>1. KeptInv'
  BY KeptServeConsume DEF OnceInv
<1>2. /\ UNCHANGED <<turn, answers, queue, ledger, slot, list, listing, applied, again, crossed>>
      /\ consume[c][p] = "sent" /\ rows' \in {rows, rows \ {p}}
      /\ \E r \in {"ok", "failed"} :
           consume' = [consume EXCEPT ![c][p] = r] /\ (r = "ok" => p \notin rows')
  BY DEF ServeConsume, histories
<1>3. AppliedOnce' /\ \A d \in Clients : NoRepeats(d)' /\ Queued(d)' = Queued(d)
  BY <1>2 DEF OnceInv, AppliedOnce, NoRepeats, Queued
<1>4. \A d \in Clients, q \in Prompts :
        /\ consume'[d][q] = "ok" => consume[d][q] = "ok" \/ q \notin rows'
        /\ consume[d][q] = "none" => consume'[d][q] = "none"
  BY <1>2 DEF OnceInv, KeptInv, HandOffTypeOK
<1>5. ASSUME NEW d \in Clients, NEW q \in Prompts
      PROVE Untaken(d, q)' /\ LocalOnly(d, q)' /\ Recorded(d, q)' /\ Confirmed(d, q)'
  <2>1. Untaken(d, q) /\ LocalOnly(d, q) /\ Recorded(d, q) /\ Confirmed(d, q)
    BY DEF OnceInv
  <2>. QED  BY <1>2, <1>3, <1>4, <2>1 DEF Untaken, LocalOnly, Recorded, Confirmed
<1>. QED  BY <1>1, <1>3, <1>5 DEF OnceInv

LEMMA OnceConsumeSettles ==
  ASSUME OnceInv, NEW c \in Clients, NEW p \in Prompts, ConsumeSettles(c, p)
  PROVE OnceInv'
<1>1. KeptInv'
  BY KeptConsumeSettles DEF OnceInv
<1>2. /\ UNCHANGED <<turn, rows, answers, queue, slot, list, listing, applied, again>>
      /\ consume' = [consume EXCEPT ![c][p] = "none"]
      /\ \/ UNCHANGED <<ledger, crossed>>
         \/ /\ consume[c][p] = "ok" /\ ledger' = [ledger EXCEPT ![c] = @ \ {p}]
            /\ crossed' = crossed \cup {<<c, q>> : q \in {p} \cap list[c]}
  BY DEF ConsumeSettles, serverSide
<1>3. AppliedOnce' /\ \A d \in Clients : NoRepeats(d)' /\ Queued(d)' = Queued(d)
  BY <1>2 DEF OnceInv, AppliedOnce, NoRepeats, Queued
<1>4. \A d \in Clients, q \in Prompts : consume'[d][q] \in {"none", consume[d][q]}
  BY <1>2 DEF OnceInv, KeptInv, HandOffTypeOK
<1>5. \A d \in Clients, q \in Prompts :
        /\ q \in ledger'[d] => q \in ledger[d]
        /\ q \in ledger[d] \ ledger'[d] => q \notin rows /\ (q \in list[d] => <<d, q>> \in crossed')
  <2>1. ledger \in [Clients -> SUBSET Prompts]
    BY DEF OnceInv, KeptInv, HandOffTypeOK
  <2>2. CASE consume[c][p] = "ok" /\ ledger' = [ledger EXCEPT ![c] = @ \ {p}]
             /\ crossed' = crossed \cup {<<c, q>> : q \in {p} \cap list[c]}
    <3>1. p \notin rows
      BY <2>2 DEF OnceInv, Confirmed
    <3>2. p \in list[c] => <<c, p>> \in crossed'
      BY <2>2
    <3>3. \A d \in Clients : ledger'[d] = IF d = c THEN ledger[c] \ {p} ELSE ledger[d]
      BY <2>1, <2>2
    <3> QED BY <3>1, <3>2, <3>3
  <2> QED BY <1>2, <2>2
<1>6. crossed \subseteq crossed'
  BY <1>2
<1>7. ASSUME NEW d \in Clients, NEW q \in Prompts
      PROVE Untaken(d, q)' /\ LocalOnly(d, q)' /\ Recorded(d, q)' /\ Confirmed(d, q)'
  <2>1. Untaken(d, q) /\ LocalOnly(d, q) /\ Recorded(d, q) /\ Confirmed(d, q)
    BY DEF OnceInv
  <2>. QED  BY <1>2, <1>3, <1>4, <1>5, <1>6, <2>1 DEF Untaken, LocalOnly, Recorded, Confirmed
<1>. QED  BY <1>1, <1>3, <1>7 DEF OnceInv

LEMMA OnceCloseApp ==
  ASSUME OnceInv, NEW c \in Clients, CloseApp(c)
  PROVE OnceInv'
<1>1. KeptInv'
  BY KeptCloseApp DEF OnceInv
<1>2. /\ UNCHANGED <<turn, ledger, queue, applied, again, crossed>> /\ rows' \subseteq rows
      /\ list' = [list EXCEPT ![c] = {}] /\ listing' = [listing EXCEPT ![c] = NoRequest]
      /\ slot' = [slot EXCEPT ![c] = NoSlot]
      /\ consume' = [consume EXCEPT ![c] = [p \in Prompts |-> "none"]]
      /\ answers' \subseteq answers
  BY DEF CloseApp
<1>3. AppliedOnce' /\ \A d \in Clients : NoRepeats(d)' /\ Queued(d)' = Queued(d)
  BY <1>2 DEF OnceInv, AppliedOnce, NoRepeats, Queued
<1>4. /\ \A d \in Clients : list'[d] \subseteq list[d] /\ listing'[d].rows \subseteq listing[d].rows
      /\ \A d \in Clients : slot'[d] = slot[d] \/ slot'[d].p = NoPrompt
      /\ \A d \in Clients, q \in Prompts : consume'[d][q] \in {"none", consume[d][q]}
  BY <1>2 DEF OnceInv, KeptInv, HandOffTypeOK, NoSlot, NoRequest
<1>5. \A q \in Prompts : q # NoPrompt
  BY RestoreAssumption
<1>6. ASSUME NEW d \in Clients, NEW q \in Prompts
      PROVE Untaken(d, q)' /\ LocalOnly(d, q)' /\ Recorded(d, q)' /\ Confirmed(d, q)'
  <2>1. Untaken(d, q) /\ LocalOnly(d, q) /\ Recorded(d, q) /\ Confirmed(d, q)
    BY DEF OnceInv
  <2>. QED  BY <1>2, <1>3, <1>4, <1>5, <2>1 DEF Untaken, LocalOnly, Recorded, Confirmed
<1>. QED  BY <1>1, <1>3, <1>6 DEF OnceInv

(* the head of a queue without repeats is not in its tail *)
LEMMA HeadIsGone ==
  ASSUME NEW q \in Seq(Prompts), q # <<>>, \A i, j \in DOMAIN q : q[i] = q[j] => i = j
  PROVE /\ Head(q) \notin Entries(Tail(q))
        /\ \A i, j \in DOMAIN Tail(q) : Tail(q)[i] = Tail(q)[j] => i = j
<1>1. /\ Tail(q) \in Seq(Prompts) /\ Len(Tail(q)) = Len(q) - 1
      /\ \A k \in 1 .. Len(Tail(q)) : Tail(q)[k] = q[k + 1]
  BY HeadTailProperties
<1>2. Len(q) \in Nat /\ Len(q) # 0 /\ Head(q) = q[1]
  BY EmptySeq, LenProperties
<1>3. DOMAIN q = 1 .. Len(q) /\ DOMAIN Tail(q) = 1 .. (Len(q) - 1)
  BY <1>1, <1>2, LenProperties
<1>4. ASSUME NEW k \in 1 .. (Len(q) - 1)
      PROVE k + 1 \in 1 .. Len(q) /\ Tail(q)[k] = q[k + 1] /\ k + 1 # 1
  BY <1>1, <1>2
<1>5. 1 \in 1 .. Len(q)
  BY <1>2
<1>6. \A k \in 1 .. (Len(q) - 1) : Tail(q)[k] # Head(q)
  BY <1>2, <1>3, <1>4, <1>5
<1>7. ASSUME NEW i \in 1 .. (Len(q) - 1), NEW j \in 1 .. (Len(q) - 1), Tail(q)[i] = Tail(q)[j]
      PROVE i = j
  <2>1. i + 1 = j + 1
    BY <1>3, <1>4, <1>7
  <2>. QED  BY <2>1
<1>. QED  BY <1>3, <1>6, <1>7 DEF Entries

LEMMA OnceApply ==
  ASSUME OnceInv, NEW c \in Clients, Apply(c)
  PROVE OnceInv'
<1> DEFINE p == slot[c].p
<1>1. KeptInv'
  BY KeptApply DEF OnceInv
<1>2. /\ slot[c] # NoSlot /\ slot' = [slot EXCEPT ![c] = NoSlot]
      /\ UNCHANGED <<turn, rows, answers, listing, crossed>>
      /\ applied' = applied \cup {<<c, p>>}
      /\ again' = IF <<c, p>> \in applied THEN again \cup {<<c, p>>} ELSE again
  BY DEF Apply, TakesOver, serverSide
<1>3. /\ p \in Prompts /\ Untaken(c, p) /\ LocalOnly(c, p) /\ Recorded(c, p)
      /\ ~slot[c].durable => queue[c] # <<>> /\ p = Head(queue[c])
      /\ slot[c].p = p
  BY <1>2 DEF OnceInv, KeptInv, SlotIsHead
<1> HIDE DEF p
<1>4. turn[p] = "settled"
  BY <1>3 DEF Untaken
<1>5. \A d \in Clients : slot'[d] = slot[d] \/ slot'[d].p = NoPrompt
  BY <1>2 DEF OnceInv, KeptInv, HandOffTypeOK, NoSlot
<1>6. slot'[c].p = NoPrompt /\ \A q \in Prompts : q # NoPrompt
  BY <1>2, RestoreAssumption DEF OnceInv, KeptInv, HandOffTypeOK, NoSlot
<1>7. AppliedOnce'
  BY <1>2, <1>3 DEF OnceInv, AppliedOnce, Recorded
<1>8. CASE slot[c].durable /\ MarkApplied(c, p) /\ Consume(c, p) /\ UNCHANGED queue
  <2>1. /\ \A d \in Clients : list'[d] \subseteq list[d]
        /\ \A d \in Clients : ledger'[d] = IF d = c THEN ledger[c] \cup {p} ELSE ledger[d]
        /\ \A d \in Clients, q \in Prompts :
             consume'[d][q] = IF d = c /\ q = p THEN "sent" ELSE consume[d][q]
    BY <1>3, <1>8, ConsumeTypes DEF OnceInv, KeptInv, HandOffTypeOK, Consume, MarkApplied
  <2>2. \A d \in Clients : NoRepeats(d)' /\ Queued(d)' = Queued(d)
    BY <1>8 DEF OnceInv, NoRepeats, Queued
  <2>3. ASSUME NEW d \in Clients, NEW q \in Prompts
        PROVE Untaken(d, q)' /\ LocalOnly(d, q)' /\ Recorded(d, q)' /\ Confirmed(d, q)'
    <3>1. Untaken(d, q) /\ LocalOnly(d, q) /\ Recorded(d, q) /\ Confirmed(d, q)
      BY DEF OnceInv
    <3>2. CASE d = c /\ q = p
      <4>1. ~(p \in Queued(c) \/ <<c, p>> \in answers)
        BY <1>3, <1>8 DEF LocalOnly
      <4>2. Untaken(d, q)' /\ LocalOnly(d, q)'
        BY <3>2, <1>2, <1>4, <2>2, <4>1 DEF Untaken, LocalOnly
      <4>3. Recorded(d, q)' /\ Confirmed(d, q)'
        BY <3>2, <1>3, <1>6, <2>1 DEF Recorded, Confirmed
      <4>. QED  BY <4>2, <4>3
    <3>3. CASE ~(d = c /\ q = p)
      <4>1. /\ (<<d, q>> \in applied' <=> <<d, q>> \in applied)
            /\ (q \in ledger'[d] <=> q \in ledger[d]) /\ consume'[d][q] = consume[d][q]
        BY <1>2, <2>1, <3>3
      <4>. QED  BY <1>2, <1>5, <1>6, <2>1, <2>2, <3>1, <4>1 DEF Untaken, LocalOnly, Recorded,
           Confirmed
    <3>. QED  BY <3>2, <3>3
  <2>. QED  BY <1>1, <1>7, <2>2, <2>3 DEF OnceInv
<1>9. CASE ~slot[c].durable /\ queue' = [queue EXCEPT ![c] = Tail(@)]
           /\ UNCHANGED <<ledger, consuming, consume, latest, list>>
  <2>1. queue[c] \in Seq(Prompts) /\ queue[c] # <<>> /\ p = Head(queue[c]) /\ NoRepeats(c)
    BY <1>3, <1>9 DEF OnceInv, KeptInv, HandOffTypeOK
  <2>2. /\ Entries(queue[c]) = Entries(Tail(queue[c])) \cup {p}
        /\ p \notin Entries(Tail(queue[c]))
        /\ \A i, j \in DOMAIN Tail(queue[c]) : Tail(queue[c])[i] = Tail(queue[c])[j] => i = j
    BY <2>1, EntriesOfTail, HeadIsGone DEF NoRepeats
  <2>3. \A d \in Clients : Queued(d) = Entries(queue[d]) /\ Queued(d)' = Entries(queue'[d])
    BY DEF Queued, Entries
  <2>4. \A d \in Clients : queue'[d] = IF d = c THEN Tail(queue[c]) ELSE queue[d]
    BY <1>9 DEF OnceInv, KeptInv, HandOffTypeOK
  <2>5. \A d \in Clients : NoRepeats(d)'
    BY <2>2, <2>4 DEF OnceInv, NoRepeats
  <2>6. /\ p \in Queued(c) /\ p \notin Queued(c)'
        /\ \A d \in Clients : Queued(d)' \subseteq Queued(d)
    BY <2>2, <2>3, <2>4
  <2>7. ASSUME NEW d \in Clients, NEW q \in Prompts
        PROVE Untaken(d, q)' /\ LocalOnly(d, q)' /\ Recorded(d, q)' /\ Confirmed(d, q)'
    <3>1. Untaken(d, q) /\ LocalOnly(d, q) /\ Recorded(d, q) /\ Confirmed(d, q)
      BY DEF OnceInv
    <3>2. CASE d = c /\ q = p
      <4>1. p \notin rows \cup list[c] \cup listing[c].rows /\ <<c, p>> \notin answers
        BY <1>3, <2>6 DEF LocalOnly
      <4>2. Untaken(d, q)' /\ LocalOnly(d, q)'
        BY <3>2, <1>2, <1>4, <2>6, <4>1 DEF Untaken, LocalOnly
      <4>3. Recorded(d, q)' /\ Confirmed(d, q)'
        BY <3>2, <1>2, <1>6, <1>9, <4>1 DEF Recorded, Confirmed
      <4>. QED  BY <4>2, <4>3
    <3>3. CASE ~(d = c /\ q = p)
      <4>1. <<d, q>> \in applied' <=> <<d, q>> \in applied
        BY <1>2, <3>3
      <4>. QED  BY <1>2, <1>5, <1>6, <1>9, <2>6, <3>1, <4>1 DEF Untaken, LocalOnly, Recorded,
           Confirmed
    <3>. QED  BY <3>2, <3>3
  <2>. QED  BY <1>1, <1>7, <2>5, <2>7 DEF OnceInv
<1>. QED  BY <1>8, <1>9 DEF Apply, p

LEMMA OnceStep == OnceInv /\ [RestoreNext]_restoreVars => OnceInv'
<1> SUFFICES ASSUME OnceInv, [RestoreNext]_restoreVars PROVE OnceInv'
  OBVIOUS
<1>1. ASSUME NEW p \in Prompts, ServerStep(p) PROVE OnceInv'
  BY <1>1, OnceServerStep
<1>2. ASSUME NEW c \in Clients, ClientStep(c) PROVE OnceInv'
  BY <1>2, OnceClientFrame, OnceOffer, OnceApply, OnceCloseApp DEF ClientStep
<1>3. ASSUME NEW c \in Clients, NEW p \in Prompts,
             \/ CancelTurn(c, p) \/ EnqueueLocalRestore(c, p) \/ LoseAnswer(c, p)
             \/ Reconcile(c, p) \/ ServeConsume(c, p) \/ ConsumeSettles(c, p)
      PROVE OnceInv'
  BY <1>3, OnceCancel, OnceAnswer, OnceReconcile, OnceServeConsume, OnceConsumeSettles
<1>4. CASE UNCHANGED restoreVars
  <2>1. KeptInv'
    BY <1>4, KeptStep DEF OnceInv
  <2>. QED  BY <1>4, <2>1 DEF restoreVars, serverSide, clientSide, histories, OnceInv, NoRepeats,
       Untaken, LocalOnly, Recorded, Confirmed, Queued, AppliedOnce
<1>. QED  BY <1>1, <1>2, <1>3, <1>4 DEF RestoreNext

(* useChatDraftRestore: no client applies a prompt twice, although consumes are lost and
   apps are closed, unless a fetch that read the row before its consume is in the list
   after the ledger has forgotten it *)
THEOREM HandOffIsAtMostOnce == RestoreSpec => []AppliedOnce
<1>1. OnceInv => AppliedOnce
  BY DEF OnceInv
<1>. QED  BY OnceInitially, OnceStep, <1>1, PTL DEF RestoreSpec
=============================================================================
