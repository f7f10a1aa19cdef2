---------------------------- MODULE PromptRestore ----------------------------
(***************************************************************************)
(* What becomes of the prompt of a cancelled chat turn: the verdict of the *)
(* server, at once or deferred until the daemon has flushed what its agent *)
(* said, the durable restore row, and its hand-off to the composer of one  *)
(* of the user's clients (useChatDraftRestore).  One chat session.         *)
(***************************************************************************)
EXTENDS FiniteSets, Sequences

CONSTANTS Prompts, Clients, NoPrompt,
          Own       \* a draft the user has typed

ASSUME RestoreAssumption == {NoPrompt, Own} \cap Prompts = {} /\ NoPrompt # Own

VARIABLES
  turn,      \* the task of a prompt; "deferred": chat_finalize_deferred_at is set
  inChat,    \* prompts whose message is in the transcript
  said,      \* prompts whose task has messages on the server
  working,   \* prompts a daemon works on, until it acknowledges the cancel
  tail,      \* what the agent said and the server has not stored yet
  rows,      \* chat_draft_restore
  answers,   \* answers to a cancel that bring the prompt back to a client
  visible,   \* enabled: the composer is on screen
  list,      \* the cached list of restores of a client
  listing,     \* its refetch of the list
  slot,      \* restoreDraftRequest: the prompt offered and whether it has a row
  draft,     \* the persisted draft: a prompt, Own or NoPrompt
  ledger,    \* appliedDraftRestoreIds, persisted
  queue,     \* pendingSendRestores, persisted
  consuming, \* reconcilingRef
  consume,   \* consume requests: "none", "sent", "ok" or "failed"
  latest,    \* the last mutate call, the only one whose callbacks run
  handled,   \* history: prompts that came back and the user sent or cleared
  lost,      \* history: prompts that a lost answer took along
  applied,   \* history: client and prompt
  again,     \* history: applied more than once by one client
  crossed,   \* history: a fetch that read the row before its consume landed after it
  late       \* history: settled while the daemon still worked or a post was under way

serverSide == <<turn, inChat, said, working, tail, rows>>
clientSide == <<visible, list, listing, slot, draft, ledger, queue, consuming, consume, latest>>
histories == <<handled, lost, applied, again, crossed, late>>
restoreVars == <<serverSide, answers, clientSide, histories>>

NoSlot == [p |-> NoPrompt, durable |-> FALSE]
NoRequest == [pc |-> "none", rows |-> {}]

(* earlier turns may have left rows *)
RestoreInit ==
  /\ rows \in SUBSET Prompts
  /\ turn = [p \in Prompts |-> IF p \in rows THEN "settled" ELSE "unsent"]
  /\ inChat = {} /\ said = {} /\ working = {} /\ answers = {}
  /\ tail = [p \in Prompts |-> "none"]
  /\ visible \in [Clients -> BOOLEAN]
  /\ list = [c \in Clients |-> {}]
  /\ listing = [c \in Clients |-> NoRequest]
  /\ slot = [c \in Clients |-> NoSlot]
  /\ draft = [c \in Clients |-> NoPrompt]
  /\ ledger = [c \in Clients |-> {}]
  /\ queue = [c \in Clients |-> <<>>]
  /\ consuming = [c \in Clients |-> {}]
  /\ consume = [c \in Clients |-> [p \in Prompts |-> "none"]]
  /\ latest = [c \in Clients |-> NoPrompt]
  /\ handled = {} /\ lost = {} /\ applied = {} /\ again = {} /\ crossed = {} /\ late = {}

Turn(p, from, to) == turn[p] \in from /\ turn' = [turn EXCEPT ![p] = to]
TailMoves(p, from, to) == tail[p] \in from /\ tail' = [tail EXCEPT ![p] = to]

-----------------------------------------------------------------------------
(* The turn and its daemon *)

SendPrompt(p) ==
  /\ Turn(p, {"unsent"}, "queued") /\ inChat' = inChat \cup {p}
  /\ UNCHANGED <<said, working, tail, rows, answers, clientSide, histories>>

StartTurn(p) ==
  /\ Turn(p, {"queued"}, "running") /\ working' = working \cup {p}
  /\ UNCHANGED <<inChat, said, tail, rows, answers, clientSide, histories>>

CompleteTurn(p) ==
  /\ p \in working /\ tail[p] \in {"none", "stray"} /\ Turn(p, {"running"}, "settled")
  /\ working' = working \ {p}
  /\ UNCHANGED <<inChat, said, tail, rows, answers, clientSide, histories>>

(* the agent says something, and a flush posts it *)
AgentSpeaks(p) ==
  /\ p \in working /\ TailMoves(p, {"none"}, "held")
  /\ UNCHANGED <<turn, inChat, said, working, rows, answers, clientSide, histories>>
PostMessages(p) ==
  /\ TailMoves(p, {"held"}, "posted")
  /\ UNCHANGED <<turn, inChat, said, working, rows, answers, clientSide, histories>>
StoreMessages(p) ==
  /\ TailMoves(p, {"posted", "stray"}, "none") /\ said' = said \cup {p}
  /\ UNCHANGED <<turn, inChat, working, rows, answers, clientSide, histories>>
(* a failed post is dropped; one that timed out may be stored after all *)
PostFails(p) ==
  /\ \/ TailMoves(p, {"posted", "stray"}, "none") /\ UNCHANGED late
     \/ TailMoves(p, {"posted"}, "stray") /\ late' = late \cup {p}
  /\ UNCHANGED <<turn, inChat, said, working, rows, answers, clientSide, handled, lost, applied,
                 again, crossed>>

DaemonDies(p) ==
  /\ p \in working /\ working' = working \ {p}
  /\ tail' = [tail EXCEPT ![p] = IF tail[p] = "held" THEN "none" ELSE tail[p]]
  /\ late' = IF tail[p] = "posted" THEN late \cup {p} ELSE late
  /\ UNCHANGED <<turn, inChat, said, rows, answers, clientSide, handled, lost, applied, again,
                 crossed>>

-----------------------------------------------------------------------------
(* The cancel of the turn *)

(* finalizeCancelledChatMessage; when its transaction fails the prompt stays where it is *)
CancelTurn(c, p) ==
  /\ \/ /\ Turn(p, {"queued"}, "settled")
        /\ inChat' = inChat \ {p} /\ answers' = answers \cup {<<c, p>>}
     \/ p \notin said /\ Turn(p, {"running"}, "deferred") /\ UNCHANGED <<inChat, answers>>
     \/ Turn(p, {"queued", "running"}, "settled") /\ UNCHANGED <<inChat, answers>>
  /\ UNCHANGED <<said, working, tail, rows, clientSide, histories>>

(* FinalizeDeferredCancelledChat *)
Settle(p) ==
  IF turn[p] # "deferred" THEN UNCHANGED <<turn, inChat, rows>>
  ELSE /\ turn' = [turn EXCEPT ![p] = "settled"]
       /\ IF p \in said THEN UNCHANGED <<inChat, rows>>
          ELSE inChat' = inChat \ {p} /\ rows' = rows \cup {p}

(* the daemon has seen the cancel; its ack may be lost *)
AckTaskCancelled_Undrained(p) ==  \* mutant: the daemon does not wait for its last flush
  /\ p \in working /\ turn[p] \in {"deferred", "settled"}
  /\ working' = working \ {p}
  /\ Settle(p) \/ UNCHANGED <<turn, inChat, rows>>
  /\ UNCHANGED <<said, tail, answers, clientSide, histories>>
AckTaskCancelled(p) ==
  /\ p \in working /\ turn[p] \in {"deferred", "settled"} /\ tail[p] \in {"none", "stray"}
  /\ working' = working \ {p}
  /\ Settle(p) \/ UNCHANGED <<turn, inChat, rows>>
  /\ UNCHANGED <<said, tail, answers, clientSide, histories>>

(* sweepDeferredChatFinalizations, once the grace period is over *)
SweepDeferred(p) ==
  /\ turn[p] = "deferred" /\ Settle(p)
  /\ late' = IF p \in working THEN late \cup {p} ELSE late
  /\ UNCHANGED <<said, working, tail, answers, clientSide, handled, lost, applied, again, crossed>>

-----------------------------------------------------------------------------
(* A client *)

(* the answer to a cancel goes into the queue of the session, or is lost *)
EnqueueLocalRestore(c, p) ==
  /\ <<c, p>> \in answers /\ answers' = answers \ {<<c, p>>}
  /\ queue' = [queue EXCEPT ![c] = Append(@, p)]
  /\ UNCHANGED <<serverSide, visible, list, listing, slot, draft, ledger, consuming, consume,
                 latest, histories>>
LoseAnswer(c, p) ==
  /\ <<c, p>> \in answers /\ answers' = answers \ {<<c, p>>} /\ lost' = lost \cup {p}
  /\ UNCHANGED <<serverSide, clientSide, handled, applied, again, crossed, late>>

Appear(c) ==
  /\ ~visible[c] /\ visible' = [visible EXCEPT ![c] = TRUE]
  /\ UNCHANGED <<serverSide, answers, list, listing, slot, draft, ledger, queue, consuming,
                 consume, latest, histories>>
(* the composer goes off screen and releases its slot *)
Vanish(c) ==
  /\ visible[c] /\ visible' = [visible EXCEPT ![c] = FALSE]
  /\ slot' = [slot EXCEPT ![c] = NoSlot]
  /\ UNCHANGED <<serverSide, answers, list, listing, draft, ledger, queue, consuming, consume,
                 latest, histories>>

ListDraftRestores(c) ==
  /\ visible[c] /\ listing[c] = NoRequest
  /\ listing' = [listing EXCEPT ![c] = [pc |-> "read", rows |-> rows]]
  /\ UNCHANGED <<serverSide, answers, visible, list, slot, draft, ledger, queue, consuming,
                 consume, latest, histories>>
RestoresLand(c) ==
  /\ listing[c].pc = "read"
  /\ list' = [list EXCEPT ![c] = listing[c].rows]
  /\ listing' = [listing EXCEPT ![c] = NoRequest]
  /\ crossed' = crossed \cup {<<c, p>> : p \in listing[c].rows \ (rows \cup ledger[c])}
  /\ UNCHANGED <<serverSide, answers, visible, slot, draft, ledger, queue, consuming, consume,
                 latest, handled, lost, applied, again, late>>

(* the mutation, up to its request *)
Consume(c, p) ==
  /\ consuming' = [consuming EXCEPT ![c] = @ \cup {p}]
  /\ consume' = [consume EXCEPT ![c][p] = "sent"]
  /\ latest' = [latest EXCEPT ![c] = p]
  /\ list' = [list EXCEPT ![c] = @ \ {p}]

(* a row that outlived its ledger entry is consumed again *)
Reconcile(c, p) ==
  /\ visible[c] /\ p \in list[c] \cap ledger[c] /\ p \notin consuming[c]
  /\ Consume(c, p)
  /\ UNCHANGED <<serverSide, answers, visible, listing, slot, draft, ledger, queue, histories>>

Offer(c) ==
  /\ visible[c] /\ slot[c] = NoSlot
  /\ \/ /\ queue[c] # <<>>
        /\ slot' = [slot EXCEPT ![c] = [p |-> Head(queue[c]), durable |-> FALSE]]
     \/ /\ queue[c] = <<>>
        /\ \E p \in list[c] \ ledger[c] :
             slot' = [slot EXCEPT ![c] = [p |-> p, durable |-> TRUE]]
  /\ UNCHANGED <<serverSide, answers, visible, list, listing, draft, ledger, queue, consuming,
                 consume, latest, histories>>

(* the restore effect of ChatInput and handleRestoreDraftApplied *)
MarkApplied_Unrecorded(c, p) == UNCHANGED ledger  \* mutant: the consume is thought to be enough
MarkApplied(c, p) == ledger' = [ledger EXCEPT ![c] = @ \cup {p}]
TakesOver_AnyDraft(c) == slot[c] # NoSlot  \* mutant: the draft is not looked at
TakesOver(c) == slot[c] # NoSlot /\ draft[c] = NoPrompt
Apply(c) ==
  LET p == slot[c].p IN
  /\ TakesOver(c)
  /\ draft' = [draft EXCEPT ![c] = p]
  /\ slot' = [slot EXCEPT ![c] = NoSlot]
  /\ \/ slot[c].durable /\ MarkApplied(c, p) /\ Consume(c, p) /\ UNCHANGED queue
     \/ ~slot[c].durable /\ queue' = [queue EXCEPT ![c] = Tail(@)]
        /\ UNCHANGED <<ledger, consuming, consume, latest, list>>
  /\ applied' = applied \cup {<<c, p>>}
  /\ again' = IF <<c, p>> \in applied THEN again \cup {<<c, p>>} ELSE again
  /\ UNCHANGED <<serverSide, answers, visible, listing, handled, lost, crossed, late>>

(* the user types a draft, and sends or clears it *)
Type(c) ==
  /\ visible[c] /\ draft[c] = NoPrompt /\ draft' = [draft EXCEPT ![c] = Own]
  /\ UNCHANGED <<serverSide, answers, visible, list, listing, slot, ledger, queue, consuming,
                 consume, latest, histories>>
EndDraft(c) ==
  /\ visible[c] /\ draft[c] # NoPrompt /\ draft' = [draft EXCEPT ![c] = NoPrompt]
  /\ handled' = handled \cup ({draft[c]} \ {Own})
  /\ UNCHANGED <<serverSide, answers, visible, list, listing, slot, ledger, queue, consuming,
                 consume, latest, lost, applied, again, crossed, late>>

(* ConsumeChatDraftRestore and the retries of the mutation *)
ServeConsume(c, p) ==
  /\ consume[c][p] = "sent"
  /\ \/ rows' = rows \ {p} /\ consume' \in {[consume EXCEPT ![c][p] = r] : r \in {"ok", "failed"}}
     \/ consume' = [consume EXCEPT ![c][p] = "failed"] /\ UNCHANGED rows
  /\ UNCHANGED <<turn, inChat, said, working, tail, answers, visible, list, listing, slot, draft,
                 ledger, queue, consuming, latest, histories>>
(* onSuccess and onSettled of mutate, which run for the latest call only *)
ConsumeSettles(c, p) ==
  /\ consume[c][p] \in {"ok", "failed"}
  /\ consume' = [consume EXCEPT ![c][p] = "none"]
  /\ \/ latest[c] # p /\ UNCHANGED <<ledger, consuming, crossed>>
     \/ /\ latest[c] = p /\ consuming' = [consuming EXCEPT ![c] = @ \ {p}]
        /\ \/ consume[c][p] = "failed" /\ UNCHANGED <<ledger, crossed>>
           \/ /\ consume[c][p] = "ok" /\ ledger' = [ledger EXCEPT ![c] = @ \ {p}]
              /\ crossed' = crossed \cup {<<c, q>> : q \in {p} \cap list[c]}
  /\ UNCHANGED <<serverSide, answers, visible, list, listing, slot, draft, queue, latest, handled,
                 lost, applied, again, late>>

(* the app is closed: what is persisted stays, a request under way may still arrive *)
CloseApp(c) ==
  /\ visible' = [visible EXCEPT ![c] = FALSE]
  /\ list' = [list EXCEPT ![c] = {}]
  /\ listing' = [listing EXCEPT ![c] = NoRequest]
  /\ slot' = [slot EXCEPT ![c] = NoSlot]
  /\ consuming' = [consuming EXCEPT ![c] = {}]
  /\ consume' = [consume EXCEPT ![c] = [p \in Prompts |-> "none"]]
  /\ latest' = [latest EXCEPT ![c] = NoPrompt]
  /\ \E S \in SUBSET {p \in Prompts : consume[c][p] = "sent"} : rows' = rows \ S
  /\ answers' = {a \in answers : a[1] # c}
  /\ lost' = lost \cup {p \in Prompts : <<c, p>> \in answers}
  /\ UNCHANGED <<turn, inChat, said, working, tail, draft, ledger, queue, handled, applied,
                 again, crossed, late>>

ServerStep(p) ==
  \/ SendPrompt(p) \/ StartTurn(p) \/ CompleteTurn(p)
  \/ AgentSpeaks(p) \/ PostMessages(p) \/ StoreMessages(p) \/ PostFails(p) \/ DaemonDies(p)
  \/ AckTaskCancelled(p) \/ SweepDeferred(p)
ClientStep(c) ==
  \/ Appear(c) \/ Vanish(c) \/ ListDraftRestores(c) \/ RestoresLand(c) \/ Offer(c) \/ Apply(c)
  \/ Type(c) \/ EndDraft(c) \/ CloseApp(c)
RestoreNext ==
  \/ \E p \in Prompts : ServerStep(p)
  \/ \E c \in Clients : ClientStep(c)
  \/ \E c \in Clients, p \in Prompts :
       CancelTurn(c, p) \/ EnqueueLocalRestore(c, p) \/ LoseAnswer(c, p)
       \/ Reconcile(c, p) \/ ServeConsume(c, p) \/ ConsumeSettles(c, p)

RestoreSpec == RestoreInit /\ [][RestoreNext]_restoreVars

-----------------------------------------------------------------------------
(* Properties *)

Queued(c) == {queue[c][k] : k \in DOMAIN queue[c]}
Held(p) ==
  \/ p \in inChat \cup rows \cup handled
  \/ \E c \in Clients : <<c, p>> \in answers \/ p \in Queued(c) \/ draft[c] = p

(* The hand-off is lossless: a prompt that was sent is in the transcript, in a restore
   row, in a persisted queue or draft, or back in the hands of the user, whichever
   client closes, hides or loses requests; only a synchronous cancel whose answer is
   lost takes its prompt along *)
PromptIsKept == \A p \in Prompts : turn[p] # "unsent" /\ p \notin lost => Held(p)

(* and at most once: no client applies a prompt twice, although consumes are lost and
   the app is closed, unless a fetch that read the row before its consume is in the list
   after the ledger has forgotten it *)
AppliedOnce == again \subseteq crossed

(* A prompt that is taken back was not answered: the server has no message of its
   agent, unless it gave up on a daemon that still worked or a post outlived its timeout *)
TakenBackIsUnanswered ==
  \A p \in Prompts : turn[p] # "unsent" /\ p \notin inChat \cup late => p \notin said
=============================================================================
