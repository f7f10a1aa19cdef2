---------------------------- MODULE MCServerParts ----------------------------
(* Three instances of components of the server that share no state, each explored by
   itself: the lease instance of CronScheduler, the turns of one chat session in
   TaskQueue with a retry between them, and the prompts of one session in PromptRestore,
   from the cancellation of their turns to the composer.  A behaviour is one of the
   part it has chosen, the other parts stay as they are initially. *)
EXTENDS MCCronScheduler, PromptRestore

CONSTANTS p1, p2

VARIABLES part, task, home, lock, req, exec, up, online, marked, batch, routing

turnVars == <<task, home, lock, req, exec, up, online, marked, batch, routing>>

(* two messages of a session, one slot, the retry budget of a provider network error *)
Turns == INSTANCE TaskQueue WITH
  Agents <- {"agent"}, Runtimes <- {"runtime"}, Keys <- {"session"},
  AgentOf <- [k \in {"session"} |-> "agent"],
  KindOf <- [k \in {"session"} |-> "chat"],
  PriOf <- [k \in {"session"} |-> 2],
  CommentKeys <- {},
  FallbackOf <- [k \in {"session"} |-> None],
  MaxConcurrent <- [a \in {"agent"} |-> 1],
  HomeOf <- [a \in {"agent"} |-> "runtime"],
  Requests <- {"request"}, Slots <- {"slot"}, SlotRt <- [s \in {"slot"} |-> "runtime"],
  MaxAttempts <- 2, NetMax <- 3, MaxRoots <- 2,
  Reasons <- {"network", "agent_error"},
  Faults <- {"lost", "finalize", "giveup", "ttl", "cancel"}

(* the choices of the parts that are not explored; of the prompts, one is left in the
   table by an earlier cancellation *)
JobAtRest == job = CHOOSE j \in Jobs : TRUE
PromptsAtRest == rows = {p2} /\ visible = [c \in Clients |-> FALSE]

ServerInit ==
  /\ part \in {"lease", "turns", "prompts"}
  /\ Init /\ Turns!Init /\ RestoreInit
  /\ PromptsAtRest
  /\ part # "lease" => JobAtRest

ServerNext ==
  \/ part = "lease" /\ Next /\ UNCHANGED <<part, turnVars, restoreVars>>
  \/ part = "turns" /\ Turns!Next /\ UNCHANGED <<part, vars, restoreVars>>
  \/ part = "prompts" /\ RestoreNext /\ UNCHANGED <<part, vars, turnVars>>

ServerSpec == ServerInit /\ [][ServerNext]_<<part, vars, turnVars, restoreVars>>

(* An immediate chat retry that FailTask created waits at the head of its session: no
   message sent after the failed turn is claimed before it, whatever is lost between
   the claim, the report of the failure and the answer *)
RetryNotOvertaken == Turns!RetryNotOvertaken
=============================================================================
