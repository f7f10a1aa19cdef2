----------------------------- MODULE MCClients -----------------------------
(* Instances of components that share no state, each explored by itself: the tasks of a
   routed comment and its fallback in TaskQueue, the delivery of comments to the runs of an
   agent, and two components of the clients.  A behaviour is one of the part it has
   chosen, the other parts stay as they are initially. *)
EXTENDS MCTaskQueue, IssueCache, AutoSave, CommentDelivery

VARIABLE part

(* the tab is opened on a server with two issues in one column, of which a window is
   loaded, and a third in the other column or none; the detail of issue 3 is open *)
SomeStarts == {<<1, 1, 2>>, <<1, Gone, 1>>}

(* the requests of CommentDelivery are alike, and no other part has any *)
WorkersAlike == Permutations(Workers)

AllInit == Init /\ CacheInit /\ SaveInit /\ DeliveryInit

(* the choices of the parts that are not explored *)
BoardAtRest == server = CHOOSE s \in Starts : TRUE
FormAtRest == enabled /\ form = CHOOSE v \in Values : TRUE

ClientsInit ==
  /\ part \in {"routed", "board", "settings", "comments"}
  /\ AllInit
  /\ part # "board" => BoardAtRest
  /\ part # "settings" => FormAtRest

ClientsNext ==
  \/ part = "routed" /\ Next /\ UNCHANGED <<part, cacheVars, saveVars, deliveryVars>>
  \/ part = "board" /\ CacheNext /\ UNCHANGED <<part, vars, saveVars, deliveryVars>>
  \/ part = "settings" /\ SaveNext /\ UNCHANGED <<part, vars, cacheVars, deliveryVars>>
  \/ part = "comments" /\ DeliveryNext /\ UNCHANGED <<part, vars, cacheVars, saveVars>>

ClientsSpec ==
  ClientsInit /\ [][ClientsNext]_<<part, vars, cacheVars, saveVars, deliveryVars>>
=============================================================================
