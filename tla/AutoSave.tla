------------------------------ MODULE AutoSave ------------------------------
(***************************************************************************)
(* useAutoSave: a settings form that saves itself.  An edit is saved once  *)
(* the debounce timer fires or the field loses the focus, one request at a *)
(* time, the newest value handed over meanwhile after it.  The form is     *)
(* compared with what the hook believes to be persisted.                   *)
(***************************************************************************)
CONSTANTS Values, NoValue

ASSUME AutoSaveAssumption == NoValue \notin Values

VARIABLES
  form,       \* value, the current state of the form
  enabled,    \* the form is valid and the user may save it
  mounted,
  timer,      \* the debounce timer is set
  saving,     \* the value of the request in flight
  reply,      \* what became of that request: "none", "sent", "ok" or "failed"
  queued,     \* queuedRef
  persisted,  \* persistedRef
  observed,   \* observedSavedRef, the savedValue of the last render
  saveStatus, \* status
  stored,     \* what the server has
  refetch,    \* the answer of a refetch of savedValue that has not landed yet
  asked,      \* history: the newest value runSave took on, unless it failed
  misjudged   \* history: the last comparison took an unsaved value for a saved one

formVars == <<form, enabled, mounted>>
cacheOfSaved == <<observed, stored, refetch>>
saveVars == <<form, enabled, mounted, timer, saving, reply, queued, persisted, observed,
              saveStatus, stored, refetch, asked, misjudged>>

Replies == {"none", "sent", "ok", "failed"}
SaveStatuses == {"idle", "saving", "saved", "error"}

SaveTypeOK ==
  /\ {form, persisted, observed, stored} \subseteq Values
  /\ {saving, queued, refetch, asked} \subseteq Values \cup {NoValue}
  /\ {enabled, mounted, timer, misjudged} \subseteq BOOLEAN
  /\ reply \in Replies /\ saveStatus \in SaveStatuses

SaveInit ==
  /\ form \in Values /\ persisted = form /\ observed = form /\ stored = form
  /\ enabled \in BOOLEAN /\ mounted = TRUE /\ timer = FALSE
  /\ saving = NoValue /\ reply = "none" /\ queued = NoValue
  /\ saveStatus = "idle"
  /\ refetch = NoValue /\ asked = NoValue /\ misjudged = FALSE

SetStatus(s) == saveStatus' = IF mounted THEN s ELSE saveStatus
(* what the server has, or will have when the requests under way succeed *)
Destined == IF queued # NoValue THEN queued ELSE IF saving # NoValue THEN saving ELSE stored

-----------------------------------------------------------------------------
(* runSave, up to its await *)

Send(v) == saving' = v /\ reply' = "sent" /\ SetStatus("saving")

Keep_First(v) == queued' = IF queued = NoValue THEN v ELSE queued  \* mutant: a queued value stays
Keep(v) == queued' = v

RunSave(v) ==
  \/ /\ ~enabled \/ v = persisted
     /\ misjudged' = (enabled /\ Destined # v)
     /\ UNCHANGED <<saving, reply, queued, saveStatus, asked>>
  \/ /\ enabled /\ v # persisted /\ saving # NoValue
     /\ Keep(v) /\ asked' = v /\ misjudged' = FALSE
     /\ UNCHANGED <<saving, reply, saveStatus>>
  \/ /\ enabled /\ v # persisted /\ saving = NoValue
     /\ Send(v) /\ asked' = v /\ misjudged' = FALSE
     /\ UNCHANGED queued

-----------------------------------------------------------------------------
(* The form *)

(* a render with another value, or with another enabled, and the effect it runs *)
Render(v, e) ==
  /\ mounted /\ <<v, e>> # <<form, enabled>>
  /\ form' = v /\ enabled' = e
  /\ timer' = (e /\ v # persisted)
  /\ saveStatus' = CASE ~e -> "idle"
                     [] e /\ v # persisted -> "saving"
                     [] OTHER -> saveStatus
  /\ misjudged' = (e /\ v = persisted /\ Destined # v)
  /\ UNCHANGED <<mounted, saving, reply, queued, persisted, cacheOfSaved, asked>>

TimerFires ==
  /\ timer /\ timer' = FALSE
  /\ RunSave(form)
  /\ UNCHANGED <<formVars, persisted, cacheOfSaved>>

(* saveNow(latest value): a field loses the focus *)
Flush ==
  /\ mounted /\ timer' = FALSE
  /\ RunSave(form)
  /\ UNCHANGED <<formVars, persisted, cacheOfSaved>>

(* a render with another savedValue; the effect does not depend on it *)
RefetchLands ==
  /\ mounted /\ refetch # NoValue
  /\ refetch' = NoValue
  /\ observed' = refetch
  /\ persisted' = IF refetch # observed THEN refetch ELSE persisted
  /\ UNCHANGED <<formVars, timer, saving, reply, queued, saveStatus, stored, asked, misjudged>>

Unmount ==
  /\ mounted /\ mounted' = FALSE
  /\ timer' = FALSE
  /\ UNCHANGED <<form, enabled, saving, reply, queued, persisted, saveStatus, cacheOfSaved,
                 asked, misjudged>>

-----------------------------------------------------------------------------
(* The server *)

RefetchReads ==
  /\ mounted /\ refetch = NoValue /\ refetch' = stored
  /\ UNCHANGED <<formVars, timer, saving, reply, queued, persisted, observed, saveStatus,
                 stored, asked, misjudged>>

(* committed or refused; the answer to a commit may be lost *)
ServeSave ==
  /\ reply = "sent"
  /\ \/ stored' = saving /\ reply' \in {"ok", "failed"}
     \/ reply' = "failed" /\ UNCHANGED stored
  /\ UNCHANGED <<formVars, timer, saving, queued, persisted, observed, saveStatus, refetch,
                 asked, misjudged>>

-----------------------------------------------------------------------------
(* runSave, after its await *)

(* the queued value is handed to runSave again, which drops it while the form is not
   to be saved *)
SendQueued(believed, s) ==
  /\ queued \notin {NoValue, believed}
  /\ queued' = NoValue
  /\ \/ enabled /\ Send(queued) /\ UNCHANGED asked
     \/ ~enabled /\ asked' = NoValue /\ saving' = NoValue /\ reply' = "none" /\ SetStatus(s)

SaveSucceeds_QueueForgotten ==  \* mutant: the queue is emptied without a look
  /\ reply = "ok" /\ persisted' = saving /\ observed' \in {observed, saving}
  /\ queued' = NoValue /\ saving' = NoValue /\ reply' = "none" /\ SetStatus("saved")
  /\ UNCHANGED <<formVars, timer, stored, refetch, asked, misjudged>>
(* the callers put the answer into the cache that savedValue is read from *)
SaveSucceeds ==
  /\ reply = "ok"
  /\ persisted' = saving /\ observed' \in {observed, saving}
  /\ \/ SendQueued(saving, saveStatus)
     \/ /\ queued \in {NoValue, saving}
        /\ queued' = NoValue /\ saving' = NoValue /\ reply' = "none" /\ SetStatus("saved")
        /\ UNCHANGED asked
  /\ UNCHANGED <<formVars, timer, stored, refetch, misjudged>>

SaveFails ==
  /\ reply = "failed"
  /\ \/ SendQueued(persisted, "error")
     \/ /\ queued \in {NoValue, persisted}
        /\ queued' = NoValue /\ saving' = NoValue /\ reply' = "none" /\ SetStatus("error")
        /\ asked' = NoValue
  /\ UNCHANGED <<formVars, timer, persisted, cacheOfSaved, misjudged>>

SaveNext ==
  \/ \E v \in Values, e \in BOOLEAN : Render(v, e)
  \/ TimerFires \/ Flush \/ RefetchLands \/ Unmount
  \/ RefetchReads \/ ServeSave
  \/ SaveSucceeds \/ SaveFails

SaveSpec == SaveInit /\ [][SaveNext]_saveVars

-----------------------------------------------------------------------------
(* Properties *)

(* Whatever was typed, flushed or refetched while requests were under way, the server
   ends with the newest value the hook took on: a slower response never overwrites
   a newer request, and no queued value is lost, not even by an unmount *)
NewestAskedLands == saving = NoValue /\ asked # NoValue => stored = asked

AtRest == mounted /\ enabled /\ ~timer /\ saving = NoValue
(* A form at rest shows what the server has or an error, unless its last comparison
   was made with a persisted value that the requests under way, or a refetch that
   read before them, have made wrong *)
RestIsSaved == AtRest /\ ~misjudged => form = stored \/ saveStatus = "error"
=============================================================================
