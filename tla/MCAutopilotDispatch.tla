------------------------ MODULE MCAutopilotDispatch ------------------------
(* One occurrence of either source in either mode, with the whole chain of retries of an
   issue's task.  The one worker also stands for the next one after a crash; what holds
   for several that overlap is proved in AutopilotDispatchProofs. *)
EXTENDS AutopilotDispatch
=============================================================================
