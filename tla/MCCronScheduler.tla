-------------------------- MODULE MCCronScheduler --------------------------
(* Instances of CronScheduler for TLC. *)
EXTENDS CronScheduler
Job(mode, reentry, backoff, stored) ==
  [mode |-> mode, reentry |-> reentry, attempts |-> 2, backoff |-> backoff,
   stored |-> stored]
(* lease: two planners on a scope with a history, one of the jobs not reentrant *)
LeaseJobs == {Job("hook", TRUE, <<1>>, {0}), Job("every_plan", FALSE, <<>>, {0})}
(* live: each planner, the hook of the autopilot job on a new scope *)
LiveJobs == {Job("latest_only", TRUE, <<1>>, {0}), Job("hook", TRUE, <<1>>, {}),
             Job("every_plan", FALSE, <<>>, {0})}
(* reentry: the autopilot job on a new scope *)
AutopilotJob == {Job("hook", TRUE, <<1>>, {})}
=============================================================================
