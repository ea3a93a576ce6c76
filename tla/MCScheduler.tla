---------------------------- MODULE MCScheduler ----------------------------
(* A model-checking instance of Scheduler: two expressions and when they fire. *)
EXTENDS Scheduler

CONSTANTS hourly, nightly

Fires == [e \in {hourly, nightly} |-> IF e = hourly THEN {1, 2, 3, 4} ELSE {3}]

SomeForms == {[cron |-> hourly, enabled |-> TRUE], [cron |-> nightly, enabled |-> TRUE],
              [cron |-> nightly, enabled |-> FALSE]}

MCNextFiring(e, t) ==
  LET later == { f \in Fires[e] : f > t }
  IN IF later = {} THEN 0 ELSE CHOOSE f \in later : \A g \in later : f <= g
=============================================================================
