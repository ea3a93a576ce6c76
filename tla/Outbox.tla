------------------------------- MODULE Outbox -------------------------------
(***************************************************************************)
(* What the notifier promises about the end of a run, without lanes,       *)
(* workers, retries or locks: a run is announced once, every webhook is    *)
(* owed that announcement or told at once that it gets none, and what is   *)
(* owed is accepted or dropped, and what was accepted is told or given up, *)
(* each exactly once and each on the record.  Notifier implements it.      *)
(***************************************************************************)
CONSTANTS Hooks, Runs

VARIABLES
  announced,  \* the runs whose end was announced
  owed,       \* the announcements a call of Notify still has to place
  queued,     \* the ones a lane has accepted and not settled
  told,       \* the ones that reached their receiver
  dropped     \* the ones that were not sent, or given up

vars == <<announced, owed, queued, told, dropped>>

Init == announced = {} /\ owed = {} /\ queued = {} /\ told = {} /\ dropped = {}

Announce(r, targets) ==
  /\ r \notin announced
  /\ announced' = announced \cup {r}
  /\ owed' = owed \cup (targets \X {r})
  /\ dropped' = dropped \cup ((Hooks \ targets) \X {r})
  /\ UNCHANGED <<queued, told>>

Accept(k) ==
  /\ k \in owed
  /\ owed' = owed \ {k} /\ queued' = queued \cup {k}
  /\ UNCHANGED <<announced, told, dropped>>

Refuse(k) ==
  /\ k \in owed
  /\ owed' = owed \ {k} /\ dropped' = dropped \cup {k}
  /\ UNCHANGED <<announced, queued, told>>

(* An attempt lands; only its answer says whether it was the last one.     *)
Tell(k) ==
  /\ k \in queued
  /\ told' = told \cup {k}
  /\ \/ UNCHANGED <<queued, dropped>>
     \/ queued' = queued \ {k} /\ UNCHANGED dropped
     \/ queued' = queued \ {k} /\ dropped' = dropped \cup {k}
  /\ UNCHANGED <<announced, owed>>

GiveUp(k) ==
  /\ k \in queued
  /\ queued' = queued \ {k} /\ dropped' = dropped \cup {k}
  /\ UNCHANGED <<announced, owed, told>>

Next ==
  \/ \E r \in Runs, targets \in SUBSET Hooks : Announce(r, targets)
  \/ \E k \in Hooks \X Runs : Accept(k) \/ Refuse(k) \/ Tell(k) \/ GiveUp(k)

Spec == Init /\ [][Next]_vars
=============================================================================
