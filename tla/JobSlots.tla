------------------------------ MODULE JobSlots ------------------------------
(***************************************************************************)
(* What the run registry promises its callers, without goroutines, locks   *)
(* or a database: a job has at most one run, at most one more waits behind *)
(* it, nothing new is claimed once the registry is closed, and the run     *)
(* that ends takes the waiting one with it.  Runner implements it.         *)
(***************************************************************************)
CONSTANTS Jobs, Runs

VARIABLES
  claim,    \* the jobs promised to a caller that has no run yet
  live,     \* the runs under way
  owner,    \* the job of each run that was ever started
  waiting,  \* the jobs with one more run asked for
  open      \* whether claims are granted

vars == <<claim, live, owner, waiting, open>>

NoJob == "none"

LiveOf(j) == { r \in live : owner[r] = j }
Busy(j)   == j \in claim \/ LiveOf(j) # {}

Init ==
  /\ claim = {} /\ live = {} /\ waiting = {} /\ open = TRUE
  /\ owner = [r \in Runs |-> NoJob]

Claim(j) ==
  /\ open /\ ~Busy(j)
  /\ claim' = claim \cup {j}
  /\ UNCHANGED <<live, owner, waiting, open>>

(* The claim is given up; whoever waits behind it goes on waiting.         *)
Withdraw(j) ==
  /\ j \in claim
  /\ claim' = claim \ {j}
  /\ UNCHANGED <<live, owner, waiting, open>>

Start(j, r) ==
  /\ j \in claim /\ owner[r] = NoJob
  /\ claim' = claim \ {j}
  /\ live' = live \cup {r}
  /\ owner' = [owner EXCEPT ![r] = j]
  /\ UNCHANGED <<waiting, open>>

(* The run ends and the waiting one is taken, to be claimed or dropped.    *)
End(r) ==
  /\ r \in live
  /\ live' = live \ {r}
  /\ waiting' = waiting \ {owner[r]}
  /\ UNCHANGED <<claim, owner, open>>

Wait(j) ==
  /\ Busy(j) /\ j \notin waiting
  /\ waiting' = waiting \cup {j}
  /\ UNCHANGED <<claim, live, owner, open>>

Close ==
  /\ open' = FALSE /\ waiting' = {}
  /\ UNCHANGED <<claim, live, owner>>

Crash ==
  /\ claim' = {} /\ live' = {} /\ waiting' = {} /\ open' = FALSE
  /\ UNCHANGED owner

Reopen ==
  /\ claim = {} /\ live = {} /\ waiting = {} /\ ~open
  /\ open' = TRUE
  /\ UNCHANGED <<claim, live, owner, waiting>>

Next ==
  \/ \E j \in Jobs : Claim(j) \/ Withdraw(j) \/ Wait(j)
  \/ \E j \in Jobs, r \in Runs : Start(j, r)
  \/ \E r \in Runs : End(r)
  \/ Close \/ Crash \/ Reopen

Spec == Init /\ [][Next]_vars
=============================================================================
