-------------------------- MODULE SchedulerProofs --------------------------
(***************************************************************************)
(* Proofs about Scheduler for every set of jobs, every cron library that   *)
(* answers with a later time or none, and any bounds: the loop's copies    *)
(* never start a firing twice, a process never starts what it missed, and  *)
(* a scheduled run has its destinations and its rules.                     *)
(***************************************************************************)
EXTENDS Scheduler, TLAPS

(* Every copy stands for one job, and for a firing that has come due.      *)
CopiesInv ==
  \A c \in batch :
    /\ c.ver \in 1 .. ver[c.job] /\ 0 < c.due /\ c.due <= tickNow
    /\ \A d \in batch : c.job = d.job => c = d

(* The loop between two passes has no copies, and the times are in order.  *)
LoopInv ==
  /\ bootAt <= now
  /\ batch # {} => bootAt <= tickNow /\ tickNow <= now
  /\ pc \in {"boot", "idle", "off"} => batch = {} /\ ~catching
  /\ pc \in {"overlap", "start"} => ~catching
  /\ life = "down" => pc = "off"

(* A row moves past what was started from it, and a copy that is about to  *)
(* be started has moved it.                                                *)
Past(j, t) == row[j].next = 0 \/ row[j].next > t
FiringInv ==
  /\ \A j \in Jobs \ jobs : row[j].next = 0
  /\ \A f \in fired : f.ver <= ver[f.job] /\ f.due <= now
  /\ batch # {} => \A f \in fired : f.due <= tickNow
  /\ \A f \in fired : f.ver = ver[f.job] => Past(f.job, f.due)
  /\ \A c \in batch : Firing(c) \notin fired
  /\ \A c \in batch : c.got = "moved" /\ c.ver = ver[c.job] => Past(c.job, c.due)

(* DueJobs has returned: every copy has its children.                      *)
LoadedInv ==
  pc \in {"job", "overlap", "start"} => \A c \in batch : c.got \in {"all", "moved"}

(* What the copies hold of a job's children: those of the row's own save   *)
(* or a later one, and none only of a job that is gone.                    *)
HasDests(c) ==
  /\ c.dests <= ver[c.job]
  /\ c.dests = 0 => c.job \notin jobs
  /\ c.dests # 0 => c.ver <= c.dests
HasRules(c) ==
  /\ c.filters = 0 => c.job \notin jobs
  /\ c.filters # 0 => c.dests <= c.filters
ChildrenInv ==
  /\ \A j \in jobs : ver[j] > 0
  /\ \A c \in batch : c.got # "row" => HasDests(c)
  /\ \A c \in batch : c.got \in {"all", "moved"} => HasRules(c)

(* A firing from before the process started is left only where the pass at *)
(* startup has it in hand, or could not.                                   *)
Missed(j) ==
  /\ j \in jobs /\ row[j].enabled /\ row[j].cron # Blank
  /\ row[j].next # 0 /\ row[j].next <= bootAt
SavesInv ==
  \A c \in Clients : client[c].at = "saving" =>
    life # "down" /\ (client[c].row.next = 0 \/ client[c].row.next > bootAt)
Started == life # "down" /\ pc # "boot" /\ ~skipped
InHand ==
  /\ \A j \in Jobs : Missed(j) => catching /\ \E c \in batch : c.job = j
  /\ ~catching => \A c \in batch : c.due > bootAt
MissedInv == SavesInv /\ (Started => InHand)

Inv == LoopInv /\ CopiesInv /\ FiringInv /\ LoadedInv /\ ChildrenInv /\ MissedInv
-----------------------------------------------------------------------------
(* What the cron library's answers look like.                              *)

LEMMA FiringIsLater ==
  ASSUME NEW e \in Exprs, NEW t \in 0 .. MaxTime
  PROVE  /\ NextFiring(e, t) \in Nat
         /\ NextFiring(e, t) = 0 \/ NextFiring(e, t) > t
BY SchedulerAssumption

LEMMA RefreshIsLater ==
  ASSUME NEW s \in Forms, NEW t \in 0 .. MaxTime
  PROVE  /\ RefreshNextRun(s.cron, s.enabled, t) \in Nat
         /\ \/ RefreshNextRun(s.cron, s.enabled, t) = 0
            \/ RefreshNextRun(s.cron, s.enabled, t) > t
         /\ WithNext(s, RefreshNextRun(s.cron, s.enabled, t)) \in Row
<1>1. s.cron \in Crons /\ s.enabled \in BOOLEAN
  BY SchedulerAssumption DEF Crons
<1>2. CASE s.enabled /\ s.cron # Blank
  <2>1. s.cron \in Exprs
    BY <1>1, <1>2 DEF Crons
  <2> QED
    BY <1>1, <1>2, <2>1, FiringIsLater DEF RefreshNextRun, WithNext, Row
<1>3. CASE ~(s.enabled /\ s.cron # Blank)
  BY <1>1, <1>3 DEF RefreshNextRun, WithNext, Row
<1> QED
  BY <1>2, <1>3

-----------------------------------------------------------------------------
(* Types                                                                   *)

LEMMA InitTypes == Init => TypeOK
<1> SUFFICES ASSUME Init PROVE TypeOK
  OBVIOUS
<1>1. row \in [Jobs -> Row]
  <2>1. PICK s \in [Jobs -> Settings], t \in 0 .. MaxTime :
          row = [j \in Jobs |->
                   IF j \notin jobs THEN NoRow
                   ELSE WithNext(s[j], IF s[j].cron = Broken THEN t
                                       ELSE RefreshNextRun(s[j].cron, s[j].enabled, 0))]
    BY DEF Init
  <2>2. NoRow \in Row
    BY DEF NoRow, Row, Crons
  <2>3. ASSUME NEW j \in Jobs, s[j].cron = Broken PROVE WithNext(s[j], t) \in Row
    <3>1. s[j].enabled \in BOOLEAN
      <4>1. s[j] \in Settings
        OBVIOUS
      <4>2. CASE s[j] \in Forms
        BY <4>2, SchedulerAssumption
      <4>3. CASE s[j] = [cron |-> Broken, enabled |-> TRUE]
        <5>1. s[j].enabled = TRUE
          BY <4>3
        <5> QED
          BY <5>1
      <4> QED
        BY <4>1, <4>2, <4>3 DEF Settings
    <3> QED
      BY <2>3, <3>1 DEF WithNext, Row
  <2>4. ASSUME NEW j \in Jobs, s[j].cron # Broken
        PROVE  WithNext(s[j], RefreshNextRun(s[j].cron, s[j].enabled, 0)) \in Row
    <3>1. s[j] \in Forms
      BY <2>4 DEF Settings
    <3> QED
      BY <3>1, RefreshIsLater, SchedulerAssumption
  <2>5. ASSUME NEW j \in Jobs PROVE row[j] \in Row
    BY <2>1, <2>2, <2>3, <2>4
  <2>6. row = [j \in Jobs |-> row[j]]
    BY <2>1
  <2> QED
    BY <2>5, <2>6
<1>2. client \in [Clients -> Client]
  BY DEF Init, IdleClient, Client, NoRow, Row, Crons
<1>3. ver \in [Jobs -> Nat]
  BY DEF Init
<1>4. skipped \in BOOLEAN /\ catching \in BOOLEAN
  BY Zenon DEF Init
<1>5. 0 \in 0 .. MaxTime
  BY SchedulerAssumption
<1> QED
  BY <1>1, <1>2, <1>3, <1>4, <1>5 DEF Init, TypeOK
LoopTypes ==
  /\ pc \in {"boot", "idle", "load", "job", "overlap", "start", "off"}
  /\ catching \in BOOLEAN /\ tickNow \in 0 .. MaxTime /\ batch \subseteq Copy

LEMMA RestTypes == ASSUME Rest PROVE LoopTypes'
<1>1. 0 \in 0 .. MaxTime
  BY SchedulerAssumption
<1>2. catching' \in BOOLEAN
  BY Zenon DEF Rest
<1> QED
  BY <1>1, <1>2 DEF Rest, LoopTypes

LEMMA DoneTypes == ASSUME TypeOK, NEW c, Done(c) PROVE LoopTypes'
<1>1. CASE batch = {c}
  BY <1>1, RestTypes DEF Done
<1>2. CASE batch # {c}
  BY <1>2 DEF Done, TypeOK, LoopTypes
<1> QED
  BY <1>1, <1>2

LEMMA GoesOnTypes == ASSUME TypeOK, NEW c \in batch, GoesOn(c) PROVE LoopTypes'
<1>1. c \in Copy
  BY DEF TypeOK
<1>2. [c EXCEPT !.got = "moved"] \in Copy
  BY <1>1 DEF Copy
<1> QED
  BY <1>2 DEF GoesOn, Replace, TypeOK, LoopTypes

LEMMA CopyTypes == ASSUME TypeOK, NEW j \in Jobs, Due(j, now) PROVE CopyOf(j) \in Copy
BY DEF TypeOK, Due, CopyOf, Copy, Row, Crons

LEMMA SetNextTypes ==
  ASSUME TypeOK, NEW j \in Jobs, NEW t \in Nat, SetNextRun(j, t)
  PROVE  row' \in [Jobs -> Row]
BY DEF TypeOK, SetNextRun, Row

LEMMA RescheduleTypes ==
  ASSUME TypeOK, NEW c \in batch, Reschedule(c)
  PROVE  NextRun(c) \in Nat /\ (NextRun(c) = 0 \/ NextRun(c) > tickNow) /\ c.job \in Jobs
<1>1. c \in Copy /\ tickNow \in 0 .. MaxTime
  BY DEF TypeOK
<1>2. c.cron \in Exprs /\ c.job \in Jobs
  BY <1>1 DEF Copy, Reschedule
<1> QED
  BY <1>1, <1>2, FiringIsLater DEF NextRun

(* The steps of the loop keep every variable in its type.                  *)
LEMMA LoopStepTypes == ASSUME TypeOK, LoopStep PROVE TypeOK'
<1>1. CASE Wake
  <2>1. batch' \subseteq Copy
    BY <1>1, CopyTypes DEF Wake
  <2>2. catching' \in BOOLEAN
    <3>1. CASE batch' = {}
      BY <1>1, <3>1 DEF Wake, TypeOK
    <3>2. CASE batch' # {}
      <4>1. catching' = AtBoot
        BY <1>1, <3>2, Zenon DEF Wake
      <4> QED
        BY <4>1, Zenon DEF AtBoot
    <3> QED
      BY <3>1, <3>2
  <2> QED
    BY <1>1, <2>1, <2>2 DEF Wake, TypeOK, clock, table
<1>2. CASE DueFails
  <2>1. LoopTypes'
    BY <1>2, RestTypes DEF DueFails
  <2>2. skipped' \in BOOLEAN
    BY <1>2, Zenon DEF DueFails, AtBoot
  <2> QED
    BY <1>2, <2>1, <2>2 DEF DueFails, Fault, TypeOK, LoopTypes, table
<1>3. CASE LoopReturns
  BY <1>3 DEF LoopReturns, TypeOK, clock, table
<1>4. ASSUME NEW c \in batch, CopyStep(c) PROVE TypeOK'
  <2>0. c \in Copy /\ c.job \in Jobs
    BY DEF TypeOK, Copy
  <2>1. CASE LoadDests(c)
    <3>1. Children(c.job) \in Nat
      BY <2>0 DEF Children, TypeOK
    <3>2. [c EXCEPT !.got = "dests", !.dests = Children(c.job)] \in Copy
      BY <2>0, <3>1 DEF Copy
    <3> QED
      BY <2>1, <3>2 DEF LoadDests, Replace, TypeOK, clock, table
  <2>2. CASE LoadFilters(c)
    <3>1. RulesOf(c.job) \in Nat
      BY <2>0 DEF RulesOf, Children, TypeOK
    <3>2. [c EXCEPT !.got = "all", !.filters = RulesOf(c.job)] \in Copy
      BY <2>0, <3>1 DEF Copy
    <3> QED
      BY <2>2, <3>2 DEF LoadFilters, Replace, TypeOK, clock, table
  <2>3. CASE Reschedule(c)
    <3>1. row' \in [Jobs -> Row]
      BY <2>3, RescheduleTypes, SetNextTypes DEF Reschedule
    <3>2. LoopTypes'
      BY <2>3, DoneTypes, GoesOnTypes DEF Reschedule
    <3> QED
      BY <2>3, <3>1, <3>2 DEF Reschedule, TypeOK, LoopTypes, clock
  <2>4. CASE Unparsable(c)
    <3>1. row' \in [Jobs -> Row]
      BY <2>0, <2>4, SetNextTypes DEF Unparsable, Cleared
    <3>2. LoopTypes'
      BY <2>4, DoneTypes DEF Unparsable
    <3> QED
      BY <2>4, <3>1, <3>2 DEF Unparsable, TypeOK, LoopTypes, clock
  <2>5. CASE RescheduleFails(c)
    <3>1. LoopTypes'
      BY <2>5, DoneTypes DEF RescheduleFails, GivesUp
    <3>2. skipped' \in BOOLEAN
      BY <2>5, Zenon DEF RescheduleFails
    <3> QED
      BY <2>5, <3>1, <3>2 DEF RescheduleFails, Fault, TypeOK, LoopTypes, table
  <2>6. CASE Overlap(c)
    <3>1. LoopTypes'
      BY <2>6, DoneTypes DEF Overlap, LoopTypes, TypeOK
    <3> QED
      BY <2>6, <3>1 DEF Overlap, TypeOK, LoopTypes, clock, table
  <2>7. CASE StartScheduled(c)
    <3>1. LoopTypes'
      BY <2>7, DoneTypes DEF StartScheduled
    <3>2. Firing(c) \in [job : Jobs, ver : Nat, due : Nat]
      BY <2>0 DEF Firing, Copy
    <3> QED
      BY <2>0, <2>7, <3>1, <3>2 DEF StartScheduled, TypeOK, LoopTypes, clock, table
  <2>8. CASE StartRefused(c)
    <3>1. LoopTypes'
      BY <2>8, DoneTypes DEF StartRefused
    <3> QED
      BY <2>8, <3>1 DEF StartRefused, TypeOK, LoopTypes, clock, table
  <2>9. CASE StartFails(c)
    <3>1. LoopTypes'
      BY <2>9, DoneTypes DEF StartFails
    <3> QED
      BY <2>9, <3>1 DEF StartFails, Fault, TypeOK, LoopTypes, clock, table
  <2> QED
    BY <1>4, <2>1, <2>2, <2>3, <2>4, <2>5, <2>6, <2>7, <2>8, <2>9 DEF CopyStep
<1> QED
  BY <1>1, <1>2, <1>3, <1>4 DEF LoopStep

(* So do the handlers, the other runs and the process.                     *)
LEMMA ClientStepTypes == ASSUME TypeOK, NEW c \in Clients, ClientStep(c) PROVE TypeOK'
<1>0. NoRow \in Row /\ IdleClient \in Client /\ client[c] \in Client
  BY DEF NoRow, Row, Crons, IdleClient, Client, TypeOK
<1>1. CASE Compute(c)
  <2>1. PICK s \in Forms :
          client' = [client EXCEPT ![c].at = "saving",
                       ![c].row = WithNext(s, RefreshNextRun(s.cron, s.enabled, now))]
    BY <1>1 DEF Compute
  <2>2. WithNext(s, RefreshNextRun(s.cron, s.enabled, now)) \in Row
    BY RefreshIsLater DEF TypeOK
  <2>3. client' \in [Clients -> Client]
    BY <1>0, <2>1, <2>2 DEF TypeOK, Client
  <2> QED
    BY <1>1, <2>3 DEF Compute, TypeOK, clock, table, loop
<1>2. CASE SaveFails(c)
  BY <1>0, <1>2 DEF SaveFails, TypeOK, clock, table, loop
<1>3. ASSUME NEW j \in Jobs,
             CheckUpdate(c, j) \/ CheckCreate(c, j) \/ CheckDelete(c, j)
      PROVE  TypeOK'
  <2>0. /\ [IdleClient EXCEPT !.at = "checked", !.job = j] \in Client
        /\ [IdleClient EXCEPT !.at = "deleting", !.job = j] \in Client
    BY <1>0 DEF Client
  <2>1. client' \in [Clients -> Client]
    BY <1>3, <2>0 DEF CheckUpdate, CheckCreate, CheckDelete, TypeOK
  <2> QED
    BY <1>3, <2>1 DEF CheckUpdate, CheckCreate, CheckDelete, TypeOK, clock, table, loop
<1>4. ASSUME NEW j \in Jobs, CreateJob(c, j) \/ UpdateJob(c, j) \/ DeleteJob(c, j)
      PROVE  TypeOK'
  <2>1. client' \in [Clients -> Client]
    BY <1>0, <1>4 DEF CreateJob, UpdateJob, DeleteJob, TypeOK
  <2>2. client[c].row \in Row
    BY <1>0 DEF Client
  <2>3. row' \in [Jobs -> Row] /\ ver' \in [Jobs -> Nat] /\ jobs' \subseteq Jobs
    BY <1>0, <1>4, <2>2 DEF CreateJob, UpdateJob, DeleteJob, NewChildren, TypeOK
  <2> QED
    BY <1>4, <2>1, <2>3 DEF CreateJob, UpdateJob, DeleteJob, TypeOK, clock, loop
<1> QED
  BY <1>1, <1>2, <1>3, <1>4 DEF ClientStep

LEMMA ProcessTypes ==
  ASSUME TypeOK,
         \/ \E j \in Jobs : StartOther(j) \/ RunEnds(j)
         \/ Advance \/ Signal \/ Down \/ Boot
  PROVE  TypeOK'
<1>1. ASSUME NEW j \in Jobs, StartOther(j) \/ RunEnds(j) PROVE TypeOK'
  BY <1>1 DEF StartOther, RunEnds, TypeOK, clock, table, loop
<1>2. CASE Advance
  BY <1>2, SchedulerAssumption DEF Advance, TypeOK, table, loop
<1>3. CASE Signal
  BY <1>3 DEF Signal, TypeOK, table, loop
<1>4. CASE Down
  <2>1. client' \in [Clients -> Client]
    BY <1>4 DEF Down, IdleClient, Client, NoRow, Row, Crons
  <2>2. catching' \in BOOLEAN
    BY <1>4, Zenon DEF Down
  <2>3. tickNow' \in 0 .. MaxTime
    BY <1>4, SchedulerAssumption DEF Down
  <2> QED
    BY <1>4, <2>1, <2>2, <2>3 DEF Down, TypeOK, table
<1>5. CASE Boot
  <2>1. skipped' \in BOOLEAN
    BY <1>5, Zenon DEF Boot
  <2> QED
    BY <1>5, <2>1 DEF Boot, TypeOK, table
<1> QED
  BY <1>1, <1>2, <1>3, <1>4, <1>5

LEMMA NextTypes == ASSUME TypeOK, [Next]_vars PROVE TypeOK'
<1>1. CASE UNCHANGED vars
  BY <1>1 DEF vars, clock, table, loop, TypeOK
<1> QED
  BY <1>1, LoopStepTypes, ClientStepTypes, ProcessTypes DEF Next

(* The scheduler's state is well typed: the clock stays in its bound, rows *)
(* and copies hold expressions and times, copies never an empty expression.*)
THEOREM SchedulerTypes == Spec => []TypeOK
BY InitTypes, NextTypes, PTL DEF Spec

-----------------------------------------------------------------------------
(* The steps, by what they do to the copies, the table and the history.    *)

Quiet ==
  /\ batch' \subseteq batch /\ (batch' = {} \/ tickNow' = tickNow)
  /\ UNCHANGED <<table, fired>>

Telling ==
  \/ Wake
  \/ \E c \in batch : \/ LoadDests(c) \/ LoadFilters(c) \/ Reschedule(c) \/ Unparsable(c)
                      \/ StartScheduled(c)
  \/ \E c \in Clients, j \in Jobs : CreateJob(c, j) \/ UpdateJob(c, j) \/ DeleteJob(c, j)

LEMMA DoneShrinks ==
  ASSUME NEW c, Done(c)
  PROVE  batch' \subseteq batch \ {c} /\ (batch' = {} \/ tickNow' = tickNow)
<1>1. CASE batch = {c}
  BY <1>1 DEF Done, Rest
<1>2. CASE batch # {c}
  BY <1>2 DEF Done
<1> QED
  BY <1>1, <1>2

LEMMA StepKinds == ASSUME [Next]_vars PROVE Quiet \/ Telling
<1>1. CASE UNCHANGED vars
  BY <1>1 DEF vars, loop, Quiet
<1>2. CASE LoopStep
  <2>1. CASE DueFails
    BY <2>1 DEF DueFails, Rest, Quiet
  <2>2. CASE LoopReturns
    BY <2>2 DEF LoopReturns, Quiet
  <2>3. ASSUME NEW c \in batch, CopyStep(c) PROVE Quiet \/ Telling
    <3>1. CASE RescheduleFails(c)
      BY <3>1, DoneShrinks DEF RescheduleFails, GivesUp, Quiet
    <3>2. CASE Overlap(c)
      BY <3>2, DoneShrinks DEF Overlap, Quiet
    <3>3. CASE StartRefused(c)
      BY <3>3, DoneShrinks DEF StartRefused, Quiet
    <3>4. CASE StartFails(c)
      BY <3>4, DoneShrinks DEF StartFails, Quiet
    <3> QED
      BY <2>3, <3>1, <3>2, <3>3, <3>4 DEF CopyStep, Telling
  <2> QED
    BY <1>2, <2>1, <2>2, <2>3 DEF LoopStep, Telling
<1>3. ASSUME NEW c \in Clients, ClientStep(c) PROVE Quiet \/ Telling
  <2>1. CASE Compute(c) \/ SaveFails(c)
    BY <2>1 DEF Compute, SaveFails, loop, Quiet
  <2>2. ASSUME NEW j \in Jobs,
               CheckUpdate(c, j) \/ CheckCreate(c, j) \/ CheckDelete(c, j)
        PROVE  Quiet
    BY <2>2 DEF CheckUpdate, CheckCreate, CheckDelete, loop, Quiet
  <2> QED
    BY <1>3, <2>1, <2>2 DEF ClientStep, Telling
<1>4. ASSUME NEW j \in Jobs, StartOther(j) \/ RunEnds(j) PROVE Quiet
  BY <1>4 DEF StartOther, RunEnds, loop, Quiet
<1>5. CASE Advance \/ Signal \/ Down \/ Boot
  BY <1>5 DEF Advance, Signal, Down, Boot, loop, Quiet
<1> QED
  BY <1>1, <1>2, <1>3, <1>4, <1>5 DEF Next

-----------------------------------------------------------------------------
(* The copies                                                              *)

LEMMA CopiesInit == Init => CopiesInv
BY DEF Init, CopiesInv

(* What loading the children, or the reschedule, makes of a copy.          *)
WithDests(c)   == [c EXCEPT !.got = "dests", !.dests = Children(c.job)]
WithFilters(c) == [c EXCEPT !.got = "all", !.filters = RulesOf(c.job)]
Moved(c)       == [c EXCEPT !.got = "moved"]

LEMMA SameCopy ==
  ASSUME TypeOK, NEW c \in batch
  PROVE  \A d \in {WithDests(c), WithFilters(c), Moved(c)} :
           d.job = c.job /\ d.ver = c.ver /\ d.due = c.due
<1>1. c \in Copy
  BY DEF TypeOK
<1>2. WithDests(c).job = c.job /\ WithDests(c).ver = c.ver /\ WithDests(c).due = c.due
  BY <1>1 DEF Copy, WithDests
<1>3. WithFilters(c).job = c.job /\ WithFilters(c).ver = c.ver /\ WithFilters(c).due = c.due
  BY <1>1 DEF Copy, WithFilters
<1>4. Moved(c).job = c.job /\ Moved(c).ver = c.ver /\ Moved(c).due = c.due
  BY <1>1 DEF Copy, Moved
<1> QED
  BY <1>2, <1>3, <1>4

LEMMA ReplacedCopy ==
  ASSUME CopiesInv, NEW c \in batch, NEW d, batch' = (batch \ {c}) \cup {d},
         d.job = c.job, d.ver = c.ver, d.due = c.due, ver' = ver, tickNow' = tickNow
  PROVE  CopiesInv'
<1> SUFFICES ASSUME NEW e \in batch'
             PROVE  /\ e.ver \in 1 .. ver[e.job] /\ 0 < e.due /\ e.due <= tickNow
                    /\ \A f \in batch' : e.job = f.job => e = f
  BY DEF CopiesInv
<1>1. e.ver \in 1 .. ver[e.job] /\ 0 < e.due /\ e.due <= tickNow
  BY DEF CopiesInv
<1>2. \A x, y \in batch : x.job = y.job => x = y
  BY DEF CopiesInv
<1>3. ASSUME NEW f \in batch', e.job = f.job PROVE e = f
  BY <1>2, <1>3
<1> QED
  BY <1>1, <1>3

LEMMA CopiesNext ==
  ASSUME TypeOK, CopiesInv, \A j \in jobs : ver[j] > 0, Quiet \/ Telling
  PROVE  CopiesInv'
<1>1. CASE Quiet
  BY <1>1 DEF Quiet, table, CopiesInv
<1>2. CASE Wake
  BY <1>2 DEF Wake, CopyOf, Due, CopiesInv, TypeOK, table, Row
<1>3. ASSUME NEW c \in batch, LoadDests(c) \/ LoadFilters(c) PROVE CopiesInv'
  <2>1. CASE batch' = (batch \ {c}) \cup {WithDests(c)}
    BY <1>3, <2>1, SameCopy, ReplacedCopy DEF LoadDests, LoadFilters, table
  <2>2. CASE batch' = (batch \ {c}) \cup {WithFilters(c)}
    BY <1>3, <2>2, SameCopy, ReplacedCopy DEF LoadDests, LoadFilters, table
  <2> QED
    BY <1>3, <2>1, <2>2 DEF LoadDests, LoadFilters, Replace, WithDests, WithFilters
<1>4. ASSUME NEW c \in batch, Reschedule(c) PROVE CopiesInv'
  <2>1. CASE Done(c)
    BY <1>4, <2>1, DoneShrinks DEF Reschedule, CopiesInv
  <2>2. CASE GoesOn(c)
    <3>1. batch' = (batch \ {c}) \cup {Moved(c)}
      BY <2>2 DEF GoesOn, Replace, Moved
    <3> QED
      BY <1>4, <2>2, <3>1, SameCopy, ReplacedCopy DEF Reschedule, GoesOn
  <2> QED
    BY <1>4, <2>1, <2>2 DEF Reschedule
<1>5. ASSUME NEW c \in batch, Unparsable(c) \/ StartScheduled(c) PROVE CopiesInv'
  BY <1>5, DoneShrinks DEF Unparsable, StartScheduled, table, CopiesInv
<1>6. ASSUME NEW c \in Clients, NEW j \in Jobs,
             CreateJob(c, j) \/ UpdateJob(c, j) \/ DeleteJob(c, j)
      PROVE  CopiesInv'
  <2>1. batch' = batch /\ tickNow' = tickNow
    BY <1>6 DEF CreateJob, UpdateJob, DeleteJob, loop
  <2>2. \A i \in Jobs : ver'[i] \in Nat /\ ver[i] \in Nat /\ ver[i] <= ver'[i]
    BY <1>6 DEF CreateJob, UpdateJob, DeleteJob, NewChildren, TypeOK
  <2>3. \A d \in batch : d.job \in Jobs /\ d.ver \in Nat
    BY DEF TypeOK, Copy
  <2> QED
    BY <2>1, <2>2, <2>3 DEF CopiesInv
<1> QED
  BY <1>1, <1>2, <1>3, <1>4, <1>5, <1>6 DEF Telling

-----------------------------------------------------------------------------
(* The loop                                                                *)

LEMMA LoopInit == Init => LoopInv
<1> SUFFICES ASSUME Init PROVE LoopInv
  OBVIOUS
<1>1. ~catching
  BY Zenon DEF Init
<1> QED
  BY <1>1 DEF Init, LoopInv

LEMMA RestLoop ==
  ASSUME TypeOK, LoopInv, Rest, now' = now, bootAt' = bootAt, life' = life, life # "down"
  PROVE  LoopInv'
<1>1. ~catching'
  BY Zenon DEF Rest
<1> QED
  BY <1>1 DEF Rest, LoopInv, TypeOK

LEMMA DoneLoop ==
  ASSUME TypeOK, LoopInv, NEW c \in batch, Done(c), UNCHANGED <<now, bootAt, life>>
  PROVE  LoopInv'
<1>0. life # "down"
  BY DEF LoopInv
<1>1. CASE batch = {c}
  BY <1>0, <1>1, RestLoop DEF Done
<1>2. CASE batch # {c}
  BY <1>0, <1>2 DEF Done, LoopInv
<1> QED
  BY <1>1, <1>2

LEMMA LoopNext == ASSUME TypeOK, LoopInv, [Next]_vars PROVE LoopInv'
<1>1. CASE UNCHANGED vars
  BY <1>1 DEF vars, clock, loop, LoopInv
<1>2. CASE Wake
  <2>1. CASE batch' = {}
    BY <1>2, <2>1 DEF Wake, LoopInv, clock
  <2>2. CASE batch' # {}
    BY <1>2, <2>2 DEF Wake, LoopInv, clock, TypeOK
  <2> QED
    BY <2>1, <2>2
<1>3. CASE DueFails
  <2>1. life # "down"
    BY <1>3 DEF DueFails, Fault
  <2> QED
    BY <1>3, <2>1, RestLoop DEF DueFails, Fault
<1>4. CASE LoopReturns
  BY <1>4 DEF LoopReturns, LoopInv, clock
<1>5. ASSUME NEW c \in batch, CopyStep(c) PROVE LoopInv'
  <2>0. UNCHANGED <<now, bootAt, life>> /\ life # "down"
    BY <1>5 DEF CopyStep, LoadDests, LoadFilters, Reschedule, Unparsable, RescheduleFails,
                Overlap, StartScheduled, StartRefused, StartFails, clock, LoopInv
  <2>1. CASE Done(c)
    BY <2>0, <2>1, DoneLoop
  <2>2. CASE LoadDests(c) \/ LoadFilters(c)
    BY <2>0, <2>2 DEF LoadDests, LoadFilters, LoopInv
  <2>3. CASE ~catching /\ GoesOn(c)
    <3>1. ~catching'
      BY <2>3, Zenon DEF GoesOn
    <3> QED
      BY <2>0, <2>3, <3>1 DEF GoesOn, LoopInv
  <2>4. CASE Overlap(c) /\ pc' = "start" /\ UNCHANGED <<catching, tickNow, batch>>
    BY <2>0, <2>4 DEF Overlap, At, LoopInv
  <2> QED
    BY <1>5, <2>1, <2>2, <2>3, <2>4
       DEF CopyStep, Reschedule, Unparsable, RescheduleFails, GivesUp, Overlap,
           StartScheduled, StartRefused, StartFails
<1>6. ASSUME NEW c \in Clients, ClientStep(c) PROVE LoopInv'
  <2>1. UNCHANGED <<clock, loop>>
    BY <1>6, Zenon DEF ClientStep, Compute, SaveFails, CheckUpdate, CheckCreate, CheckDelete,
                       CreateJob, UpdateJob, DeleteJob
  <2> QED
    BY <2>1 DEF clock, loop, LoopInv
<1>7. ASSUME NEW j \in Jobs, StartOther(j) \/ RunEnds(j) PROVE LoopInv'
  BY <1>7 DEF StartOther, RunEnds, clock, loop, LoopInv
<1>8. CASE Advance
  BY <1>8 DEF Advance, loop, LoopInv, TypeOK
<1>9. CASE Signal
  BY <1>9 DEF Signal, loop, LoopInv
<1>10. CASE Down
  <2>1. ~catching'
    BY <1>10, Zenon DEF Down
  <2> QED
    BY <1>10, <2>1 DEF Down, LoopInv
<1>11. CASE Boot
  BY <1>11 DEF Boot, LoopInv, TypeOK
<1> QED
  BY <1>1, <1>2, <1>3, <1>4, <1>5, <1>6, <1>7, <1>8, <1>9, <1>10, <1>11 DEF Next, LoopStep

-----------------------------------------------------------------------------
(* Firings                                                                 *)

LEMMA FiringInit == Init => FiringInv
<1> SUFFICES ASSUME Init PROVE FiringInv
  OBVIOUS
<1>2. ASSUME NEW j \in Jobs \ jobs PROVE row[j].next = 0
  <2>1. row[j] = NoRow
    BY <1>2 DEF Init
  <2> QED
    BY <2>1 DEF NoRow
<1>3. batch = {} /\ fired = {}
  BY DEF Init
<1> QED
  BY <1>2, <1>3 DEF FiringInv

(* The firings' types, for the steps below.                                *)
LEMMA FiringTypes ==
  ASSUME TypeOK
  PROVE  /\ \A f \in fired : f.job \in Jobs /\ f.ver \in Nat /\ f.due \in Nat
         /\ \A c \in batch : c.job \in Jobs /\ c.ver \in Nat /\ c.due \in Nat
         /\ \A j \in Jobs : row[j].next \in Nat /\ ver[j] \in Nat
         /\ now \in Nat /\ tickNow \in Nat
<1>1. \A f \in fired : f.job \in Jobs /\ f.ver \in Nat /\ f.due \in Nat
  BY DEF TypeOK
<1>2. \A c \in batch : c.job \in Jobs /\ c.ver \in Nat /\ c.due \in Nat
  BY DEF TypeOK, Copy
<1>3. \A j \in Jobs : row[j].next \in Nat /\ ver[j] \in Nat
  BY DEF TypeOK, Row
<1>4. now \in Nat /\ tickNow \in Nat
  BY DEF TypeOK
<1> QED
  BY <1>1, <1>2, <1>3, <1>4

(* The clock never goes back.                                              *)
LEMMA TimePasses == ASSUME TypeOK, [Next]_vars PROVE now <= now'
<1>1. CASE UNCHANGED clock
  BY <1>1 DEF clock, TypeOK
<1>2. CASE now' = now
  BY <1>2 DEF TypeOK
<1>3. CASE Advance
  BY <1>3 DEF Advance, TypeOK
<1> QED
  BY <1>1, <1>2, <1>3, Zenon
     DEF Next, vars, LoopStep, CopyStep, ClientStep, Wake, DueFails, LoopReturns, LoadDests,
         LoadFilters, Reschedule, Unparsable, RescheduleFails, Overlap, StartScheduled,
         StartRefused, StartFails, Compute, SaveFails, CheckUpdate, CheckCreate, CheckDelete,
         CreateJob, UpdateJob, DeleteJob, StartOther, RunEnds, Signal, Down, Boot, clock

(* A step that leaves the table and the history, and no new copies.        *)
LEMMA FiringQuiet == ASSUME TypeOK, TypeOK', FiringInv, Quiet, now <= now' PROVE FiringInv'
<1>1. UNCHANGED <<jobs, row, ver, fired>> /\ batch' \subseteq batch
  BY DEF Quiet, table
<1>2. \A f \in fired : f.due <= now'
  <2>1. now' \in Nat
    BY DEF TypeOK
  <2> QED
    BY <2>1, FiringTypes DEF FiringInv
<1>3. batch' # {} => \A f \in fired : f.due <= tickNow'
  BY DEF Quiet, FiringInv
<1> QED
  BY <1>1, <1>2, <1>3 DEF FiringInv, Past

(* A copy that is replaced by one of the same firing.                      *)
LEMMA FiringReplaced ==
  ASSUME FiringInv, NEW c \in batch, NEW d, batch' = (batch \ {c}) \cup {d},
         d.job = c.job, d.ver = c.ver, d.due = c.due, d.got # "moved",
         UNCHANGED <<table, fired, tickNow, now>>
  PROVE  FiringInv'
<1>1. Firing(d) = Firing(c)
  BY DEF Firing
<1>2. UNCHANGED <<jobs, row, ver>>
  BY DEF table
<1> QED
  BY <1>1, <1>2 DEF FiringInv, Past, Firing

(* A reschedule moves the row past everything this pass has in hand.       *)
LEMMA RowMovesOn ==
  ASSUME TypeOK, FiringInv, NEW c \in batch, NEW t \in Nat, t = 0 \/ t > tickNow,
         SetNextRun(c.job, t), jobs' = jobs
  PROVE  /\ \A j \in Jobs \ jobs : row'[j].next = 0
         /\ \A j \in Jobs, x \in Nat : x <= tickNow /\ Past(j, x) => Past(j, x)'
         /\ \A x \in Nat : x <= tickNow => Past(c.job, x)'
<1>1. c.job \in Jobs
  BY FiringTypes
<1>2. CASE c.job \in jobs
  <2>1. row' = [row EXCEPT ![c.job].next = t]
    BY <1>2 DEF SetNextRun
  <2>2. row'[c.job].next = t
    BY <1>1, <2>1 DEF TypeOK, Row
  <2>3. \A j \in Jobs : j # c.job => row'[j].next = row[j].next
    BY <2>1 DEF TypeOK
  <2>4. \A x \in Nat : x <= tickNow => Past(c.job, x)'
    BY <2>2, FiringTypes DEF Past
  <2> QED
    BY <1>2, <2>3, <2>4 DEF FiringInv, Past
<1>3. CASE c.job \notin jobs
  BY <1>1, <1>3 DEF SetNextRun, FiringInv, Past
<1> QED
  BY <1>2, <1>3

LEMMA FiringRescheduled ==
  ASSUME TypeOK, FiringInv, CopiesInv, NEW c \in batch, NEW t \in Nat, t = 0 \/ t > tickNow,
         SetNextRun(c.job, t), UNCHANGED <<jobs, ver, fired, now>>,
         batch' \subseteq (batch \ {c}) \cup {Moved(c)}, batch' = {} \/ tickNow' = tickNow
  PROVE  FiringInv'
<1>1. /\ \A j \in Jobs \ jobs : row'[j].next = 0
      /\ \A j \in Jobs, x \in Nat : x <= tickNow /\ Past(j, x) => Past(j, x)'
      /\ \A x \in Nat : x <= tickNow => Past(c.job, x)'
  BY RowMovesOn
<1>2. Moved(c).job = c.job /\ Moved(c).ver = c.ver /\ Moved(c).due = c.due
  BY SameCopy
<1>3. \A f \in fired : f.due <= tickNow /\ f.job \in Jobs /\ f.due \in Nat
  BY FiringTypes DEF FiringInv
<1>4. \A d \in batch : d.due <= tickNow /\ d.job \in Jobs /\ d.due \in Nat
  BY FiringTypes DEF CopiesInv
<1>5. \A f \in fired : f.ver = ver[f.job] => Past(f.job, f.due)'
  BY <1>1, <1>3 DEF FiringInv
<1>6. \A d \in batch' : Firing(d) \notin fired
  BY <1>2 DEF FiringInv, Firing
<1>7. \A d \in batch' : d.got = "moved" /\ d.ver = ver[d.job] => Past(d.job, d.due)'
  BY <1>1, <1>2, <1>4 DEF FiringInv
<1>8. batch' # {} => \A f \in fired : f.due <= tickNow'
  BY <1>3
<1> QED
  BY <1>1, <1>5, <1>6, <1>7, <1>8 DEF FiringInv

(* A save gives the row a new version, a delete takes its firing time.     *)
LEMMA FiringSaved ==
  ASSUME TypeOK, TypeOK', FiringInv, CopiesInv, NEW c \in Clients, NEW j \in Jobs,
         CreateJob(c, j) \/ UpdateJob(c, j) \/ DeleteJob(c, j)
  PROVE  FiringInv'
<1>1. UNCHANGED <<now, batch, tickNow, fired>>
  BY DEF CreateJob, UpdateJob, DeleteJob, loop, clock
<1>2. \A i \in Jobs : i # j => row'[i] = row[i] /\ ver'[i] = ver[i] /\ (i \in jobs' <=> i \in jobs)
  BY DEF CreateJob, UpdateJob, DeleteJob, NewChildren, TypeOK
<1>3. CASE CreateJob(c, j) \/ UpdateJob(c, j)
  <2>1. ver'[j] = ver[j] + 1 /\ j \in jobs'
    BY <1>3 DEF CreateJob, UpdateJob, NewChildren, TypeOK
  <2>2. \A f \in fired : f.ver <= ver'[f.job] /\ (f.ver = ver'[f.job] => f.job # j)
    BY <1>2, <2>1, FiringTypes DEF FiringInv
  <2>3. \A d \in batch : d.ver = ver'[d.job] => d.job # j
    BY <1>2, <2>1, FiringTypes DEF CopiesInv
  <2> QED
    BY <1>1, <1>2, <2>1, <2>2, <2>3, FiringTypes DEF FiringInv, Past
<1>4. CASE DeleteJob(c, j)
  <2>1. row'[j].next = 0 /\ ver' = ver
    BY <1>4 DEF DeleteJob, NoRow, TypeOK
  <2> QED
    BY <1>1, <1>2, <2>1, FiringTypes DEF FiringInv, Past
<1> QED
  BY <1>3, <1>4

LEMMA FiringNext ==
  ASSUME TypeOK, TypeOK', FiringInv, CopiesInv, LoopInv, [Next]_vars
  PROVE  FiringInv'
<1>1. CASE Quiet
  BY <1>1, FiringQuiet, TimePasses
<1>2. CASE Wake
  <2>1. UNCHANGED <<now, jobs, row, ver, fired>>
    BY <1>2 DEF Wake, clock, table
  <2>2. ASSUME NEW d \in batch' PROVE d.got = "row" /\ Firing(d) \notin fired
    <3>1. PICK j \in Jobs : Due(j, now) /\ d = CopyOf(j)
      BY <1>2 DEF Wake
    <3>2. /\ d.got = "row" /\ Firing(d).job = j /\ Firing(d).ver = ver[j]
          /\ Firing(d).due = row[j].next /\ row[j].next # 0
      BY <3>1 DEF CopyOf, Due, Firing
    <3>3. ~Past(j, row[j].next)
      BY <3>2, FiringTypes DEF Past
    <3> QED
      BY <3>2, <3>3 DEF FiringInv
  <2>3. batch' # {} => tickNow' = now
    BY <1>2 DEF Wake
  <2> QED
    BY <2>1, <2>2, <2>3 DEF FiringInv, Past
<1>3. ASSUME NEW c \in batch, LoadDests(c) PROVE FiringInv'
  <2>1. batch' = (batch \ {c}) \cup {WithDests(c)} /\ UNCHANGED <<table, fired, tickNow, now>>
    BY <1>3 DEF LoadDests, Replace, WithDests, clock
  <2>2. WithDests(c).got # "moved"
    BY DEF WithDests, TypeOK, Copy
  <2> QED
    BY <2>1, <2>2, SameCopy, FiringReplaced
<1>4. ASSUME NEW c \in batch, LoadFilters(c) PROVE FiringInv'
  <2>1. batch' = (batch \ {c}) \cup {WithFilters(c)} /\ UNCHANGED <<table, fired, tickNow, now>>
    BY <1>4 DEF LoadFilters, Replace, WithFilters, clock
  <2>2. WithFilters(c).got # "moved"
    BY DEF WithFilters, TypeOK, Copy
  <2> QED
    BY <2>1, <2>2, SameCopy, FiringReplaced
<1>5. ASSUME NEW c \in batch, Reschedule(c) PROVE FiringInv'
  <2>1. /\ NextRun(c) \in Nat /\ (NextRun(c) = 0 \/ NextRun(c) > tickNow)
        /\ SetNextRun(c.job, NextRun(c)) /\ UNCHANGED <<jobs, ver, fired, now>>
    BY <1>5, RescheduleTypes DEF Reschedule, clock
  <2>2. batch' \subseteq (batch \ {c}) \cup {Moved(c)} /\ (batch' = {} \/ tickNow' = tickNow)
    BY <1>5, DoneShrinks DEF Reschedule, GoesOn, Replace, Moved
  <2> QED
    BY <2>1, <2>2, FiringRescheduled
<1>6. ASSUME NEW c \in batch, Unparsable(c) PROVE FiringInv'
  <2>1. SetNextRun(c.job, 0) /\ UNCHANGED <<jobs, ver, fired, now>>
    BY <1>6 DEF Unparsable, Cleared, clock
  <2>2. batch' \subseteq (batch \ {c}) \cup {Moved(c)} /\ (batch' = {} \/ tickNow' = tickNow)
    BY <1>6, DoneShrinks DEF Unparsable
  <2> QED
    BY <2>1, <2>2, FiringRescheduled
<1>7. ASSUME NEW c \in batch, StartScheduled(c) PROVE FiringInv'
  <2>1. /\ fired' = fired \cup {Firing(c)} /\ UNCHANGED <<jobs, row, ver, now>>
        /\ batch' \subseteq batch \ {c} /\ (batch' = {} \/ tickNow' = tickNow)
    BY <1>7, DoneShrinks DEF StartScheduled, table, clock
  <2>2. /\ Firing(c).job = c.job /\ Firing(c).ver = c.ver /\ Firing(c).due = c.due
        /\ c.ver <= ver[c.job] /\ c.due <= tickNow /\ tickNow <= now
    BY FiringTypes DEF Firing, CopiesInv, LoopInv
  <2>3. c.ver = ver[c.job] => Past(c.job, c.due)
    BY <1>7 DEF StartScheduled, At, FiringInv
  <2>4. ASSUME NEW d \in batch' PROVE Firing(d) \notin fired'
    <3>1. d.job # c.job
      BY <2>1 DEF CopiesInv
    <3> QED
      BY <2>1, <3>1 DEF Firing, FiringInv
  <2>5. c.due <= now
    BY <2>2, FiringTypes
  <2> QED
    BY <2>1, <2>2, <2>3, <2>4, <2>5 DEF FiringInv, Past
<1> QED
  BY <1>1, <1>2, <1>3, <1>4, <1>5, <1>6, <1>7, FiringSaved, StepKinds DEF Telling

-----------------------------------------------------------------------------
(* The children                                                            *)

LEMMA LoadedNext == ASSUME TypeOK, LoadedInv, [Next]_vars PROVE LoadedInv'
<1>1. CASE UNCHANGED <<pc, batch>> \/ pc' \in {"boot", "idle", "load", "off"}
  BY <1>1 DEF LoadedInv
<1>2. ASSUME NEW c \in batch, CopyStep(c) PROVE LoadedInv'
  <2>1. CASE LoadDests(c)
    BY <2>1 DEF LoadDests, LoadedInv
  <2>2. CASE LoadFilters(c)
    <3>1. WithFilters(c).got = "all"
      BY DEF WithFilters, TypeOK, Copy
    <3>2. batch' = (batch \ {c}) \cup {WithFilters(c)}
      BY <2>2 DEF LoadFilters, Replace, WithFilters
    <3>3. pc' = "job" => \A d \in batch \ {c} : d.got = "all"
      BY <2>2 DEF LoadFilters, Unread
    <3>4. pc' \in {"job", "load"}
      BY <2>2 DEF LoadFilters
    <3> QED
      BY <3>1, <3>2, <3>3, <3>4 DEF LoadedInv
  <2>3. CASE Done(c) /\ pc \in {"job", "overlap", "start"}
    BY <2>3, DoneShrinks DEF LoadedInv
  <2>4. CASE Reschedule(c) /\ GoesOn(c)
    <3>1. Moved(c).got = "moved"
      BY DEF Moved, TypeOK, Copy
    <3>2. batch' = (batch \ {c}) \cup {Moved(c)} /\ pc = "job"
      BY <2>4 DEF Reschedule, AtJob, GoesOn, Replace, Moved
    <3> QED
      BY <3>1, <3>2 DEF LoadedInv
  <2>5. CASE Overlap(c) /\ UNCHANGED batch
    BY <2>5 DEF Overlap, At, LoadedInv
  <2> QED
    BY <1>2, <2>1, <2>2, <2>3, <2>4, <2>5
       DEF CopyStep, Reschedule, Unparsable, RescheduleFails, GivesUp, Overlap,
           StartScheduled, StartRefused, StartFails, AtJob, At
<1>3. ASSUME NEW c \in Clients, ClientStep(c) PROVE UNCHANGED <<pc, batch>>
  BY <1>3, Zenon DEF ClientStep, Compute, SaveFails, CheckUpdate, CheckCreate, CheckDelete,
                     CreateJob, UpdateJob, DeleteJob, loop
<1>4. CASE Wake \/ DueFails \/ LoopReturns
  BY <1>1, <1>4 DEF Wake, DueFails, LoopReturns, Rest
<1>5. ASSUME NEW j \in Jobs, StartOther(j) \/ RunEnds(j) PROVE UNCHANGED <<pc, batch>>
  BY <1>5 DEF StartOther, RunEnds, loop
<1>6. CASE Advance \/ Signal \/ Down \/ Boot \/ UNCHANGED vars
  BY <1>1, <1>6 DEF Advance, Signal, Down, Boot, vars, loop
<1> QED
  BY <1>1, <1>2, <1>3, <1>4, <1>5, <1>6 DEF Next, LoopStep

LEMMA ChildrenInit == Init => ChildrenInv /\ LoadedInv
<1> SUFFICES ASSUME Init PROVE ChildrenInv /\ LoadedInv
  OBVIOUS
<1>1. ASSUME NEW j \in jobs PROVE ver[j] > 0
  <2>1. j \in Jobs /\ ver = [i \in Jobs |-> IF i \in jobs THEN 1 ELSE 0]
    BY DEF Init
  <2> QED
    BY <2>1
<1>2. batch = {}
  BY DEF Init
<1> QED
  BY <1>1, <1>2 DEF ChildrenInv, LoadedInv

(* A copy's children stay as they were read while saves and deletes go on. *)
LEMMA ChildrenStay ==
  ASSUME TypeOK, NEW c \in batch, \A j \in Jobs : ver'[j] \in Nat /\ ver[j] <= ver'[j],
         c.job \notin jobs => c.job \notin jobs'
  PROVE  (HasDests(c) => HasDests(c)') /\ (HasRules(c) => HasRules(c)')
<1>1. c.job \in Jobs /\ c.dests \in Nat /\ ver[c.job] \in Nat
  BY DEF TypeOK, Copy
<1> QED
  BY <1>1 DEF HasDests, HasRules

LEMMA ChildrenNext ==
  ASSUME TypeOK, CopiesInv, LoadedInv, ChildrenInv, Quiet \/ Telling
  PROVE  ChildrenInv'
<1>0. \A c \in batch : c \in Copy /\ c.job \in Jobs /\ ver[c.job] \in Nat /\ c.ver <= ver[c.job]
  BY DEF TypeOK, Copy, CopiesInv
<1>1. ASSUME batch' \subseteq batch, UNCHANGED <<jobs, ver>> PROVE ChildrenInv'
  BY <1>1 DEF ChildrenInv, HasDests, HasRules
<1>2. CASE Quiet
  BY <1>1, <1>2 DEF Quiet, table
<1>3. CASE Wake
  <2>1. \A c \in batch' : c.got = "row"
    BY <1>3 DEF Wake, CopyOf
  <2> QED
    BY <1>3, <2>1 DEF Wake, table, ChildrenInv
<1>4. ASSUME NEW c \in batch, LoadDests(c) PROVE ChildrenInv'
  <2>1. batch' = (batch \ {c}) \cup {WithDests(c)} /\ UNCHANGED <<jobs, ver>>
    BY <1>4 DEF LoadDests, Replace, WithDests, table
  <2>2. /\ WithDests(c).got = "dests" /\ WithDests(c).dests = Children(c.job)
        /\ WithDests(c).job = c.job /\ WithDests(c).ver = c.ver
    BY <1>0 DEF WithDests, Copy
  <2>3. HasDests(WithDests(c))
    BY <1>0, <2>2 DEF HasDests, Children, ChildrenInv
  <2> QED
    BY <2>1, <2>2, <2>3 DEF ChildrenInv, HasDests, HasRules
<1>5. ASSUME NEW c \in batch, LoadFilters(c) PROVE ChildrenInv'
  <2>1. batch' = (batch \ {c}) \cup {WithFilters(c)} /\ UNCHANGED <<jobs, ver>>
    BY <1>5 DEF LoadFilters, Replace, WithFilters, table
  <2>2. /\ WithFilters(c).got = "all" /\ WithFilters(c).filters = Children(c.job)
        /\ WithFilters(c).job = c.job /\ WithFilters(c).ver = c.ver
        /\ WithFilters(c).dests = c.dests
    BY <1>0 DEF WithFilters, RulesOf, Copy
  <2>3. HasDests(c)
    BY <1>5 DEF LoadFilters, Begun, ChildrenInv
  <2>4. HasDests(WithFilters(c)) /\ HasRules(WithFilters(c))
    BY <1>0, <2>2, <2>3 DEF HasDests, HasRules, Children, ChildrenInv
  <2> QED
    BY <2>1, <2>2, <2>4 DEF ChildrenInv, HasDests, HasRules
<1>6. ASSUME NEW c \in batch, Reschedule(c) PROVE ChildrenInv'
  <2>1. UNCHANGED <<jobs, ver>> /\ pc = "job"
    BY <1>6 DEF Reschedule, AtJob
  <2>2. CASE Done(c)
    BY <1>1, <2>1, <2>2, DoneShrinks
  <2>3. CASE GoesOn(c)
    <3>1. batch' = (batch \ {c}) \cup {Moved(c)}
      BY <2>3 DEF GoesOn, Replace, Moved
    <3>2. /\ Moved(c).job = c.job /\ Moved(c).ver = c.ver /\ Moved(c).dests = c.dests
          /\ Moved(c).filters = c.filters
      BY <1>0 DEF Moved, Copy
    <3>3. c.got \in {"all", "moved"}
      BY <2>1 DEF LoadedInv
    <3>4. HasDests(Moved(c)) /\ HasRules(Moved(c))
      BY <3>2, <3>3 DEF ChildrenInv, HasDests, HasRules
    <3> QED
      BY <2>1, <3>1, <3>4 DEF ChildrenInv, HasDests, HasRules
  <2> QED
    BY <1>6, <2>2, <2>3 DEF Reschedule
<1>7. ASSUME NEW c \in batch, Unparsable(c) \/ StartScheduled(c) PROVE ChildrenInv'
  BY <1>1, <1>7, DoneShrinks DEF Unparsable, StartScheduled, table
<1>8. ASSUME NEW c \in Clients, NEW j \in Jobs,
             CreateJob(c, j) \/ UpdateJob(c, j) \/ DeleteJob(c, j)
      PROVE  ChildrenInv'
  <2>1. batch' = batch
    BY <1>8 DEF CreateJob, UpdateJob, DeleteJob, loop
  <2>2. \A i \in Jobs : ver'[i] \in Nat /\ ver[i] <= ver'[i]
    BY <1>8 DEF CreateJob, UpdateJob, DeleteJob, NewChildren, TypeOK
  <2>3. \A i \in jobs' : ver'[i] > 0
    BY <1>8 DEF CreateJob, UpdateJob, DeleteJob, NewChildren, TypeOK, ChildrenInv
  <2>4. ASSUME NEW d \in batch, d.job \notin jobs PROVE d.job \notin jobs'
    <3>1. ver[d.job] # 0
      BY <1>0 DEF CopiesInv
    <3> QED
      BY <1>8, <2>4, <3>1 DEF CreateJob, UpdateJob, DeleteJob
  <2> QED
    BY <2>1, <2>2, <2>3, <2>4, ChildrenStay DEF ChildrenInv
<1> QED
  BY <1>2, <1>3, <1>4, <1>5, <1>6, <1>7, <1>8 DEF Telling

-----------------------------------------------------------------------------
(* Missed firings                                                          *)

LEMMA MissedInit == Init => MissedInv
<1> SUFFICES ASSUME Init PROVE MissedInv
  OBVIOUS
<1>1. pc = "boot" /\ client = [c \in Clients |-> IdleClient]
  BY DEF Init
<1> QED
  BY <1>1 DEF MissedInv, SavesInv, Started, IdleClient

(* What a request is about to save fires after the process started.        *)
LEMMA SavesNext == ASSUME TypeOK, LoopInv, SavesInv, [Next]_vars PROVE SavesInv'
<1>1. CASE client' = client /\ UNCHANGED <<life, bootAt>>
  BY <1>1 DEF SavesInv
<1>2. ASSUME NEW c \in Clients, ClientStep(c) PROVE SavesInv'
  <2>0. UNCHANGED <<life, bootAt>>
    BY <1>2, Zenon DEF ClientStep, Compute, SaveFails, CheckUpdate, CheckCreate, CheckDelete,
                       CreateJob, UpdateJob, DeleteJob, clock
  <2>1. CASE Compute(c)
    <3>1. PICK s \in Forms :
            client' = [client EXCEPT ![c].at = "saving",
                         ![c].row = WithNext(s, RefreshNextRun(s.cron, s.enabled, now))]
      BY <2>1 DEF Compute
    <3>2. /\ RefreshNextRun(s.cron, s.enabled, now) \in Nat
          /\ \/ RefreshNextRun(s.cron, s.enabled, now) = 0
             \/ RefreshNextRun(s.cron, s.enabled, now) > now
      BY RefreshIsLater DEF TypeOK
    <3>3. client'[c].row.next = RefreshNextRun(s.cron, s.enabled, now)
      BY <3>1 DEF WithNext, TypeOK, Client
    <3>4. client'[c].row.next = 0 \/ client'[c].row.next > bootAt
      BY <3>2, <3>3 DEF LoopInv, TypeOK
    <3>5. \A d \in Clients : d # c => client'[d] = client[d]
      BY <3>1 DEF TypeOK
    <3>6. life # "down"
      BY <2>1 DEF Compute, Serving
    <3> QED
      BY <2>0, <3>4, <3>5, <3>6 DEF SavesInv
  <2>2. ASSUME NEW x \in Client, x.at # "saving", client' = [client EXCEPT ![c] = x]
        PROVE  SavesInv'
    BY <2>0, <2>2 DEF SavesInv, TypeOK
  <2>3. IdleClient \in Client /\ IdleClient.at # "saving"
    BY DEF IdleClient, Client, NoRow, Row, Crons
  <2>4. ASSUME NEW j \in Jobs
        PROVE  /\ [IdleClient EXCEPT !.at = "checked", !.job = j] \in Client
               /\ [IdleClient EXCEPT !.at = "checked", !.job = j].at # "saving"
               /\ [IdleClient EXCEPT !.at = "deleting", !.job = j] \in Client
               /\ [IdleClient EXCEPT !.at = "deleting", !.job = j].at # "saving"
    BY DEF IdleClient, Client, NoRow, Row, Crons
  <2>5. CASE SaveFails(c)
    BY <2>2, <2>3, <2>5 DEF SaveFails
  <2>6. ASSUME NEW j \in Jobs, CheckUpdate(c, j) \/ CheckCreate(c, j) \/ CheckDelete(c, j)
        PROVE  SavesInv'
    BY <2>2, <2>4, <2>6 DEF CheckUpdate, CheckCreate, CheckDelete
  <2>7. ASSUME NEW j \in Jobs, CreateJob(c, j) \/ UpdateJob(c, j) \/ DeleteJob(c, j)
        PROVE  SavesInv'
    BY <2>2, <2>3, <2>7 DEF CreateJob, UpdateJob, DeleteJob
  <2> QED
    BY <1>2, <2>1, <2>5, <2>6, <2>7 DEF ClientStep
<1>3. CASE Signal
  BY <1>3 DEF Signal, SavesInv
<1>4. CASE Down
  BY <1>4 DEF Down, SavesInv, IdleClient
<1>5. CASE Boot
  BY <1>5 DEF Boot, SavesInv
<1> QED
  BY <1>1, <1>2, <1>3, <1>4, <1>5, Zenon
     DEF Next, vars, LoopStep, CopyStep, Wake, DueFails, LoopReturns, LoadDests,
         LoadFilters, Reschedule, Unparsable, RescheduleFails, Overlap, StartScheduled,
         StartRefused, StartFails, StartOther, RunEnds, Advance, clock

LEMMA InHandKept ==
  ASSUME InHand, bootAt' = bootAt, catching' <=> catching,
         \A j \in Jobs : Missed(j)' => Missed(j),
         \A c \in batch : Missed(c.job)' => \E d \in batch' : d.job = c.job,
         \A d \in batch' : \E c \in batch : c.due = d.due
  PROVE  InHand'
<1>1. ASSUME NEW j \in Jobs, Missed(j)' PROVE catching' /\ \E c \in batch' : c.job = j
  BY <1>1 DEF InHand
<1>2. ~catching' => \A d \in batch' : d.due > bootAt'
  BY DEF InHand
<1> QED
  BY <1>1, <1>2 DEF InHand

LEMMA SameMissed ==
  ASSUME UNCHANGED <<jobs, row, bootAt>>, NEW j PROVE Missed(j)' <=> Missed(j)
BY DEF Missed

(* Nothing is missed outside the pass at startup, so ending it is safe.    *)
LEMMA InHandAfter ==
  ASSUME InHand, ~catching, bootAt' = bootAt, ~catching', batch' \subseteq batch,
         \A j \in Jobs : Missed(j)' => Missed(j)
  PROVE  InHand'
BY DEF InHand

(* A reschedule takes its job out of what is missed.                       *)
LEMMA RescheduledNotMissed ==
  ASSUME TypeOK, LoopInv, NEW c \in batch, NEW t \in Nat, t = 0 \/ t > tickNow,
         SetNextRun(c.job, t), UNCHANGED <<jobs, bootAt>>
  PROVE  /\ ~Missed(c.job)'
         /\ \A j \in Jobs : Missed(j)' => Missed(j)
<1>1. c.job \in Jobs /\ bootAt <= tickNow /\ bootAt \in Nat /\ tickNow \in Nat
  BY DEF TypeOK, Copy, LoopInv
<1>2. CASE c.job \in jobs
  <2>1. row' = [row EXCEPT ![c.job].next = t]
    BY <1>2 DEF SetNextRun
  <2>2. row'[c.job].next = t
    BY <1>1, <2>1 DEF TypeOK, Row
  <2>3. \A j \in Jobs : j # c.job => row'[j] = row[j]
    BY <2>1 DEF TypeOK
  <2>4. ~Missed(c.job)'
    BY <1>1, <2>2 DEF Missed
  <2> QED
    BY <2>3, <2>4 DEF Missed
<1>3. CASE c.job \notin jobs
  BY <1>3 DEF SetNextRun, Missed
<1> QED
  BY <1>2, <1>3

LEMMA InHandHandled ==
  ASSUME TypeOK, InHand, NEW c \in batch, bootAt' = bootAt, ~Missed(c.job)', Done(c),
         \A j \in Jobs : Missed(j)' => Missed(j)
  PROVE  InHand'
<1>1. CASE batch = {c}
  <2>1. batch' = {}
    BY <1>1 DEF Done, Rest
  <2>2. \A j \in Jobs : ~Missed(j)'
    BY <1>1 DEF InHand
  <2> QED
    BY <2>1, <2>2 DEF InHand
<1>2. CASE batch # {c}
  <2>1. batch' = batch \ {c} /\ (catching' <=> catching)
    BY <1>2 DEF Done
  <2>2. \A d \in batch : Missed(d.job)' => \E e \in batch' : e.job = d.job
    BY <2>1
  <2> QED
    BY <2>1, <2>2, InHandKept
<1> QED
  BY <1>1, <1>2

LEMMA InHandCopy ==
  ASSUME TypeOK, LoopInv, InHand, NEW c \in batch, CopyStep(c), ~skipped'
  PROVE  InHand'
<1>0. bootAt' = bootAt
  BY DEF CopyStep, LoadDests, LoadFilters, Reschedule, Unparsable, RescheduleFails,
         Overlap, StartScheduled, StartRefused, StartFails, clock
<1>1. ASSUME NEW d, batch' = (batch \ {c}) \cup {d}, d.job = c.job, d.due = c.due,
             catching' <=> catching, \A j \in Jobs : Missed(j)' => Missed(j)
      PROVE  InHand'
  <2>1. \A e \in batch : \E f \in batch' : f.job = e.job
    BY <1>1
  <2>2. \A e \in batch' : \E f \in batch : f.due = e.due
    BY <1>1
  <2> QED
    BY <1>0, <1>1, <2>1, <2>2, InHandKept
<1>2. CASE LoadDests(c)
  <2>1. batch' = (batch \ {c}) \cup {WithDests(c)} /\ UNCHANGED <<jobs, row, catching>>
    BY <1>2 DEF LoadDests, Replace, WithDests, table
  <2> QED
    BY <1>0, <1>1, <2>1, SameCopy, SameMissed
<1>3. CASE LoadFilters(c)
  <2>1. batch' = (batch \ {c}) \cup {WithFilters(c)} /\ UNCHANGED <<jobs, row, catching>>
    BY <1>3 DEF LoadFilters, Replace, WithFilters, table
  <2> QED
    BY <1>0, <1>1, <2>1, SameCopy, SameMissed
<1>4. CASE Reschedule(c)
  <2>1. ~Missed(c.job)' /\ \A j \in Jobs : Missed(j)' => Missed(j)
    BY <1>0, <1>4, RescheduleTypes, RescheduledNotMissed DEF Reschedule
  <2>2. CASE Done(c)
    BY <1>0, <2>1, <2>2, InHandHandled
  <2>3. CASE GoesOn(c)
    <3>1. batch' = (batch \ {c}) \cup {Moved(c)} /\ UNCHANGED catching
      BY <2>3 DEF GoesOn, Replace, Moved
    <3> QED
      BY <1>1, <2>1, <3>1, SameCopy
  <2> QED
    BY <1>4, <2>2, <2>3 DEF Reschedule
<1>5. CASE Unparsable(c)
  <2>1. ~Missed(c.job)' /\ \A j \in Jobs : Missed(j)' => Missed(j)
    BY <1>0, <1>5, RescheduledNotMissed DEF Unparsable, Cleared
  <2> QED
    BY <1>0, <1>5, <2>1, InHandHandled DEF Unparsable
<1>6. ASSUME Done(c), ~catching, UNCHANGED <<jobs, row>> PROVE InHand'
  <2>1. ~catching'
    <3>1. CASE batch = {c}
      BY <1>6, <3>1, Zenon DEF Done, Rest
    <3>2. CASE batch # {c}
      BY <1>6, <3>2 DEF Done
    <3> QED
      BY <3>1, <3>2
  <2> QED
    BY <1>0, <1>6, <2>1, DoneShrinks, SameMissed, InHandAfter
<1>7. CASE RescheduleFails(c)
  <2>1. ~catching
    BY <1>7, Zenon DEF RescheduleFails
  <2> QED
    BY <1>6, <1>7, <2>1 DEF RescheduleFails, GivesUp, table
<1>8. CASE Overlap(c)
  <2>1. ~catching
    BY <1>8 DEF Overlap, At, LoopInv
  <2>2. CASE Done(c)
    BY <1>6, <1>8, <2>1, <2>2 DEF Overlap, table
  <2>3. CASE UNCHANGED <<catching, batch>>
    BY <1>0, <1>8, <2>1, <2>3, SameMissed, InHandAfter DEF Overlap, table
  <2> QED
    BY <1>8, <2>2, <2>3 DEF Overlap
<1>9. CASE StartScheduled(c) \/ StartRefused(c) \/ StartFails(c)
  <2>1. ~catching
    BY <1>9 DEF StartScheduled, StartRefused, StartFails, At, LoopInv
  <2> QED
    BY <1>6, <1>9, <2>1 DEF StartScheduled, StartRefused, StartFails, table
<1> QED
  BY <1>2, <1>3, <1>4, <1>5, <1>7, <1>8, <1>9 DEF CopyStep

(* A pass at startup takes everything that was missed, a later one nothing.*)
LEMMA InHandWake ==
  ASSUME TypeOK, LoopInv, Started => InHand, Started', Wake PROVE InHand'
<1>1. UNCHANGED <<jobs, row, ver, bootAt, now, life, skipped>> /\ life = "up"
  BY DEF Wake, clock, table
<1>2. ASSUME NEW j \in Jobs, Missed(j) PROVE Due(j, now)
  <2>1. row[j].next \in Nat
    BY DEF TypeOK, Row
  <2> QED
    BY <1>2, <2>1 DEF Missed, Due, LoopInv, TypeOK
<1>3. ASSUME NEW j \in Jobs, Due(j, now) PROVE \E d \in batch' : d.job = j
  <2>1. CopyOf(j) \in batch'
    BY <1>3 DEF Wake
  <2>2. CopyOf(j).job = j
    BY DEF CopyOf
  <2> QED
    BY <2>1, <2>2
<1>4. ASSUME NEW d \in batch' PROVE \E j \in Jobs : Due(j, now) /\ d.due = row[j].next
  BY DEF Wake, CopyOf
<1>5. CASE pc = "boot"
  <2>1. batch' # {} => catching'
    BY <1>5, Zenon DEF Wake, AtBoot
  <2> QED
    BY <1>1, <1>2, <1>3, <2>1, SameMissed DEF InHand
<1>6. CASE pc # "boot"
  <2>1. InHand /\ ~catching
    BY <1>1, <1>6 DEF Started, LoopInv, Wake
  <2>2. \A j \in Jobs : ~Missed(j)
    BY <2>1 DEF InHand
  <2>3. \A d \in batch' : d.due > bootAt
    BY <1>4, <2>2 DEF Missed, Due, TypeOK, Row
  <2> QED
    BY <1>1, <2>2, <2>3, SameMissed DEF InHand
<1> QED
  BY <1>5, <1>6

LEMMA MissedNext ==
  ASSUME TypeOK, LoopInv, MissedInv, [Next]_vars PROVE MissedInv'
<1>0. SavesInv'
  BY SavesNext DEF MissedInv
<1> SUFFICES ASSUME Started' PROVE InHand'
  BY <1>0 DEF MissedInv
<1>1. ASSUME UNCHANGED <<batch, catching, jobs, row, bootAt>>, Started PROVE InHand'
  <2>1. InHand
    BY <1>1 DEF MissedInv
  <2>2. \A j \in Jobs : Missed(j)' <=> Missed(j)
    BY <1>1, SameMissed
  <2> QED
    BY <1>1, <2>1, <2>2 DEF InHand
<1>2. CASE UNCHANGED vars
  BY <1>1, <1>2 DEF vars, loop, table, clock, Started
<1>3. CASE Wake
  BY <1>3, InHandWake DEF MissedInv
<1>4. CASE DueFails
  <2>1. ~skipped /\ ~catching /\ pc # "boot" /\ life # "down"
    BY <1>4, Zenon DEF DueFails, Started, AtBoot
  <2>2. ~catching' /\ batch' = {}
    BY <1>4, Zenon DEF DueFails, Rest
  <2>3. InHand /\ UNCHANGED <<jobs, row, bootAt>>
    BY <1>4, <2>1 DEF MissedInv, Started, DueFails, table
  <2> QED
    BY <2>1, <2>2, <2>3, SameMissed, InHandAfter
<1>5. CASE LoopReturns
  BY <1>1, <1>5 DEF LoopReturns, table, clock, Started
<1>6. ASSUME NEW c \in batch, CopyStep(c) PROVE InHand'
  <2>1. life # "down" /\ pc # "boot"
    BY DEF LoopInv
  <2>2. skipped => skipped'
    BY <1>6, Zenon DEF CopyStep, LoadDests, LoadFilters, Reschedule, Unparsable,
         RescheduleFails, Overlap, StartScheduled, StartRefused, StartFails, clock
  <2> QED
    BY <1>6, <2>1, <2>2, InHandCopy DEF Started, MissedInv
<1>7. ASSUME NEW c \in Clients, ClientStep(c) PROVE InHand'
  <2>1. UNCHANGED <<pc, batch, catching, life, skipped, bootAt>>
    BY <1>7, Zenon DEF ClientStep, Compute, SaveFails, CheckUpdate, CheckCreate, CheckDelete,
                       CreateJob, UpdateJob, DeleteJob, clock, loop
  <2>2. Started /\ InHand
    BY <2>1 DEF Started, MissedInv
  <2>3. CASE UNCHANGED table
    BY <1>1, <2>1, <2>2, <2>3 DEF table
  <2>4. ASSUME NEW j \in Jobs, CreateJob(c, j) \/ UpdateJob(c, j) \/ DeleteJob(c, j)
        PROVE  InHand'
    <3>1. \A i \in Jobs : i # j => row'[i] = row[i] /\ (i \in jobs' => i \in jobs)
      BY <2>4 DEF CreateJob, UpdateJob, DeleteJob, TypeOK
    <3>2. ~Missed(j)'
      <4>1. CASE CreateJob(c, j) \/ UpdateJob(c, j)
        <5>1. row'[j] = client[c].row /\ client[c].at = "saving"
          BY <4>1 DEF CreateJob, UpdateJob, Saving, TypeOK
        <5>2. client[c].row.next = 0 \/ client[c].row.next > bootAt
          BY <5>1 DEF MissedInv, SavesInv
        <5>3. client[c].row.next \in Nat /\ bootAt \in Nat
          BY DEF TypeOK, Client, Row
        <5> QED
          BY <2>1, <5>1, <5>2, <5>3 DEF Missed
      <4>2. CASE DeleteJob(c, j)
        BY <4>2 DEF DeleteJob, Missed
      <4> QED
        BY <2>4, <4>1, <4>2
    <3>3. \A i \in Jobs : Missed(i)' => Missed(i)
      BY <2>1, <3>1, <3>2 DEF Missed
    <3> QED
      BY <2>1, <2>2, <3>3, InHandKept
  <2> QED
    BY <1>7, <2>3, <2>4, Zenon
       DEF ClientStep, Compute, SaveFails, CheckUpdate, CheckCreate, CheckDelete
<1>8. ASSUME NEW j \in Jobs, StartOther(j) \/ RunEnds(j) PROVE InHand'
  BY <1>1, <1>8 DEF StartOther, RunEnds, clock, loop, table, Started
<1>9. CASE Advance
  BY <1>1, <1>9 DEF Advance, loop, table, Started
<1>10. CASE Signal
  BY <1>1, <1>10 DEF Signal, loop, table, Started
<1>11. CASE Down \/ Boot
  BY <1>11 DEF Down, Boot, Started
<1> QED
  BY <1>2, <1>3, <1>4, <1>5, <1>6, <1>7, <1>8, <1>9, <1>10, <1>11 DEF Next, LoopStep

-----------------------------------------------------------------------------
(* The invariant, and what it shows                                        *)

LEMMA InvHolds == Spec => [](TypeOK /\ Inv)
<1>1. Init => TypeOK /\ Inv
  BY InitTypes, LoopInit, CopiesInit, FiringInit, ChildrenInit, MissedInit DEF Inv
<1>2. TypeOK /\ Inv /\ [Next]_vars => (TypeOK /\ Inv)'
  <2> SUFFICES ASSUME TypeOK, Inv, [Next]_vars PROVE (TypeOK /\ Inv)'
    OBVIOUS
  <2>0. LoopInv /\ CopiesInv /\ FiringInv /\ LoadedInv /\ ChildrenInv /\ MissedInv
    BY DEF Inv
  <2>1. TypeOK' /\ LoopInv' /\ LoadedInv' /\ MissedInv'
    BY <2>0, NextTypes, LoopNext, LoadedNext, MissedNext
  <2>2. FiringInv'
    BY <2>0, <2>1, FiringNext
  <2>3. \A j \in jobs : ver[j] > 0
    BY <2>0 DEF ChildrenInv
  <2>4. CopiesInv' /\ ChildrenInv'
    BY <2>0, <2>3, StepKinds, CopiesNext, ChildrenNext
  <2> QED
    BY <2>1, <2>2, <2>4 DEF Inv
<1> QED
  BY <1>1, <1>2, PTL DEF Spec

(* Only StartScheduled adds to the history.                                *)
LEMMA FiredByStart ==
  ASSUME [Next]_vars, NEW f \in fired' \ fired
  PROVE  \E c \in batch : StartScheduled(c) /\ f = Firing(c)
<1>1. CASE Quiet
  BY <1>1 DEF Quiet
<1>2. CASE Telling
  BY <1>2 DEF Telling, Wake, LoadDests, LoadFilters, Reschedule, Unparsable, StartScheduled,
              CreateJob, UpdateJob, DeleteJob
<1> QED
  BY <1>1, <1>2, StepKinds

(* No firing is ever started twice: when a copy reaches its start, its row *)
(* has been moved past it and nothing has been started from it, for any    *)
(* number of jobs, faults, shutdowns and edits.                            *)
THEOREM FiringsRunOnce == Spec => []FiringRunsOnce
<1>1. Inv => FiringRunsOnce
  BY DEF Inv, FiringInv, FiringRunsOnce
<1> QED
  BY <1>1, InvHolds, PTL

(* A process never starts what came due before it: catchUpMissed has every *)
(* such job in hand before the first tick, and a save names a later time.  *)
THEOREM MissedStayMissed == Spec => MissedDoNotRun
<1>1. ASSUME TypeOK, Inv, [Next]_vars
      PROVE  \A c \in fired' \ fired : c.due > bootAt \/ skipped
  <2> SUFFICES ASSUME NEW f \in fired' \ fired, ~skipped PROVE f.due > bootAt
    OBVIOUS
  <2>1. PICK c \in batch : StartScheduled(c) /\ f = Firing(c)
    BY <1>1, FiredByStart
  <2>2. Started /\ ~catching
    BY <1>1, <2>1 DEF StartScheduled, At, Started, Inv, LoopInv
  <2>3. c.due > bootAt
    BY <1>1, <2>2 DEF Inv, MissedInv, InHand
  <2> QED
    BY <2>1, <2>3 DEF Firing
<1>2. TypeOK /\ Inv /\ [Next]_vars => [\A c \in fired' \ fired : c.due > bootAt \/ skipped]_vars
  BY <1>1
<1> QED
  BY <1>2, InvHolds, PTL DEF Spec, MissedDoNotRun

(* A scheduled run never goes without the destinations and rules of its    *)
(* job, however its edits and deletes fall between DueJobs' three reads.   *)
THEOREM ScheduledRunsHaveRules == Spec => RunsWithItsRules
<1>1. ASSUME TypeOK, Inv, [Next]_vars
      PROVE  \A c \in batch \ batch' : Firing(c) \in fired' \ fired =>
               0 < c.ver /\ c.ver <= c.dests /\ c.dests <= c.filters
  <2> SUFFICES ASSUME NEW c \in batch \ batch', Firing(c) \in fired' \ fired
               PROVE  0 < c.ver /\ c.ver <= c.dests /\ c.dests <= c.filters
    OBVIOUS
  <2>1. PICK d \in batch : StartScheduled(d) /\ Firing(c) = Firing(d)
    BY <1>1, FiredByStart
  <2>2. c = d
    <3>1. c.job = d.job
      BY <2>1 DEF Firing
    <3> QED
      BY <1>1, <3>1 DEF Inv, CopiesInv
  <2>3. c.got = "moved" /\ c.dests # 0 /\ c.job \in jobs
    BY <2>1, <2>2 DEF StartScheduled, At, MayCreate
  <2>4. HasDests(c) /\ HasRules(c)
    BY <1>1, <2>3 DEF Inv, ChildrenInv
  <2>5. 0 < c.ver
    BY <1>1, FiringTypes DEF Inv, CopiesInv
  <2> QED
    BY <2>3, <2>4, <2>5 DEF HasDests, HasRules
<1>2. TypeOK /\ Inv /\ [Next]_vars =>
        [\A c \in batch \ batch' : Firing(c) \in fired' \ fired =>
           0 < c.ver /\ c.ver <= c.dests /\ c.dests <= c.filters]_vars
  BY <1>1
<1> QED
  BY <1>2, InvHolds, PTL DEF Spec, RunsWithItsRules
=============================================================================
