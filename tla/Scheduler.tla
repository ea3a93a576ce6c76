----------------------------- MODULE Scheduler -----------------------------
(***************************************************************************)
(* Cron schedules: internal/scheduler/scheduler.go, the next_run_at column *)
(* it advances (internal/store/schedule.go) and the handlers that create,  *)
(* replace and delete a job beside it (internal/api/jobs.go and            *)
(* internal/store/jobs.go).  The loop works from copies: DueJobs reads the *)
(* rows, then each job's destinations, then its filter rules, with no      *)
(* transaction around them, and SetNextRun writes to whatever row the id   *)
(* has by then.  A save is told apart from others by its number.           *)
(*                                                                         *)
(* A start is one step here; Runner takes it apart.  The cron library is   *)
(* external, and 0 is its zero time: no next firing.                       *)
(***************************************************************************)
EXTENDS Naturals

CONSTANTS
  Jobs,                \* job ids; one that was deleted is never minted again
  Clients,             \* API requests in progress
  Exprs,               \* the expressions ParseSchedule accepts
  Broken,              \* one it rejects, written by some other route
  Forms,               \* the schedules and enabled flags a client may save
  NextFiring(_, _),    \* cron's Next: the first firing after a time, or 0
  MaxTime,             \* bound: the clock
  MaxSaves,            \* bound: saves of one job
  MaxDowns,            \* bound: shutdowns and crashes
  MaxFaults            \* bound: failed statements

Blank == "blank"       \* the empty expression: not scheduled
None  == "none"

ASSUME SchedulerAssumption ==
  /\ Broken \notin Exprs /\ Blank \notin Exprs /\ Broken # Blank
  /\ None \notin Jobs
  /\ Forms \subseteq [cron : Exprs \cup {Blank}, enabled : BOOLEAN]
  /\ MaxTime \in Nat /\ MaxSaves \in Nat \ {0} /\ MaxDowns \in Nat /\ MaxFaults \in Nat
  /\ \A e \in Exprs, t \in 0 .. MaxTime :
       NextFiring(e, t) \in Nat /\ (NextFiring(e, t) = 0 \/ NextFiring(e, t) > t)

VARIABLES
  now,        \* the wall clock
  life,       \* the process: up, closing (signalled) or down
  bootAt,     \* when the process started
  skipped,    \* catchUpMissed could not do its work (history)
  downs, faults,
  jobs,       \* the ids in the jobs table
  row,        \* their schedule_cron, enabled and next_run_at
  ver,        \* how many saves each job has seen: the children's version too
  running,    \* the jobs with a run
  client,     \* the requests
  pc,         \* the loop: boot, idle, load, job, overlap, start, off
  catching,   \* it is in catchUpMissed, not in Tick
  tickNow,    \* the `now` of that pass
  batch,      \* the copies DueJobs returned that are still to be handled
  fired       \* the firings that were started (history)

clock == <<now, life, bootAt, skipped, downs>>
table == <<jobs, row, ver>>
loop  == <<pc, catching, tickNow, batch>>
vars  == <<clock, faults, table, running, client, loop, fired>>

Crons == Exprs \cup {Blank}
Row   == [cron : Crons \cup {Broken}, enabled : BOOLEAN, next : Nat]
NoRow == [cron |-> Blank, enabled |-> FALSE, next |-> 0]

(* RefreshNextRun of a job about to be saved.                              *)
RefreshNextRun(cron, enabled, t) ==
  IF enabled /\ cron # Blank THEN NextFiring(cron, t) ELSE 0

IdleClient == [at |-> "idle", job |-> None, row |-> NoRow]
Client == [at : {"idle", "checked", "saving", "deleting"}, job : Jobs \cup {None}, row : Row]

(* A copy of a due job, by how far it has come: the row, the children, its *)
(* reschedule.                                                             *)
Copy == [job : Jobs, cron : Exprs \cup {Broken}, due : Nat, ver : Nat,
         got : {"row", "dests", "all", "moved"}, dests : Nat, filters : Nat]

(* A firing: a due time under one save of the job.                         *)
Firing(c) == [job |-> c.job, ver |-> c.ver, due |-> c.due]

(* What the table may hold when the process starts.                        *)
Settings == Forms \cup {[cron |-> Broken, enabled |-> TRUE]}

WithNext(s, t) == [cron |-> s.cron, enabled |-> s.enabled, next |-> t]

Init ==
  /\ now = 0 /\ life = "up" /\ bootAt = 0 /\ skipped = FALSE /\ downs = 0 /\ faults = 0
  /\ jobs \in SUBSET Jobs
  /\ ver = [j \in Jobs |-> IF j \in jobs THEN 1 ELSE 0]
  /\ \E s \in [Jobs -> Settings], t \in 0 .. MaxTime :
       row = [j \in Jobs |->
                IF j \notin jobs THEN NoRow
                ELSE WithNext(s[j], IF s[j].cron = Broken THEN t
                                    ELSE RefreshNextRun(s[j].cron, s[j].enabled, 0))]
  /\ running = {} /\ client = [c \in Clients |-> IdleClient]
  /\ pc = "boot" /\ catching = FALSE /\ tickNow = 0 /\ batch = {} /\ fired = {}

-----------------------------------------------------------------------------
(* DueJobs                                                                 *)

Due(j, t) ==
  /\ j \in jobs /\ row[j].enabled /\ row[j].cron # Blank
  /\ row[j].next # 0 /\ row[j].next <= t

CopyOf(j) == [job |-> j, cron |-> row[j].cron, due |-> row[j].next, ver |-> ver[j],
              got |-> "row", dests |-> 0, filters |-> 0]

(* The first pass of a process is catchUpMissed.                           *)
NoCatchUp == FALSE
AtBoot    == pc = "boot"

(* The ticker, or the pass at startup: the rows that are due.              *)
Wake ==
  /\ life = "up" /\ pc \in {"boot", "idle"}
  /\ batch' = { CopyOf(j) : j \in { i \in Jobs : Due(i, now) } }
  /\ IF batch' = {} THEN pc' = "idle" /\ UNCHANGED <<catching, tickNow>>
     ELSE pc' = "load" /\ catching' = AtBoot /\ tickNow' = now
  /\ UNCHANGED <<clock, faults, table, running, client, fired>>

Oldest(c, among) == c \in among /\ \A d \in among : c.due <= d.due
Unread == { c \in batch : c.got # "all" }
Begun  == { c \in batch : c.got = "dests" }

Replace(c, d) == batch' = (batch \ {c}) \cup {d}

(* A deleted job's children went with it: its lists come back empty.       *)
Children(j) == IF j \in jobs THEN ver[j] ELSE 0

LoadDests(c) ==
  /\ life = "up" /\ pc = "load" /\ Begun = {} /\ Oldest(c, Unread)
  /\ Replace(c, [c EXCEPT !.got = "dests", !.dests = Children(c.job)])
  /\ UNCHANGED <<clock, faults, table, running, client, pc, catching, tickNow, fired>>

WithoutRules(j) == 0
RulesOf(j)      == Children(j)

LoadFilters(c) ==
  /\ life = "up" /\ pc = "load" /\ c \in Begun
  /\ Replace(c, [c EXCEPT !.got = "all", !.filters = RulesOf(c.job)])
  /\ pc' = IF Unread = {c} THEN "job" ELSE "load"
  /\ UNCHANGED <<clock, faults, table, running, client, catching, tickNow, fired>>

(* A statement fails: of itself, or because the signal cancelled ctx.      *)
Fault ==
  \/ life = "closing" /\ UNCHANGED faults
  \/ life = "up" /\ faults < MaxFaults /\ faults' = faults + 1

Rest == pc' = "idle" /\ batch' = {} /\ catching' = FALSE /\ tickNow' = 0

(* The whole pass is given up, the one at startup for good.                *)
DueFails ==
  /\ pc \in {"boot", "idle", "load"} /\ Fault /\ Rest
  /\ skipped' = (skipped \/ AtBoot \/ catching)
  /\ UNCHANGED <<now, life, bootAt, downs, table, running, client, fired>>

-----------------------------------------------------------------------------
(* catchUpMissed and Tick                                                  *)

(* The loop goes on to the next copy.                                      *)
Done(c) ==
  IF batch = {c} THEN Rest
  ELSE pc' = "job" /\ batch' = batch \ {c} /\ UNCHANGED <<catching, tickNow>>

AtJob(c) == pc = "job" /\ Oldest(c, batch)

(* The copy was rescheduled and goes on to its start.                      *)
GoesOn(c) ==
  /\ pc' = "overlap" /\ Replace(c, [c EXCEPT !.got = "moved"])
  /\ UNCHANGED <<catching, tickNow>>
At(place, c) == pc = place /\ c \in batch /\ c.got = "moved"

(* SetNextRun: one column of whatever row has the id, if one has.          *)
SetNextRun(j, t) == row' = IF j \in jobs THEN [row EXCEPT ![j].next = t] ELSE row

(* NextRun of the copy's expression: past this pass, not past the firing.  *)
Unmoved(c) == c.due
NextRun(c) == NextFiring(c.cron, tickNow)

(* reschedule, then the end of the copy at startup.                        *)
Reschedule(c) ==
  /\ life = "up" /\ AtJob(c) /\ c.cron # Broken
  /\ SetNextRun(c.job, NextRun(c))
  /\ IF catching THEN Done(c) ELSE GoesOn(c)
  /\ UNCHANGED <<clock, faults, jobs, ver, running, client, fired>>

(* An expression that will not parse: the firing time is cleared.          *)
Kept(c)    == c.due
Cleared(c) == 0

Unparsable(c) ==
  /\ life = "up" /\ AtJob(c) /\ c.cron = Broken
  /\ SetNextRun(c.job, Cleared(c))
  /\ Done(c)
  /\ UNCHANGED <<clock, faults, jobs, ver, running, client, fired>>

(* The write failed: the job is still due, and is left to the next tick.   *)
StartsAnyway(c) == GoesOn(c)
GivesUp(c)      == Done(c)

RescheduleFails(c) ==
  /\ AtJob(c) /\ Fault /\ GivesUp(c)
  /\ skipped' = (skipped \/ catching)
  /\ UNCHANGED <<now, life, bootAt, downs, table, running, client, fired>>

(* ActiveForJob.                                                           *)
Overlap(c) ==
  /\ At("overlap", c)
  /\ IF c.job \in running THEN Done(c)
     ELSE pc' = "start" /\ UNCHANGED <<catching, tickNow, batch>>
  /\ UNCHANGED <<clock, faults, table, running, client, fired>>

(* runs.job_id references jobs: a deleted job gets no run row.             *)
MayCreate(c) == c.dests # 0 /\ c.job \in jobs

StartScheduled(c) ==
  /\ life = "up" /\ At("start", c)
  /\ c.job \notin running /\ MayCreate(c)
  /\ running' = running \cup {c.job} /\ fired' = fired \cup {Firing(c)}
  /\ Done(c)
  /\ UNCHANGED <<clock, faults, table, client>>

StartRefused(c) ==
  /\ At("start", c)
  /\ c.job \in running \/ ~MayCreate(c)
  /\ Done(c)
  /\ UNCHANGED <<clock, faults, table, running, client, fired>>

StartFails(c) ==
  /\ At("start", c) /\ Fault /\ Done(c)
  /\ UNCHANGED <<clock, table, running, client, fired>>

-----------------------------------------------------------------------------
(* The job handlers                                                        *)

(* A request that is under way is let finish: Shutdown of the HTTP server  *)
(* waits for it, and its context is its own.                               *)
Serving == life # "down"

MayEdit(j)  == j \in jobs /\ j \notin running

(* handleUpdateJob's check, before it reads the request body.              *)
CheckUpdate(c, j) ==
  /\ life = "up" /\ client[c].at = "idle" /\ MayEdit(j)
  /\ client' = [client EXCEPT ![c] = [IdleClient EXCEPT !.at = "checked", !.job = j]]
  /\ UNCHANGED <<clock, faults, table, running, loop, fired>>

(* handleCreateJob has nothing to check.                                   *)
CheckCreate(c, j) ==
  /\ life = "up" /\ client[c].at = "idle" /\ ver[j] = 0
  /\ \A d \in Clients : client[d].job # j
  /\ client' = [client EXCEPT ![c] = [IdleClient EXCEPT !.at = "checked", !.job = j]]
  /\ UNCHANGED <<clock, faults, table, running, loop, fired>>

(* CreateJob and UpdateJob up to the transaction: the new row, and when it *)
(* fires next as of this moment.                                           *)
Compute(c) ==
  /\ Serving /\ client[c].at = "checked"
  /\ \E s \in Forms :
       client' = [client EXCEPT ![c].at = "saving",
                    ![c].row = WithNext(s, RefreshNextRun(s.cron, s.enabled, now))]
  /\ UNCHANGED <<clock, faults, table, running, loop, fired>>

(* insertJobChildren, after a save deleted the old ones if there were any. *)
NewChildren(j) == ver[j] < MaxSaves /\ ver' = [ver EXCEPT ![j] = @ + 1]

Saving(c, j) == Serving /\ client[c].at = "saving" /\ client[c].job = j

(* The transactions: the row and its children together.                    *)
CreateJob(c, j) ==
  /\ Saving(c, j) /\ ver[j] = 0
  /\ jobs' = jobs \cup {j}
  /\ row' = [row EXCEPT ![j] = client[c].row]
  /\ NewChildren(j)
  /\ client' = [client EXCEPT ![c] = IdleClient]
  /\ UNCHANGED <<clock, faults, running, loop, fired>>

UpdateJob(c, j) ==
  /\ Saving(c, j) /\ j \in jobs
  /\ row' = [row EXCEPT ![j] = client[c].row]
  /\ NewChildren(j)
  /\ client' = [client EXCEPT ![c] = IdleClient]
  /\ UNCHANGED <<clock, faults, jobs, running, loop, fired>>

(* Validate refuses, the job is gone, or the transaction fails.            *)
SaveFails(c) ==
  /\ Serving /\ client[c].at \in {"checked", "saving"}
  /\ client' = [client EXCEPT ![c] = IdleClient]
  /\ UNCHANGED <<clock, faults, table, running, loop, fired>>

CheckDelete(c, j) ==
  /\ life = "up" /\ client[c].at = "idle" /\ MayEdit(j)
  /\ client' = [client EXCEPT ![c] = [IdleClient EXCEPT !.at = "deleting", !.job = j]]
  /\ UNCHANGED <<clock, faults, table, running, loop, fired>>

DeleteJob(c, j) ==
  /\ Serving /\ client[c].at = "deleting" /\ client[c].job = j
  /\ jobs' = jobs \ {j}
  /\ row' = [row EXCEPT ![j] = NoRow]
  /\ client' = [client EXCEPT ![c] = IdleClient]
  /\ UNCHANGED <<clock, faults, ver, running, loop, fired>>

-----------------------------------------------------------------------------
(* Other starts of a job, and the end of a run                             *)

StartOther(j) ==
  /\ Serving /\ j \in jobs \ running
  /\ running' = running \cup {j}
  /\ UNCHANGED <<clock, faults, table, client, loop, fired>>

RunEnds(j) ==
  /\ Serving /\ j \in running
  /\ running' = running \ {j}
  /\ UNCHANGED <<clock, faults, table, client, loop, fired>>

-----------------------------------------------------------------------------
(* The process                                                             *)

Advance ==
  /\ now < MaxTime /\ now' = now + 1
  /\ UNCHANGED <<life, bootAt, skipped, downs, faults, table, running, client, loop, fired>>

Signal ==
  /\ life = "up" /\ downs < MaxDowns /\ life' = "closing"
  /\ UNCHANGED <<now, bootAt, skipped, downs, faults, table, running, client, loop, fired>>

LoopReturns ==
  /\ life = "closing" /\ pc = "idle" /\ pc' = "off"
  /\ UNCHANGED <<clock, faults, table, running, client, catching, tickNow, batch, fired>>

(* main() returns, or the process dies.                                    *)
Down ==
  /\ \/ life = "closing" /\ pc = "off"
     \/ life = "up" /\ downs < MaxDowns
  /\ life' = "down" /\ downs' = downs + 1
  /\ client' = [c \in Clients |-> IdleClient] /\ running' = {}
  /\ pc' = "off" /\ batch' = {} /\ catching' = FALSE /\ tickNow' = 0
  /\ UNCHANGED <<now, bootAt, skipped, faults, table, fired>>

(* FailInterruptedRuns precedes Start: no job is running.                  *)
Boot ==
  /\ life = "down" /\ life' = "up" /\ bootAt' = now /\ skipped' = FALSE
  /\ pc' = "boot"
  /\ UNCHANGED <<now, downs, faults, table, running, client, catching, tickNow, batch, fired>>

-----------------------------------------------------------------------------
CopyStep(c) ==
  \/ LoadDests(c) \/ LoadFilters(c) \/ Reschedule(c) \/ Unparsable(c) \/ RescheduleFails(c)
  \/ Overlap(c) \/ StartScheduled(c) \/ StartRefused(c) \/ StartFails(c)

LoopStep == Wake \/ DueFails \/ LoopReturns \/ \E c \in batch : CopyStep(c)

ClientStep(c) ==
  \/ Compute(c) \/ SaveFails(c)
  \/ \E j \in Jobs : \/ CheckUpdate(c, j) \/ CheckCreate(c, j) \/ CheckDelete(c, j)
                    \/ CreateJob(c, j) \/ UpdateJob(c, j) \/ DeleteJob(c, j)

Next ==
  \/ LoopStep
  \/ \E c \in Clients : ClientStep(c)
  \/ \E j \in Jobs : StartOther(j) \/ RunEnds(j)
  \/ Advance \/ Signal \/ Down \/ Boot

Spec == Init /\ [][Next]_vars

(* The loop's goroutine is scheduled, its ticker ticks and time passes.    *)
(* Nobody has to save, start or restart anything.                          *)
FairSpec == Spec /\ WF_vars(LoopStep) /\ WF_vars(Advance)

-----------------------------------------------------------------------------
(* Properties                                                              *)

TypeOK ==
  /\ now \in 0 .. MaxTime /\ bootAt \in 0 .. MaxTime /\ downs \in Nat /\ faults \in Nat
  /\ life \in {"up", "closing", "down"} /\ skipped \in BOOLEAN
  /\ jobs \subseteq Jobs /\ row \in [Jobs -> Row] /\ ver \in [Jobs -> Nat]
  /\ running \subseteq Jobs /\ client \in [Clients -> Client]
  /\ pc \in {"boot", "idle", "load", "job", "overlap", "start", "off"}
  /\ catching \in BOOLEAN /\ tickNow \in 0 .. MaxTime
  /\ batch \subseteq Copy /\ fired \subseteq [job : Jobs, ver : Nat, due : Nat]

(* A firing is started at most once: the copy the loop is about to start   *)
(* is never one it has started before, whatever failed, restarted or was   *)
(* skipped in between (reschedule's "rather than risking it running        *)
(* twice").  A save may arm the firing again.                              *)
FiringRunsOnce ==
  \A c \in batch : At("start", c) => Firing(c) \notin fired

(* What came due while the process was down is not started by the process  *)
(* that comes up, unless the pass at startup met a store that failed       *)
(* (catchUpMissed: "They do not fire").                                    *)
MissedDoNotRun ==
  [][\A c \in fired' \ fired : c.due > bootAt \/ skipped]_vars

(* A scheduled run has destinations and filter rules, those of the save    *)
(* its row is from or of a later one, never none because the job was       *)
(* deleted or edited between the three reads (DueJobs' comment: without    *)
(* them a mirror deletes what its exclusions protect).                     *)
RunsWithItsRules ==
  [][\A c \in batch \ batch' : Firing(c) \in fired' \ fired =>
       0 < c.ver /\ c.ver <= c.dests /\ c.dests <= c.filters]_vars

(* No job stays due: a tick starts it, skips it or reschedules it, for as  *)
(* long as the process is up (reschedule before everything else).          *)
DueIsHandled ==
  \A j \in Jobs : Due(j, now) ~> (~Due(j, now) \/ life # "up")

(* A copy read before a save may write the old expression's firing time    *)
(* over the new one (Tick, SetNextRun).  It does not stay: by the time it  *)
(* arrives a tick has put a firing of the job's own expression there.      *)
Foreign(j) ==
  /\ j \in jobs /\ row[j].enabled /\ row[j].cron \in Exprs
  /\ row[j].next \in 1 .. MaxTime
  /\ NextFiring(row[j].cron, row[j].next - 1) # row[j].next
ForeignHeals == \A j \in Jobs : Foreign(j) ~> (~Foreign(j) \/ life # "up")
=============================================================================
