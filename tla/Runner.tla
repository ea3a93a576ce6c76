------------------------------- MODULE Runner -------------------------------
(***************************************************************************)
(* The run registry of internal/runner/runner.go: which job holds a run,   *)
(* which runs have a live handle, which jobs have one more run queued, and *)
(* how start, finish, Cancel, Confirm, QueueNext and Shutdown interleave.  *)
(* The callers are the HTTP handlers of internal/api, the scheduler's tick *)
(* and the goroutine finish() spawns for a queued run.  The run pipeline   *)
(* itself is abstracted to the points where it touches the registry or the *)
(* run's row in the database.  A crash loses everything but the rows, and  *)
(* a boot reconciles them.                                                 *)
(*                                                                         *)
(* Every critical section of Runner.mu is one action; what happens outside *)
(* the lock is a step of its own.                                          *)
(***************************************************************************)
EXTENDS Naturals, FiniteSets

CONSTANTS
  Jobs,         \* job ids
  Runs,         \* run ids CreateRun may hand out
  Clients,      \* callers outside the runner; each issues one request
  Ops,          \* the kinds of request the clients issue
  StoreFaults,  \* whether a statement of the store may fail
  MaxDowns      \* how many times the process may go down

None     == "none"      \* a key a Go map does not hold
Reserved == "reserved"  \* byJob[job] = "" : the slot is taken, no run row yet

(* hookq and previewq are webhook starts with ?queue=1.                    *)
StartOps == {"run", "preview", "hook", "hookq", "previewq", "schedule"}
AllOps   == StartOps \cup {"cancel", "confirm", "delete"}

ASSUME RunnerAssumption ==
  /\ Ops \subseteq AllOps
  /\ StoreFaults \in BOOLEAN
  /\ MaxDowns \in Nat
  /\ Clients \cap Runs = {}
  /\ {None, Reserved} \cap Runs = {}
  /\ None \notin Jobs

(* The goroutine that finish(r) spawns for a queued run is named by r.     *)
Procs == Clients \cup Runs

LiveRows     == {"running", "awaiting_confirmation"}
TerminalRows == {"success", "partial", "failed", "cancelled"}

VARIABLES
  byJob,      \* Runner.byJob
  active,     \* the keys of Runner.active
  queued,     \* Runner.queued
  closing,    \* Runner.closing
  wg,         \* the runs Runner.wg counts
  cancelled,  \* the handles with cancelled set
  ctxDone,    \* the runs whose context is cancelled
  confirmed,  \* the gates whose confirm channel is closed
  rpc,        \* where each run's goroutine is in execute
  verdict,    \* the status a finalising run is about to write
  runJob,     \* the job a run belongs to
  preview,    \* the runs started as previews
  row,        \* runs.status in the database
  unsaved,    \* the runs whose last status write failed (history)
  stored,     \* the jobs the database holds
  pc, op, arg, rid,  \* each caller: its place, request, job and run
  shut,       \* where Shutdown is
  doomed,     \* the runs registered when Shutdown took the lock (history)
  server,     \* whether the process is up
  downs       \* how often it went down

registry == <<byJob, active, queued>>
handles  == <<cancelled, ctxDone, confirmed>>
runVars  == <<rpc, verdict>>
rowVars  == <<row, unsaved>>
dbVars   == <<rowVars, stored, runJob, preview>>
procVars == <<pc, op, arg, rid>>
lifeVars == <<closing, shut, doomed, server, downs>>
vars == <<registry, handles, runVars, dbVars, procVars, lifeVars, wg>>

Pcs  == {"idle", "overlap", "load", "loaded", "reserved", "created", "added",
         "queue", "queuedq", "cancel", "confirm", "delete", "done"}
Rpcs == {"none", "working", "parked", "abandoning", "executing", "settling",
         "settled", "finished", "done"}

(* The goroutine is still inside execute, its finish() not yet run.        *)
InExecute == {"working", "parked", "abandoning", "executing", "settling", "settled"}
(* ... and has yet to write the run's final status.                        *)
Unsettled == InExecute \ {"settled"}
(* A caller between reserving the job and publishing the handle.           *)
SettingUp == {"reserved", "created", "added"}

-----------------------------------------------------------------------------
Init ==
  /\ byJob = [j \in Jobs |-> None]
  /\ active = {} /\ queued = {} /\ closing = FALSE /\ wg = {}
  /\ cancelled = {} /\ ctxDone = {} /\ confirmed = {}
  /\ rpc = [r \in Runs |-> "none"]
  /\ verdict = [r \in Runs |-> "none"]
  /\ runJob = [r \in Runs |-> None]
  /\ preview = {}
  /\ row = [r \in Runs |-> "none"] /\ unsaved = {}
  /\ stored = Jobs
  /\ pc = [p \in Procs |-> IF p \in Clients THEN "idle" ELSE "done"]
  /\ op = [p \in Procs |-> "run"]
  /\ arg = [p \in Procs |-> None]
  /\ rid = [p \in Procs |-> None]
  /\ shut = "up" /\ doomed = {} /\ server = "up" /\ downs = 0

Goto(p, l) == pc' = [pc EXCEPT ![p] = l]

-----------------------------------------------------------------------------
(* Requests: an API handler, a hook handler or the scheduler's tick loads  *)
(* the job; a job that is not stored is a 404.                             *)

Request(c, o, j) ==
  /\ server = "up" /\ pc[c] = "idle"
  /\ o \in StartOps
  /\ op' = [op EXCEPT ![c] = o]
  /\ arg' = [arg EXCEPT ![c] = j]
  /\ Goto(c, IF j \notin stored THEN "done"
             ELSE IF o = "schedule" THEN "overlap" ELSE "loaded")
  /\ UNCHANGED <<registry, handles, runVars, dbVars, rid, lifeVars, wg>>

(* The scheduler skips a firing whose job still holds a run.               *)
OverlapCheck(c) ==
  /\ pc[c] = "overlap"
  /\ Goto(c, IF byJob[arg[c]] # None THEN "done" ELSE "loaded")
  /\ UNCHANGED <<registry, handles, runVars, dbVars, op, arg, rid, lifeVars, wg>>

(* startQueued reloads the job before it starts it.                        *)
LoadQueued(r) ==
  /\ pc[r] = "load"
  /\ Goto(r, IF arg[r] \in stored THEN "loaded" ELSE "done")
  /\ UNCHANGED <<registry, handles, runVars, dbVars, op, arg, rid, lifeVars, wg>>

-----------------------------------------------------------------------------
(* start()                                                                 *)

SlotFreeUnchecked(j) == byJob[j] \notin Runs
SlotFree(j) == byJob[j] = None
MayReserve(j) == ~closing /\ SlotFree(j)

LoadFails(p) ==
  /\ StoreFaults /\ pc[p] = "loaded"
  /\ Goto(p, "done")
  /\ UNCHANGED <<registry, handles, runVars, dbVars, op, arg, rid, lifeVars, wg>>

Reserve(p) ==
  /\ pc[p] = "loaded" /\ MayReserve(arg[p])
  /\ byJob' = [byJob EXCEPT ![arg[p]] = Reserved]
  /\ Goto(p, "reserved")
  /\ UNCHANGED <<active, queued, handles, runVars, dbVars, op, arg, rid, lifeVars, wg>>

(* ErrShuttingDown, or ErrAlreadyRunning: with ?queue=1 that goes on to    *)
(* QueueNext, for a run and for a preview; otherwise it is a 409.          *)
StartRefused(p) ==
  /\ pc[p] = "loaded" /\ ~MayReserve(arg[p])
  /\ Goto(p, IF ~closing /\ op[p] \in {"hookq", "previewq"} THEN "queue" ELSE "done")
  /\ UNCHANGED <<registry, handles, runVars, dbVars, op, arg, rid, lifeVars, wg>>

CreateRun(p, r) ==
  /\ pc[p] = "reserved" /\ arg[p] \in stored /\ row[r] = "none"
  /\ row' = [row EXCEPT ![r] = "running"]
  /\ runJob' = [runJob EXCEPT ![r] = arg[p]]
  /\ preview' = IF op[p] \in {"preview", "previewq"} THEN preview \cup {r} ELSE preview
  /\ rid' = [rid EXCEPT ![p] = r]
  /\ Goto(p, "created")
  /\ UNCHANGED <<registry, handles, runVars, unsaved, stored, op, arg, lifeVars, wg>>

(* A failed insert (a store error, a caller whose request context ended, a *)
(* job deleted meanwhile) gives the reservation back, and nothing else.    *)
KeepReservation(j) == UNCHANGED registry
ReleaseReservation(j) ==
  /\ byJob' = [byJob EXCEPT ![j] = None]
  /\ UNCHANGED <<active, queued>>

CreateRunFails(p) ==
  /\ pc[p] = "reserved"
  /\ StoreFaults \/ arg[p] \notin stored
  /\ ReleaseReservation(arg[p])
  /\ Goto(p, "done")
  /\ UNCHANGED <<handles, runVars, dbVars, op, arg, rid, lifeVars, wg>>

AddToGroup(p) ==
  /\ pc[p] = "created"
  /\ wg' = wg \cup {rid[p]}
  /\ Goto(p, "added")
  /\ UNCHANGED <<registry, handles, runVars, dbVars, op, arg, rid, lifeVars>>

Publish(p) ==
  /\ pc[p] = "added"
  /\ active' = active \cup {rid[p]}
  /\ byJob' = [byJob EXCEPT ![arg[p]] = rid[p]]
  /\ rpc' = [rpc EXCEPT ![rid[p]] = "working"]
  /\ Goto(p, "done")
  /\ UNCHANGED <<queued, handles, verdict, dbVars, op, arg, rid, lifeVars, wg>>

-----------------------------------------------------------------------------
(* handleHookRun with ?queue=1                                             *)

MayQueueIdle(j) == j \notin queued
MayQueue(j) == byJob[j] # None /\ j \notin queued

QueueNext(p) ==
  /\ pc[p] = "queue"
  /\ queued' = IF MayQueue(arg[p]) THEN queued \cup {arg[p]} ELSE queued
  /\ Goto(p, IF MayQueue(arg[p]) THEN "done" ELSE "queuedq")
  /\ UNCHANGED <<byJob, active, handles, runVars, dbVars, op, arg, rid, lifeVars, wg>>

(* QueueNext said no: a run already queued is a 409; otherwise the job was *)
(* idle and the handler calls start once more, refused for good this time. *)
Queued(p) ==
  /\ pc[p] = "queuedq"
  /\ Goto(p, IF arg[p] \in queued THEN "done" ELSE "loaded")
  /\ op' = [op EXCEPT ![p] = IF @ = "previewq" THEN "preview" ELSE "hook"]
  /\ UNCHANGED <<registry, handles, runVars, dbVars, arg, rid, lifeVars, wg>>

-----------------------------------------------------------------------------
(* Cancel, confirm and delete.                                             *)

(* The flag is set under the lock; the context is cancelled after it.      *)
Cancel(c, r) ==
  /\ server = "up" /\ pc[c] = "idle" /\ row[r] # "none"
  /\ cancelled' = IF r \in active THEN cancelled \cup {r} ELSE cancelled
  /\ rid' = [rid EXCEPT ![c] = r]
  /\ op' = [op EXCEPT ![c] = "cancel"]
  /\ Goto(c, IF r \in active THEN "cancel" ELSE "done")
  /\ UNCHANGED <<registry, ctxDone, confirmed, runVars, dbVars, arg, lifeVars, wg>>

CancelContext(c) ==
  /\ pc[c] = "cancel"
  /\ ctxDone' = ctxDone \cup {rid[c]}
  /\ Goto(c, "done")
  /\ UNCHANGED <<registry, cancelled, confirmed, runVars, dbVars, op, arg, rid, lifeVars, wg>>

(* handleConfirmJob asks which run of the job is parked, then confirms it. *)
AwaitingConfirmation(j) ==
  { r \in Runs : byJob[j] = r /\ r \in active \cap preview /\ rpc[r] = "parked" }

ConfirmJob(c, j) ==
  /\ server = "up" /\ pc[c] = "idle"
  /\ op' = [op EXCEPT ![c] = "confirm"]
  /\ \/ /\ AwaitingConfirmation(j) = {}
        /\ Goto(c, "done") /\ UNCHANGED rid
     \/ \E r \in AwaitingConfirmation(j) :
          Goto(c, "confirm") /\ rid' = [rid EXCEPT ![c] = r]
  /\ UNCHANGED <<registry, handles, runVars, dbVars, arg, lifeVars, wg>>

Confirm(c) ==
  /\ pc[c] = "confirm"
  /\ confirmed' = IF rid[c] \in active THEN confirmed \cup {rid[c]} ELSE confirmed
  /\ Goto(c, "done")
  /\ UNCHANGED <<registry, cancelled, ctxDone, runVars, dbVars, op, arg, rid, lifeVars, wg>>

(* handleDeleteJob checks that the job holds no run, and deletes the job   *)
(* with its run history in a later transaction.                            *)
DeleteCheck(c, j) ==
  /\ server = "up" /\ pc[c] = "idle"
  /\ op' = [op EXCEPT ![c] = "delete"]
  /\ arg' = [arg EXCEPT ![c] = j]
  /\ Goto(c, IF byJob[j] # None THEN "done" ELSE "delete")
  /\ UNCHANGED <<registry, handles, runVars, dbVars, rid, lifeVars, wg>>

DeleteJob(c) ==
  /\ pc[c] = "delete"
  /\ stored' = stored \ {arg[c]}
  /\ row' = [r \in Runs |-> IF row[r] # "none" /\ runJob[r] = arg[c]
                            THEN "deleted" ELSE row[r]]
  /\ Goto(c, "done")
  /\ UNCHANGED <<registry, handles, runVars, unsaved, runJob, preview, op, arg, rid,
                 lifeVars, wg>>

-----------------------------------------------------------------------------
(* The run goroutine.                                                      *)

(* SetRunStatus and FinishRun.  An UPDATE of a row that was deleted        *)
(* changes nothing; one that fails is logged, and the run goes on.         *)
WriteFails(r) == StoreFaults /\ UNCHANGED row /\ unsaved' = unsaved \cup {r}

SetRow(r, s) ==
  \/ /\ row' = [row EXCEPT ![r] = IF @ = "deleted" THEN @ ELSE s]
     /\ unsaved' = unsaved \ {r}
  \/ WriteFails(r)

RunAt(r, from, to) == rpc[r] = from /\ rpc' = [rpc EXCEPT ![r] = to]

(* failRun: filters or source could not be resolved, or the scan failed.   *)
FailRun(r) ==
  /\ RunAt(r, "working", "settled")
  /\ SetRow(r, "failed")
  /\ UNCHANGED <<registry, handles, verdict, stored, runJob, preview, procVars, lifeVars, wg>>

(* cancelRun out of an interrupted source scan.                            *)
ScanInterrupted(r) ==
  /\ r \in ctxDone
  /\ RunAt(r, "working", "settled")
  /\ SetRow(r, "cancelled")
  /\ UNCHANGED <<registry, handles, verdict, stored, runJob, preview, procVars, lifeVars, wg>>

(* awaitConfirmation parks a preview ...                                   *)
Park(r) ==
  /\ r \in preview
  /\ RunAt(r, "working", "parked")
  /\ SetRow(r, "awaiting_confirmation")
  /\ UNCHANGED <<registry, handles, verdict, stored, runJob, preview, procVars, lifeVars, wg>>

(* ... until it is confirmed ...                                           *)
Unpark(r) ==
  /\ r \in confirmed
  /\ RunAt(r, "parked", "executing")
  /\ SetRow(r, "running")
  /\ UNCHANGED <<registry, handles, verdict, stored, runJob, preview, procVars, lifeVars, wg>>

(* ... or the timer fires, or the context ends.  Both are cancelled.       *)
GiveUpOnContext(r) ==
  /\ r \in ctxDone
  /\ RunAt(r, "parked", "abandoning")
  /\ UNCHANGED <<registry, handles, verdict, dbVars, procVars, lifeVars, wg>>

GiveUp(r) ==
  /\ RunAt(r, "parked", "abandoning")
  /\ UNCHANGED <<registry, handles, verdict, dbVars, procVars, lifeVars, wg>>

Abandon(r) ==
  /\ RunAt(r, "abandoning", "settled")
  /\ SetRow(r, "cancelled")
  /\ UNCHANGED <<registry, handles, verdict, stored, runJob, preview, procVars, lifeVars, wg>>

(* Step 7 of execute: wasCancelled decides between cancelRun and           *)
(* classifyRun, under the lock; the row is written after it.               *)
Verdicts(r) == IF r \in cancelled THEN {"cancelled"}
               ELSE {"success", "partial", "failed"}

Decide(r) ==
  /\ \/ r \notin preview /\ RunAt(r, "working", "settling")
     \/ RunAt(r, "executing", "settling")
  /\ \E s \in Verdicts(r) : verdict' = [verdict EXCEPT ![r] = s]
  /\ UNCHANGED <<registry, handles, dbVars, procVars, lifeVars, wg>>

FinishRow(r) == SetRow(r, verdict[r])

Settle(r) ==
  /\ RunAt(r, "settling", "settled")
  /\ FinishRow(r)
  /\ verdict' = [verdict EXCEPT ![r] = "none"]
  /\ UNCHANGED <<registry, handles, stored, runJob, preview, procVars, lifeVars, wg>>

(* finish(): the job, the handle and the queue slot go under one lock; a   *)
(* taken slot starts the next run on a goroutine of its own.               *)
DequeuesNever(r) == FALSE
Dequeues(r) == runJob[r] \in queued /\ ~closing

ReleaseJob(r) == byJob' = [byJob EXCEPT ![runJob[r]] = None]

Finish(r) ==
  /\ RunAt(r, "settled", "finished")
  /\ active' = active \ {r}
  /\ ReleaseJob(r)
  /\ queued' = queued \ {runJob[r]}
  /\ IF Dequeues(r)
     THEN /\ Goto(r, "load")
          /\ op' = [op EXCEPT ![r] = "hook"]
          /\ arg' = [arg EXCEPT ![r] = runJob[r]]
     ELSE UNCHANGED <<pc, op, arg>>
  /\ UNCHANGED <<handles, verdict, dbVars, rid, lifeVars, wg>>

(* The goroutine's own defers: cancel(), then wg.Done().                   *)
Leave(r) ==
  /\ RunAt(r, "finished", "done")
  /\ ctxDone' = ctxDone \cup {r}
  /\ wg' = wg \ {r}
  /\ UNCHANGED <<registry, cancelled, confirmed, verdict, dbVars, procVars, lifeVars>>

-----------------------------------------------------------------------------
(* Shutdown, and the process around it.                                    *)

ShutdownBegin ==
  /\ server = "up" /\ shut = "up"
  /\ closing' = TRUE
  /\ queued' = {}
  /\ cancelled' = cancelled \cup active
  /\ ctxDone' = ctxDone \cup active
  /\ doomed' = active
  /\ shut' = "waiting"
  /\ UNCHANGED <<byJob, active, confirmed, runVars, dbVars, procVars, server, downs, wg>>

GroupIgnored == TRUE
GroupEmpty == wg = {}

ShutdownReturns ==
  /\ shut = "waiting" /\ GroupEmpty
  /\ shut' = "returned"
  /\ UNCHANGED <<registry, handles, runVars, dbVars, procVars, closing, doomed, server, downs, wg>>

(* The shutdown context's deadline: Shutdown gives up waiting.             *)
ShutdownTimesOut ==
  /\ shut = "waiting"
  /\ shut' = "timedout"
  /\ UNCHANGED <<registry, handles, runVars, dbVars, procVars, closing, doomed, server, downs, wg>>

(* The process ends, killed or at the end of main(): only the database     *)
(* survives.  Requests in flight die with it.                              *)
Down ==
  /\ server = "up" /\ downs < MaxDowns
  /\ server' = "down" /\ downs' = downs + 1
  /\ byJob' = [j \in Jobs |-> None]
  /\ active' = {} /\ queued' = {} /\ closing' = FALSE /\ wg' = {}
  /\ cancelled' = {} /\ ctxDone' = {} /\ confirmed' = {}
  /\ rpc' = [r \in Runs |-> IF rpc[r] = "none" THEN "none" ELSE "done"]
  /\ pc' = [p \in Procs |-> IF pc[p] = "idle" THEN "idle" ELSE "done"]
  /\ op' = [p \in Procs |-> "run"]
  /\ arg' = [p \in Procs |-> None] /\ rid' = [p \in Procs |-> None]
  /\ verdict' = [r \in Runs |-> "none"]
  /\ shut' = "up" /\ doomed' = {}
  /\ UNCHANGED dbVars

(* ReconcileInterruptedRuns, before anything is served: one statement for  *)
(* the running rows, then one for the parked ones.  When one fails, main   *)
(* warns and serves with the rows that are left.                           *)
ReconciledRunningOnly(s) == IF s = "running" THEN "failed" ELSE s
ReconciledCancelled(s) == IF s \in LiveRows THEN "cancelled" ELSE s
Reconciled(s) == CASE s = "running" -> "failed"
                   [] s = "awaiting_confirmation" -> "cancelled"
                   [] OTHER -> s

Reconcile ==
  /\ row' = [r \in Runs |-> Reconciled(row[r])]
  /\ unsaved' = {}

ReconcileFails ==
  /\ StoreFaults
  /\ \/ UNCHANGED row
     \/ row' = [r \in Runs |-> ReconciledRunningOnly(row[r])]
  /\ unsaved' = { r \in Runs : row'[r] \in LiveRows }

Boot ==
  /\ server = "down"
  /\ Reconcile \/ ReconcileFails
  /\ server' = "up"
  /\ UNCHANGED <<registry, handles, runVars, stored, runJob, preview, procVars,
                 closing, shut, doomed, downs, wg>>

-----------------------------------------------------------------------------
ClientCall(c) ==
  \/ \E o \in Ops, j \in Jobs : Request(c, o, j)
  \/ "cancel" \in Ops /\ \E r \in Runs : Cancel(c, r)
  \/ "confirm" \in Ops /\ \E j \in Jobs : ConfirmJob(c, j)
  \/ "delete" \in Ops /\ \E j \in Jobs : DeleteCheck(c, j)

(* What a caller's goroutine does once its request is under way.           *)
ProcStep(p) ==
  \/ OverlapCheck(p) \/ LoadQueued(p)
  \/ LoadFails(p) \/ Reserve(p) \/ StartRefused(p)
  \/ \E r \in Runs : CreateRun(p, r)
  \/ CreateRunFails(p) \/ AddToGroup(p) \/ Publish(p)
  \/ QueueNext(p) \/ Queued(p)
  \/ CancelContext(p) \/ Confirm(p) \/ DeleteJob(p)

RunStep(r) ==
  \/ FailRun(r) \/ ScanInterrupted(r)
  \/ Park(r) \/ Unpark(r) \/ GiveUp(r) \/ Abandon(r)
  \/ Decide(r) \/ Settle(r) \/ Finish(r) \/ Leave(r)

Process == ShutdownBegin \/ ShutdownReturns \/ ShutdownTimesOut \/ Down \/ Boot

Next ==
  \/ \E c \in Clients : ClientCall(c)
  \/ \E p \in Procs : ProcStep(p)
  \/ \E r \in Runs : RunStep(r)
  \/ Process

Spec == Init /\ [][Next]_vars

(* Goroutines are scheduled; every wait inside a run is bounded (prompt    *)
(* and confirmation timers, bounded file operations); Shutdown's wait and  *)
(* the restart policy's boot happen.  Clients call when they like.         *)
Fairness ==
  /\ \A p \in Procs : WF_vars(ProcStep(p))
  /\ \A r \in Runs : WF_vars(RunStep(r))
  /\ WF_vars(ShutdownReturns) /\ WF_vars(Boot)

FairSpec == Spec /\ Fairness

-----------------------------------------------------------------------------
(* Properties                                                              *)

TypeOK ==
  /\ byJob \in [Jobs -> Runs \cup {None, Reserved}]
  /\ active \subseteq Runs /\ queued \subseteq Jobs
  /\ closing \in BOOLEAN /\ wg \subseteq Runs
  /\ cancelled \subseteq Runs /\ ctxDone \subseteq Runs /\ confirmed \subseteq Runs
  /\ rpc \in [Runs -> Rpcs]
  /\ verdict \in [Runs -> TerminalRows \cup {"none"}]
  /\ runJob \in [Runs -> Jobs \cup {None}] /\ preview \subseteq Runs
  /\ row \in [Runs -> LiveRows \cup TerminalRows \cup {"none", "deleted"}]
  /\ unsaved \subseteq Runs /\ stored \subseteq Jobs
  /\ pc \in [Procs -> Pcs] /\ op \in [Procs -> AllOps]
  /\ arg \in [Procs -> Jobs \cup {None}] /\ rid \in [Procs -> Runs \cup {None}]
  /\ shut \in {"up", "waiting", "returned", "timedout"}
  /\ doomed \subseteq Runs
  /\ server \in {"up", "down"} /\ downs \in Nat

(* No two runs of one job are ever in flight at once, however many manual, *)
(* scheduled, webhook and queued starts race (start's byJob reservation).  *)
OneRunPerJob ==
  /\ \A p, q \in Procs :
       pc[p] \in SettingUp /\ pc[q] \in SettingUp /\ arg[p] = arg[q] => p = q
  /\ \A r, s \in Runs :
       rpc[r] \in InExecute /\ rpc[s] \in InExecute /\ runJob[r] = runJob[s] => r = s
  /\ \A p \in Procs, r \in Runs :
       ~(pc[p] \in SettingUp /\ rpc[r] \in InExecute /\ arg[p] = runJob[r])

(* A row that says running or awaiting_confirmation belongs to a start or  *)
(* a run of this process, or the last statement that should have moved it  *)
(* failed: no crash, refusal or early return by itself leaves a row that   *)
(* nothing will settle (start, execute, ReconcileInterruptedRuns).         *)
NoOrphanRow ==
  server = "up" =>
    \A r \in Runs : row[r] \in LiveRows =>
      \/ rpc[r] \in Unsettled
      \/ \E p \in Procs : pc[p] \in {"created", "added"} /\ rid[p] = r
      \/ r \in unsaved

(* When Shutdown reports that the runs are over, every run that was        *)
(* registered when it took the lock has given its job back and settled its *)
(* row, or tried to and the database refused; that row waits for the next  *)
(* boot (the wait group of start and Shutdown, cancelRun).                 *)
ShutdownSettlesRegistered ==
  shut = "returned" =>
    \A r \in doomed : r \notin active /\ (row[r] \in LiveRows => r \in unsaved)

(* A job holds its slot only for as long as somebody is going to give it   *)
(* back: a start under way or a run inside execute (finish, and start's    *)
(* error path).  A leaked slot would refuse every later run of the job.    *)
NoLeakedSlot ==
  \A j \in Jobs : byJob[j] # None =>
    \/ \E p \in Procs : pc[p] \in SettingUp /\ arg[p] = j
    \/ \E r \in active : rpc[r] \in InExecute /\ runJob[r] = j

(* finish's comment: a trigger "either queues behind a run that is still   *)
(* registered or starts one outright - never both, and never neither": a   *)
(* queued run has a run ahead of it whose finish will take the slot.  The  *)
(* one way to strand it is an insert that fails after somebody queued      *)
(* behind its reservation (CreateRun's error path in start).               *)
QueuedHasRunAhead ==
  [][\A j \in Jobs :
       j \in queued' /\ byJob'[j] = None =>
         /\ j \in queued
         /\ \/ byJob[j] = None
            \/ \E p \in Procs : CreateRunFails(p) /\ arg[p] = j]_vars

(* A row goes from running to cancelled only if somebody cancelled the    *)
(* run, through Cancel or Shutdown (wasCancelled, cancelRun).  A run that  *)
(* a crash cut off is a failure (ReconcileInterruptedRuns), and only a     *)
(* parked preview may time out into cancelled by itself (abandonPreview):  *)
(* its row reads running where the write that parked it failed.            *)
CancelledWasAskedFor ==
  [][\A r \in Runs :
       row[r] = "running" /\ row'[r] = "cancelled" =>
         r \in cancelled \/ (rpc[r] = "abandoning" /\ r \in unsaved)]_vars

(* A row never leaves a terminal status: a late write of a finishing run,  *)
(* a boot's reconciliation and a second writer all leave it alone.         *)
TerminalRowsStay ==
  [][\A r \in Runs : row[r] \in TerminalRows => row'[r] \in {row[r], "deleted"}]_vars

(* Every run that gets its row ends: the row reaches a final status, or    *)
(* the run is over and its final write, or the boot's, failed (execute's   *)
(* every way out, awaitConfirmation's timer, ReconcileInterruptedRuns).    *)
RunsEnd ==
  \A r \in Runs :
    (row[r] \in LiveRows)
      ~> (row[r] \notin LiveRows \/ (rpc[r] \notin Unsettled /\ r \in unsaved))

(* A run queued with ?queue=1 behind run r is taken over by finish(r), by  *)
(* its startQueued goroutine or by another run of the job, or dropped by a *)
(* server going down (QueueNext, finish, startQueued).                     *)
QueuedRunFollows ==
  \A j \in Jobs, r \in Runs :
    (j \in queued /\ byJob[j] = r)
      ~> (closing \/ server = "down" \/ byJob[j] \notin {None, r} \/ pc[r] # "done")

-----------------------------------------------------------------------------
(* The registry implements the abstract slots of JobSlots.  The mapping    *)
(* looks at where the callers and the goroutines really are, not at byJob. *)

Starting == { p \in Procs : pc[p] \in {"created", "added"} }

Slots == INSTANCE JobSlots WITH
  claim   <- { j \in Jobs : \E p \in Procs : pc[p] = "reserved" /\ arg[p] = j },
  live    <- { r \in Runs : rpc[r] \in InExecute \/ \E p \in Starting : rid[p] = r },
  owner   <- runJob,
  waiting <- queued,
  open    <- ~closing /\ server = "up"

(* However starts, refusals, failed inserts, finishes, queued starts,      *)
(* deletions, Shutdown and crashes interleave, callers see one run per     *)
(* job, at most one behind it that the ending run takes along, and no new  *)
(* claim once Shutdown has begun (start, finish, QueueNext, Shutdown).     *)
ImplementsJobSlots == Slots!Spec

-----------------------------------------------------------------------------
(* A run as its row tells it.                                              *)

PhaseOf(r) ==
  IF row[r] = "none" THEN "new" ELSE IF server = "down" THEN "dead"
  ELSE IF rpc[r] = "working" \/ \E p \in Starting : rid[p] = r THEN "working"
  ELSE IF rpc[r] \in {"parked", "abandoning"} THEN "parked"
  ELSE IF rpc[r] = "executing" \/ (rpc[r] = "settling" /\ r \in preview) THEN "executing"
  ELSE IF rpc[r] = "settling" THEN "working" ELSE "settled"

Life(r) == INSTANCE RunLife WITH
  row <- row[r], phase <- PhaseOf(r), asked <- r \in cancelled, preview <- r \in preview,
  lost <- r \in unsaved

(* Whatever start, Cancel, Shutdown, a deletion, a crash and a boot do to  *)
(* it, a run's row is written only as the run's own place allows: parked   *)
(* only as a preview, cancelled only where somebody asked or a preview was *)
(* parked, never again once it is final, and left live behind a run that   *)
(* is over only by a write that failed.  RunPipeline implements the same   *)
(* life (CreateRun, execute, Cancel, Shutdown, ReconcileInterruptedRuns).  *)
ImplementsRunLife ==
  /\ \A r \in Runs : Life(r)!Init
  /\ [][\A r \in Runs : [Life(r)!Next]_(Life(r)!vars)]_vars

-----------------------------------------------------------------------------
(* What start's own comment promises and an interleaving breaks.           *)

(* start's comment: "Shutdown can never observe an empty group while a run *)
(* is still being set up and exit with a row stuck in 'running'".          *)
ShutdownLeavesNoLiveRow ==
  shut = "returned" => \A r \in Runs : row[r] \notin LiveRows
=============================================================================
