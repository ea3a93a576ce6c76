---------------------------- MODULE RunPipeline ----------------------------
(***************************************************************************)
(* One run, from execute() to finish(): the source, then every destination *)
(* through the availability gate, its scan, its execution and its row in   *)
(* the database (internal/runner/runner.go, gate.go; internal/store/       *)
(* runs.go).  Destinations are planned one after the other or in parallel; *)
(* a preview plans all of them, parks and waits for a person.  People      *)
(* answer prompts, confirm and cancel at any moment; every wait has a      *)
(* timer.  What a scan finds and what an execution copies is left to the   *)
(* environment: only how it ends matters here.                             *)
(*                                                                         *)
(* Every row is written by a statement of its own, which may fail: the     *)
(* code logs that and goes on.  The process may die between any two, and   *)
(* the boot that follows may fail to reconcile what it left.               *)
(***************************************************************************)
EXTENDS Naturals, FiniteSets

CONSTANTS
  NumDests,    \* how many destinations the job has
  JobConfigs,  \* the job settings considered
  Humans,      \* people at the API; each makes one request
  Requests,    \* what they may ask for
  MaxCrashes,  \* how many times the process may die
  MaxFaults    \* how many statements of the store may fail

Dests == 1 .. NumDests

(* The run's own row among those a statement can fail to write.            *)
RunRec == 0

Answers == {"skip", "retry", "abort", "create"}

JobConfig == [ policy   : {"skip", "abort", "prompt"},    \* unavailable_policy
               create   : {"never", "ask", "always"},     \* create_dest_dirs
               fallback : {"skip", "abort"},              \* prompt_fallback
               parallel : BOOLEAN,                        \* parallel_destinations
               preview  : BOOLEAN ]                       \* started as a preview

ASSUME PipelineAssumption ==
  /\ NumDests \in Nat \ {0}
  /\ JobConfigs \subseteq JobConfig
  /\ Requests \subseteq Answers \cup {"cancel", "confirm"}
  /\ MaxCrashes \in Nat /\ MaxFaults \in Nat

VARIABLES
  job,        \* the job's settings, fixed for the run
  pc,         \* where execute is
  ctxDone,    \* the run's context is cancelled
  cancelled,  \* handle.cancelled
  confirmed,  \* the gate's confirm channel is closed
  dpc,        \* where each destination is
  chan,       \* what the channel of the destination's latest prompt holds
  gen,        \* how many prompts the destination has opened
  offer,      \* the destinations whose prompt offers to create the folder
  decision,   \* what waitForPrompt returned
  outcome,    \* plannedDest.outcome
  destRow,    \* run_destinations.status
  runRow,     \* runs.status
  touched,    \* the destinations the run has written to
  human,      \* each person's request
  final,      \* the status a run that closes is about to write
  left,       \* the destinations whose rows it has still to close
  lost,       \* the rows whose last write failed (history)
  faults,     \* how many statements have failed
  downs       \* how often the process died

gateVars == <<chan, gen, offer, decision>>
destVars == <<dpc, outcome, touched>>
ctlVars  == <<ctxDone, cancelled, confirmed>>
endVars  == <<final, left>>
faultVars == <<lost, faults>>
rowVars  == <<destRow, runRow, faultVars>>
vars == <<job, human, gateVars, destVars, pc, ctlVars, endVars, rowVars, downs>>

Empty     == [act |-> "none", gen |-> 0]
Idle      == [at |-> "idle", dest |-> 0, answer |-> Empty]
Done      == [at |-> "done", dest |-> 0, answer |-> Empty]
NoOutcome == [status |-> "none", unavailable |-> FALSE, degraded |-> FALSE]

(* The process that began the run has died.                                *)
Dead == {"down", "booting", "rebooted"}

(* finish() has not run: the handle is in Runner.active.                   *)
Active == pc \notin Dead \cup {"ended"}

Init ==
  /\ job \in JobConfigs
  /\ pc = "chains"
  /\ ctxDone = FALSE /\ cancelled = FALSE /\ confirmed = FALSE
  /\ dpc = [d \in Dests |-> "todo"]
  /\ chan = [d \in Dests |-> Empty]
  /\ gen = [d \in Dests |-> 0]
  /\ offer = {}
  /\ decision = [d \in Dests |-> "none"]
  /\ outcome = [d \in Dests |-> NoOutcome]
  /\ destRow = [d \in Dests |-> "pending"]
  /\ runRow = "running"
  /\ touched = {}
  /\ human = [h \in Humans |-> Idle]
  /\ final = "none" /\ left = {}
  /\ lost = {} /\ faults = 0 /\ downs = 0

-----------------------------------------------------------------------------
(* The store.  FinishRun, SetRunStatus and their like for a destination:   *)
(* a failure is logged, the row keeps what it said and the run goes on.    *)

WriteFails(rec) ==
  /\ faults < MaxFaults /\ faults' = faults + 1
  /\ lost' = lost \cup {rec}

WriteDest(d, s) ==
  \/ destRow' = [destRow EXCEPT ![d] = s] /\ lost' = lost \ {d} /\ UNCHANGED faults
  \/ WriteFails(d) /\ UNCHANGED destRow

WriteRun(s) ==
  \/ runRow' = s /\ lost' = lost \ {RunRec} /\ UNCHANGED faults
  \/ WriteFails(RunRec) /\ UNCHANGED runRow

-----------------------------------------------------------------------------
(* People.                                                                 *)

(* The flag is set under the lock; the context is cancelled after it.      *)
Cancel(h) ==
  /\ Active /\ human[h].at = "idle"
  /\ cancelled' = TRUE
  /\ human' = [human EXCEPT ![h].at = "cancelling"]
  /\ UNCHANGED <<job, gateVars, destVars, pc, ctxDone, confirmed, endVars, rowVars, downs>>

CancelContext(h) ==
  /\ human[h].at = "cancelling"
  /\ ctxDone' = TRUE
  /\ human' = [human EXCEPT ![h] = Done]
  /\ UNCHANGED <<job, gateVars, destVars, pc, cancelled, confirmed, endVars, rowVars, downs>>

Confirm(h) ==
  /\ pc = "parked" /\ human[h].at = "idle"
  /\ confirmed' = TRUE
  /\ human' = [human EXCEPT ![h] = Done]
  /\ UNCHANGED <<job, gateVars, destVars, pc, ctxDone, cancelled, endVars, rowVars, downs>>

(* gate.answer looks the prompt's channel up under the lock ...            *)
AnswerPrompt(h, d, a) ==
  /\ Active /\ human[h].at = "idle"
  /\ dpc[d] \in {"asking", "woken"}
  /\ human' = [human EXCEPT ![h] =
                 [at |-> "sending", dest |-> d, answer |-> [act |-> a, gen |-> gen[d]]]]
  /\ UNCHANGED <<job, gateVars, destVars, pc, ctlVars, endVars, rowVars, downs>>

(* ... and sends to it after.  The channel holds one answer; by now it may *)
(* be full, or belong to a prompt that is over.                            *)
SendAnswer(h) ==
  LET d == human[h].dest
  IN /\ human[h].at = "sending"
     /\ chan' = IF human[h].answer.gen = gen[d] /\ chan[d] = Empty
                THEN [chan EXCEPT ![d] = human[h].answer] ELSE chan
     /\ human' = [human EXCEPT ![h] = Done]
     /\ UNCHANGED <<job, gen, offer, decision, destVars, pc, ctlVars, endVars, rowVars, downs>>

-----------------------------------------------------------------------------
(* The source.                                                             *)

(* failRun and cancelRun: the row of every destination, then the run's.    *)
SettleAll(at, status) ==
  pc' = at /\ final' = status /\ left' = Dests

FailRun(at)   == SettleAll(at, "failed")
CancelRun(at) == SettleAll(at, "cancelled")

SourceStep(from, to) ==
  /\ pc = from
  /\ \/ pc' = to /\ UNCHANGED endVars
     \/ FailRun("failing")
  /\ UNCHANGED <<job, human, gateVars, destVars, ctlVars, rowVars, downs>>

ResolveChains == SourceStep("chains", "source")
ResolveSource == SourceStep("source", "scan")

(* A scan whose context ended returns an error, and the run is cancelled.  *)
ScanSource ==
  /\ pc = "scan"
  /\ \/ ~ctxDone /\ pc' = "dests" /\ UNCHANGED endVars
     \/ ~ctxDone /\ FailRun("failing")
     \/ ctxDone /\ CancelRun("failing")
  /\ UNCHANGED <<job, human, gateVars, destVars, ctlVars, rowVars, downs>>

-----------------------------------------------------------------------------
(* planOneDestination.                                                     *)

DestMoves(d, to) ==
  dpc' = [dpc EXCEPT ![d] = to] /\ UNCHANGED <<outcome, destRow, faultVars>>

OutcomeIs(d, status, unavailable, degraded) ==
  /\ dpc' = [dpc EXCEPT ![d] = "done"]
  /\ outcome' = [outcome EXCEPT ![d] = [status |-> status,
                     unavailable |-> unavailable, degraded |-> degraded]]

(* The outcome in memory, and FinishRunDestination.                        *)
DestEnds(d, status, unavailable, degraded) ==
  OutcomeIs(d, status, unavailable, degraded) /\ WriteDest(d, status)

(* destFailed.                                                             *)
DestFails(d) == DestEnds(d, "failed", FALSE, FALSE) /\ UNCHANGED ctxDone

SkipDest(d) == DestEnds(d, "skipped_unavailable", TRUE, FALSE) /\ UNCHANGED ctxDone

(* The abort policy cancels the run's context: every destination stops.    *)
AbortDest(d) == DestEnds(d, "failed", TRUE, FALSE) /\ ctxDone' = TRUE

(* The context ended: an outcome in memory, the row left as it was.        *)
DropDest(d) ==
  OutcomeIs(d, "cancelled", FALSE, FALSE) /\ UNCHANGED <<destRow, faultVars, ctxDone>>

PlanPassed(d) == dpc[d] = "done" \/ (job.preview /\ dpc[d] = "planned")
Turn(d) == job.parallel \/ \A e \in 1 .. d - 1 : PlanPassed(e)

AlwaysAttempted(d) == FALSE
NotAttempted(d) ==
  /\ ~job.parallel /\ job.policy = "abort"
  /\ \E e \in 1 .. d - 1 : outcome[e].unavailable

(* GetTarget fails with the context, with the store, or because the target *)
(* is gone.                                                                *)
BeginDest(d) ==
  /\ pc = "dests" /\ dpc[d] = "todo" /\ Turn(d)
  /\ \/ NotAttempted(d) /\ DropDest(d)
     \/ ~NotAttempted(d) /\ ~ctxDone /\ DestMoves(d, "resolve") /\ UNCHANGED ctxDone
     \/ ~NotAttempted(d) /\ DestFails(d)
  /\ UNCHANGED <<job, human, gateVars, touched, pc, cancelled, confirmed, endVars, runRow, downs>>

MayCreateAlways == job.create = "always"
MayCreate == ~job.preview /\ job.create = "always"
MayAsk    == ~job.preview /\ job.create = "ask"

ResolveDest(d) ==
  /\ dpc[d] = "resolve"
  /\ DestMoves(d, "scan")
  /\ touched' \in {touched} \cup (IF MayCreate THEN {touched \cup {d}} ELSE {})
  /\ UNCHANGED <<job, human, gateVars, pc, ctlVars, endVars, runRow, downs>>

(* gate.open makes a channel of its own for every prompt.                  *)
ReusedChannel(d) == chan[d]
FreshChannel(d) == Empty

Ask(d, canCreate) ==
  /\ dpc' = [dpc EXCEPT ![d] = "asking"]
  /\ gen' = [gen EXCEPT ![d] = @ + 1]
  /\ chan' = [chan EXCEPT ![d] = FreshChannel(d)]
  /\ offer' = IF canCreate THEN offer \cup {d} ELSE offer \ {d}
  /\ WriteDest(d, "awaiting_prompt")
  /\ UNCHANGED <<decision, outcome, ctxDone>>

(* The availability gate: skip, abort, or ask.  A missing folder asks even *)
(* under another policy when the job says so.                              *)
ResolveFails(d, missingFolder) ==
  LET canCreate == missingFolder /\ MayAsk
      asking    == job.policy = "prompt" \/ canCreate
  IN /\ dpc[d] = "resolve"
     /\ \/ asking /\ Ask(d, canCreate)
        \/ ~asking /\ job.policy = "abort" /\ AbortDest(d) /\ UNCHANGED gateVars
        \/ ~asking /\ job.policy = "skip" /\ SkipDest(d) /\ UNCHANGED gateVars
     /\ UNCHANGED <<job, human, touched, pc, cancelled, confirmed, endVars, runRow, downs>>

(* waitForPrompt: an answer, the timer or the context, whichever the       *)
(* select picks.                                                           *)
NoTimer(d) == FALSE
TimerFires(d) == dpc[d] = "asking"

Woken(d, action) ==
  /\ dpc[d] = "asking"
  /\ DestMoves(d, "woken")
  /\ decision' = [decision EXCEPT ![d] = action]
  /\ UNCHANGED <<job, human, gen, offer, touched, pc, ctlVars, endVars, runRow, downs>>

WakeOnAnswer(d) ==
  /\ chan[d] # Empty
  /\ Woken(d, chan[d].act)
  /\ chan' = [chan EXCEPT ![d] = Empty]

WakeOnTimer(d) == TimerFires(d) /\ Woken(d, job.fallback) /\ UNCHANGED chan

WakeOnCancel(d) == ctxDone /\ Woken(d, "skip") /\ UNCHANGED chan

(* gate.close drops the prompt and its channel; then the decision.         *)
Decide(d) ==
  /\ dpc[d] = "woken"
  /\ \/ ctxDone /\ DropDest(d) /\ UNCHANGED touched
     \/ /\ ~ctxDone
        /\ \/ /\ decision[d] = "retry" \/ (decision[d] = "create" /\ d \notin offer)
              /\ DestMoves(d, "resolve") /\ UNCHANGED <<touched, ctxDone>>
           \/ /\ decision[d] = "create" /\ d \in offer
              /\ \/ DestMoves(d, "scan") /\ touched' = touched \cup {d} /\ UNCHANGED ctxDone
                 \/ SkipDest(d) /\ UNCHANGED touched
           \/ decision[d] = "abort" /\ AbortDest(d) /\ UNCHANGED touched
           \/ decision[d] = "skip" /\ SkipDest(d) /\ UNCHANGED touched
  /\ chan' = [chan EXCEPT ![d] = Empty] /\ offer' = offer \ {d}
  /\ decision' = [decision EXCEPT ![d] = "none"]
  /\ UNCHANGED <<job, human, gen, pc, cancelled, confirmed, endVars, runRow, downs>>

ScanDest(d) ==
  /\ dpc[d] = "scan"
  /\ \/ ~ctxDone /\ DestMoves(d, "planned") /\ UNCHANGED ctxDone
     \/ ~ctxDone /\ DestFails(d)
     \/ ctxDone /\ DropDest(d)
  /\ UNCHANGED <<job, human, gateVars, touched, pc, cancelled, confirmed, endVars, runRow, downs>>

-----------------------------------------------------------------------------
(* executeOneDestination: inline after planning, or for a confirmed        *)
(* preview after all of it.                                                *)

MayExecute(d) ==
  \/ ~job.preview
  \/ pc = "execute" /\ (job.parallel \/ \A e \in 1 .. d - 1 : dpc[e] = "done")

StartDest(d) ==
  /\ dpc[d] = "planned" /\ MayExecute(d)
  /\ dpc' = [dpc EXCEPT ![d] = "exec"]
  /\ WriteDest(d, "running")
  /\ touched' = IF ctxDone THEN touched ELSE touched \cup {d}
  /\ UNCHANGED <<job, human, gateVars, outcome, pc, ctlVars, endVars, runRow, downs>>

(* Execute returns the context's error if the context ended before it did; *)
(* otherwise, unless the run's flag is set, classifyDestination.           *)
FinishDest(d) ==
  /\ dpc[d] = "exec"
  /\ \/ (cancelled \/ ctxDone) /\ DestEnds(d, "cancelled", FALSE, FALSE)
     \/ ~cancelled /\ \E status \in {"success", "failed"}, degraded \in BOOLEAN :
                         DestEnds(d, status, FALSE, degraded)
  /\ UNCHANGED <<job, human, gateVars, touched, pc, ctlVars, endVars, runRow, downs>>

-----------------------------------------------------------------------------
(* The preview's park, and the end of the run.                             *)

Planned ==
  /\ pc = "dests" /\ \A d \in Dests : PlanPassed(d)
  /\ IF job.preview
     THEN pc' = "parked" /\ WriteRun("awaiting_confirmation")
     ELSE pc' = "finalise" /\ UNCHANGED <<runRow, faultVars>>
  /\ UNCHANGED <<job, human, gateVars, destVars, ctlVars, endVars, destRow, downs>>

Unpark ==
  /\ pc = "parked" /\ confirmed
  /\ pc' = "execute" /\ WriteRun("running")
  /\ UNCHANGED <<job, human, gateVars, destVars, ctlVars, endVars, destRow, downs>>

(* abandonPreview closes the destinations that were waiting to execute.    *)
AbandonPreview ==
  /\ pc' = "abandoning" /\ final' = "cancelled"
  /\ left' = { d \in Dests : outcome[d] = NoOutcome }

(* The timer, or the context.                                              *)
GiveUp ==
  /\ pc = "parked"
  /\ IF cancelled THEN CancelRun("abandoning") ELSE AbandonPreview
  /\ UNCHANGED <<job, human, gateVars, destVars, ctlVars, rowVars, downs>>

Executed ==
  /\ pc = "execute" /\ \A d \in Dests : dpc[d] = "done"
  /\ pc' = "finalise"
  /\ UNCHANGED <<job, human, gateVars, destVars, ctlVars, endVars, rowVars, downs>>

Some(status) == \E d \in Dests : outcome[d].status = status

ClassifyCancelledFirst == IF Some("cancelled") THEN "cancelled" ELSE "failed"
ClassifyByFailures ==
  IF Some("failed") THEN (IF Some("success") THEN "partial" ELSE "failed")
  ELSE IF Some("success") THEN "success" ELSE "cancelled"
ClassifyRun ==
  IF job.policy = "abort" /\ \E d \in Dests : outcome[d].unavailable THEN "failed"
  ELSE IF Some("cancelled") /\ ~Some("success") /\ ~Some("failed") THEN "cancelled"
  ELSE IF ~Some("success") THEN "failed"
  ELSE IF \E d \in Dests : outcome[d].status # "success" \/ outcome[d].degraded
  THEN "partial" ELSE "success"

Finalise ==
  /\ pc = "finalise"
  /\ \/ cancelled /\ CancelRun("settling")
     \/ ~cancelled /\ final' = ClassifyRun /\ left' = {} /\ pc' = "settling"
  /\ UNCHANGED <<job, human, gateVars, destVars, ctlVars, rowVars, downs>>

(* The statements of failRun, cancelRun, abandonPreview and the end of     *)
(* execute, in the job's order.                                            *)
Closing == {"failing", "abandoning", "settling"}

CloseDest(d) ==
  /\ pc \in Closing /\ d \in left /\ \A e \in left : d <= e
  /\ WriteDest(d, final)
  /\ left' = left \ {d}
  /\ UNCHANGED <<job, human, gateVars, destVars, pc, ctlVars, final, runRow, downs>>

FinishRun ==
  /\ pc \in Closing /\ left = {}
  /\ WriteRun(final)
  /\ final' = "none" /\ pc' = "settled"
  /\ UNCHANGED <<job, human, gateVars, destVars, ctlVars, left, destRow, downs>>

(* The defers: mounts released, events flushed, finish().                  *)
Leave ==
  /\ pc = "settled"
  /\ pc' = "ended"
  /\ UNCHANGED <<job, human, gateVars, destVars, ctlVars, endVars, rowVars, downs>>

(* The process dies: the run's memory goes, and the requests in flight.    *)
(* What people had asked for and what was written is remembered.           *)
Crash ==
  /\ pc # "down" /\ downs < MaxCrashes
  /\ pc' = "down" /\ downs' = downs + 1
  /\ dpc' = [d \in Dests |-> "todo"]
  /\ outcome' = [d \in Dests |-> NoOutcome]
  /\ chan' = [d \in Dests |-> Empty] /\ gen' = [d \in Dests |-> 0] /\ offer' = {}
  /\ decision' = [d \in Dests |-> "none"]
  /\ human' = [h \in Humans |-> Done]
  /\ ctxDone' = FALSE /\ final' = "none" /\ left' = {}
  /\ UNCHANGED <<job, touched, cancelled, confirmed, rowVars>>

(* ReconcileInterruptedRuns at the next start: the run's row, then those   *)
(* of the destinations.  When a statement fails the rest are not run, main *)
(* warns, and the process serves.                                          *)
ReconciledRun(s) == CASE s = "running" -> "failed"
                      [] s = "awaiting_confirmation" -> "cancelled"
                      [] OTHER -> s
LiveDestRows == {"pending", "running", "awaiting_prompt"}
ReconciledRunningDest(s) == IF s = "running" THEN "failed" ELSE s
ReconciledDest(s) == IF s \in LiveDestRows THEN "failed" ELSE s

ReconcileRun ==
  /\ pc = "down" /\ pc' = "booting"
  /\ runRow' = ReconciledRun(runRow) /\ lost' = lost \ {RunRec}
  /\ UNCHANGED <<job, human, gateVars, destVars, ctlVars, endVars, destRow, faults, downs>>

ReconcileDests ==
  /\ pc = "booting" /\ pc' = "rebooted"
  /\ destRow' = [d \in Dests |-> ReconciledDest(destRow[d])] /\ lost' = {}
  /\ UNCHANGED <<job, human, gateVars, destVars, ctlVars, endVars, runRow, faults, downs>>

LiveRecs ==
  { d \in Dests : destRow[d] \in LiveDestRows }
    \cup (IF runRow \in {"running", "awaiting_confirmation"} THEN {RunRec} ELSE {})

ReconcileFails ==
  /\ pc \in {"down", "booting"} /\ pc' = "rebooted"
  /\ faults < MaxFaults /\ faults' = faults + 1
  /\ lost' = LiveRecs
  /\ UNCHANGED <<job, human, gateVars, destVars, ctlVars, endVars, destRow, runRow, downs>>

-----------------------------------------------------------------------------
People(h) ==
  \/ "cancel" \in Requests /\ Cancel(h)
  \/ CancelContext(h)
  \/ "confirm" \in Requests /\ Confirm(h)
  \/ \E d \in Dests, a \in Answers \cap Requests : AnswerPrompt(h, d, a)
  \/ SendAnswer(h)

(* A destination's own steps, taken while the process is up.               *)
DestStep(d) ==
  /\ Active
  /\ \/ BeginDest(d) \/ ResolveDest(d)
     \/ \E missingFolder \in BOOLEAN : ResolveFails(d, missingFolder)
     \/ WakeOnAnswer(d) \/ WakeOnTimer(d) \/ WakeOnCancel(d) \/ Decide(d)
     \/ ScanDest(d) \/ StartDest(d) \/ FinishDest(d)

RunStep ==
  \/ ResolveChains \/ ResolveSource \/ ScanSource
  \/ Planned \/ Unpark \/ GiveUp \/ Executed \/ Finalise
  \/ (\E d \in Dests : CloseDest(d)) \/ FinishRun \/ Leave

BootStep == ReconcileRun \/ ReconcileDests \/ ReconcileFails

Next ==
  \/ \E h \in Humans : People(h)
  \/ \E d \in Dests : DestStep(d)
  \/ RunStep \/ Crash \/ BootStep

Spec == Init /\ [][Next]_vars

(* Goroutines run, timers fire, the restart policy restarts the process.   *)
(* Nobody has to answer, confirm or cancel anything.                       *)
Fairness ==
  /\ WF_vars(RunStep) /\ WF_vars(BootStep)
  /\ \A d \in Dests : WF_vars(DestStep(d))

FairSpec == Spec /\ Fairness

-----------------------------------------------------------------------------
(* Properties                                                              *)

DestOutcomes == {"success", "failed", "skipped_unavailable", "cancelled"}
RunOutcomes  == {"success", "partial", "failed", "cancelled"}

RunPcs  == {"chains", "source", "scan", "dests", "parked", "execute", "finalise",
            "failing", "abandoning", "settling", "settled", "ended"} \cup Dead
DestPcs == {"todo", "resolve", "asking", "woken", "scan", "planned", "exec", "done"}
Answer  == [act : Answers \cup {"none"}, gen : Nat]
Outcome == [status : DestOutcomes \cup {"none"}, unavailable : BOOLEAN, degraded : BOOLEAN]

RunTypeOK ==
  /\ job \in JobConfig /\ pc \in RunPcs
  /\ ctxDone \in BOOLEAN /\ cancelled \in BOOLEAN /\ confirmed \in BOOLEAN
  /\ runRow \in RunOutcomes \cup {"running", "awaiting_confirmation"}
  /\ final \in RunOutcomes \cup {"none"} /\ left \subseteq Dests
  /\ lost \subseteq Dests \cup {RunRec} /\ faults \in Nat /\ downs \in Nat

DestTypeOK ==
  /\ dpc \in [Dests -> DestPcs]
  /\ outcome \in [Dests -> Outcome]
  /\ destRow \in [Dests -> DestOutcomes \cup LiveDestRows]
  /\ touched \subseteq Dests

GateTypeOK ==
  /\ chan \in [Dests -> Answer]
  /\ gen \in [Dests -> Nat] /\ offer \subseteq Dests
  /\ decision \in [Dests -> Answers \cup {"none"}]
  /\ human \in [Humans -> [at : {"idle", "sending", "cancelling", "done"},
                           dest : Dests \cup {0}, answer : Answer]]

TypeOK == RunTypeOK /\ DestTypeOK /\ GateTypeOK

(* A preview that nobody confirmed has written to no destination, not even *)
(* a folder: whatever create_dest_dirs says and whatever a prompt was      *)
(* answered (resolveDestination, awaitConfirmation).                       *)
PreviewTouchesNothing == job.preview /\ ~confirmed => touched = {}

(* The run's status tells the truth about its destinations and their rows  *)
(* (classifyRun, cancelRun, failRun): success means every one succeeded    *)
(* and none is degraded, partial that something worked and something did   *)
(* not, and the rows say the same.  The exceptions are the writes that     *)
(* failed: those rows stay live behind a run that is over (FinishRun and   *)
(* FinishRunDestination are only logged when they fail).                   *)
RunStatusIsHonest ==
  pc \in {"settled", "ended"} =>
    /\ runRow \in RunOutcomes \/ RunRec \in lost
    /\ runRow = "success" =>
         \A d \in Dests : outcome[d].status = "success" /\ ~outcome[d].degraded
    /\ runRow = "partial" =>
         /\ \E d \in Dests : outcome[d].status = "success"
         /\ \E d \in Dests : outcome[d].status # "success" \/ outcome[d].degraded
    /\ runRow \in {"success", "partial"} =>
         \A d \in Dests : d \in lost \/ (destRow[d] = "success" <=> outcome[d].status = "success")

(* Nothing reads as cancelled unless somebody cancelled it or a preview    *)
(* ended before anything was written.  A preview ends so when nobody       *)
(* confirms it, and also when an abort ends its context: there the abort   *)
(* reads cancelled and not failed (awaitConfirmation, abandonPreview).  In *)
(* every other run an abort that stops the other destinations through the  *)
(* same context fails the run (classifyRun).  A boot that finds a run      *)
(* parked by its row, because the write that un-parked it failed, cancels  *)
(* it too.                                                                 *)
CancelledOnlyOnRequest ==
  runRow = "cancelled" =>
    \/ cancelled
    \/ job.preview /\ touched = {}
    \/ job.preview /\ faults > 0 /\ downs > 0

(* An answer acts on the prompt it was given to: a double click that lands *)
(* after a retry reopened the prompt is dropped, never taken for an answer *)
(* to the new question (gate.open, gate.answer, gate.close).               *)
AnswerIsForThisQuestion ==
  \A d \in Dests : dpc[d] = "asking" /\ chan[d] # Empty => chan[d].gen = gen[d]

(* Under the abort policy a sequential job writes to nothing behind the    *)
(* destination that was unavailable, whether it aborted at once, after a   *)
(* prompt, or was skipped at one (planDestinations' "not attempted",      *)
(* resolveDestination, the order of the planning loop).                    *)
AbortStopsTheRest ==
  ~job.parallel /\ job.policy = "abort" =>
    \A d, e \in Dests : e < d /\ outcome[e].unavailable => d \notin touched

(* The run as its row tells it: what Runner takes a run to be.             *)
Phase ==
  IF pc \in {"chains", "source", "scan", "failing", "dests"} THEN "working"
  ELSE IF pc \in {"parked", "abandoning"} THEN "parked"
  ELSE IF pc = "execute" \/ (pc \in {"finalise", "settling"} /\ job.preview) THEN "executing"
  ELSE IF pc \in {"finalise", "settling"} THEN "working"
  ELSE IF pc = "down" THEN "dead" ELSE "settled"

Life == INSTANCE RunLife WITH
  row <- runRow, phase <- Phase, preview <- job.preview,
  asked <- cancelled /\ pc \notin Dead, lost <- RunRec \in lost

(* However its destinations fail, prompt, abort and answer late, the run's *)
(* row goes the way Runner takes it to go: parked only as a preview, a     *)
(* verdict only from where destinations execute, cancelled only as asked   *)
(* or unconfirmed, final once settled, left live only by a write that      *)
(* failed (execute, failRun, cancelRun, awaitConfirmation, classifyRun,    *)
(* ReconcileInterruptedRuns).                                              *)
ImplementsRunLife == Life!Spec

(* Whenever the process died, also between two of a run's final writes,    *)
(* and whichever of them had failed, a boot whose statements succeed       *)
(* leaves neither the run nor a destination in a state that somebody would *)
(* have to end; one that fails leaves only what it did not get to          *)
(* (ReconcileInterruptedRuns).                                             *)
RebootSettlesRows ==
  pc = "rebooted" =>
    /\ runRow \in RunOutcomes \/ RunRec \in lost
    /\ \A d \in Dests : destRow[d] \in DestOutcomes \/ d \in lost

(* A run reaches its end with no human input: no prompt, park or policy    *)
(* waits for ever (waitForPrompt and awaitConfirmation bound every wait).  *)
RunEnds == <>(pc \in {"ended", "rebooted"})

-----------------------------------------------------------------------------
(* SPEC.md 6.1 step 8, which the code breaks: finalisation writes the      *)
(* result of every destination to the database.  A destination that an     *)
(* abort stopped keeps the row it had.                                     *)
EveryDestHasOutcome == pc = "ended" => \A d \in Dests : destRow[d] \in DestOutcomes
=============================================================================
