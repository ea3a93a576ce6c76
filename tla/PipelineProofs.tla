--------------------------- MODULE PipelineProofs ---------------------------
(***************************************************************************)
(* Proofs about RunPipeline for any number of destinations, any job        *)
(* settings, any number of people with any requests, any number of crashes *)
(* and of statements that fail.                                            *)
(***************************************************************************)
EXTENDS RunPipeline, TLAPS

-----------------------------------------------------------------------------
(* The inductive invariant, part by part.                                  *)

(* A destination has an outcome exactly when it is done.                   *)
OutcomeInv ==
  \A d \in Dests :
    /\ outcome[d].status = "none" <=> dpc[d] # "done"
    /\ outcome[d].unavailable => dpc[d] = "done"

(* Where the destinations can be, by where the run is.                     *)
Quiet(d) == dpc[d] \in {"todo", "done"} \/ (job.preview /\ dpc[d] = "planned")

PhaseInv ==
  /\ pc \in {"chains", "source", "scan", "failing"} \cup Dead => \A d \in Dests : dpc[d] = "todo"
  /\ pc \in {"parked", "abandoning"} =>
       job.preview /\ \A d \in Dests : dpc[d] \in {"planned", "done"}
  /\ pc = "execute" => job.preview /\ confirmed
                       /\ \A d \in Dests : dpc[d] \in {"planned", "exec", "done"}
  /\ pc \in {"finalise", "settling"} => \A d \in Dests : dpc[d] = "done"
  /\ pc \in {"settled", "ended"} => \A d \in Dests : Quiet(d)

(* What the outcomes must be for the run to have this status.              *)
Honest(status) ==
  /\ status = "success" =>
       \A d \in Dests : outcome[d].status = "success" /\ ~outcome[d].degraded
  /\ status = "partial" =>
       /\ \E d \in Dests : outcome[d].status = "success"
       /\ \E d \in Dests : outcome[d].status # "success" \/ outcome[d].degraded

(* The status a run that closes is about to write: honest, and cancelled   *)
(* only if somebody cancelled or the preview was not confirmed.            *)
FinalInv ==
  /\ pc \notin Closing => final = "none" /\ left = {}
  /\ pc = "failing" => final = "failed" \/ (final = "cancelled" /\ cancelled)
  /\ pc = "abandoning" => final = "cancelled"
  /\ pc = "settling" =>
       /\ final \in RunOutcomes /\ Honest(final)
       /\ final = "cancelled" => cancelled
       /\ left # {} => final = "cancelled"

(* The run's row, by where the run is: what the code last wrote, or what   *)
(* was there before a write that failed.                                   *)
RunRowInv ==
  /\ pc \in {"chains", "source", "scan", "dests", "failing"} => runRow = "running"
  /\ pc \in {"parked", "abandoning"} =>
       runRow = "awaiting_confirmation" \/ (runRow = "running" /\ RunRec \in lost)
  /\ pc \in {"execute", "finalise", "settling"} =>
       \/ runRow = "running"
       \/ job.preview /\ runRow = "awaiting_confirmation" /\ RunRec \in lost
  /\ pc \in {"settled", "ended"} =>
       (runRow \in RunOutcomes \/ RunRec \in lost) /\ Honest(runRow)
  /\ pc = "booting" => runRow \in RunOutcomes /\ RunRec \notin lost

(* Until the run is closed as a whole, a destination's row reads success   *)
(* exactly if its outcome does, unless a write to it failed.               *)
RowsAgree == \A d \in Dests : d \in lost \/ (destRow[d] = "success" <=> outcome[d].status = "success")

RowsInv ==
  /\ pc \in {"chains", "source", "scan", "dests", "parked", "execute", "finalise"} => RowsAgree
  /\ pc = "settling" /\ final # "cancelled" => RowsAgree
  /\ pc \in {"settled", "ended"} /\ runRow \in {"success", "partial"} => RowsAgree

(* The context ends at a person's request or with a failed destination,    *)
(* and a destination is cancelled only if it did, or behind an abort.      *)
CancelInv ==
  /\ ctxDone => cancelled \/ Some("failed")
  /\ Some("cancelled") =>
       \/ cancelled \/ Some("failed")
       \/ job.policy = "abort" /\ \E d \in Dests : outcome[d].unavailable

(* A row is out of date only after a failure, and a run is dead only after *)
(* a crash.                                                                *)
FaultInv ==
  /\ lost # {} => faults > 0
  /\ pc \in Dead => downs > 0

(* A preview offers to create nothing and writes nothing before it is      *)
(* confirmed and unparked.                                                 *)
PreviewInv ==
  job.preview =>
    /\ offer = {}
    /\ touched # {} => confirmed /\ pc \notin {"chains", "source", "scan", "failing", "dests",
                                               "parked", "abandoning"}

(* A row that says parked is that of a preview; one that writes behind it  *)
(* could not say that it was un-parked.                                    *)
ParkedInv == runRow = "awaiting_confirmation" => job.preview /\ (touched = {} \/ faults > 0)

(* What a channel holds was sent to the prompt that made it.               *)
ChanInv == \A d \in Dests : chan[d] # Empty => chan[d].gen = gen[d]

(* Whoever is about to cancel the context has set the flag.                *)
HumanInv == \A h \in Humans : human[h].at = "cancelling" => cancelled

DestParts == OutcomeInv /\ PhaseInv /\ FinalInv /\ RunRowInv /\ RowsInv /\ CancelInv
RestParts == FaultInv /\ PreviewInv /\ ParkedInv /\ CancelledOnlyOnRequest /\ RebootSettlesRows
GateParts == ChanInv /\ HumanInv

IInv == TypeOK /\ DestParts /\ RestParts /\ GateParts
-----------------------------------------------------------------------------
USE PipelineAssumption DEF IInv, TypeOK, DestParts, RestParts, GateParts

(* The initial states satisfy the invariant.                               *)
LEMMA InitInv == Init => IInv
<1> SUFFICES ASSUME Init PROVE IInv
  OBVIOUS
<1>1. RunTypeOK
  BY DEF Init, RunTypeOK, RunPcs, RunOutcomes, Dead
<1>2. DestTypeOK
  BY DEF Init, DestTypeOK, DestPcs, NoOutcome, Outcome, DestOutcomes, LiveDestRows
<1>3. GateTypeOK
  BY DEF Init, GateTypeOK, Empty, Answer, Idle
<1>4. OutcomeInv /\ PhaseInv /\ FinalInv /\ CancelInv
  BY DEF Init, NoOutcome, Some, OutcomeInv, PhaseInv, FinalInv, CancelInv, Dead, Closing
<1>5. RunRowInv /\ RowsInv
  BY DEF Init, NoOutcome, RunRowInv, RowsInv, RowsAgree
<1>6. RestParts
  BY DEF Init, FaultInv, PreviewInv, ParkedInv, CancelledOnlyOnRequest, RebootSettlesRows, Dead
<1>7. GateParts
  BY DEF Init, ChanInv, HumanInv, Idle
<1> QED
  BY <1>1, <1>2, <1>3, <1>4, <1>5, <1>6, <1>7

-----------------------------------------------------------------------------
(* Where a run is while one of its destinations is at work.                *)

(* A destination inside planOneDestination is one of a run that plans, and *)
(* one that executes is one of a run that has not settled.                 *)
LEMMA WhereRunIs ==
  ASSUME IInv, NEW d \in Dests, Active
  PROVE  /\ dpc[d] \in {"resolve", "asking", "woken", "scan"} => pc = "dests"
         /\ dpc[d] = "exec" => pc \in {"dests", "execute"}
         /\ dpc[d] = "planned" /\ ~job.preview => pc = "dests"
BY DEF RunTypeOK, RunPcs, Active, PhaseInv, Quiet

(* A step that leaves the gate and the people alone keeps what they hold.  *)
LEMMA GateSame ==
  ASSUME IInv, UNCHANGED gateVars, UNCHANGED human, UNCHANGED cancelled
  PROVE  GateTypeOK' /\ GateParts'
BY DEF gateVars, GateTypeOK, ChanInv, HumanInv, Empty

(* What a statement about one destination may do to the rows: nothing to   *)
(* the others, and unless it failed, that row says s.                      *)
RowStep(d, s) ==
  /\ destRow' \in [Dests -> DestOutcomes \cup LiveDestRows]
  /\ lost' \subseteq Dests \cup {RunRec} /\ faults' \in Nat /\ faults' >= faults
  /\ lost' # {} => faults' > 0
  /\ RunRec \in lost' <=> RunRec \in lost
  /\ \A e \in Dests : e # d => destRow'[e] = destRow[e] /\ (e \in lost' <=> e \in lost)
  /\ d \in lost' \/ (destRow'[d] = "success" <=> s = "success")

LEMMA RowWritten ==
  ASSUME IInv, NEW d \in Dests, NEW s \in DestOutcomes \cup LiveDestRows, WriteDest(d, s)
  PROVE  RowStep(d, s)
<1>1. d # RunRec /\ faults \in Nat /\ lost \subseteq Dests \cup {RunRec}
  BY DEF Dests, RunRec, RunTypeOK
<1>2. CASE destRow' = [destRow EXCEPT ![d] = s] /\ lost' = lost \ {d} /\ UNCHANGED faults
  BY <1>1, <1>2 DEF RowStep, DestTypeOK, FaultInv
<1>3. CASE WriteFails(d) /\ UNCHANGED destRow
  BY <1>1, <1>3 DEF RowStep, WriteFails, DestTypeOK
<1> QED
  BY <1>2, <1>3 DEF WriteDest

LEMMA RowLeft ==
  ASSUME IInv, NEW d \in Dests, NEW s, s # "success", dpc[d] # "done",
         pc \in {"dests", "execute"}, UNCHANGED <<destRow, faultVars>>
  PROVE  RowStep(d, s)
<1>1. UNCHANGED <<destRow, lost, faults>>
  BY DEF faultVars
<1>2. outcome[d].status = "none" /\ RowsAgree
  BY DEF OutcomeInv, RowsInv
<1>3. d \in lost \/ destRow[d] # "success"
  BY <1>2 DEF RowsAgree
<1> QED
  BY <1>1, <1>3 DEF RowStep, RunTypeOK, DestTypeOK, FaultInv

(* What no step of a destination changes.                                  *)
DestKeeps == UNCHANGED <<job, pc, runRow, cancelled, confirmed, final, left, downs>>

(* While a run plans or executes, its row and its rows' agreement depend   *)
(* on this destination's statement only.                                   *)
LEMMA RowsKept ==
  ASSUME IInv, NEW d \in Dests, NEW s, pc \in {"dests", "execute"}, DestKeeps, RowStep(d, s),
         \A e \in Dests : e # d => outcome'[e] = outcome[e],
         outcome'[d].status = "success" <=> s = "success", ctxDone' \in BOOLEAN
  PROVE  FinalInv' /\ RunRowInv' /\ RowsInv' /\ RunTypeOK'
<1>1. RowsAgree
  BY DEF RowsInv
<1>2. RowsAgree'
  BY <1>1 DEF RowsAgree, RowStep
<1>3. RowsInv'
  BY <1>2 DEF RowsInv, DestKeeps
<1>4. FinalInv' /\ RunRowInv'
  BY DEF FinalInv, RunRowInv, DestKeeps, RowStep, Closing
<1>5. RunTypeOK'
  BY DEF RunTypeOK, DestKeeps, RowStep
<1> QED
  BY <1>3, <1>4, <1>5

(* A step that only moves a destination keeps the parts about outcomes.    *)
LEMMA MoveParts ==
  ASSUME IInv, NEW d \in Dests, NEW l \in DestPcs, dpc[d] # "done", l # "done",
         pc \in {"dests", "execute"}, pc = "execute" => l = "exec",
         dpc' = [dpc EXCEPT ![d] = l], outcome' = outcome,
         NEW s, s # "success", RowStep(d, s), DestKeeps, UNCHANGED ctxDone,
         touched' \subseteq Dests
  PROVE  RunTypeOK' /\ DestTypeOK' /\ DestParts'
<1>1. OutcomeInv'
  BY DEF OutcomeInv, DestTypeOK
<1>2. PhaseInv'
  BY DEF PhaseInv, DestTypeOK, DestKeeps, Dead
<1>3. outcome[d].status = "none" /\ ctxDone' \in BOOLEAN
  BY DEF OutcomeInv, RunTypeOK
<1>4. FinalInv' /\ RunRowInv' /\ RowsInv' /\ RunTypeOK'
  BY <1>3, RowsKept
<1>5. CancelInv'
  BY DEF CancelInv, Some, DestKeeps
<1>6. DestTypeOK'
  BY DEF DestTypeOK, RowStep
<1> QED
  BY <1>1, <1>2, <1>4, <1>5, <1>6

(* A step that gives a destination its outcome keeps them too, as long as  *)
(* the statement agrees, a cancelled outcome has a reason, and the context *)
(* ends only with a failure.                                               *)
LEMMA EndParts ==
  ASSUME IInv, NEW d \in Dests, NEW s \in DestOutcomes, NEW u \in BOOLEAN,
         NEW g \in BOOLEAN, dpc[d] # "done", pc \in {"dests", "execute"},
         OutcomeIs(d, s, u, g), RowStep(d, s), DestKeeps,
         s = "cancelled" => ctxDone \/ cancelled \/ NotAttempted(d),
         ctxDone' = ctxDone \/ (ctxDone' = TRUE /\ s = "failed"),
         touched' \subseteq Dests
  PROVE  RunTypeOK' /\ DestTypeOK' /\ DestParts'
<1>1. outcome[d].status = "none" /\ ~outcome[d].unavailable /\ ctxDone' \in BOOLEAN
  BY DEF OutcomeInv, DestTypeOK, Outcome, RunTypeOK
<1>2. /\ outcome'[d] = [status |-> s, unavailable |-> u, degraded |-> g]
      /\ \A e \in Dests : e # d => outcome'[e] = outcome[e]
      /\ dpc'[d] = "done"
      /\ \A e \in Dests : e # d => dpc'[e] = dpc[e]
  BY DEF OutcomeIs, DestTypeOK
<1>3. OutcomeInv'
  BY <1>2 DEF OutcomeInv, DestOutcomes
<1>4. PhaseInv'
  BY <1>2 DEF PhaseInv, DestKeeps, Dead
<1>5. FinalInv' /\ RunRowInv' /\ RowsInv' /\ RunTypeOK'
  BY <1>1, <1>2, RowsKept
<1>6. (Some("failed") \/ s = "failed" => Some("failed")')
        /\ (Some("cancelled")' => Some("cancelled") \/ s = "cancelled")
  BY <1>1, <1>2 DEF Some
<1>7. (\E e \in Dests : outcome[e].unavailable) => \E e \in Dests : outcome'[e].unavailable
  BY <1>1, <1>2
<1>8. NotAttempted(d) => job.policy = "abort" /\ \E e \in Dests : outcome[e].unavailable
  BY DEF NotAttempted, Dests
<1>9. CancelInv'
  BY <1>6, <1>7, <1>8 DEF CancelInv, DestKeeps
<1>11. DestTypeOK'
  BY DEF DestTypeOK, OutcomeIs, RowStep, DestPcs, Outcome
<1> QED
  BY <1>3, <1>4, <1>5, <1>9, <1>11

(* While a run plans or executes, the parts about previews depend on what  *)
(* is offered and written only.                                            *)
LEMMA RestKept ==
  ASSUME IInv, pc \in {"dests", "execute"}, DestKeeps,
         NEW d \in Dests, NEW s, RowStep(d, s),
         job.preview => offer' = {},
         job.preview /\ touched' # {} => touched # {} \/ pc = "execute"
  PROVE  RestParts'
<1>1. /\ runRow \in {"running", "awaiting_confirmation"}
      /\ runRow = "awaiting_confirmation" => job.preview /\ faults > 0
  BY DEF RunRowInv, FaultInv
<1>2. pc = "execute" => confirmed
  BY DEF PhaseInv
<1>3. PreviewInv'
  BY <1>2 DEF PreviewInv, DestKeeps
<1>4. faults \in Nat /\ faults' \in Nat /\ faults' >= faults
  BY DEF RunTypeOK, RowStep
<1>5. ParkedInv'
  BY <1>1, <1>4 DEF ParkedInv, DestKeeps
<1>6. CancelledOnlyOnRequest' /\ RebootSettlesRows'
  BY <1>1 DEF CancelledOnlyOnRequest, RebootSettlesRows, DestKeeps
<1>7. FaultInv'
  BY DEF FaultInv, RowStep, DestKeeps, Dead
<1> QED
  BY <1>3, <1>5, <1>6, <1>7

-----------------------------------------------------------------------------
(* The destinations' steps, one lemma per action.                          *)

(* planOneDestination's entry.                                             *)
LEMMA BeginDestInv ==
  ASSUME IInv, NEW d \in Dests, BeginDest(d)
  PROVE  IInv'
<1>1. pc = "dests" /\ dpc[d] = "todo" /\ touched' = touched /\ touched \subseteq Dests
  BY DEF BeginDest, DestTypeOK
<1>2. DestKeeps /\ UNCHANGED human /\ UNCHANGED gateVars
  BY DEF BeginDest, DestKeeps, endVars
<1>3. GateTypeOK' /\ GateParts'
  BY <1>2, GateSame DEF DestKeeps
<1>4. \A s : RowStep(d, s) => RestParts'
  BY <1>1, <1>2, RestKept DEF PreviewInv, gateVars
<1>5. CASE NotAttempted(d) /\ DropDest(d)
  <2>1. OutcomeIs(d, "cancelled", FALSE, FALSE) /\ ctxDone' = ctxDone
    BY <1>5 DEF DropDest
  <2>2. RowStep(d, "cancelled")
    BY <1>1, <1>5, RowLeft DEF DropDest
  <2>3. RunTypeOK' /\ DestTypeOK' /\ DestParts'
    BY <1>1, <1>2, <1>5, <2>1, <2>2, EndParts DEF DestOutcomes
  <2> QED BY <1>3, <1>4, <2>2, <2>3
<1>6. CASE ~ctxDone /\ DestMoves(d, "resolve") /\ UNCHANGED ctxDone
  <2>1. RowStep(d, "none")
    BY <1>1, <1>6, RowLeft DEF DestMoves
  <2>2. RunTypeOK' /\ DestTypeOK' /\ DestParts'
    BY <1>1, <1>2, <1>6, <2>1, MoveParts DEF DestMoves, DestPcs
  <2> QED BY <1>3, <1>4, <2>1, <2>2
<1>7. CASE DestFails(d)
  <2>1. RowStep(d, "failed")
    BY <1>7, RowWritten DEF DestFails, DestEnds, DestOutcomes
  <2>2. RunTypeOK' /\ DestTypeOK' /\ DestParts'
    BY <1>1, <1>2, <1>7, <2>1, EndParts DEF DestFails, DestEnds, DestOutcomes
  <2> QED BY <1>3, <1>4, <2>1, <2>2
<1> QED BY <1>5, <1>6, <1>7 DEF BeginDest

(* resolveWith succeeds.                                                   *)
LEMMA ResolveDestInv ==
  ASSUME IInv, NEW d \in Dests, Active, ResolveDest(d)
  PROVE  IInv'
<1>1. dpc[d] = "resolve" /\ pc = "dests"
  BY WhereRunIs DEF ResolveDest
<1>2. DestKeeps /\ UNCHANGED <<human, ctxDone>> /\ UNCHANGED gateVars
  BY DEF ResolveDest, DestKeeps, endVars, ctlVars
<1>3. touched' \subseteq Dests /\ (job.preview => touched' = touched)
  BY DEF ResolveDest, MayCreate, DestTypeOK
<1>4. RowStep(d, "none")
  BY <1>1, RowLeft DEF ResolveDest, DestMoves
<1>5. RunTypeOK' /\ DestTypeOK' /\ DestParts'
  BY <1>1, <1>2, <1>3, <1>4, MoveParts DEF ResolveDest, DestMoves, DestPcs
<1>6. RestParts'
  BY <1>1, <1>2, <1>3, <1>4, RestKept DEF PreviewInv, gateVars
<1>7. GateTypeOK' /\ GateParts'
  BY <1>2, GateSame DEF DestKeeps
<1> QED BY <1>5, <1>6, <1>7

(* The availability gate.                                                  *)
LEMMA ResolveFailsInv ==
  ASSUME IInv, NEW d \in Dests, Active, NEW m \in BOOLEAN, ResolveFails(d, m)
  PROVE  IInv'
<1>1. dpc[d] = "resolve" /\ pc = "dests"
  BY WhereRunIs DEF ResolveFails
<1>2. DestKeeps /\ UNCHANGED <<human, touched>> /\ touched \subseteq Dests
  BY DEF ResolveFails, DestKeeps, endVars, DestTypeOK
<1>3. CASE \E c \in BOOLEAN : Ask(d, c) /\ (c => MayAsk)
  <2>1. PICK c \in BOOLEAN : Ask(d, c) /\ (c => MayAsk)
    BY <1>3
  <2>0. RowStep(d, "awaiting_prompt")
    BY <2>1, RowWritten DEF Ask, LiveDestRows
  <2>2. RunTypeOK' /\ DestTypeOK' /\ DestParts'
    BY <1>1, <1>2, <2>0, <2>1, MoveParts DEF Ask, DestPcs
  <2>3. job.preview => offer' = {}
    BY <2>1 DEF Ask, MayAsk, PreviewInv
  <2>4. RestParts'
    BY <1>1, <1>2, <2>0, <2>3, RestKept
  <2>5. GateTypeOK'
    BY <1>2, <2>1 DEF Ask, FreshChannel, GateTypeOK, Empty, Answer
  <2>6. ChanInv'
    BY <2>1 DEF Ask, FreshChannel, GateTypeOK, ChanInv
  <2>7. HumanInv'
    BY <1>2 DEF HumanInv, DestKeeps
  <2> QED BY <2>2, <2>4, <2>5, <2>6, <2>7
<1>4. CASE AbortDest(d) /\ UNCHANGED gateVars
  <2>0. RowStep(d, "failed")
    BY <1>4, RowWritten DEF AbortDest, DestEnds, DestOutcomes
  <2>1. RunTypeOK' /\ DestTypeOK' /\ DestParts'
    BY <1>1, <1>2, <1>4, <2>0, EndParts DEF AbortDest, DestEnds, DestOutcomes
  <2>2. RestParts'
    BY <1>1, <1>2, <1>4, <2>0, RestKept DEF PreviewInv, gateVars
  <2>3. GateTypeOK' /\ GateParts'
    BY <1>2, <1>4, GateSame DEF DestKeeps
  <2> QED BY <2>1, <2>2, <2>3
<1>5. CASE SkipDest(d) /\ UNCHANGED gateVars
  <2>0. RowStep(d, "skipped_unavailable")
    BY <1>5, RowWritten DEF SkipDest, DestEnds, DestOutcomes
  <2>1. RunTypeOK' /\ DestTypeOK' /\ DestParts'
    BY <1>1, <1>2, <1>5, <2>0, EndParts DEF SkipDest, DestEnds, DestOutcomes
  <2>2. RestParts'
    BY <1>1, <1>2, <1>5, <2>0, RestKept DEF PreviewInv, gateVars
  <2>3. GateTypeOK' /\ GateParts'
    BY <1>2, <1>5, GateSame DEF DestKeeps
  <2> QED BY <2>1, <2>2, <2>3
<1> QED BY <1>3, <1>4, <1>5 DEF ResolveFails

(* waitForPrompt returns.                                                  *)
LEMMA WakeInv ==
  ASSUME IInv, NEW d \in Dests, Active, WakeOnAnswer(d) \/ WakeOnTimer(d) \/ WakeOnCancel(d)
  PROVE  IInv'
<1>1. PICK a \in Answers \cup {"none"} : Woken(d, a)
  BY DEF WakeOnAnswer, WakeOnTimer, WakeOnCancel, GateTypeOK, RunTypeOK, JobConfig, Answer, Answers
<1>2. dpc[d] = "asking" /\ pc = "dests"
  BY <1>1, WhereRunIs DEF Woken
<1>3. DestKeeps /\ UNCHANGED <<ctxDone, human, gen, offer, touched>>
  BY <1>1 DEF Woken, DestKeeps, endVars, ctlVars
<1>4. chan' = chan \/ chan' = [chan EXCEPT ![d] = Empty]
  BY DEF WakeOnAnswer, WakeOnTimer, WakeOnCancel
<1>5. RowStep(d, "none")
  BY <1>1, <1>2, RowLeft DEF Woken, DestMoves
<1>6. RunTypeOK' /\ DestTypeOK' /\ DestParts'
  BY <1>1, <1>2, <1>3, <1>5, MoveParts DEF Woken, DestMoves, DestPcs, DestTypeOK
<1>7. RestParts'
  BY <1>2, <1>3, <1>5, RestKept DEF PreviewInv
<1>8. GateTypeOK'
  BY <1>1, <1>3, <1>4 DEF Woken, GateTypeOK, Empty, Answer
<1>9. GateParts'
  BY <1>3, <1>4 DEF ChanInv, HumanInv, GateTypeOK, DestKeeps
<1> QED BY <1>6, <1>7, <1>8, <1>9

(* What was decided is done.                                               *)
LEMMA DecideInv ==
  ASSUME IInv, NEW d \in Dests, Active, Decide(d)
  PROVE  IInv'
<1>1. dpc[d] = "woken" /\ pc = "dests"
  BY WhereRunIs DEF Decide
<1>2. /\ DestKeeps /\ UNCHANGED <<human, gen>>
      /\ chan' = [chan EXCEPT ![d] = Empty] /\ offer' = offer \ {d}
      /\ decision' = [decision EXCEPT ![d] = "none"]
  BY DEF Decide, DestKeeps, endVars
<1>3. touched' \subseteq Dests /\ (job.preview => touched' = touched)
  BY DEF Decide, DestTypeOK, PreviewInv
<1>4. GateTypeOK'
  BY <1>2 DEF GateTypeOK, Empty, Answer
<1>5. GateParts'
  BY <1>2 DEF ChanInv, HumanInv, GateTypeOK, DestKeeps
<1>6. \A s : RowStep(d, s) => RestParts'
  BY <1>1, <1>2, <1>3, RestKept DEF PreviewInv
<1>7. CASE ctxDone /\ DropDest(d)
  <2>1. RowStep(d, "cancelled")
    BY <1>1, <1>7, RowLeft DEF DropDest
  <2>2. RunTypeOK' /\ DestTypeOK' /\ DestParts'
    BY <1>1, <1>2, <1>3, <1>7, <2>1, EndParts DEF DropDest, DestOutcomes
  <2> QED BY <1>4, <1>5, <1>6, <2>1, <2>2
<1>8. CASE \E l \in {"resolve", "scan"} : DestMoves(d, l) /\ UNCHANGED ctxDone
  <2>1. RowStep(d, "none")
    BY <1>1, <1>8, RowLeft DEF DestMoves
  <2>2. RunTypeOK' /\ DestTypeOK' /\ DestParts'
    BY <1>1, <1>2, <1>3, <1>8, <2>1, MoveParts DEF DestMoves, DestPcs
  <2> QED BY <1>4, <1>5, <1>6, <2>1, <2>2
<1>9. CASE SkipDest(d)
  <2>1. RowStep(d, "skipped_unavailable")
    BY <1>9, RowWritten DEF SkipDest, DestEnds, DestOutcomes
  <2>2. RunTypeOK' /\ DestTypeOK' /\ DestParts'
    BY <1>1, <1>2, <1>3, <1>9, <2>1, EndParts DEF SkipDest, DestEnds, DestOutcomes
  <2> QED BY <1>4, <1>5, <1>6, <2>1, <2>2
<1>10. CASE AbortDest(d)
  <2>1. RowStep(d, "failed")
    BY <1>10, RowWritten DEF AbortDest, DestEnds, DestOutcomes
  <2>2. RunTypeOK' /\ DestTypeOK' /\ DestParts'
    BY <1>1, <1>2, <1>3, <1>10, <2>1, EndParts DEF AbortDest, DestEnds, DestOutcomes
  <2> QED BY <1>4, <1>5, <1>6, <2>1, <2>2
<1> QED BY <1>7, <1>8, <1>9, <1>10 DEF Decide

(* The destination's scan.                                                 *)
LEMMA ScanDestInv ==
  ASSUME IInv, NEW d \in Dests, Active, ScanDest(d)
  PROVE  IInv'
<1>1. dpc[d] = "scan" /\ pc = "dests"
  BY WhereRunIs DEF ScanDest
<1>2. DestKeeps /\ UNCHANGED <<human, touched>> /\ UNCHANGED gateVars /\ touched \subseteq Dests
  BY DEF ScanDest, DestKeeps, endVars, DestTypeOK
<1>3. GateTypeOK' /\ GateParts'
  BY <1>2, GateSame DEF DestKeeps
<1>4. \A s : RowStep(d, s) => RestParts'
  BY <1>1, <1>2, RestKept DEF PreviewInv, gateVars
<1>5. CASE ctxDone /\ DropDest(d)
  <2>1. RowStep(d, "cancelled")
    BY <1>1, <1>5, RowLeft DEF DropDest
  <2>2. RunTypeOK' /\ DestTypeOK' /\ DestParts'
    BY <1>1, <1>2, <1>5, <2>1, EndParts DEF DropDest, DestOutcomes
  <2> QED BY <1>3, <1>4, <2>1, <2>2
<1>6. CASE DestMoves(d, "planned") /\ UNCHANGED ctxDone
  <2>1. RowStep(d, "none")
    BY <1>1, <1>6, RowLeft DEF DestMoves
  <2>2. RunTypeOK' /\ DestTypeOK' /\ DestParts'
    BY <1>1, <1>2, <1>6, <2>1, MoveParts DEF DestMoves, DestPcs
  <2> QED BY <1>3, <1>4, <2>1, <2>2
<1>7. CASE DestFails(d)
  <2>1. RowStep(d, "failed")
    BY <1>7, RowWritten DEF DestFails, DestEnds, DestOutcomes
  <2>2. RunTypeOK' /\ DestTypeOK' /\ DestParts'
    BY <1>1, <1>2, <1>7, <2>1, EndParts DEF DestFails, DestEnds, DestOutcomes
  <2> QED BY <1>3, <1>4, <2>1, <2>2
<1> QED BY <1>5, <1>6, <1>7 DEF ScanDest

(* executeOneDestination begins.                                           *)
LEMMA StartDestInv ==
  ASSUME IInv, NEW d \in Dests, Active, StartDest(d)
  PROVE  IInv'
<1>1. dpc[d] = "planned" /\ pc \in {"dests", "execute"} /\ (job.preview => pc = "execute")
  BY WhereRunIs DEF StartDest, MayExecute
<1>2. DestKeeps /\ UNCHANGED <<ctxDone, human>> /\ UNCHANGED gateVars
  BY DEF StartDest, DestKeeps, endVars, ctlVars
<1>3. touched' \subseteq Dests
  BY DEF StartDest, DestTypeOK
<1>4. RowStep(d, "running")
  BY RowWritten DEF StartDest, LiveDestRows
<1>5. RunTypeOK' /\ DestTypeOK' /\ DestParts'
  BY <1>1, <1>2, <1>3, <1>4, MoveParts DEF StartDest, DestPcs
<1>6. RestParts'
  BY <1>1, <1>2, <1>4, RestKept DEF PreviewInv, gateVars
<1>7. GateTypeOK' /\ GateParts'
  BY <1>2, GateSame DEF DestKeeps
<1> QED BY <1>5, <1>6, <1>7

(* ... and ends.                                                           *)
LEMMA FinishDestInv ==
  ASSUME IInv, NEW d \in Dests, Active, FinishDest(d)
  PROVE  IInv'
<1>1. dpc[d] = "exec" /\ pc \in {"dests", "execute"}
  BY WhereRunIs DEF FinishDest
<1>2. /\ DestKeeps /\ UNCHANGED <<ctxDone, human, touched>> /\ UNCHANGED gateVars
      /\ touched \subseteq Dests
  BY DEF FinishDest, DestKeeps, endVars, ctlVars, DestTypeOK
<1>3. PICK s \in {"cancelled", "success", "failed"}, g \in BOOLEAN :
        DestEnds(d, s, FALSE, g) /\ (s = "cancelled" => cancelled \/ ctxDone)
  BY DEF FinishDest
<1>4. RowStep(d, s)
  BY <1>3, RowWritten DEF DestEnds, DestOutcomes
<1>5. RunTypeOK' /\ DestTypeOK' /\ DestParts'
  BY <1>1, <1>2, <1>3, <1>4, EndParts DEF DestEnds, DestOutcomes
<1>6. RestParts'
  BY <1>1, <1>2, <1>4, RestKept DEF PreviewInv, gateVars
<1>7. GateTypeOK' /\ GateParts'
  BY <1>2, GateSame DEF DestKeeps
<1> QED BY <1>5, <1>6, <1>7

(* Every step of a destination keeps the invariant.                        *)
LEMMA DestStepInv ==
  ASSUME IInv, NEW d \in Dests, DestStep(d)
  PROVE  IInv'
BY BeginDestInv, ResolveDestInv, ResolveFailsInv, WakeInv, DecideInv, ScanDestInv,
   StartDestInv, FinishDestInv DEF DestStep

-----------------------------------------------------------------------------
(* The people, and the run's own steps.                                    *)

(* What no request changes.                                                *)
RunKeeps == UNCHANGED <<job, pc, destVars, endVars, rowVars, downs>>

LEMMA PeopleRun ==
  ASSUME IInv, RunKeeps, ctxDone' \in BOOLEAN, cancelled' \in BOOLEAN, confirmed' \in BOOLEAN,
         cancelled => cancelled', confirmed => confirmed', ctxDone' => ctxDone \/ cancelled',
         UNCHANGED offer
  PROVE  RunTypeOK' /\ DestTypeOK' /\ DestParts' /\ RestParts'
<1>1. UNCHANGED <<job, pc, dpc, outcome, touched, final, left, destRow, runRow, lost, faults, downs>>
  BY DEF RunKeeps, destVars, endVars, rowVars, faultVars
<1>2. RunTypeOK' /\ DestTypeOK'
  BY <1>1 DEF RunTypeOK, DestTypeOK
<1>3. OutcomeInv' /\ PhaseInv' /\ RunRowInv' /\ RowsInv'
  BY <1>1 DEF OutcomeInv, PhaseInv, RunRowInv, RowsInv, RowsAgree, Quiet, Honest
<1>4. FinalInv'
  BY <1>1 DEF FinalInv, Honest
<1>5. CancelInv'
  BY <1>1 DEF CancelInv, Some
<1>6. RestParts'
  BY <1>1 DEF FaultInv, PreviewInv, ParkedInv, CancelledOnlyOnRequest, RebootSettlesRows
<1> QED BY <1>2, <1>3, <1>4, <1>5, <1>6

(* Requests: a cancel and a confirm only set a flag; an answer reaches the *)
(* channel of the prompt it was looked up for, or nothing.                 *)
LEMMA PeopleInv ==
  ASSUME IInv, NEW h \in Humans, People(h)
  PROVE  IInv'
<1>0. ctxDone \in BOOLEAN /\ cancelled \in BOOLEAN /\ confirmed \in BOOLEAN
  BY DEF RunTypeOK
<1>1. CASE Cancel(h)
  <2>1. RunKeeps /\ UNCHANGED <<ctxDone, confirmed>> /\ UNCHANGED gateVars /\ cancelled' = TRUE
    BY <1>1 DEF Cancel, RunKeeps
  <2>2. RunTypeOK' /\ DestTypeOK' /\ DestParts' /\ RestParts'
    BY <1>0, <2>1, PeopleRun DEF gateVars
  <2>3. GateTypeOK'
    BY <1>1 DEF Cancel, GateTypeOK, gateVars
  <2>4. GateParts'
    BY <2>1 DEF ChanInv, HumanInv, gateVars, Empty
  <2> QED BY <2>2, <2>3, <2>4
<1>2. CASE CancelContext(h)
  <2>1. RunKeeps /\ UNCHANGED <<cancelled, confirmed>> /\ UNCHANGED gateVars /\ ctxDone' = TRUE
    BY <1>2 DEF CancelContext, RunKeeps
  <2>2. cancelled
    BY <1>2 DEF CancelContext, HumanInv
  <2>3. RunTypeOK' /\ DestTypeOK' /\ DestParts' /\ RestParts'
    BY <1>0, <2>1, <2>2, PeopleRun DEF gateVars
  <2>4. GateTypeOK'
    BY <1>2 DEF CancelContext, GateTypeOK, gateVars, Done, Empty, Answer
  <2>5. GateParts'
    BY <2>1, <2>2 DEF ChanInv, HumanInv, gateVars, Empty
  <2> QED BY <2>3, <2>4, <2>5
<1>3. CASE Confirm(h)
  <2>1. RunKeeps /\ UNCHANGED <<cancelled, ctxDone>> /\ UNCHANGED gateVars /\ confirmed' = TRUE
    BY <1>3 DEF Confirm, RunKeeps
  <2>2. RunTypeOK' /\ DestTypeOK' /\ DestParts' /\ RestParts'
    BY <1>0, <2>1, PeopleRun DEF gateVars
  <2>3. GateTypeOK'
    BY <1>3 DEF Confirm, GateTypeOK, gateVars, Done, Empty, Answer
  <2>4. HumanInv'
    BY <1>3, <2>1 DEF Confirm, HumanInv, GateTypeOK, Done
  <2>5. ChanInv'
    BY <2>1 DEF ChanInv, gateVars, Empty
  <2> QED BY <2>2, <2>3, <2>4, <2>5
<1>4. CASE \E d \in Dests, a \in Answers \cap Requests : AnswerPrompt(h, d, a)
  <2>1. RunKeeps /\ UNCHANGED <<cancelled, ctxDone, confirmed>> /\ UNCHANGED gateVars
    BY <1>4 DEF AnswerPrompt, RunKeeps, ctlVars
  <2>2. RunTypeOK' /\ DestTypeOK' /\ DestParts' /\ RestParts'
    BY <1>0, <2>1, PeopleRun DEF gateVars
  <2>3. GateTypeOK'
    BY <1>4 DEF AnswerPrompt, GateTypeOK, Empty, Answer, Answers, gateVars
  <2>4. HumanInv'
    BY <1>4, <2>1 DEF AnswerPrompt, HumanInv, GateTypeOK
  <2>5. ChanInv'
    BY <2>1 DEF ChanInv, gateVars, Empty
  <2> QED BY <2>2, <2>3, <2>4, <2>5
<1>5. CASE SendAnswer(h)
  <2>1. RunKeeps /\ UNCHANGED <<cancelled, ctxDone, confirmed, gen, offer, decision>>
    BY <1>5 DEF SendAnswer, RunKeeps, ctlVars
  <2>2. RunTypeOK' /\ DestTypeOK' /\ DestParts' /\ RestParts'
    BY <1>0, <2>1, PeopleRun
  <2>3. GateTypeOK'
    <3>1. human[h].answer \in Answer
      BY DEF GateTypeOK
    <3>2. chan' \in [Dests -> Answer]
      BY <1>5, <3>1 DEF SendAnswer, GateTypeOK
    <3>3. human' = [human EXCEPT ![h] = Done]
      BY <1>5 DEF SendAnswer
    <3> QED BY <2>1, <3>2, <3>3 DEF GateTypeOK, Done, Empty, Answer
  <2>4. chan' = chan \/ /\ human[h].answer.gen = gen[human[h].dest]
                        /\ chan' = [chan EXCEPT ![human[h].dest] = human[h].answer]
    BY <1>5 DEF SendAnswer
  <2>5. ASSUME NEW d \in Dests PROVE chan'[d] = chan[d] \/ chan'[d].gen = gen[d]
    BY <2>4 DEF GateTypeOK
  <2>6. ChanInv'
    BY <2>1, <2>5 DEF ChanInv, Empty
  <2>7. HumanInv'
    BY <1>5, <2>1 DEF SendAnswer, HumanInv, GateTypeOK, Done
  <2> QED BY <2>2, <2>3, <2>6, <2>7
<1> QED BY <1>1, <1>2, <1>3, <1>4, <1>5 DEF People

(* A run that settles before its destinations began: nothing has an        *)
(* outcome, so a finished context is somebody's cancel.                    *)
LEMMA EarlyCancel ==
  ASSUME IInv, pc \in {"chains", "source", "scan"}
  PROVE  /\ ctxDone => cancelled
         /\ \A d \in Dests : dpc[d] = "todo" /\ outcome[d].status = "none"
BY DEF PhaseInv, OutcomeInv, CancelInv, Some

(* A step of the run that writes nothing: only the parts about where the   *)
(* run is are left to show.                                                *)
Unwritten ==
  /\ UNCHANGED <<job, human, gateVars, destVars, ctlVars, rowVars, downs>>
  /\ pc' \in RunPcs /\ final' \in RunOutcomes \cup {"none"} /\ left' \subseteq Dests

LEMMA UnwrittenKeeps ==
  ASSUME IInv, Unwritten
  PROVE  /\ TypeOK' /\ OutcomeInv' /\ CancelInv' /\ ParkedInv' /\ CancelledOnlyOnRequest'
         /\ GateParts'
         /\ RowsAgree => RowsAgree'
         /\ UNCHANGED <<job, dpc, outcome, touched, destRow, runRow, lost, faults, ctxDone,
                        cancelled, confirmed, human, offer, downs>>
<1>1. UNCHANGED <<job, dpc, outcome, touched, destRow, runRow, lost, faults, ctxDone,
                  cancelled, confirmed, human, offer, downs>>
  BY DEF Unwritten, destVars, rowVars, faultVars, ctlVars, gateVars
<1>2. GateTypeOK' /\ GateParts'
  BY <1>1, GateSame DEF Unwritten
<1>3. RunTypeOK' /\ DestTypeOK'
  BY <1>1 DEF Unwritten, RunTypeOK, DestTypeOK
<1>4. OutcomeInv' /\ CancelInv' /\ ParkedInv' /\ CancelledOnlyOnRequest'
  BY <1>1 DEF OutcomeInv, CancelInv, Some, ParkedInv, CancelledOnlyOnRequest
<1>5. RowsAgree => RowsAgree'
  BY <1>1 DEF RowsAgree
<1> QED BY <1>1, <1>2, <1>3, <1>4, <1>5

(* resolveChains, the source and its scan.                                 *)
LEMMA SourceInv ==
  ASSUME IInv, ResolveChains \/ ResolveSource \/ ScanSource
  PROVE  IInv'
<1>1. /\ pc \in {"chains", "source", "scan"}
      /\ UNCHANGED <<job, human, gateVars, destVars, ctlVars, rowVars, downs>>
      /\ \/ pc' \in {"source", "scan", "dests"} /\ UNCHANGED <<final, left>>
         \/ pc' = "failing" /\ final' = "failed" /\ left' = Dests
         \/ pc' = "failing" /\ final' = "cancelled" /\ left' = Dests /\ ctxDone
  BY DEF ResolveChains, ResolveSource, ScanSource, SourceStep, FailRun, CancelRun, SettleAll, endVars
<1>2. Unwritten
  BY <1>1 DEF Unwritten, RunTypeOK, RunPcs, RunOutcomes
<1>3. PhaseInv' /\ RunRowInv'
  BY <1>1, <1>2, EarlyCancel, UnwrittenKeeps DEF PhaseInv, RunRowInv, Dead
<1>4. FinalInv'
  BY <1>1, <1>2, EarlyCancel, UnwrittenKeeps DEF FinalInv, Closing
<1>5. RowsInv'
  BY <1>1, <1>2, UnwrittenKeeps DEF RowsInv
<1>6. FaultInv' /\ PreviewInv' /\ RebootSettlesRows'
  BY <1>1, <1>2, UnwrittenKeeps DEF FaultInv, PreviewInv, RebootSettlesRows, Dead
<1> QED BY <1>2, <1>3, <1>4, <1>5, <1>6, UnwrittenKeeps

(* classifyRun says what the outcomes are: success and partial as their    *)
(* names promise, and cancelled only if a person cancelled, because every  *)
(* other reason for a cancelled destination makes the run a failed one.    *)
LEMMA ClassifyIsHonest ==
  ASSUME IInv, pc = "finalise"
  PROVE  /\ ClassifyRun \in RunOutcomes /\ Honest(ClassifyRun)
         /\ ClassifyRun = "cancelled" => cancelled
<1>1. ClassifyRun \in RunOutcomes
  BY DEF ClassifyRun, RunOutcomes
<1>2. ClassifyRun = "success" =>
        \A d \in Dests : outcome[d].status = "success" /\ ~outcome[d].degraded
  BY DEF ClassifyRun
<1>3. ClassifyRun = "partial" =>
        /\ \E d \in Dests : outcome[d].status = "success"
        /\ \E d \in Dests : outcome[d].status # "success" \/ outcome[d].degraded
  BY DEF ClassifyRun, Some
<1>4. ClassifyRun = "cancelled" => cancelled
  BY DEF ClassifyRun, CancelInv
<1> QED BY <1>1, <1>2, <1>3, <1>4 DEF Honest

(* The run's steps that write nothing: the end of the execution, of the    *)
(* wait for a confirmation and of the run.                                 *)
LEMMA SilentInv ==
  ASSUME IInv, GiveUp \/ Executed \/ Finalise \/ Leave
  PROVE  IInv'
<1>1. CASE GiveUp
  <2>1. /\ pc = "parked" /\ pc' = "abandoning" /\ final' = "cancelled" /\ left' \subseteq Dests
        /\ UNCHANGED <<job, human, gateVars, destVars, ctlVars, rowVars, downs>>
    BY <1>1 DEF GiveUp, CancelRun, SettleAll, AbandonPreview
  <2>2. Unwritten
    BY <2>1 DEF Unwritten, RunPcs, RunOutcomes
  <2>3. PhaseInv' /\ RunRowInv' /\ FinalInv' /\ RowsInv'
    BY <2>1, <2>2, UnwrittenKeeps DEF PhaseInv, RunRowInv, FinalInv, RowsInv, Dead, Closing
  <2>4. FaultInv' /\ PreviewInv' /\ RebootSettlesRows'
    BY <2>1, <2>2, UnwrittenKeeps DEF FaultInv, PreviewInv, RebootSettlesRows, Dead
  <2> QED BY <2>2, <2>3, <2>4, UnwrittenKeeps
<1>2. CASE Executed
  <2>1. /\ pc = "execute" /\ pc' = "finalise" /\ UNCHANGED <<final, left>>
        /\ \A d \in Dests : dpc[d] = "done"
        /\ UNCHANGED <<job, human, gateVars, destVars, ctlVars, rowVars, downs>>
    BY <1>2 DEF Executed, endVars
  <2>2. Unwritten
    BY <2>1 DEF Unwritten, RunTypeOK, RunPcs
  <2>3. PhaseInv' /\ RunRowInv' /\ FinalInv' /\ RowsInv'
    BY <2>1, <2>2, UnwrittenKeeps DEF PhaseInv, RunRowInv, FinalInv, RowsInv, Dead, Closing
  <2>4. FaultInv' /\ PreviewInv' /\ RebootSettlesRows'
    BY <2>1, <2>2, UnwrittenKeeps DEF FaultInv, PreviewInv, RebootSettlesRows, Dead
  <2> QED BY <2>2, <2>3, <2>4, UnwrittenKeeps
<1>3. CASE Finalise
  <2>1. /\ pc = "finalise" /\ pc' = "settling"
        /\ UNCHANGED <<job, human, gateVars, destVars, ctlVars, rowVars, downs>>
        /\ \/ cancelled /\ final' = "cancelled" /\ left' = Dests
           \/ final' = ClassifyRun /\ left' = {}
    BY <1>3 DEF Finalise, CancelRun, SettleAll
  <2>2. /\ final' \in RunOutcomes /\ Honest(final') /\ (final' = "cancelled" => cancelled)
        /\ left' \subseteq Dests /\ (left' # {} => final' = "cancelled")
    BY <2>1, ClassifyIsHonest DEF RunOutcomes, Honest
  <2>3. Unwritten
    BY <2>1, <2>2 DEF Unwritten, RunPcs
  <2>4. PhaseInv' /\ RunRowInv' /\ RowsInv'
    BY <2>1, <2>3, UnwrittenKeeps DEF PhaseInv, RunRowInv, RowsInv, Dead
  <2>5. FinalInv'
    BY <2>1, <2>2, <2>3, UnwrittenKeeps DEF FinalInv, Closing, Honest
  <2>6. FaultInv' /\ PreviewInv' /\ RebootSettlesRows'
    BY <2>1, <2>3, UnwrittenKeeps DEF FaultInv, PreviewInv, RebootSettlesRows, Dead
  <2> QED BY <2>3, <2>4, <2>5, <2>6, UnwrittenKeeps
<1>4. CASE Leave
  <2>1. /\ pc = "settled" /\ pc' = "ended" /\ UNCHANGED <<final, left>>
        /\ UNCHANGED <<job, human, gateVars, destVars, ctlVars, rowVars, downs>>
    BY <1>4 DEF Leave, endVars
  <2>2. Unwritten
    BY <2>1 DEF Unwritten, RunTypeOK, RunPcs
  <2>3. PhaseInv' /\ RunRowInv' /\ FinalInv' /\ RowsInv'
    BY <2>1, <2>2, UnwrittenKeeps
       DEF PhaseInv, RunRowInv, FinalInv, RowsInv, Dead, Closing, Quiet, Honest
  <2>4. FaultInv' /\ PreviewInv' /\ RebootSettlesRows'
    BY <2>1, <2>2, UnwrittenKeeps DEF FaultInv, PreviewInv, RebootSettlesRows, Dead
  <2> QED BY <2>2, <2>3, <2>4, UnwrittenKeeps
<1> QED BY <1>1, <1>2, <1>3, <1>4

(* FinishRun and SetRunStatus: the row says s, or the write failed.        *)
RunRowStep(s) ==
  /\ \/ runRow' = s /\ RunRec \notin lost'
     \/ runRow' = runRow /\ RunRec \in lost'
  /\ lost' \subseteq Dests \cup {RunRec} /\ faults' \in Nat /\ faults' >= faults
  /\ lost' # {} => faults' > 0
  /\ \A d \in Dests : d \in lost' <=> d \in lost

LEMMA RunRowWritten ==
  ASSUME IInv, NEW s, WriteRun(s)
  PROVE  RunRowStep(s)
<1>1. RunRec \notin Dests /\ faults \in Nat /\ lost \subseteq Dests \cup {RunRec}
  BY DEF Dests, RunRec, RunTypeOK
<1>2. CASE runRow' = s /\ lost' = lost \ {RunRec} /\ UNCHANGED faults
  BY <1>1, <1>2 DEF RunRowStep, FaultInv
<1>3. CASE WriteFails(RunRec) /\ UNCHANGED runRow
  BY <1>1, <1>3 DEF RunRowStep, WriteFails
<1> QED BY <1>2, <1>3 DEF WriteRun

(* What a step keeps that writes the run's row and moves the run.          *)
LEMMA RunWriteKeeps ==
  ASSUME IInv, NEW s \in RunOutcomes \cup {"running", "awaiting_confirmation"}, RunRowStep(s),
         UNCHANGED <<job, human, gateVars, destVars, ctlVars, left, destRow, downs>>,
         pc' \in RunPcs, final' \in RunOutcomes \cup {"none"}
  PROVE  /\ TypeOK' /\ OutcomeInv' /\ CancelInv' /\ GateParts'
         /\ RowsAgree => RowsAgree'
         /\ UNCHANGED <<job, dpc, outcome, touched, destRow, ctxDone, cancelled, confirmed,
                        human, offer, downs>>
<1>1. UNCHANGED <<job, dpc, outcome, touched, destRow, ctxDone, cancelled, confirmed,
                  human, offer, downs>>
  BY DEF destVars, ctlVars, gateVars
<1>2. GateTypeOK' /\ GateParts'
  BY <1>1, GateSame
<1>3. RunTypeOK' /\ DestTypeOK'
  BY <1>1 DEF RunRowStep, RunTypeOK, DestTypeOK
<1>4. OutcomeInv' /\ CancelInv'
  BY <1>1 DEF OutcomeInv, CancelInv, Some
<1>5. RowsAgree => RowsAgree'
  BY <1>1 DEF RowsAgree, RunRowStep
<1> QED BY <1>1, <1>2, <1>3, <1>4, <1>5

(* The end of the planning: a preview parks.                               *)
LEMMA PlannedInv ==
  ASSUME IInv, Planned
  PROVE  IInv'
<1>1. CASE job.preview
  <2>1. /\ pc = "dests" /\ pc' = "parked" /\ \A d \in Dests : dpc[d] \in {"planned", "done"}
        /\ WriteRun("awaiting_confirmation") /\ UNCHANGED <<final, left>>
        /\ UNCHANGED <<job, human, gateVars, destVars, ctlVars, destRow, downs>>
    BY <1>1 DEF Planned, PlanPassed, endVars
  <2>2. RunRowStep("awaiting_confirmation")
    BY <2>1, RunRowWritten
  <2>3. /\ TypeOK' /\ OutcomeInv' /\ CancelInv' /\ GateParts' /\ (RowsAgree => RowsAgree')
        /\ UNCHANGED <<job, dpc, outcome, touched, destRow, ctxDone, cancelled, confirmed,
                       human, offer, downs>>
    BY <2>1, <2>2, RunWriteKeeps DEF RunPcs, RunTypeOK
  <2>4. PhaseInv' /\ FinalInv' /\ RowsInv'
    BY <1>1, <2>1, <2>3 DEF PhaseInv, FinalInv, RowsInv, Dead, Closing
  <2>5. RunRowInv'
    BY <2>1, <2>2 DEF RunRowInv, RunRowStep
  <2>6. touched = {} /\ runRow = "running"
    BY <1>1, <2>1 DEF PreviewInv, RunRowInv
  <2>7. PreviewInv' /\ ParkedInv' /\ CancelledOnlyOnRequest' /\ RebootSettlesRows'
    BY <1>1, <2>1, <2>2, <2>3, <2>6
       DEF PreviewInv, ParkedInv, CancelledOnlyOnRequest, RebootSettlesRows, RunRowStep
  <2>8. FaultInv'
    BY <2>1, <2>2 DEF FaultInv, RunRowStep, Dead
  <2> QED BY <2>3, <2>4, <2>5, <2>7, <2>8
<1>2. CASE ~job.preview
  <2>1. /\ pc = "dests" /\ pc' = "finalise" /\ UNCHANGED <<final, left>>
        /\ \A d \in Dests : dpc[d] = "done"
        /\ UNCHANGED <<job, human, gateVars, destVars, ctlVars, rowVars, downs>>
    BY <1>2 DEF Planned, PlanPassed, endVars, rowVars
  <2>2. Unwritten
    BY <2>1 DEF Unwritten, RunTypeOK, RunPcs
  <2>3. PhaseInv' /\ RunRowInv' /\ FinalInv' /\ RowsInv'
    BY <2>1, <2>2, UnwrittenKeeps DEF PhaseInv, RunRowInv, FinalInv, RowsInv, Dead, Closing
  <2>4. FaultInv' /\ PreviewInv' /\ RebootSettlesRows'
    BY <1>2, <2>1, <2>2, UnwrittenKeeps DEF FaultInv, PreviewInv, RebootSettlesRows, Dead
  <2> QED BY <2>2, <2>3, <2>4, UnwrittenKeeps
<1> QED BY <1>1, <1>2

(* A confirmed preview goes on.                                            *)
LEMMA UnparkInv ==
  ASSUME IInv, Unpark
  PROVE  IInv'
<1>1. /\ pc = "parked" /\ pc' = "execute" /\ confirmed
      /\ WriteRun("running") /\ UNCHANGED <<final, left>>
      /\ UNCHANGED <<job, human, gateVars, destVars, ctlVars, destRow, downs>>
  BY DEF Unpark, endVars
<1>2. job.preview /\ \A d \in Dests : dpc[d] \in {"planned", "done"}
  BY <1>1 DEF PhaseInv
<1>3. RunRowStep("running")
  BY <1>1, RunRowWritten
<1>4. /\ TypeOK' /\ OutcomeInv' /\ CancelInv' /\ GateParts' /\ (RowsAgree => RowsAgree')
      /\ UNCHANGED <<job, dpc, outcome, touched, destRow, ctxDone, cancelled, confirmed,
                     human, offer, downs>>
  BY <1>1, <1>3, RunWriteKeeps DEF RunPcs, RunTypeOK
<1>5. FinalInv' /\ RowsInv'
  BY <1>1, <1>4 DEF FinalInv, RowsInv, Closing
<1>6. PhaseInv'
  BY <1>1, <1>2, <1>4 DEF PhaseInv, Dead
<1>7. RunRowInv'
  BY <1>1, <1>2, <1>3, <1>4 DEF RunRowInv, RunRowStep
<1>8. PreviewInv' /\ ParkedInv' /\ CancelledOnlyOnRequest' /\ RebootSettlesRows'
  BY <1>1, <1>2, <1>3, <1>4
     DEF PreviewInv, ParkedInv, CancelledOnlyOnRequest, RebootSettlesRows, RunRowStep, RunRowInv
<1>9. FaultInv'
  BY <1>1, <1>3 DEF FaultInv, RunRowStep, Dead
<1> QED BY <1>4, <1>5, <1>6, <1>7, <1>8, <1>9

(* failRun, cancelRun and abandonPreview close one destination's row.      *)
LEMMA CloseDestInv ==
  ASSUME IInv, NEW d \in Dests, CloseDest(d)
  PROVE  IInv'
<1>1. /\ pc \in Closing /\ d \in left /\ left' = left \ {d} /\ WriteDest(d, final)
      /\ UNCHANGED <<job, human, gateVars, destVars, pc, ctlVars, final, runRow, downs>>
  BY DEF CloseDest
<1>2. UNCHANGED <<job, dpc, outcome, touched, ctxDone, cancelled, confirmed, human, offer>>
  BY <1>1 DEF destVars, ctlVars, gateVars
<1>3. final \in {"failed", "cancelled"} /\ (pc = "settling" => final = "cancelled")
  BY <1>1 DEF FinalInv, Closing
<1>4. RowStep(d, final)
  BY <1>1, <1>3, RowWritten DEF DestOutcomes
<1>5. GateTypeOK' /\ GateParts'
  BY <1>1, <1>2, GateSame
<1>6. RunTypeOK' /\ DestTypeOK'
  BY <1>1, <1>2, <1>4 DEF RunTypeOK, DestTypeOK, RowStep
<1>7. OutcomeInv' /\ PhaseInv' /\ CancelInv'
  BY <1>1, <1>2 DEF OutcomeInv, PhaseInv, CancelInv, Some, Quiet
<1>8. FinalInv'
  BY <1>1, <1>2, <1>3 DEF FinalInv, Honest
<1>9. RunRowInv' /\ RowsInv'
  BY <1>1, <1>3, <1>4 DEF RunRowInv, RowsInv, RowStep, Closing
<1>10. faults \in Nat /\ faults' \in Nat /\ faults' >= faults
  BY <1>4 DEF RunTypeOK, RowStep
<1>11. PreviewInv' /\ ParkedInv' /\ CancelledOnlyOnRequest' /\ RebootSettlesRows'
  BY <1>1, <1>2, <1>10 DEF PreviewInv, ParkedInv, CancelledOnlyOnRequest, RebootSettlesRows, Closing
<1>12. FaultInv'
  BY <1>1, <1>4 DEF FaultInv, RowStep, Closing, Dead
<1> QED BY <1>5, <1>6, <1>7, <1>8, <1>9, <1>11, <1>12

(* The run's last statement.                                               *)
LEMMA FinishRunInv ==
  ASSUME IInv, FinishRun
  PROVE  IInv'
<1>1. /\ pc \in Closing /\ pc' = "settled" /\ left = {} /\ final' = "none"
      /\ WriteRun(final)
      /\ UNCHANGED <<job, human, gateVars, destVars, ctlVars, left, destRow, downs>>
  BY DEF FinishRun
<1>2. /\ final \in RunOutcomes /\ Honest(final)
      /\ final = "cancelled" => cancelled \/ pc = "abandoning"
      /\ pc # "settling" => final \in {"failed", "cancelled"}
  BY <1>1 DEF FinalInv, Closing, Honest, RunOutcomes
<1>3. RunRowStep(final)
  BY <1>1, RunRowWritten
<1>4. /\ TypeOK' /\ OutcomeInv' /\ CancelInv' /\ GateParts' /\ (RowsAgree => RowsAgree')
      /\ UNCHANGED <<job, dpc, outcome, touched, destRow, ctxDone, cancelled, confirmed,
                     human, offer, downs>>
  BY <1>1, <1>2, <1>3, RunWriteKeeps DEF RunPcs, RunTypeOK
<1>5. /\ runRow \in {"running", "awaiting_confirmation"}
      /\ runRow = "awaiting_confirmation" => job.preview
  BY <1>1 DEF RunRowInv, PhaseInv, Closing
<1>6. FinalInv'
  BY <1>1 DEF FinalInv, Closing
<1>7. PhaseInv'
  BY <1>1, <1>4 DEF PhaseInv, Quiet, Closing, Dead
<1>8. RunRowInv'
  <2>1. runRow' \in RunOutcomes \/ RunRec \in lost'
    BY <1>2, <1>3 DEF RunRowStep
  <2>2. Honest(runRow)
    BY <1>5 DEF Honest
  <2>3. Honest(runRow)'
    BY <1>2, <1>3, <1>4, <2>2 DEF Honest, RunRowStep
  <2> QED BY <1>1, <2>1, <2>3 DEF RunRowInv
<1>9. RowsInv'
  BY <1>1, <1>2, <1>3, <1>4, <1>5 DEF RowsInv, RunRowStep
<1>10. pc = "abandoning" => job.preview /\ touched = {}
  BY DEF PhaseInv, PreviewInv
<1>11. faults \in Nat /\ faults' \in Nat /\ faults' >= faults
  BY <1>3 DEF RunTypeOK, RunRowStep
<1>12. PreviewInv' /\ RebootSettlesRows'
  BY <1>1, <1>4 DEF PreviewInv, RebootSettlesRows
<1>13. ParkedInv' /\ CancelledOnlyOnRequest'
  BY <1>2, <1>3, <1>4, <1>5, <1>10, <1>11
     DEF ParkedInv, CancelledOnlyOnRequest, RunRowStep, RunOutcomes
<1>14. FaultInv'
  BY <1>1, <1>3 DEF FaultInv, RunRowStep, Dead
<1> QED BY <1>4, <1>6, <1>7, <1>8, <1>9, <1>12, <1>13, <1>14

(* The process dies: no destination is at work any more, and the rows stay *)
(* as they are.                                                            *)
LEMMA CrashInv ==
  ASSUME IInv, Crash
  PROVE  IInv'
<1>1. /\ pc' = "down" /\ downs' = downs + 1 /\ final' = "none" /\ left' = {} /\ ctxDone' = FALSE
      /\ UNCHANGED <<job, touched, cancelled, confirmed, destRow, runRow, lost, faults>>
      /\ dpc' = [d \in Dests |-> "todo"] /\ outcome' = [d \in Dests |-> NoOutcome]
      /\ offer' = {}
  BY DEF Crash, rowVars, faultVars
<1>0. ctxDone' \in BOOLEAN /\ cancelled' \in BOOLEAN /\ confirmed' \in BOOLEAN
  BY <1>1, Zenon DEF RunTypeOK
<1>2. RunTypeOK'
  BY <1>0, <1>1 DEF RunTypeOK, RunPcs, Dead
<1>3. DestTypeOK'
  BY <1>1 DEF DestTypeOK, DestPcs, NoOutcome, Outcome
<1>4. GateTypeOK'
  BY DEF Crash, GateTypeOK, Empty, Answer, Done
<1>5. GateParts'
  BY DEF Crash, ChanInv, HumanInv, Done
<1>6. OutcomeInv' /\ PhaseInv' /\ FinalInv' /\ CancelInv'
  BY <1>1 DEF OutcomeInv, PhaseInv, FinalInv, CancelInv, Some, NoOutcome, Closing
<1>7. RunRowInv' /\ RowsInv'
  BY <1>1 DEF RunRowInv, RowsInv
<1>8. downs \in Nat /\ downs' > 0
  BY <1>1 DEF RunTypeOK
<1>9. RestParts'
  BY <1>1, <1>8 DEF FaultInv, PreviewInv, ParkedInv, CancelledOnlyOnRequest, RebootSettlesRows
<1> QED BY <1>2, <1>3, <1>4, <1>5, <1>6, <1>7, <1>9

(* What a boot leaves alone.                                               *)
BootKeeps == UNCHANGED <<job, human, gateVars, destVars, ctlVars, endVars, downs>>

LEMMA BootKept ==
  ASSUME IInv, BootKeeps, pc \in Dead, pc' \in Dead,
         destRow' \in [Dests -> DestOutcomes \cup LiveDestRows],
         runRow' \in RunOutcomes \cup {"running", "awaiting_confirmation"},
         lost' \subseteq Dests \cup {RunRec}, faults' \in Nat
  PROVE  /\ TypeOK' /\ OutcomeInv' /\ PhaseInv' /\ FinalInv' /\ CancelInv' /\ RowsInv'
         /\ PreviewInv' /\ GateParts'
         /\ UNCHANGED <<job, touched, cancelled, downs>> /\ downs > 0
<1>1. UNCHANGED <<job, dpc, outcome, touched, final, left, ctxDone, cancelled, confirmed,
                  human, offer, downs>>
  BY DEF BootKeeps, destVars, ctlVars, gateVars, endVars
<1>2. GateTypeOK' /\ GateParts'
  BY <1>1, GateSame DEF BootKeeps
<1>3. RunTypeOK' /\ DestTypeOK'
  BY <1>1 DEF RunTypeOK, DestTypeOK, RunPcs
<1>4. OutcomeInv' /\ PhaseInv' /\ CancelInv'
  BY <1>1 DEF OutcomeInv, PhaseInv, CancelInv, Some, Dead
<1>5. FinalInv' /\ RowsInv' /\ PreviewInv'
  BY <1>1 DEF FinalInv, RowsInv, PreviewInv, Dead, Closing
<1> QED BY <1>1, <1>2, <1>3, <1>4, <1>5 DEF FaultInv

(* ReconcileInterruptedRuns: each statement keeps every row that has an    *)
(* outcome.                                                                *)
LEMMA BootInv ==
  ASSUME IInv, BootStep
  PROVE  IInv'
<1>1. CASE ReconcileRun
  <2>1. /\ pc = "down" /\ pc' = "booting" /\ BootKeeps /\ UNCHANGED <<destRow, faults>>
        /\ runRow' = ReconciledRun(runRow) /\ lost' = lost \ {RunRec}
    BY <1>1 DEF ReconcileRun, BootKeeps
  <2>2. /\ runRow' \in RunOutcomes
        /\ runRow' = "cancelled" => runRow \in {"cancelled", "awaiting_confirmation"}
    BY <2>1 DEF ReconciledRun, RunTypeOK, RunOutcomes
  <2>3. /\ TypeOK' /\ OutcomeInv' /\ PhaseInv' /\ FinalInv' /\ CancelInv' /\ RowsInv'
        /\ PreviewInv' /\ GateParts'
        /\ UNCHANGED <<job, touched, cancelled, downs>> /\ downs > 0
    BY <2>1, <2>2, BootKept DEF RunTypeOK, DestTypeOK, Dead
  <2>4. RunRowInv'
    BY <2>1, <2>2 DEF RunRowInv
  <2>5. ParkedInv' /\ CancelledOnlyOnRequest'
    BY <2>1, <2>2, <2>3 DEF ParkedInv, CancelledOnlyOnRequest, RunOutcomes
  <2>6. FaultInv' /\ RebootSettlesRows'
    BY <2>1, <2>3 DEF FaultInv, RebootSettlesRows
  <2> QED BY <2>3, <2>4, <2>5, <2>6
<1>2. CASE ReconcileDests
  <2>1. /\ pc = "booting" /\ pc' = "rebooted" /\ BootKeeps /\ UNCHANGED <<runRow, faults>>
        /\ destRow' = [d \in Dests |-> ReconciledDest(destRow[d])] /\ lost' = {}
    BY <1>2 DEF ReconcileDests, BootKeeps
  <2>2. \A d \in Dests : destRow'[d] \in DestOutcomes
    BY <2>1 DEF ReconciledDest, DestTypeOK, DestOutcomes, LiveDestRows
  <2>3. destRow' \in [Dests -> DestOutcomes \cup LiveDestRows]
    BY <2>1, <2>2
  <2>4. /\ TypeOK' /\ OutcomeInv' /\ PhaseInv' /\ FinalInv' /\ CancelInv' /\ RowsInv'
        /\ PreviewInv' /\ GateParts'
        /\ UNCHANGED <<job, touched, cancelled, downs>> /\ downs > 0
    BY <2>1, <2>3, BootKept DEF RunTypeOK, Dead
  <2>5. RunRowInv' /\ RebootSettlesRows'
    BY <2>1, <2>2 DEF RunRowInv, RebootSettlesRows
  <2>6. ParkedInv' /\ CancelledOnlyOnRequest' /\ FaultInv'
    BY <2>1, <2>4 DEF ParkedInv, CancelledOnlyOnRequest, FaultInv
  <2> QED BY <2>4, <2>5, <2>6
<1>3. CASE ReconcileFails
  <2>1. /\ pc \in {"down", "booting"} /\ pc' = "rebooted" /\ BootKeeps
        /\ UNCHANGED <<runRow, destRow>>
        /\ faults' = faults + 1 /\ lost' = LiveRecs
    BY <1>3 DEF ReconcileFails, BootKeeps
  <2>2. faults \in Nat /\ faults' \in Nat /\ faults' > 0
    BY <2>1 DEF RunTypeOK
  <2>3. /\ TypeOK' /\ OutcomeInv' /\ PhaseInv' /\ FinalInv' /\ CancelInv' /\ RowsInv'
        /\ PreviewInv' /\ GateParts'
        /\ UNCHANGED <<job, touched, cancelled, downs>> /\ downs > 0
    BY <2>1, <2>2, BootKept DEF RunTypeOK, DestTypeOK, Dead, LiveRecs
  <2>4. RunRowInv' /\ RebootSettlesRows'
    BY <2>1 DEF RunRowInv, RebootSettlesRows, LiveRecs, RunTypeOK, DestTypeOK, RunOutcomes
  <2>5. ParkedInv' /\ CancelledOnlyOnRequest' /\ FaultInv'
    BY <2>1, <2>2, <2>3 DEF ParkedInv, CancelledOnlyOnRequest, FaultInv
  <2> QED BY <2>3, <2>4, <2>5
<1> QED BY <1>1, <1>2, <1>3 DEF BootStep

(* Every step, and stuttering, keeps the invariant.                        *)
LEMMA NextInv == IInv /\ [Next]_vars => IInv'
<1> SUFFICES ASSUME IInv, [Next]_vars PROVE IInv'
  OBVIOUS
<1>1. CASE \E h \in Humans : People(h)
  BY <1>1, PeopleInv
<1>2. CASE \E d \in Dests : DestStep(d)
  BY <1>2, DestStepInv
<1>3. CASE RunStep
  BY <1>3, SourceInv, PlannedInv, UnparkInv, SilentInv, CloseDestInv, FinishRunInv DEF RunStep
<1>4. CASE Crash \/ BootStep
  BY <1>4, CrashInv, BootInv
<1>5. CASE UNCHANGED vars
  <2>1. Unwritten /\ UNCHANGED <<pc, final, left>>
    BY <1>5 DEF vars, Unwritten, endVars, RunTypeOK
  <2>2. DestParts'
    BY <2>1, UnwrittenKeeps DEF OutcomeInv, PhaseInv, FinalInv, RunRowInv, RowsInv, RowsAgree,
         CancelInv, Some, Quiet, Honest
  <2>3. RestParts'
    BY <2>1, UnwrittenKeeps DEF FaultInv, PreviewInv, ParkedInv, CancelledOnlyOnRequest, RebootSettlesRows
  <2> QED BY <2>1, <2>2, <2>3, UnwrittenKeeps
<1> QED BY <1>1, <1>2, <1>3, <1>4, <1>5 DEF Next

-----------------------------------------------------------------------------
(* The theorems.                                                           *)

(* IInv holds in every reachable state of a run, whatever the number of    *)
(* destinations, the job's settings, the people and their requests.        *)
THEOREM PipelineInvariant == Spec => []IInv
<1>1. Init => IInv
  BY InitInv
<1>2. IInv /\ [Next]_vars => IInv'
  BY NextInv
<1> QED BY <1>1, <1>2, PTL DEF Spec

(* The run's variables keep their types.                                   *)
THEOREM PipelineTypes == Spec => []TypeOK
<1>1. IInv => TypeOK
  OBVIOUS
<1> QED BY <1>1, PipelineInvariant, PTL

(* resolveDestination and awaitConfirmation: nothing is written to any     *)
(* destination of a preview before somebody confirms it.                   *)
THEOREM PreviewIsSafe == Spec => []PreviewTouchesNothing
<1>1. IInv => PreviewTouchesNothing
  BY DEF PreviewInv, PreviewTouchesNothing
<1> QED BY <1>1, PipelineInvariant, PTL

(* classifyRun, cancelRun and failRun: a settled run's status is true of   *)
(* its destinations and, for every row whose last write did not fail, of   *)
(* the rows, however many statements of the store fail and whichever.      *)
THEOREM StatusIsHonest == Spec => []RunStatusIsHonest
<1>1. ASSUME IInv PROVE RunStatusIsHonest
  <2> SUFFICES ASSUME pc \in {"settled", "ended"}
               PROVE  /\ runRow \in RunOutcomes \/ RunRec \in lost
                      /\ Honest(runRow)
                      /\ runRow \in {"success", "partial"} => RowsAgree
    BY DEF RunStatusIsHonest, Honest, RowsAgree
  <2> QED BY <1>1 DEF RunRowInv, RowsInv
<1> QED BY <1>1, PipelineInvariant, PTL

(* A run reads as cancelled only if a person cancelled it, or if it is a   *)
(* preview that wrote nothing, or one whose un-parking could not be        *)
(* recorded before the process died.                                       *)
THEOREM CancelledIsAskedFor == Spec => []CancelledOnlyOnRequest
<1>1. IInv => CancelledOnlyOnRequest
  OBVIOUS
<1> QED BY <1>1, PipelineInvariant, PTL

(* gate.open, answer and close: what an open prompt's channel holds was    *)
(* given to that prompt, however late the answer is sent.                  *)
THEOREM AnswersMatchPrompts == Spec => []AnswerIsForThisQuestion
<1>1. IInv => AnswerIsForThisQuestion
  BY DEF ChanInv, AnswerIsForThisQuestion
<1> QED BY <1>1, PipelineInvariant, PTL

(* A boot leaves the run or a destination in a state that somebody would   *)
(* have to end only if one of its own statements failed, and only the rows *)
(* that statement or the ones behind it were about, whenever the process   *)
(* died and whatever writes had failed before (ReconcileInterruptedRuns).  *)
THEOREM RebootSettles == Spec => []RebootSettlesRows
<1>1. IInv => RebootSettlesRows
  OBVIOUS
<1> QED BY <1>1, PipelineInvariant, PTL

-----------------------------------------------------------------------------
(* The order of the destinations                                           *)

(* In a sequential job a destination is taken up once those before it are  *)
(* done, or planned in a preview; it executes once those are done; and     *)
(* none behind an unavailable one is taken up under the abort policy.      *)
SeqInv ==
  ~job.parallel =>
    \A d, e \in Dests : e < d =>
      /\ dpc[d] # "todo" => dpc[e] = "done" \/ (job.preview /\ dpc[e] \in {"planned", "exec"})
      /\ dpc[d] = "exec" => dpc[e] = "done"
      /\ job.policy = "abort" /\ outcome[e].unavailable =>
           dpc[d] \in {"todo", "done"} /\ d \notin touched

(* A run writes to a destination from the end of its resolution on, and a  *)
(* preview executes none before all are planned.                           *)
WorkInv ==
  /\ pc \notin Dead => \A d \in touched : dpc[d] \in {"scan", "planned", "exec", "done"}
  /\ \A d \in Dests : job.preview /\ dpc[d] = "exec" =>
       \A e \in Dests : dpc[e] \in {"planned", "exec", "done"}

(* Where a step of one destination takes it.                               *)
DestPath(d) ==
  \/ dpc[d] = "todo"    /\ dpc'[d] \in {"resolve", "done"}
  \/ dpc[d] = "resolve" /\ dpc'[d] \in {"scan", "asking", "done"}
  \/ dpc[d] = "asking"  /\ dpc'[d] = "woken"
  \/ dpc[d] = "woken"   /\ dpc'[d] \in {"resolve", "scan", "done"}
  \/ dpc[d] = "scan"    /\ dpc'[d] \in {"planned", "done"}
  \/ dpc[d] = "planned" /\ dpc'[d] = "exec"
  \/ dpc[d] = "exec"    /\ dpc'[d] = "done"

(* What it may do besides: nothing to the others, nothing written before   *)
(* its scan, and an outcome only at its end.                               *)
OwnStep(d) ==
  /\ DestPath(d) /\ job' = job
  /\ \A e \in Dests : e # d => dpc'[e] = dpc[e] /\ outcome'[e] = outcome[e]
  /\ outcome'[d] = outcome[d] \/ dpc'[d] = "done"
  /\ touched' = touched \/
       (touched' = touched \cup {d} /\ dpc[d] \in {"resolve", "woken", "planned"}
          /\ dpc'[d] \in {"scan", "exec"})
  /\ outcome'[d].unavailable => outcome[d].unavailable \/ dpc[d] \in {"resolve", "woken"}
  /\ dpc[d] = "todo" => Turn(d) /\ (NotAttempted(d) => dpc'[d] = "done")
  /\ dpc[d] = "planned" => MayExecute(d)

LEMMA EndsOwn ==
  ASSUME IInv, NEW d \in Dests, NEW s, NEW u, NEW g, OutcomeIs(d, s, u, g)
  PROVE  /\ dpc'[d] = "done" /\ outcome'[d].unavailable = u
         /\ \A e \in Dests : e # d => dpc'[e] = dpc[e] /\ outcome'[e] = outcome[e]
BY DEF OutcomeIs, DestTypeOK

LEMMA MovesOwn ==
  ASSUME IInv, NEW d \in Dests, NEW l, DestMoves(d, l)
  PROVE  /\ dpc'[d] = l /\ outcome' = outcome
         /\ \A e \in Dests : e # d => dpc'[e] = dpc[e]
BY DEF DestMoves, DestTypeOK

LEMMA DestStepOwn ==
  ASSUME IInv, NEW d \in Dests, DestStep(d)
  PROVE  OwnStep(d)
<1>0. job' = job
  BY DEF DestStep, BeginDest, ResolveDest, ResolveFails, WakeOnAnswer, WakeOnTimer, WakeOnCancel,
         Woken, Decide, ScanDest, StartDest, FinishDest
<1>1. CASE BeginDest(d)
  BY <1>0, <1>1, EndsOwn, MovesOwn DEF BeginDest, DropDest, DestFails, DestEnds, OwnStep, DestPath
<1>2. CASE ResolveDest(d)
  BY <1>0, <1>2, MovesOwn DEF ResolveDest, OwnStep, DestPath
<1>3. ASSUME NEW m \in BOOLEAN, ResolveFails(d, m) PROVE OwnStep(d)
  <2>1. ASSUME NEW c, Ask(d, c) PROVE dpc'[d] = "asking" /\ outcome' = outcome
                                      /\ \A e \in Dests : e # d => dpc'[e] = dpc[e]
    BY <2>1 DEF Ask, DestTypeOK
  <2> QED
    BY <1>0, <1>3, <2>1, EndsOwn DEF ResolveFails, AbortDest, SkipDest, DestEnds, OwnStep, DestPath
<1>4. CASE WakeOnAnswer(d) \/ WakeOnTimer(d) \/ WakeOnCancel(d)
  BY <1>0, <1>4, MovesOwn DEF WakeOnAnswer, WakeOnTimer, WakeOnCancel, Woken, OwnStep, DestPath
<1>5. CASE Decide(d)
  BY <1>0, <1>5, EndsOwn, MovesOwn
     DEF Decide, DropDest, AbortDest, SkipDest, DestEnds, OwnStep, DestPath
<1>6. CASE ScanDest(d)
  BY <1>0, <1>6, EndsOwn, MovesOwn DEF ScanDest, DestFails, DropDest, DestEnds, OwnStep, DestPath
<1>7. CASE StartDest(d)
  BY <1>0, <1>7 DEF StartDest, DestTypeOK, OwnStep, DestPath
<1>8. CASE FinishDest(d)
  BY <1>0, <1>8, EndsOwn DEF FinishDest, DestEnds, OwnStep, DestPath
<1> QED
  BY <1>1, <1>2, <1>3, <1>4, <1>5, <1>6, <1>7, <1>8 DEF DestStep

LEMMA WorkStep ==
  ASSUME IInv, WorkInv, NEW d \in Dests, Active, OwnStep(d)
  PROVE  WorkInv'
<1>1. \A e \in touched' : dpc'[e] \in {"scan", "planned", "exec", "done"}
  BY DEF OwnStep, DestPath, WorkInv, DestTypeOK, Active
<1>2. ASSUME NEW f \in Dests, job.preview, dpc'[f] = "exec", NEW e \in Dests
      PROVE  dpc'[e] \in {"planned", "exec", "done"}
  <2>1. CASE f # d
    <3>1. \A c \in Dests : dpc[c] \in {"planned", "exec", "done"}
      BY <1>2, <2>1 DEF OwnStep, WorkInv
    <3> QED
      BY <3>1 DEF OwnStep, DestPath
  <2>2. CASE f = d
    <3>1. dpc[d] = "planned" /\ pc = "execute"
      BY <1>2, <2>2 DEF OwnStep, DestPath, MayExecute
    <3>2. \A c \in Dests : dpc[c] \in {"planned", "exec", "done"}
      BY <3>1 DEF PhaseInv
    <3> QED
      BY <3>1, <3>2 DEF OwnStep, DestPath
  <2> QED
    BY <2>1, <2>2
<1> QED
  BY <1>1, <1>2 DEF WorkInv, OwnStep

LEMMA SeqStep ==
  ASSUME IInv, WorkInv, SeqInv, NEW c \in Dests, Active, OwnStep(c)
  PROVE  SeqInv'
<1> SUFFICES ASSUME ~job.parallel, NEW d \in Dests, NEW e \in Dests, e < d
             PROVE  /\ dpc'[d] # "todo" => dpc'[e] = "done" \/ (job.preview /\ dpc'[e] \in {"planned", "exec"})
                    /\ dpc'[d] = "exec" => dpc'[e] = "done"
                    /\ job.policy = "abort" /\ outcome'[e].unavailable =>
                         dpc'[d] \in {"todo", "done"} /\ d \notin touched'
  BY DEF SeqInv, OwnStep
<1>0. /\ dpc[d] # "todo" => dpc[e] = "done" \/ (job.preview /\ dpc[e] \in {"planned", "exec"})
      /\ dpc[d] = "exec" => dpc[e] = "done"
      /\ job.policy = "abort" /\ outcome[e].unavailable => dpc[d] \in {"todo", "done"} /\ d \notin touched
  BY DEF SeqInv
<1>1. e # d /\ e \in 1 .. d - 1 /\ (outcome[e].unavailable => dpc[e] = "done")
  BY DEF OutcomeInv, Dests
<1>2. CASE c # d /\ c # e
  <2>1. dpc'[d] = dpc[d] /\ dpc'[e] = dpc[e] /\ outcome'[e] = outcome[e]
    BY <1>2 DEF OwnStep
  <2>2. d \in touched' => d \in touched
    BY <1>2 DEF OwnStep
  <2> QED
    BY <1>0, <2>1, <2>2
<1>3. CASE c = e
  <2>1. dpc'[d] = dpc[d] /\ (d \in touched' => d \in touched)
    BY <1>1, <1>3 DEF OwnStep
  <2>2. dpc[e] # "done"
    BY <1>3 DEF OwnStep, DestPath
  <2>3. dpc[d] # "todo" => dpc'[e] = "done" \/ (job.preview /\ dpc'[e] \in {"planned", "exec"})
    BY <1>0, <1>3, <2>2 DEF OwnStep, DestPath
  <2>4. dpc[d] # "exec"
    BY <1>0, <2>2
  <2>5. ASSUME outcome'[e].unavailable, job.policy = "abort" PROVE dpc[d] = "todo"
    <3>1. ~outcome[e].unavailable
      BY <1>1, <2>2
    <3>2. dpc[e] \in {"resolve", "woken"}
      BY <1>3, <2>5, <3>1 DEF OwnStep
    <3> QED
      BY <1>0, <3>2
  <2>6. dpc[d] = "todo" => d \notin touched
    BY DEF WorkInv, Active
  <2> QED
    BY <2>1, <2>3, <2>4, <2>5, <2>6
<1>4. CASE c = d
  <2>1. dpc'[e] = dpc[e] /\ outcome'[e] = outcome[e]
    BY <1>1, <1>4 DEF OwnStep
  <2>2. dpc[e] = "done" \/ (job.preview /\ dpc[e] \in {"planned", "exec"})
    <3>1. CASE dpc[d] = "todo"
      <4>1. PlanPassed(e)
        BY <1>1, <1>4, <3>1 DEF OwnStep, Turn
      <4> QED
        BY <4>1 DEF PlanPassed
    <3> QED
      BY <1>0, <3>1
  <2>3. dpc'[d] = "exec" => dpc[e] = "done"
    <3>1. CASE dpc'[d] = "exec" /\ ~job.preview
      BY <2>2, <3>1
    <3>2. CASE dpc'[d] = "exec" /\ job.preview
      BY <1>1, <1>4, <3>2 DEF OwnStep, DestPath, MayExecute
    <3> QED
      BY <3>1, <3>2
  <2>4. ASSUME job.policy = "abort", outcome[e].unavailable
        PROVE  dpc'[d] \in {"todo", "done"} /\ d \notin touched'
    <3>1. dpc[d] = "todo" /\ d \notin touched
      BY <1>0, <1>4, <2>4 DEF OwnStep, DestPath
    <3>2. NotAttempted(d)
      BY <1>1, <2>4 DEF NotAttempted
    <3> QED
      BY <1>4, <3>1, <3>2 DEF OwnStep
  <2> QED
    BY <2>1, <2>2, <2>3, <2>4
<1> QED
  BY <1>2, <1>3, <1>4

(* The other steps leave the destinations where they are, unless the       *)
(* process dies; and the dead stay dead.                                   *)
LEMMA OthersOwn ==
  ASSUME IInv, [Next]_vars, ~\E d \in Dests : DestStep(d), ~Crash
  PROVE  UNCHANGED <<job, dpc, outcome, touched>> /\ (pc \in Dead => pc' \in Dead)
<1>1. ASSUME NEW h \in Humans, People(h) PROVE UNCHANGED <<job, dpc, outcome, touched, pc>>
  BY <1>1 DEF People, Cancel, CancelContext, Confirm, AnswerPrompt, SendAnswer, destVars
<1>2. CASE RunStep
  BY <1>2 DEF RunStep, ResolveChains, ResolveSource, SourceStep, ScanSource, Planned, Unpark,
              GiveUp, Executed, Finalise, CloseDest, FinishRun, Leave, destVars, Dead, Closing
<1>3. CASE BootStep \/ UNCHANGED vars
  BY <1>3 DEF BootStep, ReconcileRun, ReconcileDests, ReconcileFails, vars, destVars, Dead
<1> QED
  BY <1>1, <1>2, <1>3 DEF Next

LEMMA OrderInvariance == Spec => [](IInv /\ WorkInv /\ SeqInv)
<1>1. Init => WorkInv /\ SeqInv
  BY DEF Init, WorkInv, SeqInv, NoOutcome
<1>2. IInv /\ WorkInv /\ SeqInv /\ [Next]_vars => WorkInv' /\ SeqInv'
  <2> SUFFICES ASSUME IInv, WorkInv, SeqInv, [Next]_vars PROVE WorkInv' /\ SeqInv'
    OBVIOUS
  <2>1. ASSUME NEW d \in Dests, DestStep(d) PROVE WorkInv' /\ SeqInv'
    <3>1. Active /\ OwnStep(d)
      BY <2>1, DestStepOwn DEF DestStep
    <3> QED
      BY <3>1, WorkStep, SeqStep
  <2>2. CASE Crash
    <3>1. /\ pc' \in Dead /\ \A d \in Dests : dpc'[d] = "todo" /\ outcome'[d] = NoOutcome
      BY <2>2 DEF Crash, Dead
    <3> QED
      BY <3>1 DEF WorkInv, SeqInv, NoOutcome
  <2>3. CASE ~(\E d \in Dests : DestStep(d)) /\ ~Crash
    <3>1. UNCHANGED <<job, dpc, outcome, touched>> /\ (pc \in Dead => pc' \in Dead)
      BY <2>3, OthersOwn
    <3> QED
      BY <3>1 DEF WorkInv, SeqInv
  <2> QED
    BY <2>1, <2>2, <2>3
<1> QED
  BY <1>1, <1>2, PipelineInvariant, PTL DEF Spec

(* For any number of destinations and any interleaving of prompts, timers, *)
(* answers and cancels, a sequential job under the abort policy has        *)
(* written to nothing behind the destination that was unavailable          *)
(* (planDestinations, unavailableEarlierPlanned, resolveDestination).      *)
THEOREM AbortIsRespected == Spec => []AbortStopsTheRest
<1>1. SeqInv => AbortStopsTheRest
  BY DEF SeqInv, AbortStopsTheRest
<1> QED
  BY <1>1, OrderInvariance, PTL

(* A job without parallel_destinations works on one destination at a time, *)
(* in planning and in the execution of a confirmed preview                 *)
(* (planDestinations and executePlanned).                                  *)
Working(d) == dpc[d] \in {"resolve", "asking", "woken", "scan", "exec"}
OneAtATime == ~job.parallel => \A d, e \in Dests : Working(d) /\ Working(e) => d = e

(* For any number of destinations, two of a sequential job are never in    *)
(* work at once: the next one's turn waits for the one before it           *)
(* (planDestinations' loop, executePlanned).                               *)
THEOREM SequentialIsOneAtATime == Spec => []OneAtATime
<1>1. IInv /\ WorkInv /\ SeqInv => OneAtATime
  <2>1. ASSUME IInv, WorkInv, SeqInv, ~job.parallel, NEW d \in Dests, NEW e \in Dests,
               Working(d), Working(e), e < d
        PROVE  FALSE
    <3>1. job.preview /\ dpc[e] = "exec"
      BY <2>1 DEF SeqInv, Working
    <3>2. dpc[d] = "exec"
      BY <2>1, <3>1 DEF WorkInv, Working
    <3> QED
      BY <2>1, <3>1, <3>2 DEF SeqInv
  <2>2. \A d, e \in Dests : d = e \/ d < e \/ e < d
    BY DEF Dests
  <2> QED
    BY <2>1, <2>2 DEF OneAtATime
<1> QED
  BY <1>1, OrderInvariance, PTL

(* While the process lives, a destination that is done stays done with the *)
(* outcome it had; and a run's terminal status stays as it was written,    *)
(* also through crashes, boots that reconcile and boots that fail to: no   *)
(* late answer, timer, cancel, confirm or retried statement changes it     *)
(* (planOneDestination, executeOneDestination, FinishRun,                  *)
(* ReconcileInterruptedRuns).                                              *)
EndsAreFinal ==
  [][/\ pc' # "down" =>
          \A d \in Dests : dpc[d] = "done" => dpc'[d] = "done" /\ outcome'[d] = outcome[d]
     /\ runRow \in RunOutcomes => runRow' = runRow]_vars

(* What planOneDestination and executeOneDestination recorded of a         *)
(* destination, and what FinishRun wrote of the run, is never overwritten, *)
(* for any number of destinations, people, crashes and failing statements. *)
THEOREM PipelineEndsAreFinal == Spec => EndsAreFinal
<1>1. IInv /\ [Next]_vars =>
        [/\ pc' # "down" =>
              \A d \in Dests : dpc[d] = "done" => dpc'[d] = "done" /\ outcome'[d] = outcome[d]
         /\ runRow \in RunOutcomes => runRow' = runRow]_vars
  <2> SUFFICES ASSUME IInv, Next
               PROVE  /\ pc' # "down" =>
                           \A d \in Dests : dpc[d] = "done" => dpc'[d] = "done" /\ outcome'[d] = outcome[d]
                      /\ runRow \in RunOutcomes => runRow' = runRow
    OBVIOUS
  <2>1. ASSUME pc' # "down", NEW d \in Dests, dpc[d] = "done"
        PROVE  dpc'[d] = "done" /\ outcome'[d] = outcome[d]
    <3>1. ASSUME NEW e \in Dests, DestStep(e) PROVE dpc'[d] = "done" /\ outcome'[d] = outcome[d]
      <4>1. OwnStep(e)
        BY <3>1, DestStepOwn
      <4>2. e # d
        BY <2>1, <4>1 DEF OwnStep, DestPath
      <4> QED
        BY <2>1, <4>1, <4>2 DEF OwnStep
    <3>2. ~Crash
      BY <2>1 DEF Crash
    <3> QED
      BY <2>1, <3>1, <3>2, OthersOwn
  <2>2. ASSUME runRow \in RunOutcomes PROVE runRow' = runRow
    <3>1. pc \in {"settled", "ended", "down", "booting", "rebooted"}
      BY <2>2 DEF RunRowInv, RunTypeOK, RunPcs, RunOutcomes, Dead
    <3>2. ASSUME NEW h \in Humans, People(h) PROVE runRow' = runRow
      BY <3>2 DEF People, Cancel, CancelContext, Confirm, AnswerPrompt, SendAnswer, rowVars
    <3>3. ASSUME NEW d \in Dests, DestStep(d) PROVE runRow' = runRow
      BY <3>3 DEF DestStep, BeginDest, ResolveDest, ResolveFails, WakeOnAnswer, WakeOnTimer,
            WakeOnCancel, Woken, Decide, ScanDest, StartDest, FinishDest
    <3>4. CASE RunStep \/ Crash
      BY <3>1, <3>4 DEF RunStep, ResolveChains, ResolveSource, SourceStep, ScanSource, Planned,
            Unpark, GiveUp, Executed, Finalise, CloseDest, FinishRun, Leave, Crash, Closing, rowVars
    <3>5. CASE BootStep
      BY <2>2, <3>5 DEF BootStep, ReconcileRun, ReconcileDests, ReconcileFails, ReconciledRun, RunOutcomes
    <3> QED
      BY <3>2, <3>3, <3>4, <3>5 DEF Next
  <2> QED
    BY <2>1, <2>2
<1> QED
  BY <1>1, PipelineInvariant, PTL DEF Spec, EndsAreFinal

-----------------------------------------------------------------------------
(* The refinement of RunLife.                                              *)

Asked   == cancelled /\ pc \notin Dead
LostRun == RunRec \in lost
LifeKept == UNCHANGED <<runRow, Phase, Asked, job.preview, LostRun>>

(* A step that leaves the run where it is, its row and its flag.           *)
LEMMA LifeUntouched ==
  ASSUME UNCHANGED <<pc, runRow, cancelled, job>>, LostRun' <=> LostRun
  PROVE  LifeKept
<1>1. UNCHANGED <<runRow, Phase, job.preview>>
  BY DEF Phase
<1>2. Asked' <=> Asked
  BY DEF Asked
<1> QED BY <1>1, <1>2 DEF LifeKept, Asked, LostRun

(* A statement about the run's row, made or failed, is RunLife's.          *)
LEMMA LifeWrites ==
  ASSUME IInv, NEW s, NEW to, RunRowStep(s), Phase' = to, job' = job, Asked' <=> Asked
  PROVE  Life!Write(to, s)
<1>1. runRow # "deleted"
  BY DEF RunTypeOK, RunOutcomes
<1>2. \/ runRow' = s /\ ~LostRun'
      \/ runRow' = runRow /\ LostRun'
  BY DEF RunRowStep, LostRun
<1> QED BY <1>1, <1>2 DEF Life!Write, Asked, LostRun

(* People's requests: a cancel, or nothing the row tells of.               *)
LEMMA LifeOfPeople ==
  ASSUME IInv, NEW h \in Humans, People(h)
  PROVE  Life!Next \/ LifeKept
<1>0. UNCHANGED <<pc, runRow, lost, job>>
  BY DEF People, Cancel, CancelContext, Confirm, AnswerPrompt, SendAnswer, rowVars, faultVars
<1>1. CASE Cancel(h)
  <2>1. Phase \notin {"new", "dead"} /\ Phase' = Phase
    BY <1>0, <1>1 DEF Cancel, Active, Phase, Dead
  <2>2. Asked'
    BY <1>0, <1>1 DEF Cancel, Active, Asked
  <2>3. Life!Ask
    BY <1>0, <2>1, <2>2, Zenon DEF Asked, Life!Ask
  <2> QED BY <2>3 DEF Life!Next
<1>2. CASE CancelContext(h) \/ Confirm(h) \/ SendAnswer(h)
           \/ \E d \in Dests, a \in Answers \cap Requests : AnswerPrompt(h, d, a)
  <2>1. UNCHANGED cancelled
    BY <1>2 DEF CancelContext, Confirm, AnswerPrompt, SendAnswer, ctlVars
  <2> QED BY <1>0, <2>1, LifeUntouched DEF LostRun
<1> QED BY <1>1, <1>2 DEF People

(* The run's own steps.                                                    *)
LEMMA LifeOfRun ==
  ASSUME IInv, RunStep
  PROVE  Life!Next \/ LifeKept
<1>0. UNCHANGED <<job, cancelled>> /\ pc \notin Dead /\ pc' \notin Dead
  BY DEF RunStep, ResolveChains, ResolveSource, SourceStep, ScanSource, Planned, Unpark,
         GiveUp, Executed, Finalise, CloseDest, FinishRun, Leave, FailRun, CancelRun, SettleAll,
         AbandonPreview, ctlVars, Dead, Closing
<1>1. (Asked <=> cancelled) /\ (Asked' <=> Asked)
  BY <1>0 DEF Asked
<1>2. ASSUME UNCHANGED <<runRow, lost>>, Phase' = Phase PROVE LifeKept
  BY <1>0, <1>1, <1>2 DEF LifeKept, Asked, LostRun
<1>3. CASE ResolveChains \/ ResolveSource \/ ScanSource
  <2>1. UNCHANGED <<runRow, lost>> /\ pc \in {"chains", "source", "scan"}
        /\ pc' \in {"source", "scan", "dests", "failing"}
    BY <1>3 DEF ResolveChains, ResolveSource, SourceStep, ScanSource, FailRun, CancelRun,
          SettleAll, rowVars, faultVars
  <2> QED BY <1>2, <2>1 DEF Phase
<1>4. CASE Planned
  <2>1. CASE job.preview
    <3>1. Phase = "working" /\ Phase' = "parked" /\ RunRowStep("awaiting_confirmation")
      BY <1>4, <2>1, RunRowWritten DEF Planned, Phase
    <3>2. Life!Write("parked", "awaiting_confirmation")
      BY <1>0, <1>1, <3>1, LifeWrites
    <3>3. Life!Park
      BY <2>1, <3>1, <3>2 DEF Life!Park
    <3> QED BY <3>3 DEF Life!Next
  <2>2. CASE ~job.preview
    <3>1. UNCHANGED <<runRow, lost>> /\ Phase' = Phase
      BY <1>0, <1>4, <2>2 DEF Planned, Phase, faultVars
    <3> QED BY <1>2, <3>1
  <2> QED BY <2>1, <2>2
<1>5. CASE Unpark
  <2>1. Phase = "parked" /\ Phase' = "executing" /\ RunRowStep("running")
    BY <1>5, RunRowWritten DEF Unpark, Phase
  <2>2. Life!Write("executing", "running")
    BY <1>0, <1>1, <2>1, LifeWrites
  <2>3. Life!Unpark
    BY <2>1, <2>2 DEF Life!Unpark
  <2> QED BY <2>3 DEF Life!Next
<1>6. CASE GiveUp \/ Executed \/ Finalise \/ Leave
  <2>1. UNCHANGED <<runRow, lost>>
    BY <1>6 DEF GiveUp, Executed, Finalise, Leave, rowVars, faultVars
  <2>2. pc = "execute" => job.preview
    BY DEF PhaseInv
  <2>3. Phase' = Phase
    BY <1>0, <1>6, <2>2 DEF GiveUp, Executed, Finalise, Leave, CancelRun, SettleAll, AbandonPreview, Phase
  <2> QED BY <1>2, <2>1, <2>3
<1>7. CASE \E d \in Dests : CloseDest(d)
  <2>1. PICK d \in Dests : CloseDest(d)
    BY <1>7
  <2>2. UNCHANGED <<pc, runRow>>
    BY <2>1 DEF CloseDest
  <2>3. RunRec # d
    BY DEF Dests, RunRec
  <2>4. LostRun' <=> LostRun
    BY <2>1, <2>3 DEF CloseDest, WriteDest, WriteFails, LostRun
  <2> QED BY <1>0, <2>2, <2>4, LifeUntouched
<1>8. CASE FinishRun
  <2>1. pc \in Closing /\ pc' = "settled" /\ WriteRun(final)
    BY <1>8 DEF FinishRun
  <2>2. Phase' = "settled" /\ RunRowStep(final)
    BY <2>1, RunRowWritten DEF Phase
  <2>3. PICK s \in RunOutcomes : s = final
    BY <2>1 DEF FinalInv, Closing, RunOutcomes
  <2>4. Life!Write("settled", s)
    BY <1>0, <1>1, <2>2, <2>3, LifeWrites
  <2>5. CASE pc = "failing"
    <3>1. Phase = "working" /\ (s = "failed" \/ (s = "cancelled" /\ Asked))
      BY <1>1, <2>3, <2>5 DEF Phase, FinalInv
    <3>2. Life!Fail \/ Life!Interrupt
      BY <2>4, <3>1 DEF Life!Fail, Life!Interrupt, Asked
    <3> QED BY <3>2 DEF Life!Next
  <2>6. CASE pc = "abandoning"
    <3>1. Phase = "parked" /\ s = "cancelled"
      BY <2>3, <2>6 DEF Phase, FinalInv
    <3>2. Life!Abandon
      BY <2>4, <3>1 DEF Life!Abandon
    <3> QED BY <3>2 DEF Life!Next
  <2>7. CASE pc = "settling"
    <3>1. /\ Phase = "executing" \/ (Phase = "working" /\ ~job.preview)
          /\ s = "cancelled" => Asked
      BY <1>1, <2>3, <2>7 DEF Phase, FinalInv
    <3>2. Life!Conclude(s)
      BY <2>4, <3>1 DEF Life!Conclude, Asked
    <3> QED BY <2>3, <3>2 DEF Life!Next, Life!Finals, RunOutcomes
  <2> QED BY <2>1, <2>5, <2>6, <2>7 DEF Closing
<1> QED BY <1>3, <1>4, <1>5, <1>6, <1>7, <1>8 DEF RunStep

(* The boots: the run's row is reconciled, or left as it was by a failure. *)
LEMMA LifeOfBoot ==
  ASSUME IInv, BootStep
  PROVE  Life!Next \/ LifeKept
<1>0. UNCHANGED job /\ pc \in Dead /\ pc' \in Dead /\ RunRec \notin Dests
  BY DEF BootStep, ReconcileRun, ReconcileDests, ReconcileFails, Dead, Dests, RunRec
<1>1. ~Asked /\ ~Asked'
  BY <1>0 DEF Asked
<1>2. CASE ReconcileRun
  <2>1. Phase = "dead" /\ Phase' = "settled" /\ ~LostRun' /\ runRow' = ReconciledRun(runRow)
    BY <1>2 DEF ReconcileRun, Phase, LostRun
  <2>2. Life!Reconcile
    BY <1>0, <1>1, <2>1 DEF ReconciledRun, Asked, LostRun, Life!Reconcile, Life!Reconciled
  <2> QED BY <2>2 DEF Life!Next
<1>3. CASE ReconcileDests
  <2>1. UNCHANGED runRow /\ Phase' = Phase /\ ~LostRun /\ ~LostRun'
    BY <1>3 DEF ReconcileDests, Phase, LostRun, RunRowInv
  <2> QED BY <1>0, <1>1, <2>1 DEF LifeKept, Asked, LostRun
<1>4. CASE ReconcileFails /\ pc = "down"
  <2>1. /\ Phase = "dead" /\ Phase' = "settled" /\ runRow' = runRow
        /\ LostRun' <=> runRow \in {"running", "awaiting_confirmation"}
    BY <1>0, <1>4 DEF ReconcileFails, Phase, LostRun, LiveRecs
  <2>2. CASE LostRun'
    <3>1. Life!Reconcile
      BY <1>0, <1>1, <2>1, <2>2 DEF Asked, LostRun, Life!Reconcile, Life!Lives
    <3> QED BY <3>1 DEF Life!Next
  <2>3. CASE ~LostRun'
    <3>1. Life!Reconcile
      BY <1>0, <1>1, <2>1, <2>3 DEF Asked, LostRun, Life!Reconcile, Life!Reconciled
    <3> QED BY <3>1 DEF Life!Next
  <2> QED BY <2>2, <2>3
<1>5. CASE ReconcileFails /\ pc = "booting"
  <2>1. UNCHANGED runRow /\ Phase' = Phase /\ ~LostRun /\ ~LostRun'
    BY <1>0, <1>5 DEF ReconcileFails, Phase, LostRun, RunRowInv, LiveRecs, RunOutcomes
  <2> QED BY <1>0, <1>1, <2>1 DEF LifeKept, Asked, LostRun
<1> QED BY <1>2, <1>3, <1>4, <1>5 DEF BootStep, ReconcileFails

(* One run of the pipeline lives the life of RunLife, whatever its         *)
(* destinations, prompts, answers, cancels and failing writes do (execute, *)
(* failRun, cancelRun, awaitConfirmation, ReconcileInterruptedRuns).       *)
THEOREM PipelineLivesItsLife == Spec => ImplementsRunLife
<1>1. Init => Life!Init
  <2> SUFFICES ASSUME Init PROVE Life!Init
    OBVIOUS
  <2>1. Phase = "working" /\ runRow = "running" /\ ~Asked /\ ~LostRun /\ job.preview \in BOOLEAN
    BY DEF Init, Phase, Asked, LostRun, JobConfig
  <2> QED BY <2>1 DEF Asked, LostRun, Life!Init
<1>2. IInv /\ [Next]_vars => [Life!Next]_(Life!vars)
  <2> SUFFICES ASSUME IInv, [Next]_vars PROVE Life!Next \/ LifeKept
    BY DEF LifeKept, Asked, LostRun, Life!vars
  <2>1. ASSUME NEW d \in Dests, DestStep(d) PROVE LifeKept
    <3>1. UNCHANGED <<pc, runRow, cancelled, job>>
      BY <2>1 DEF DestStep, BeginDest, ResolveDest, ResolveFails, WakeOnAnswer, WakeOnTimer,
            WakeOnCancel, Woken, Decide, ScanDest, StartDest, FinishDest, ctlVars
    <3>2. RunRec # d
      BY DEF Dests, RunRec
    <3>3. LostRun' <=> LostRun
      <4>1. UNCHANGED lost \/ \E s : WriteDest(d, s)
        BY <2>1 DEF DestStep, BeginDest, ResolveDest, ResolveFails, WakeOnAnswer, WakeOnTimer,
              WakeOnCancel, Woken, Decide, ScanDest, StartDest, FinishDest, DestMoves, DestFails,
              SkipDest, AbortDest, DropDest, DestEnds, Ask, faultVars
      <4> QED BY <3>2, <4>1 DEF WriteDest, WriteFails, LostRun
    <3> QED BY <3>1, <3>3, LifeUntouched
  <2>2. CASE Crash
    <3>1. Phase \notin {"new", "dead"} /\ Phase' = "dead" /\ ~Asked' /\ UNCHANGED <<runRow, lost, job>>
      BY <2>2 DEF Crash, Phase, Asked, Dead, rowVars, faultVars
    <3>2. Life!Die
      BY <3>1 DEF Asked, Life!Die
    <3> QED BY <3>2 DEF Life!Next
  <2>3. CASE UNCHANGED vars
    BY <2>3, LifeUntouched DEF vars, rowVars, faultVars, ctlVars, LostRun
  <2> QED BY <2>1, <2>2, <2>3, LifeOfPeople, LifeOfRun, LifeOfBoot DEF Next
<1> QED BY <1>1, <1>2, PipelineInvariant, PTL DEF Spec, ImplementsRunLife, Life!Spec
=============================================================================
