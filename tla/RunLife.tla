------------------------------ MODULE RunLife ------------------------------
(***************************************************************************)
(* One run as its row tells it, and the points at which the registry, the  *)
(* pipeline and a boot may write that row.  Runner reduces the pipeline to *)
(* these points and RunPipeline takes them apart; both implement this, so  *)
(* what each assumes of the other's half is what the other does.  A write  *)
(* may fail: the code logs it and goes on, so the row keeps what it said   *)
(* while the run moves.                                                    *)
(***************************************************************************)
VARIABLES
  row,     \* runs.status: none before CreateRun, deleted after DeleteJob
  phase,   \* new, working, parked, executing, settled, dead
  asked,   \* somebody cancelled the run
  preview, \* it was started as a preview
  lost     \* the last write to its row failed

vars == <<row, phase, asked, preview, lost>>

Finals == {"success", "partial", "failed", "cancelled"}
Lives  == {"running", "awaiting_confirmation"}

(* The record begins with CreateRun, or for execute just after it.         *)
Init ==
  /\ asked = FALSE /\ lost = FALSE
  /\ \/ phase = "new" /\ row = "none" /\ preview = FALSE
     \/ phase = "working" /\ row = "running" /\ preview \in BOOLEAN

Create ==
  /\ phase = "new" /\ phase' = "working" /\ row' = "running"
  /\ preview' \in BOOLEAN /\ UNCHANGED <<asked, lost>>

Ask ==
  /\ phase \notin {"new", "dead"} /\ asked' = TRUE
  /\ UNCHANGED <<row, phase, preview, lost>>

(* A write to a row that was deleted changes nothing, and so does one that *)
(* fails.                                                                  *)
Write(to, s) ==
  /\ phase' = to
  /\ \/ lost' = FALSE /\ row' = (IF row = "deleted" THEN row ELSE s)
     \/ lost' = TRUE /\ row' = row
  /\ UNCHANGED <<asked, preview>>

Fail      == phase = "working" /\ Write("settled", "failed")
Interrupt == phase = "working" /\ asked /\ Write("settled", "cancelled")
Park      == phase = "working" /\ preview /\ Write("parked", "awaiting_confirmation")
Unpark    == phase = "parked" /\ Write("executing", "running")
Abandon   == phase = "parked" /\ Write("settled", "cancelled")

Conclude(s) ==
  /\ phase = "executing" \/ (phase = "working" /\ ~preview)
  /\ s = "cancelled" => asked
  /\ Write("settled", s)

(* The process dies, and the next one reconciles what it left, unless that *)
(* fails: then a live row waits for the boot after it.                     *)
Die ==
  /\ phase \notin {"new", "dead"} /\ phase' = "dead" /\ asked' = FALSE
  /\ UNCHANGED <<row, preview, lost>>

Reconciled == CASE row = "running" -> "failed"
                [] row = "awaiting_confirmation" -> "cancelled"
                [] OTHER -> row
Reconcile ==
  /\ phase = "dead" /\ phase' = "settled"
  /\ \/ lost' = FALSE /\ row' = Reconciled
     \/ lost' = TRUE /\ row \in Lives /\ row' = row
  /\ UNCHANGED <<asked, preview>>

Delete ==
  /\ row # "none" /\ row' = "deleted"
  /\ UNCHANGED <<phase, asked, preview, lost>>

Next ==
  \/ Create \/ Ask \/ Fail \/ Interrupt \/ Park \/ Unpark \/ Abandon
  \/ \E s \in Finals : Conclude(s)
  \/ Die \/ Reconcile \/ Delete

Spec == Init /\ [][Next]_vars
=============================================================================
