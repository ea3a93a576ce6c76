---------------------------- MODULE RunnerProofs ----------------------------
(***************************************************************************)
(* Proofs about Runner for any set of jobs, run ids and callers, any mix   *)
(* of requests, with store faults and any number of crashes.               *)
(***************************************************************************)
EXTENDS Runner, TLAPS

-----------------------------------------------------------------------------
(* The inductive invariant, part by part.                                  *)

(* A caller that got past its first load works on a job, and holds the     *)
(* job's reservation from Reserve until Publish.                           *)
CallersInv ==
  /\ \A p \in Procs :
       /\ pc[p] \in {"overlap", "load", "loaded", "queue", "queuedq"} \cup SettingUp
            => arg[p] \in Jobs
       /\ pc[p] \in SettingUp => byJob[arg[p]] = Reserved
       /\ pc[p] \in {"cancel", "confirm"} => rid[p] \in Runs
  /\ \A p, q \in Procs :
       pc[p] \in SettingUp /\ pc[q] \in SettingUp /\ arg[p] = arg[q] => p = q

(* A caller that created a row owns a run whose goroutine does not exist.  *)
CreatedInv ==
  \A p \in Procs : pc[p] \in {"created", "added"} =>
    /\ rid[p] \in Runs /\ runJob[rid[p]] = arg[p]
    /\ rpc[rid[p]] = "none" /\ row[rid[p]] # "none"
    /\ pc[p] = "added" => rid[p] \in wg

(* The registry and the run goroutines agree; the goroutine that follows a *)
(* run does not exist before its finish().                                 *)
ActiveInv ==
  \A r \in Runs :
    /\ r \in active <=> rpc[r] \in InExecute
    /\ r \in active => runJob[r] \in Jobs /\ byJob[runJob[r]] = r
    /\ rpc[r] \in InExecute \cup {"finished"} => r \in wg
    /\ row[r] = "none" => rpc[r] = "none"
    /\ rpc[r] = "settling" => verdict[r] \in TerminalRows
    /\ rpc[r] \in InExecute \cup {"none"} => pc[r] = "done"

(* Every entry of byJob has an owner.                                      *)
SlotInv ==
  \A j \in Jobs :
    /\ byJob[j] = Reserved => \E p \in Procs : pc[p] \in SettingUp /\ arg[p] = j
    /\ byJob[j] \in Runs => byJob[j] \in active /\ runJob[byJob[j]] = j

(* The runs Shutdown found registered, and what its return means for them. *)
ShutdownInv ==
  /\ server = "down" => shut = "up" /\ doomed = {}
  /\ \A r \in doomed : rpc[r] \in InExecute \cup {"finished", "done"}
  /\ shut = "returned" => \A r \in doomed : rpc[r] = "done"

Parts == CallersInv /\ CreatedInv /\ ActiveInv /\ SlotInv /\ NoOrphanRow /\ ShutdownInv

IInv == TypeOK /\ Parts

-----------------------------------------------------------------------------
USE RunnerAssumption
    DEF None, Reserved, Procs, LiveRows, TerminalRows, Pcs, Rpcs, InExecute,
        Unsettled, SettingUp, StartOps, AllOps,
        registry, handles, runVars, rowVars, dbVars, procVars, lifeVars, IInv, Parts

(* The invariant holds of a process that has just started on an empty      *)
(* database (New in runner.go).                                            *)
LEMMA InitInv == Init => IInv
<1> SUFFICES ASSUME Init PROVE IInv
  OBVIOUS
<1>1. TypeOK
  BY DEF Init, TypeOK
<1>2. CallersInv /\ CreatedInv
  BY DEF Init, CallersInv, CreatedInv
<1>3. ActiveInv /\ SlotInv
  BY DEF Init, ActiveInv, SlotInv
<1>4. NoOrphanRow /\ ShutdownInv
  BY DEF Init, NoOrphanRow, ShutdownInv
<1> QED BY <1>1, <1>2, <1>3, <1>4

(* A caller that moves without entering or leaving the set-up section of   *)
(* start(), and touches neither the registry nor a row, keeps every part.  *)
LEMMA CallerMoves ==
  ASSUME NEW p \in Procs, NEW l \in Pcs \ SettingUp, IInv, TypeOK',
         pc[p] \notin SettingUp \cup {"done"}, pc' = [pc EXCEPT ![p] = l],
         l \in {"overlap", "load", "loaded", "queue", "queuedq"} => arg'[p] \in Jobs,
         l \in {"cancel", "confirm"} => rid'[p] \in Runs,
         \A q \in Procs \ {p} : arg'[q] = arg[q] /\ rid'[q] = rid[q],
         UNCHANGED <<byJob, active, rpc, verdict, runJob, row, unsaved, wg, server, shut, doomed>>
  PROVE  IInv'
<1>1. CallersInv'
  BY DEF TypeOK, CallersInv
<1>2. CreatedInv'
  BY DEF TypeOK, CreatedInv
<1>3. ActiveInv' /\ ShutdownInv'
  BY DEF TypeOK, ActiveInv, ShutdownInv
<1>4. SlotInv'
  BY DEF TypeOK, SlotInv
<1>5. NoOrphanRow'
  BY DEF TypeOK, NoOrphanRow
<1> QED BY <1>1, <1>2, <1>3, <1>4, <1>5

(* A run that moves inside execute and writes no row but its own, leaving  *)
(* it live only while it still has to settle or because the write failed,  *)
(* keeps every part.                                                       *)
LEMMA RunMoves ==
  ASSUME NEW r \in Runs, NEW l \in InExecute, IInv, TypeOK',
         rpc[r] \in InExecute, rpc' = [rpc EXCEPT ![r] = l],
         \A s \in Runs \ {r} : row'[s] = row[s] /\ verdict'[s] = verdict[s],
         \A s \in Runs \ {r} : (s \in unsaved') <=> (s \in unsaved),
         row'[r] # "none", row'[r] \in LiveRows => l \in Unsettled \/ r \in unsaved',
         l = "settling" => verdict'[r] \in TerminalRows,
         UNCHANGED <<byJob, active, runJob, pc, arg, rid, wg, server, shut, doomed>>
  PROVE  IInv'
<1>1. CallersInv' /\ SlotInv'
  BY DEF TypeOK, CallersInv, SlotInv
<1>2. CreatedInv'
  BY DEF TypeOK, CreatedInv
<1>3. ActiveInv'
  BY DEF TypeOK, ActiveInv
<1>4. NoOrphanRow'
  BY DEF TypeOK, NoOrphanRow
<1>5. ShutdownInv'
  BY DEF TypeOK, ShutdownInv, ActiveInv
<1> QED BY <1>1, <1>2, <1>3, <1>4, <1>5

-----------------------------------------------------------------------------
(* The callers' steps.                                                     *)

(* Requests and checks that leave the registry alone.                      *)
LEMMA RequestInv == ASSUME NEW c \in Clients, NEW o \in Ops, NEW j \in Jobs, IInv, Request(c, o, j) PROVE IInv'
<1>1. TypeOK'
  BY DEF Request, Goto, TypeOK
<1> QED BY <1>1, CallerMoves DEF Request, Goto, TypeOK

LEMMA OverlapCheckInv == ASSUME NEW p \in Procs, IInv, OverlapCheck(p) PROVE IInv'
<1>1. TypeOK'
  BY DEF OverlapCheck, Goto, TypeOK
<1> QED BY <1>1, CallerMoves DEF OverlapCheck, Goto, TypeOK, CallersInv

LEMMA LoadQueuedInv == ASSUME NEW p \in Procs, IInv, LoadQueued(p) PROVE IInv'
<1>1. TypeOK'
  BY DEF LoadQueued, Goto, TypeOK
<1> QED BY <1>1, CallerMoves DEF LoadQueued, Goto, TypeOK, CallersInv

LEMMA LoadFailsInv == ASSUME NEW p \in Procs, IInv, LoadFails(p) PROVE IInv'
<1>1. TypeOK'
  BY DEF LoadFails, Goto, TypeOK
<1> QED BY <1>1, CallerMoves DEF LoadFails, Goto, TypeOK

LEMMA StartRefusedInv == ASSUME NEW p \in Procs, IInv, StartRefused(p) PROVE IInv'
<1>1. TypeOK'
  BY DEF StartRefused, Goto, TypeOK
<1> QED BY <1>1, CallerMoves DEF StartRefused, Goto, TypeOK, CallersInv

LEMMA QueueNextInv == ASSUME NEW p \in Procs, IInv, QueueNext(p) PROVE IInv'
<1>1. TypeOK'
  BY DEF QueueNext, Goto, TypeOK, CallersInv
<1> QED BY <1>1, CallerMoves DEF QueueNext, Goto, TypeOK, CallersInv

LEMMA QueuedInv == ASSUME NEW p \in Procs, IInv, Queued(p) PROVE IInv'
<1>1. TypeOK'
  BY DEF Queued, Goto, TypeOK
<1> QED BY <1>1, CallerMoves DEF Queued, Goto, TypeOK, CallersInv

LEMMA CancelInv == ASSUME NEW c \in Clients, NEW r \in Runs, IInv, Cancel(c, r) PROVE IInv'
<1>1. TypeOK'
  BY DEF Cancel, Goto, TypeOK
<1> QED BY <1>1, CallerMoves DEF Cancel, Goto, TypeOK

LEMMA CancelContextInv == ASSUME NEW p \in Procs, IInv, CancelContext(p) PROVE IInv'
<1>1. TypeOK'
  BY DEF CancelContext, Goto, TypeOK, CallersInv
<1> QED BY <1>1, CallerMoves DEF CancelContext, Goto, TypeOK, CallersInv

LEMMA ConfirmJobInv == ASSUME NEW c \in Clients, NEW j \in Jobs, IInv, ConfirmJob(c, j) PROVE IInv'
<1>1. TypeOK'
  BY DEF ConfirmJob, AwaitingConfirmation, Goto, TypeOK
<1>2. CASE AwaitingConfirmation(j) = {} /\ Goto(c, "done") /\ UNCHANGED rid
  BY <1>1, <1>2, CallerMoves DEF ConfirmJob, Goto
<1>3. ASSUME NEW r \in Runs, Goto(c, "confirm"), rid' = [rid EXCEPT ![c] = r]
      PROVE  IInv'
  BY <1>1, <1>3, CallerMoves DEF ConfirmJob, Goto, TypeOK
<1> QED BY <1>2, <1>3 DEF ConfirmJob, AwaitingConfirmation

LEMMA ConfirmInv == ASSUME NEW p \in Procs, IInv, Confirm(p) PROVE IInv'
<1>1. TypeOK'
  BY DEF Confirm, Goto, TypeOK
<1> QED BY <1>1, CallerMoves DEF Confirm, Goto, TypeOK, CallersInv

LEMMA DeleteCheckInv == ASSUME NEW c \in Clients, NEW j \in Jobs, IInv, DeleteCheck(c, j) PROVE IInv'
<1>1. TypeOK'
  BY DEF DeleteCheck, Goto, TypeOK
<1> QED BY <1>1, CallerMoves DEF DeleteCheck, Goto, TypeOK

(* Taking the slot. *)
LEMMA ReserveInv == ASSUME NEW p \in Procs, IInv, Reserve(p) PROVE IInv'
<1> USE DEF Reserve, MayReserve, SlotFree, Goto
<1>1. TypeOK'
  BY DEF TypeOK, CallersInv, CreatedInv, ActiveInv, SlotInv, NoOrphanRow, ShutdownInv
<1>2. CallersInv'
  BY DEF TypeOK, CallersInv, CreatedInv, ActiveInv, SlotInv, NoOrphanRow, ShutdownInv
<1>3. CreatedInv'
  BY DEF TypeOK, CallersInv, CreatedInv, ActiveInv, SlotInv, NoOrphanRow, ShutdownInv
<1>4. ActiveInv'
  BY DEF TypeOK, CallersInv, CreatedInv, ActiveInv, SlotInv, NoOrphanRow, ShutdownInv
<1>5. SlotInv'
  BY DEF TypeOK, CallersInv, CreatedInv, ActiveInv, SlotInv, NoOrphanRow, ShutdownInv
<1>6. NoOrphanRow'
  BY DEF TypeOK, CallersInv, CreatedInv, ActiveInv, SlotInv, NoOrphanRow, ShutdownInv
<1>7. ShutdownInv'
  BY DEF TypeOK, CallersInv, CreatedInv, ActiveInv, SlotInv, NoOrphanRow, ShutdownInv
<1> QED BY <1>1, <1>2, <1>3, <1>4, <1>5, <1>6, <1>7

(* The row is inserted. *)
LEMMA CreateRunInv == ASSUME NEW p \in Procs, NEW r \in Runs, IInv, CreateRun(p, r) PROVE IInv'
<1> USE DEF CreateRun, Goto
<1>1. TypeOK'
  BY DEF TypeOK, CallersInv, CreatedInv, ActiveInv, SlotInv, NoOrphanRow, ShutdownInv
<1>2. CallersInv'
  BY DEF TypeOK, CallersInv, CreatedInv, ActiveInv, SlotInv, NoOrphanRow, ShutdownInv
<1>3. CreatedInv'
  BY DEF TypeOK, CallersInv, CreatedInv, ActiveInv, SlotInv, NoOrphanRow, ShutdownInv
<1>4. ActiveInv'
  BY DEF TypeOK, CallersInv, CreatedInv, ActiveInv, SlotInv, NoOrphanRow, ShutdownInv
<1>5. SlotInv'
  BY DEF TypeOK, CallersInv, CreatedInv, ActiveInv, SlotInv, NoOrphanRow, ShutdownInv
<1>6. NoOrphanRow'
  BY DEF TypeOK, CallersInv, CreatedInv, ActiveInv, SlotInv, NoOrphanRow, ShutdownInv
<1>7. ShutdownInv'
  BY DEF TypeOK, CallersInv, CreatedInv, ActiveInv, SlotInv, NoOrphanRow, ShutdownInv
<1> QED BY <1>1, <1>2, <1>3, <1>4, <1>5, <1>6, <1>7

(* The slot is given back. *)
LEMMA CreateRunFailsInv == ASSUME NEW p \in Procs, IInv, CreateRunFails(p) PROVE IInv'
<1> USE DEF CreateRunFails, ReleaseReservation, Goto
<1>1. TypeOK'
  BY DEF TypeOK, CallersInv, CreatedInv, ActiveInv, SlotInv, NoOrphanRow, ShutdownInv
<1>2. CallersInv'
  BY DEF TypeOK, CallersInv, CreatedInv, ActiveInv, SlotInv, NoOrphanRow, ShutdownInv
<1>3. CreatedInv'
  BY DEF TypeOK, CallersInv, CreatedInv, ActiveInv, SlotInv, NoOrphanRow, ShutdownInv
<1>4. ActiveInv'
  BY DEF TypeOK, CallersInv, CreatedInv, ActiveInv, SlotInv, NoOrphanRow, ShutdownInv
<1>5. SlotInv'
  BY DEF TypeOK, CallersInv, CreatedInv, ActiveInv, SlotInv, NoOrphanRow, ShutdownInv
<1>6. NoOrphanRow'
  BY DEF TypeOK, CallersInv, CreatedInv, ActiveInv, SlotInv, NoOrphanRow, ShutdownInv
<1>7. ShutdownInv'
  BY DEF TypeOK, CallersInv, CreatedInv, ActiveInv, SlotInv, NoOrphanRow, ShutdownInv
<1> QED BY <1>1, <1>2, <1>3, <1>4, <1>5, <1>6, <1>7

(* wg.Add. *)
LEMMA AddToGroupInv == ASSUME NEW p \in Procs, IInv, AddToGroup(p) PROVE IInv'
<1> USE DEF AddToGroup, Goto
<1>1. TypeOK'
  BY DEF TypeOK, CallersInv, CreatedInv, ActiveInv, SlotInv, NoOrphanRow, ShutdownInv
<1>2. CallersInv'
  BY DEF TypeOK, CallersInv, CreatedInv, ActiveInv, SlotInv, NoOrphanRow, ShutdownInv
<1>3. CreatedInv'
  BY DEF TypeOK, CallersInv, CreatedInv, ActiveInv, SlotInv, NoOrphanRow, ShutdownInv
<1>4. ActiveInv'
  BY DEF TypeOK, CallersInv, CreatedInv, ActiveInv, SlotInv, NoOrphanRow, ShutdownInv
<1>5. SlotInv'
  BY DEF TypeOK, CallersInv, CreatedInv, ActiveInv, SlotInv, NoOrphanRow, ShutdownInv
<1>6. NoOrphanRow'
  BY DEF TypeOK, CallersInv, CreatedInv, ActiveInv, SlotInv, NoOrphanRow, ShutdownInv
<1>7. ShutdownInv'
  BY DEF TypeOK, CallersInv, CreatedInv, ActiveInv, SlotInv, NoOrphanRow, ShutdownInv
<1> QED BY <1>1, <1>2, <1>3, <1>4, <1>5, <1>6, <1>7

(* The handle is published. *)
LEMMA PublishInv == ASSUME NEW p \in Procs, IInv, Publish(p) PROVE IInv'
<1> USE DEF Publish, Goto
<1>1. TypeOK'
  BY DEF TypeOK, CallersInv, CreatedInv, ActiveInv, SlotInv, NoOrphanRow, ShutdownInv
<1>2. CallersInv'
  BY DEF TypeOK, CallersInv, CreatedInv, ActiveInv, SlotInv, NoOrphanRow, ShutdownInv
<1>3. CreatedInv'
  BY DEF TypeOK, CallersInv, CreatedInv, ActiveInv, SlotInv, NoOrphanRow, ShutdownInv
<1>4. ActiveInv'
  BY DEF TypeOK, CallersInv, CreatedInv, ActiveInv, SlotInv, NoOrphanRow, ShutdownInv
<1>5. SlotInv'
  BY DEF TypeOK, CallersInv, CreatedInv, ActiveInv, SlotInv, NoOrphanRow, ShutdownInv
<1>6. NoOrphanRow'
  BY DEF TypeOK, CallersInv, CreatedInv, ActiveInv, SlotInv, NoOrphanRow, ShutdownInv
<1>7. ShutdownInv'
  BY DEF TypeOK, CallersInv, CreatedInv, ActiveInv, SlotInv, NoOrphanRow, ShutdownInv
<1> QED BY <1>1, <1>2, <1>3, <1>4, <1>5, <1>6, <1>7

(* The job goes with its history. *)
LEMMA DeleteJobInv == ASSUME NEW p \in Procs, IInv, DeleteJob(p) PROVE IInv'
<1> USE DEF DeleteJob, Goto
<1>1. TypeOK'
  BY DEF TypeOK, CallersInv, CreatedInv, ActiveInv, SlotInv, NoOrphanRow, ShutdownInv
<1>2. CallersInv'
  BY DEF TypeOK, CallersInv, CreatedInv, ActiveInv, SlotInv, NoOrphanRow, ShutdownInv
<1>3. CreatedInv'
  BY DEF TypeOK, CallersInv, CreatedInv, ActiveInv, SlotInv, NoOrphanRow, ShutdownInv
<1>4. ActiveInv'
  BY DEF TypeOK, CallersInv, CreatedInv, ActiveInv, SlotInv, NoOrphanRow, ShutdownInv
<1>5. SlotInv'
  BY DEF TypeOK, CallersInv, CreatedInv, ActiveInv, SlotInv, NoOrphanRow, ShutdownInv
<1>6. NoOrphanRow'
  BY DEF TypeOK, CallersInv, CreatedInv, ActiveInv, SlotInv, NoOrphanRow, ShutdownInv
<1>7. ShutdownInv'
  BY DEF TypeOK, CallersInv, CreatedInv, ActiveInv, SlotInv, NoOrphanRow, ShutdownInv
<1> QED BY <1>1, <1>2, <1>3, <1>4, <1>5, <1>6, <1>7

-----------------------------------------------------------------------------
(* The run goroutine's steps.                                              *)

(* An UPDATE writes the status, nothing when the row was deleted, and      *)
(* nothing when it fails.                                                  *)
LEMMA SetRowWrites ==
  ASSUME NEW r \in Runs, NEW s, TypeOK, SetRow(r, s)
  PROVE  /\ row'[r] \in {s, "deleted"} \/ (row'[r] = row[r] /\ r \in unsaved')
         /\ \A q \in Runs \ {r} : row'[q] = row[q] /\ ((q \in unsaved') <=> (q \in unsaved))
  BY DEF SetRow, WriteFails, TypeOK

(* A run that writes its row, or fails to, and moves keeps every part.     *)
LEMMA RunWrites ==
  ASSUME NEW r \in Runs, NEW l \in InExecute \ {"settling"}, IInv, TypeOK',
         NEW v \in LiveRows \cup TerminalRows, v \in LiveRows => l \in Unsettled,
         rpc[r] \in InExecute, rpc' = [rpc EXCEPT ![r] = l], SetRow(r, v),
         \A s \in Runs \ {r} : verdict'[s] = verdict[s],
         UNCHANGED <<byJob, active, runJob, pc, arg, rid, wg, server, shut, doomed>>
  PROVE  IInv'
<1>1. /\ row'[r] \in {v, "deleted"} \/ (row'[r] = row[r] /\ r \in unsaved')
      /\ \A q \in Runs \ {r} : row'[q] = row[q] /\ ((q \in unsaved') <=> (q \in unsaved))
  BY SetRowWrites
<1>2. row'[r] # "none"
  BY <1>1 DEF ActiveInv
<1>3. row'[r] \in LiveRows => l \in Unsettled \/ r \in unsaved'
  BY <1>1
<1> QED BY <1>1, <1>2, <1>3, RunMoves

LEMMA FailRunInv == ASSUME NEW r \in Runs, IInv, FailRun(r) PROVE IInv'
<1>1. TypeOK'
  BY DEF FailRun, RunAt, SetRow, WriteFails, TypeOK, ActiveInv
<1> QED BY <1>1, RunWrites DEF FailRun, RunAt

LEMMA ScanInterruptedInv == ASSUME NEW r \in Runs, IInv, ScanInterrupted(r) PROVE IInv'
<1>1. TypeOK'
  BY DEF ScanInterrupted, RunAt, SetRow, WriteFails, TypeOK, ActiveInv
<1> QED BY <1>1, RunWrites DEF ScanInterrupted, RunAt

LEMMA ParkInv == ASSUME NEW r \in Runs, IInv, Park(r) PROVE IInv'
<1>1. TypeOK'
  BY DEF Park, RunAt, SetRow, WriteFails, TypeOK, ActiveInv
<1> QED BY <1>1, RunWrites DEF Park, RunAt

LEMMA UnparkInv == ASSUME NEW r \in Runs, IInv, Unpark(r) PROVE IInv'
<1>1. TypeOK'
  BY DEF Unpark, RunAt, SetRow, WriteFails, TypeOK, ActiveInv
<1> QED BY <1>1, RunWrites DEF Unpark, RunAt

LEMMA GiveUpInv == ASSUME NEW r \in Runs, IInv, GiveUp(r) PROVE IInv'
<1>1. TypeOK'
  BY DEF GiveUp, RunAt, TypeOK, ActiveInv
<1> QED BY <1>1, RunMoves DEF GiveUp, RunAt, TypeOK, ActiveInv, NoOrphanRow

LEMMA AbandonInv == ASSUME NEW r \in Runs, IInv, Abandon(r) PROVE IInv'
<1>1. TypeOK'
  BY DEF Abandon, RunAt, SetRow, WriteFails, TypeOK, ActiveInv
<1> QED BY <1>1, RunWrites DEF Abandon, RunAt

LEMMA DecideInv == ASSUME NEW r \in Runs, IInv, Decide(r) PROVE IInv'
<1>1. TypeOK'
  BY DEF Decide, RunAt, Verdicts, TypeOK, ActiveInv
<1> QED BY <1>1, RunMoves DEF Decide, RunAt, Verdicts, TypeOK, ActiveInv

LEMMA SettleInv == ASSUME NEW r \in Runs, IInv, Settle(r) PROVE IInv'
<1>1. TypeOK'
  BY DEF Settle, RunAt, FinishRow, SetRow, WriteFails, TypeOK, ActiveInv
<1>2. verdict[r] \in TerminalRows
  BY DEF Settle, RunAt, ActiveInv
<1> QED BY <1>1, <1>2, RunWrites DEF Settle, RunAt, FinishRow, TypeOK

(* finish(). *)
LEMMA FinishInv == ASSUME NEW r \in Runs, IInv, Finish(r) PROVE IInv'
<1>0. /\ rpc[r] = "settled" /\ rpc' = [rpc EXCEPT ![r] = "finished"]
      /\ r \in active /\ runJob[r] \in Jobs /\ byJob[runJob[r]] = r
      /\ active' = active \ {r} /\ byJob' = [byJob EXCEPT ![runJob[r]] = None]
      /\ UNCHANGED <<verdict, runJob, row, unsaved, rid, wg, server, shut, doomed>>
  BY DEF Finish, RunAt, ReleaseJob, ActiveInv
<1>1. /\ pc' \in [Procs -> Pcs] /\ arg' \in [Procs -> Jobs \cup {None}]
      /\ \A p \in Procs :
           \/ pc'[p] = pc[p] /\ arg'[p] = arg[p]
           \/ p = r /\ pc'[p] = "load" /\ arg'[p] = runJob[r]
  BY <1>0 DEF Finish, Goto, TypeOK
<1>2. TypeOK'
  <2>1. op' \in [Procs -> AllOps] /\ queued' \subseteq Jobs
    BY DEF Finish, TypeOK
  <2>2. byJob' \in [Jobs -> Runs \cup {None, Reserved}] /\ rpc' \in [Runs -> Rpcs]
    BY <1>0 DEF TypeOK
  <2> QED BY <1>0, <1>1, <2>1, <2>2 DEF Finish, TypeOK
<1>3. CallersInv'
  BY <1>0, <1>1 DEF TypeOK, CallersInv
<1>4. CreatedInv'
  BY <1>0, <1>1 DEF TypeOK, CreatedInv
<1>5. ActiveInv'
  BY <1>0, <1>1 DEF TypeOK, ActiveInv
<1>6. SlotInv'
  BY <1>0, <1>1 DEF TypeOK, SlotInv, ActiveInv
<1>7. NoOrphanRow'
  BY <1>0, <1>1 DEF TypeOK, NoOrphanRow, ActiveInv
<1>8. ShutdownInv'
  BY <1>0 DEF TypeOK, ShutdownInv
<1> QED BY <1>2, <1>3, <1>4, <1>5, <1>6, <1>7, <1>8

(* wg.Done. *)
LEMMA LeaveInv == ASSUME NEW r \in Runs, IInv, Leave(r) PROVE IInv'
<1> USE DEF Leave, RunAt
<1>1. TypeOK'
  BY DEF TypeOK, CallersInv, CreatedInv, ActiveInv, SlotInv, NoOrphanRow, ShutdownInv
<1>2. CallersInv'
  BY DEF TypeOK, CallersInv, CreatedInv, ActiveInv, SlotInv, NoOrphanRow, ShutdownInv
<1>3. CreatedInv'
  BY DEF TypeOK, CallersInv, CreatedInv, ActiveInv, SlotInv, NoOrphanRow, ShutdownInv
<1>4. ActiveInv'
  BY DEF TypeOK, CallersInv, CreatedInv, ActiveInv, SlotInv, NoOrphanRow, ShutdownInv
<1>5. SlotInv'
  BY DEF TypeOK, CallersInv, CreatedInv, ActiveInv, SlotInv, NoOrphanRow, ShutdownInv
<1>6. NoOrphanRow'
  BY DEF TypeOK, CallersInv, CreatedInv, ActiveInv, SlotInv, NoOrphanRow, ShutdownInv
<1>7. ShutdownInv'
  BY DEF TypeOK, CallersInv, CreatedInv, ActiveInv, SlotInv, NoOrphanRow, ShutdownInv
<1> QED BY <1>1, <1>2, <1>3, <1>4, <1>5, <1>6, <1>7

-----------------------------------------------------------------------------
(* The process.                                                            *)

(* closing is set and every handle cancelled. *)
LEMMA ShutdownBeginInv == ASSUME IInv, ShutdownBegin PROVE IInv'
<1> USE DEF ShutdownBegin
<1>1. TypeOK'
  BY DEF TypeOK, CallersInv, CreatedInv, ActiveInv, SlotInv, NoOrphanRow, ShutdownInv
<1>2. CallersInv'
  BY DEF TypeOK, CallersInv, CreatedInv, ActiveInv, SlotInv, NoOrphanRow, ShutdownInv
<1>3. CreatedInv'
  BY DEF TypeOK, CallersInv, CreatedInv, ActiveInv, SlotInv, NoOrphanRow, ShutdownInv
<1>4. ActiveInv'
  BY DEF TypeOK, CallersInv, CreatedInv, ActiveInv, SlotInv, NoOrphanRow, ShutdownInv
<1>5. SlotInv'
  BY DEF TypeOK, CallersInv, CreatedInv, ActiveInv, SlotInv, NoOrphanRow, ShutdownInv
<1>6. NoOrphanRow'
  BY DEF TypeOK, CallersInv, CreatedInv, ActiveInv, SlotInv, NoOrphanRow, ShutdownInv
<1>7. ShutdownInv'
  BY DEF TypeOK, CallersInv, CreatedInv, ActiveInv, SlotInv, NoOrphanRow, ShutdownInv
<1> QED BY <1>1, <1>2, <1>3, <1>4, <1>5, <1>6, <1>7

(* The group is empty. *)
LEMMA ShutdownReturnsInv == ASSUME IInv, ShutdownReturns PROVE IInv'
<1> USE DEF ShutdownReturns, GroupEmpty
<1>1. TypeOK'
  BY DEF TypeOK, CallersInv, CreatedInv, ActiveInv, SlotInv, NoOrphanRow, ShutdownInv
<1>2. CallersInv'
  BY DEF TypeOK, CallersInv, CreatedInv, ActiveInv, SlotInv, NoOrphanRow, ShutdownInv
<1>3. CreatedInv'
  BY DEF TypeOK, CallersInv, CreatedInv, ActiveInv, SlotInv, NoOrphanRow, ShutdownInv
<1>4. ActiveInv'
  BY DEF TypeOK, CallersInv, CreatedInv, ActiveInv, SlotInv, NoOrphanRow, ShutdownInv
<1>5. SlotInv'
  BY DEF TypeOK, CallersInv, CreatedInv, ActiveInv, SlotInv, NoOrphanRow, ShutdownInv
<1>6. NoOrphanRow'
  BY DEF TypeOK, CallersInv, CreatedInv, ActiveInv, SlotInv, NoOrphanRow, ShutdownInv
<1>7. ShutdownInv'
  BY DEF TypeOK, CallersInv, CreatedInv, ActiveInv, SlotInv, NoOrphanRow, ShutdownInv
<1> QED BY <1>1, <1>2, <1>3, <1>4, <1>5, <1>6, <1>7

(* The deadline. *)
LEMMA ShutdownTimesOutInv == ASSUME IInv, ShutdownTimesOut PROVE IInv'
<1> USE DEF ShutdownTimesOut
<1>1. TypeOK'
  BY DEF TypeOK, CallersInv, CreatedInv, ActiveInv, SlotInv, NoOrphanRow, ShutdownInv
<1>2. CallersInv'
  BY DEF TypeOK, CallersInv, CreatedInv, ActiveInv, SlotInv, NoOrphanRow, ShutdownInv
<1>3. CreatedInv'
  BY DEF TypeOK, CallersInv, CreatedInv, ActiveInv, SlotInv, NoOrphanRow, ShutdownInv
<1>4. ActiveInv'
  BY DEF TypeOK, CallersInv, CreatedInv, ActiveInv, SlotInv, NoOrphanRow, ShutdownInv
<1>5. SlotInv'
  BY DEF TypeOK, CallersInv, CreatedInv, ActiveInv, SlotInv, NoOrphanRow, ShutdownInv
<1>6. NoOrphanRow'
  BY DEF TypeOK, CallersInv, CreatedInv, ActiveInv, SlotInv, NoOrphanRow, ShutdownInv
<1>7. ShutdownInv'
  BY DEF TypeOK, CallersInv, CreatedInv, ActiveInv, SlotInv, NoOrphanRow, ShutdownInv
<1> QED BY <1>1, <1>2, <1>3, <1>4, <1>5, <1>6, <1>7

(* Only the database survives. *)
LEMMA DownInv == ASSUME IInv, Down PROVE IInv'
<1> USE DEF Down
<1>1. TypeOK'
  <2>1. downs' \in Nat
    BY DEF TypeOK
  <2>2. rpc' \in [Runs -> Rpcs] /\ pc' \in [Procs -> Pcs]
    BY DEF TypeOK
  <2> QED BY <2>1, <2>2 DEF TypeOK
<1>2. CallersInv'
  BY DEF TypeOK, CallersInv, CreatedInv, ActiveInv, SlotInv, NoOrphanRow, ShutdownInv
<1>3. CreatedInv'
  BY DEF TypeOK, CallersInv, CreatedInv, ActiveInv, SlotInv, NoOrphanRow, ShutdownInv
<1>4. ActiveInv'
  BY DEF TypeOK, CallersInv, CreatedInv, ActiveInv, SlotInv, NoOrphanRow, ShutdownInv
<1>5. SlotInv'
  BY DEF TypeOK, CallersInv, CreatedInv, ActiveInv, SlotInv, NoOrphanRow, ShutdownInv
<1>6. NoOrphanRow'
  BY DEF TypeOK, CallersInv, CreatedInv, ActiveInv, SlotInv, NoOrphanRow, ShutdownInv
<1>7. ShutdownInv'
  BY DEF TypeOK, CallersInv, CreatedInv, ActiveInv, SlotInv, NoOrphanRow, ShutdownInv
<1> QED BY <1>1, <1>2, <1>3, <1>4, <1>5, <1>6, <1>7

(* ReconcileInterruptedRuns. *)
LEMMA BootInv == ASSUME IInv, Boot PROVE IInv'
<1> USE DEF Boot, Reconcile, ReconcileFails, Reconciled, ReconciledRunningOnly
<1>1. TypeOK'
  BY DEF TypeOK, CallersInv, CreatedInv, ActiveInv, SlotInv, NoOrphanRow, ShutdownInv
<1>2. CallersInv'
  BY DEF TypeOK, CallersInv, CreatedInv, ActiveInv, SlotInv, NoOrphanRow, ShutdownInv
<1>3. CreatedInv'
  BY DEF TypeOK, CallersInv, CreatedInv, ActiveInv, SlotInv, NoOrphanRow, ShutdownInv
<1>4. ActiveInv'
  BY DEF TypeOK, CallersInv, CreatedInv, ActiveInv, SlotInv, NoOrphanRow, ShutdownInv
<1>5. SlotInv'
  BY DEF TypeOK, CallersInv, CreatedInv, ActiveInv, SlotInv, NoOrphanRow, ShutdownInv
<1>6. NoOrphanRow'
  BY DEF TypeOK, CallersInv, CreatedInv, ActiveInv, SlotInv, NoOrphanRow, ShutdownInv
<1>7. ShutdownInv'
  BY DEF TypeOK, CallersInv, CreatedInv, ActiveInv, SlotInv, NoOrphanRow, ShutdownInv
<1> QED BY <1>1, <1>2, <1>3, <1>4, <1>5, <1>6, <1>7

-----------------------------------------------------------------------------
LEMMA NextInv == IInv /\ [Next]_vars => IInv'
<1> SUFFICES ASSUME IInv, [Next]_vars PROVE IInv'
  OBVIOUS
<1>1. CASE \E c \in Clients : ClientCall(c)
  BY <1>1, RequestInv, CancelInv, ConfirmJobInv, DeleteCheckInv DEF ClientCall
<1>2. CASE \E p \in Procs : ProcStep(p)
  BY <1>2, OverlapCheckInv, LoadQueuedInv, LoadFailsInv, ReserveInv, StartRefusedInv,
     CreateRunInv, CreateRunFailsInv, AddToGroupInv, PublishInv, QueueNextInv, QueuedInv,
     CancelContextInv, ConfirmInv, DeleteJobInv DEF ProcStep
<1>3. CASE \E r \in Runs : RunStep(r)
  BY <1>3, FailRunInv, ScanInterruptedInv, ParkInv, UnparkInv, GiveUpInv, AbandonInv,
     DecideInv, SettleInv, FinishInv, LeaveInv DEF RunStep
<1>4. CASE Process
  BY <1>4, ShutdownBeginInv, ShutdownReturnsInv, ShutdownTimesOutInv, DownInv, BootInv
     DEF Process
<1>5. CASE UNCHANGED vars
  BY <1>5 DEF vars, TypeOK, CallersInv, CreatedInv, ActiveInv, SlotInv, NoOrphanRow,
              ShutdownInv
<1> QED BY <1>1, <1>2, <1>3, <1>4, <1>5 DEF Next

(* The registry, the goroutines and the rows agree in every reachable      *)
(* state, and in particular every variable keeps its type.                 *)
THEOREM RegistryInvariant == Spec => []IInv
<1>1. Init => IInv
  BY InitInv
<1>2. IInv /\ [Next]_vars => IInv'
  BY NextInv
<1> QED BY <1>1, <1>2, PTL DEF Spec

(* Every variable of the registry keeps its type.                          *)
THEOREM TypeCorrect == Spec => []TypeOK
<1>1. IInv => TypeOK
  OBVIOUS
<1> QED BY <1>1, RegistryInvariant, PTL

(* No two starts or runs of one job are ever in flight together.           *)
THEOREM AtMostOneRun == Spec => []OneRunPerJob
<1>1. IInv => OneRunPerJob
  BY DEF CallersInv, ActiveInv, TypeOK, OneRunPerJob
<1> QED BY <1>1, RegistryInvariant, PTL

(* No row is left live with nobody to settle it, unless the statement that *)
(* should have moved it failed.                                            *)
THEOREM RowsHaveOwners == Spec => []NoOrphanRow
<1>1. IInv => NoOrphanRow
  OBVIOUS
<1> QED BY <1>1, RegistryInvariant, PTL

(* No job keeps its slot with nobody to give it back.                      *)
THEOREM SlotsAreReturned == Spec => []NoLeakedSlot
<1>1. IInv => NoLeakedSlot
  BY DEF TypeOK, SlotInv, ActiveInv, NoLeakedSlot
<1> QED BY <1>1, RegistryInvariant, PTL

(* When Shutdown returns, the runs it found are unregistered, and settled  *)
(* unless their final write failed.                                        *)
THEOREM ShutdownSettles == Spec => []ShutdownSettlesRegistered
<1>1. IInv => ShutdownSettlesRegistered
  BY DEF TypeOK, ShutdownInv, NoOrphanRow, CreatedInv, ActiveInv, ShutdownSettlesRegistered
<1> QED BY <1>1, RegistryInvariant, PTL

AllSaved == unsaved = {}

(* While the store accepts every statement no write is ever lost, so that  *)
(* what is proved of the rows then holds without exception: every live row *)
(* has an owner, and Shutdown leaves the runs it found settled.            *)
THEOREM NothingIsLost ==
  ASSUME ~StoreFaults
  PROVE  Spec => []AllSaved
<1>1. Init => AllSaved
  BY DEF Init, AllSaved
<1>2. AllSaved /\ [Next]_vars => AllSaved'
  <2> SUFFICES ASSUME unsaved = {}, [Next]_vars PROVE unsaved' = {}
    BY DEF AllSaved
  <2>1. CASE \E c \in Clients : ClientCall(c)
    BY <2>1 DEF ClientCall, Request, Cancel, ConfirmJob, DeleteCheck
  <2>2. CASE \E p \in Procs : ProcStep(p)
    BY <2>2 DEF ProcStep, OverlapCheck, LoadQueued, LoadFails, Reserve, StartRefused, CreateRun,
                CreateRunFails, AddToGroup, Publish, QueueNext, Queued, CancelContext, Confirm,
                DeleteJob
  <2>3. CASE \E r \in Runs : RunStep(r)
    BY <2>3 DEF RunStep, FailRun, ScanInterrupted, Park, Unpark, GiveUp, Abandon, Decide,
                Settle, FinishRow, Finish, Leave, SetRow, WriteFails
  <2>4. CASE Process
    BY <2>4 DEF Process, ShutdownBegin, ShutdownReturns, ShutdownTimesOut, Down, Boot,
                Reconcile, ReconcileFails
  <2>5. CASE UNCHANGED vars
    BY <2>5 DEF vars
  <2> QED BY <2>1, <2>2, <2>3, <2>4, <2>5 DEF Next
<1> QED BY <1>1, <1>2, PTL DEF Spec

-----------------------------------------------------------------------------
(* What the rows say about the runs, and the cancel flags about the cancel *)
(* contexts.                                                               *)

RowsInv ==
  /\ \A r \in Runs :
       /\ rpc[r] \in Unsettled => row[r] \in LiveRows \cup {"deleted"}
       /\ rpc[r] \in {"parked", "abandoning"} =>
            \/ row[r] \in {"awaiting_confirmation", "deleted"}
            \/ row[r] = "running" /\ r \in unsaved
       /\ rpc[r] = "settling" /\ verdict[r] = "cancelled" => r \in cancelled
       /\ r \in ctxDone => r \in cancelled \/ rpc[r] = "done"
       /\ row[r] = "none" => runJob[r] = None
  /\ \A p \in Procs :
       /\ pc[p] \in {"created", "added"} => row[rid[p]] \in {"running", "deleted"}
       /\ pc[p] = "cancel" => rid[p] \in cancelled
  /\ server = "down" => /\ \A r \in Runs : rpc[r] \in {"none", "done"}
                        /\ \A p \in Procs : pc[p] \in {"idle", "done"}
                        /\ queued = {} /\ ~closing

(* No step writes a terminal row or cancels a run nobody asked to cancel.  *)
RowStep ==
  \A r \in Runs :
    /\ row[r] \in TerminalRows => row'[r] \in {row[r], "deleted"}
    /\ row[r] = "running" /\ row'[r] = "cancelled" =>
         r \in cancelled \/ (rpc[r] = "abandoning" /\ r \in unsaved)

LEMMA RowsOfCallers ==
  ASSUME IInv, RowsInv, NEW p \in Procs,
         ProcStep(p) \/ (p \in Clients /\ ClientCall(p))
  PROVE  RowsInv' /\ RowStep
<1> USE DEF Goto
<1>1. CASE p \in Clients /\ ClientCall(p)
  <2>1. CASE \E r \in Runs : Cancel(p, r)
    BY <2>1 DEF Cancel, TypeOK, ActiveInv, RowsInv, RowStep
  <2>2. CASE \E j \in Jobs : ConfirmJob(p, j)
    BY <2>2 DEF ConfirmJob, AwaitingConfirmation, TypeOK, RowsInv, RowStep
  <2>3. CASE \/ \E o \in Ops, j \in Jobs : Request(p, o, j)
             \/ \E j \in Jobs : DeleteCheck(p, j)
    BY <2>3 DEF Request, DeleteCheck, TypeOK, RowsInv, RowStep
  <2> QED BY <1>1, <2>1, <2>2, <2>3 DEF ClientCall
<1>2. CASE \E r \in Runs : CreateRun(p, r)
  BY <1>2 DEF CreateRun, TypeOK, ActiveInv, CreatedInv, RowsInv, RowStep
<1>3. CASE Publish(p)
  BY <1>3 DEF Publish, TypeOK, CreatedInv, RowsInv, RowStep
<1>4. CASE CancelContext(p)
  BY <1>4 DEF CancelContext, TypeOK, CallersInv, RowsInv, RowStep
<1>5. CASE DeleteJob(p)
  BY <1>5 DEF DeleteJob, TypeOK, CreatedInv, RowsInv, RowStep
<1>6. CASE \/ OverlapCheck(p) \/ LoadQueued(p) \/ LoadFails(p) \/ StartRefused(p)
           \/ AddToGroup(p) \/ Queued(p) \/ Confirm(p)
  BY <1>6 DEF OverlapCheck, LoadQueued, LoadFails, StartRefused, AddToGroup, Queued,
              Confirm, TypeOK, RowsInv, RowStep
<1>7. CASE Reserve(p) \/ CreateRunFails(p) \/ QueueNext(p)
  BY <1>7 DEF Reserve, CreateRunFails, ReleaseReservation, QueueNext, TypeOK, RowsInv, RowStep
<1> QED BY <1>1, <1>2, <1>3, <1>4, <1>5, <1>6, <1>7 DEF ProcStep

LEMMA RowsOfRuns ==
  ASSUME IInv, RowsInv, NEW r \in Runs, RunStep(r)
  PROVE  RowsInv' /\ RowStep
<1> USE DEF RunAt, SetRow, WriteFails, FinishRow
<1>1. CASE FailRun(r) \/ ScanInterrupted(r)
  BY <1>1 DEF FailRun, ScanInterrupted, TypeOK, CreatedInv, RowsInv, RowStep
<1>2. CASE Park(r) \/ Unpark(r) \/ GiveUp(r)
  BY <1>2 DEF Park, Unpark, GiveUp, TypeOK, CreatedInv, RowsInv, RowStep
<1>3. CASE Abandon(r)
  BY <1>3 DEF Abandon, TypeOK, CreatedInv, RowsInv, RowStep
<1>4. CASE Decide(r)
  BY <1>4 DEF Decide, Verdicts, TypeOK, CreatedInv, RowsInv, RowStep
<1>5. CASE Settle(r)
  BY <1>5 DEF Settle, TypeOK, ActiveInv, CreatedInv, RowsInv, RowStep
<1>6. CASE Finish(r)
  BY <1>6 DEF Finish, Goto, TypeOK, ActiveInv, CreatedInv, RowsInv, RowStep
<1>7. CASE Leave(r)
  BY <1>7 DEF Leave, TypeOK, CreatedInv, RowsInv, RowStep
<1> QED BY <1>1, <1>2, <1>3, <1>4, <1>5, <1>6, <1>7 DEF RunStep

LEMMA RowsNext == IInv /\ RowsInv /\ [Next]_vars => RowsInv' /\ RowStep
<1> SUFFICES ASSUME IInv, RowsInv, [Next]_vars PROVE RowsInv' /\ RowStep
  OBVIOUS
<1>1. CASE ShutdownBegin
  BY <1>1 DEF ShutdownBegin, TypeOK, ActiveInv, RowsInv, RowStep
<1>2. CASE Down
  BY <1>2 DEF Down, TypeOK, RowsInv, RowStep
<1>3. CASE Boot
  BY <1>3 DEF Boot, Reconcile, ReconcileFails, Reconciled, ReconciledRunningOnly, TypeOK,
              RowsInv, RowStep
<1>4. CASE ShutdownReturns \/ ShutdownTimesOut \/ UNCHANGED vars
  BY <1>4 DEF ShutdownReturns, ShutdownTimesOut, vars, TypeOK, RowsInv, RowStep
<1> QED BY <1>1, <1>2, <1>3, <1>4, RowsOfCallers, RowsOfRuns DEF Next, Process

(* The rows and the goroutines stay in step, the cancel flags and the      *)
(* contexts too.                                                           *)
THEOREM RowsInvariant == Spec => []RowsInv
<1>1. Init => RowsInv
  BY DEF Init, RowsInv
<1> QED BY <1>1, RowsNext, RegistryInvariant, PTL DEF Spec

(* A terminal row is never written again.                                  *)
THEOREM TerminalRowsAreFinal == Spec => TerminalRowsStay
<1>1. IInv /\ RowsInv /\ [Next]_vars =>
        [\A r \in Runs : row[r] \in TerminalRows => row'[r] \in {row[r], "deleted"}]_vars
  BY RowsNext DEF RowStep
<1> QED BY <1>1, RowsInvariant, RegistryInvariant, PTL DEF Spec, TerminalRowsStay

(* A running row becomes cancelled only where a cancel was asked for, or   *)
(* where a preview whose park was not saved goes unconfirmed.              *)
THEOREM CancelledRowsWereAsked == Spec => CancelledWasAskedFor
<1>1. IInv /\ RowsInv /\ [Next]_vars =>
        [\A r \in Runs :
           row[r] = "running" /\ row'[r] = "cancelled" =>
             r \in cancelled \/ (rpc[r] = "abandoning" /\ r \in unsaved)]_vars
  BY RowsNext DEF RowStep
<1> QED BY <1>1, RowsInvariant, RegistryInvariant, PTL DEF Spec, CancelledWasAskedFor

-----------------------------------------------------------------------------
(* The queue slot.  A failed insert after the reservation gives byJob back *)
(* but not the slot queued behind it, so the claim needs a store that does *)
(* not fail and jobs that are not deleted meanwhile.                       *)

NobodyStranded == \A j \in queued : byJob[j] # None

QueueInv ==
  /\ stored = Jobs /\ \A p \in Procs : pc[p] # "delete"
  /\ NobodyStranded

(* Without store faults and deletions, a queued run has a run ahead of it  *)
(* whose finish() will take the slot: never neither.                       *)
THEOREM QueuedBehindRun ==
  ASSUME ~StoreFaults, "delete" \notin Ops
  PROVE  Spec => []NobodyStranded
<1>1. Init => QueueInv
  BY DEF Init, QueueInv, NobodyStranded
<1>2. IInv /\ QueueInv /\ [Next]_vars => QueueInv'
  <2> SUFFICES ASSUME IInv, QueueInv, [Next]_vars PROVE QueueInv'
    OBVIOUS
  <2>1. CASE \E c \in Clients : ClientCall(c)
    BY <2>1 DEF ClientCall, Request, Cancel, ConfirmJob, Goto, TypeOK, QueueInv,
                NobodyStranded
  <2>2. ASSUME NEW p \in Procs, ProcStep(p) PROVE QueueInv'
    <3>1. CASE Reserve(p) \/ Publish(p) \/ QueueNext(p)
      BY <3>1 DEF Reserve, Publish, QueueNext, MayQueue, Goto, TypeOK, CallersInv,
                  CreatedInv, QueueInv, NobodyStranded
    <3>2. CASE \E r \in Runs : CreateRun(p, r)
      BY <3>2 DEF CreateRun, Goto, TypeOK, QueueInv, NobodyStranded
    <3>3. ~CreateRunFails(p) /\ ~DeleteJob(p)
      BY DEF CreateRunFails, DeleteJob, CallersInv, QueueInv
    <3>4. CASE \/ OverlapCheck(p) \/ LoadQueued(p) \/ LoadFails(p) \/ StartRefused(p)
               \/ AddToGroup(p) \/ Queued(p) \/ CancelContext(p) \/ Confirm(p)
      BY <3>4 DEF OverlapCheck, LoadQueued, LoadFails, StartRefused, AddToGroup, Queued,
                  CancelContext, Confirm, Goto, TypeOK, QueueInv, NobodyStranded
    <3> QED BY <2>2, <3>1, <3>2, <3>3, <3>4 DEF ProcStep
  <2>3. ASSUME NEW r \in Runs, RunStep(r) PROVE QueueInv'
    <3>1. CASE Finish(r)
      BY <3>1 DEF Finish, ReleaseJob, Goto, TypeOK, QueueInv, NobodyStranded
    <3>2. CASE ~Finish(r)
      BY <2>3, <3>2 DEF RunStep, FailRun, ScanInterrupted, Park, Unpark, GiveUp, Abandon,
                        Decide, Settle, Leave, QueueInv, NobodyStranded
    <3> QED BY <3>1, <3>2
  <2>4. CASE Process
    BY <2>4 DEF Process, ShutdownBegin, ShutdownReturns, ShutdownTimesOut, Down, Boot,
                QueueInv, NobodyStranded
  <2>5. CASE UNCHANGED vars
    BY <2>5 DEF vars, QueueInv, NobodyStranded
  <2> QED BY <2>1, <2>2, <2>3, <2>4, <2>5 DEF Next
<1>3. QueueInv => NobodyStranded
  BY DEF QueueInv
<1> QED BY <1>1, <1>2, <1>3, RegistryInvariant, PTL DEF Spec

(* With them, a queued run still loses the run ahead of it in one way      *)
(* only, an insert that fails after its reservation was queued behind.     *)
THEOREM QueuedStaysBehindRun == Spec => QueuedHasRunAhead
<1> DEFINE Step == \A j \in Jobs :
                     j \in queued' /\ byJob'[j] = None =>
                       /\ j \in queued
                       /\ \/ byJob[j] = None
                          \/ \E p \in Procs : CreateRunFails(p) /\ arg[p] = j
<1>1. IInv /\ [Next]_vars => [Step]_vars
  <2> SUFFICES ASSUME IInv, [Next]_vars PROVE Step
    OBVIOUS
  <2>1. CASE \E c \in Clients : ClientCall(c)
    BY <2>1 DEF ClientCall, Request, Cancel, ConfirmJob, DeleteCheck
  <2>2. ASSUME NEW p \in Procs, ProcStep(p) PROVE Step
    <3>1. CASE CreateRunFails(p)
      <4>1. queued' = queued /\ \A j \in Jobs \ {arg[p]} : byJob'[j] = byJob[j]
        BY <3>1 DEF CreateRunFails, ReleaseReservation, TypeOK
      <4> QED BY <3>1, <4>1
    <3>2. CASE Reserve(p) \/ Publish(p)
      BY <3>2 DEF Reserve, Publish, TypeOK, CallersInv, CreatedInv
    <3>3. CASE QueueNext(p)
      BY <3>3 DEF QueueNext, MayQueue, TypeOK, CallersInv
    <3>4. CASE ~(CreateRunFails(p) \/ Reserve(p) \/ Publish(p) \/ QueueNext(p))
      BY <2>2, <3>4 DEF ProcStep, OverlapCheck, LoadQueued, LoadFails, StartRefused, CreateRun,
                        AddToGroup, Queued, CancelContext, Confirm, DeleteJob
    <3> QED BY <3>1, <3>2, <3>3, <3>4
  <2>3. ASSUME NEW r \in Runs, RunStep(r) PROVE Step
    <3>1. CASE Finish(r)
      BY <3>1 DEF Finish, ReleaseJob, TypeOK
    <3>2. CASE ~Finish(r)
      BY <2>3, <3>2 DEF RunStep, FailRun, ScanInterrupted, Park, Unpark, GiveUp, Abandon,
                        Decide, Settle, Leave
    <3> QED BY <3>1, <3>2
  <2>4. CASE Process
    BY <2>4 DEF Process, ShutdownBegin, ShutdownReturns, ShutdownTimesOut, Down, Boot
  <2>5. CASE UNCHANGED vars
    BY <2>5 DEF vars
  <2> QED BY <2>1, <2>2, <2>3, <2>4, <2>5 DEF Next
<1> QED BY <1>1, RegistryInvariant, PTL DEF Spec, QueuedHasRunAhead
-----------------------------------------------------------------------------
(* The refinement: the jobs claimed, the runs live and the runs' jobs as   *)
(* the mapping of Runner defines them.                                     *)

Claimed == { j \in Jobs : \E p \in Procs : pc[p] = "reserved" /\ arg[p] = j }
LiveRuns == { r \in Runs : rpc[r] \in InExecute \/ \E p \in Starting : rid[p] = r }
SlotsKept == UNCHANGED <<Claimed, LiveRuns, runJob, queued, ~closing /\ server = "up">>

(* A job with a claim or a live run is not free in byJob.                  *)
LEMMA BusyIsTaken ==
  ASSUME IInv, NEW j \in Jobs, byJob[j] = None
  PROVE  j \notin Claimed /\ \A r \in LiveRuns : runJob[r] # j
BY DEF TypeOK, CallersInv, CreatedInv, ActiveInv, Claimed, LiveRuns, Starting

LEMMA SlotsOfCallers ==
  ASSUME IInv, RowsInv, NEW p \in Procs,
         ProcStep(p) \/ (p \in Clients /\ ClientCall(p))
  PROVE  Slots!Next \/ SlotsKept
<1> USE DEF Goto, Claimed, LiveRuns, Starting
<1>1. CASE Reserve(p)
  <2>1. arg[p] \in Jobs /\ server = "up" /\ ~closing /\ byJob[arg[p]] = None
    BY <1>1 DEF Reserve, MayReserve, SlotFree, TypeOK, CallersInv, RowsInv
  <2>2. Claimed' = Claimed \cup {arg[p]}
    BY <1>1, <2>1 DEF Reserve, TypeOK
  <2>3. LiveRuns' = LiveRuns
    BY <1>1 DEF Reserve, TypeOK
  <2>4. \E j \in Jobs : Slots!Claim(j)
    BY <1>1, <2>1, <2>2, <2>3, BusyIsTaken DEF Reserve, Slots!Claim, Slots!Busy, Slots!LiveOf
  <2> QED BY <2>4 DEF Slots!Next
<1>2. ASSUME NEW r \in Runs, CreateRun(p, r) PROVE Slots!Next
  <2>1. arg[p] \in Jobs /\ runJob[r] = None
    BY <1>2 DEF CreateRun, TypeOK, CallersInv, RowsInv
  <2>2. arg[p] \in Claimed /\ Claimed' = Claimed \ {arg[p]}
    BY <1>2, <2>1 DEF CreateRun, TypeOK, CallersInv
  <2>3. LiveRuns' = LiveRuns \cup {r}
    BY <1>2 DEF CreateRun, TypeOK, CreatedInv
  <2>4. \E j \in Jobs : Slots!Start(j, r)
    BY <1>2, <2>1, <2>2, <2>3 DEF CreateRun, Slots!Start, Slots!NoJob
  <2> QED BY <2>4 DEF Slots!Next
<1>3. CASE CreateRunFails(p)
  <2>1. arg[p] \in Jobs
    BY <1>3 DEF CreateRunFails, CallersInv
  <2>2. arg[p] \in Claimed /\ Claimed' = Claimed \ {arg[p]}
    BY <1>3, <2>1 DEF CreateRunFails, TypeOK, CallersInv
  <2>3. LiveRuns' = LiveRuns
    BY <1>3 DEF CreateRunFails, TypeOK
  <2>4. \E j \in Jobs : Slots!Withdraw(j)
    BY <1>3, <2>1, <2>2, <2>3 DEF CreateRunFails, ReleaseReservation, Slots!Withdraw
  <2> QED BY <2>4 DEF Slots!Next
<1>4. CASE Publish(p)
  <2>1. Claimed' = Claimed
    BY <1>4 DEF Publish, TypeOK
  <2>2. LiveRuns' = LiveRuns
    BY <1>4 DEF Publish, TypeOK, CallersInv, CreatedInv
  <2> QED BY <1>4, <2>1, <2>2 DEF Publish, SlotsKept
<1>5. CASE QueueNext(p)
  <2>1. Claimed' = Claimed /\ LiveRuns' = LiveRuns
    BY <1>5 DEF QueueNext, TypeOK
  <2>2. CASE MayQueue(arg[p])
    <3>1. arg[p] \in Jobs /\ byJob[arg[p]] # None /\ arg[p] \notin queued
      BY <1>5, <2>2 DEF QueueNext, MayQueue, CallersInv
    <3>2. arg[p] \in Claimed \/ \E r \in LiveRuns : runJob[r] = arg[p]
      BY <3>1 DEF TypeOK, SlotInv, CreatedInv, ActiveInv
    <3>3. Slots!Wait(arg[p])
      BY <1>5, <2>1, <2>2, <3>1, <3>2 DEF QueueNext, Slots!Wait, Slots!Busy, Slots!LiveOf
    <3> QED BY <3>1, <3>3 DEF Slots!Next
  <2>3. CASE ~MayQueue(arg[p])
    BY <1>5, <2>1, <2>3 DEF QueueNext, SlotsKept
  <2> QED BY <2>2, <2>3
<1>6. CASE p \in Clients /\ ClientCall(p)
  <2>1. Claimed' = Claimed /\ LiveRuns' = LiveRuns
    BY <1>6 DEF ClientCall, Request, Cancel, ConfirmJob, DeleteCheck, TypeOK
  <2> QED BY <1>6, <2>1 DEF ClientCall, Request, Cancel, ConfirmJob, DeleteCheck, SlotsKept
<1>7. CASE \/ OverlapCheck(p) \/ LoadQueued(p) \/ LoadFails(p) \/ StartRefused(p)
           \/ AddToGroup(p) \/ Queued(p) \/ CancelContext(p) \/ Confirm(p) \/ DeleteJob(p)
  <2>1. Claimed' = Claimed /\ LiveRuns' = LiveRuns
    BY <1>7 DEF OverlapCheck, LoadQueued, LoadFails, StartRefused, AddToGroup, Queued,
                CancelContext, Confirm, DeleteJob, TypeOK
  <2> QED BY <1>7, <2>1 DEF OverlapCheck, LoadQueued, LoadFails, StartRefused, AddToGroup,
                            Queued, CancelContext, Confirm, DeleteJob, SlotsKept
<1> QED BY <1>1, <1>2, <1>3, <1>4, <1>5, <1>6, <1>7 DEF ProcStep

LEMMA SlotsOfRuns ==
  ASSUME IInv, RowsInv, NEW r \in Runs, RunStep(r)
  PROVE  Slots!Next \/ SlotsKept
<1> USE DEF RunAt, Claimed, LiveRuns, Starting
<1>1. CASE Finish(r)
  <2>1. r \in LiveRuns /\ LiveRuns' = LiveRuns \ {r}
    BY <1>1 DEF Finish, Goto, TypeOK, ActiveInv, CreatedInv
  <2>2. Claimed' = Claimed
    BY <1>1 DEF Finish, Goto, TypeOK, ActiveInv
  <2>3. Slots!End(r)
    BY <1>1, <2>1, <2>2 DEF Finish, Slots!End
  <2> QED BY <2>3 DEF Slots!Next
<1>2. CASE ~Finish(r)
  <2>1. LiveRuns' = LiveRuns /\ Claimed' = Claimed
    BY <1>2 DEF RunStep, FailRun, ScanInterrupted, Park, Unpark, GiveUp, Abandon, Decide,
                Settle, Leave, TypeOK
  <2> QED BY <1>2, <2>1 DEF RunStep, FailRun, ScanInterrupted, Park, Unpark, GiveUp, Abandon,
                            Decide, Settle, Leave, SlotsKept
<1> QED BY <1>1, <1>2

(* The registry implements JobSlots: one run per job, one more behind it,  *)
(* taken along by the run that ends, nothing new after Shutdown began.     *)
THEOREM RefinesJobSlots == Spec => ImplementsJobSlots
<1>1. Init => Slots!Init
  BY DEF Init, Slots!Init, Slots!NoJob, Starting
<1>2. IInv /\ RowsInv /\ [Next]_vars => [Slots!Next]_(Slots!vars)
  <2> SUFFICES ASSUME IInv, RowsInv, [Next]_vars PROVE Slots!Next \/ SlotsKept
    BY DEF SlotsKept, Slots!vars, Claimed, LiveRuns
  <2> USE DEF Claimed, LiveRuns, Starting
  <2>1. CASE ShutdownBegin
    <3>1. Claimed' = Claimed /\ LiveRuns' = LiveRuns
      BY <2>1 DEF ShutdownBegin
    <3>2. Slots!Close
      BY <2>1, <3>1 DEF ShutdownBegin, Slots!Close
    <3> QED BY <3>2 DEF Slots!Next
  <2>2. CASE Down
    <3>0. /\ \A r \in Runs : rpc'[r] \in {"none", "done"}
          /\ \A p \in Procs : pc'[p] \in {"idle", "done"}
      BY <2>2 DEF Down
    <3>1. Claimed' = {} /\ LiveRuns' = {}
      BY <3>0
    <3>2. Slots!Crash
      BY <2>2, <3>1 DEF Down, Slots!Crash
    <3> QED BY <3>2 DEF Slots!Next
  <2>3. CASE Boot
    <3>1. Claimed = {} /\ LiveRuns = {} /\ Claimed' = Claimed /\ LiveRuns' = LiveRuns
      BY <2>3 DEF Boot, TypeOK, RowsInv
    <3>2. Slots!Reopen
      BY <2>3, <3>1 DEF Boot, RowsInv, Slots!Reopen
    <3> QED BY <3>2 DEF Slots!Next
  <2>4. CASE ShutdownReturns \/ ShutdownTimesOut \/ UNCHANGED vars
    BY <2>4 DEF ShutdownReturns, ShutdownTimesOut, vars, SlotsKept
  <2> QED BY <2>1, <2>2, <2>3, <2>4, SlotsOfCallers, SlotsOfRuns DEF Next, Process
<1> QED BY <1>1, <1>2, RegistryInvariant, RowsInvariant, PTL
        DEF Spec, ImplementsJobSlots, Slots!Spec

-----------------------------------------------------------------------------
(* The life of one run.                                                    *)
LifeInv ==
  /\ \A r \in Runs :
       /\ rpc[r] \in {"parked", "abandoning", "executing"} => r \in preview
       /\ row[r] = "none" => r \notin preview \cup cancelled \cup unsaved
  /\ server = "down" => cancelled = {}

LEMMA LifeInvNext == IInv /\ RowsInv /\ LifeInv /\ [Next]_vars => LifeInv'
<1> SUFFICES ASSUME IInv, RowsInv, LifeInv, [Next]_vars PROVE LifeInv'
  OBVIOUS
<1> USE DEF Goto, RunAt, SetRow, WriteFails, LifeInv
<1>1. ASSUME NEW p \in Clients, ClientCall(p) PROVE LifeInv'
  <2>1. CASE \E r \in Runs : Cancel(p, r)
    BY <2>1 DEF Cancel, TypeOK, ActiveInv
  <2>2. CASE ~\E r \in Runs : Cancel(p, r)
    BY <1>1, <2>2 DEF ClientCall, Request, ConfirmJob, DeleteCheck
  <2> QED BY <2>1, <2>2
<1>2. ASSUME NEW p \in Procs, ProcStep(p) PROVE LifeInv'
  <2>1. CASE \E r \in Runs : CreateRun(p, r)
    BY <2>1 DEF CreateRun, TypeOK, ActiveInv
  <2>2. CASE Publish(p)
    BY <2>2 DEF Publish, TypeOK, CreatedInv
  <2>3. CASE DeleteJob(p)
    BY <2>3 DEF DeleteJob, TypeOK
  <2>4. CASE ~(\E r \in Runs : CreateRun(p, r)) /\ ~Publish(p) /\ ~DeleteJob(p)
    BY <1>2, <2>4 DEF ProcStep, OverlapCheck, LoadQueued, LoadFails, Reserve, StartRefused,
                      CreateRunFails, AddToGroup, QueueNext, Queued, CancelContext, Confirm
  <2> QED BY <2>1, <2>2, <2>3, <2>4
<1>3. ASSUME NEW r \in Runs, RunStep(r) PROVE LifeInv'
  <2>1. CASE FailRun(r) \/ ScanInterrupted(r) \/ Abandon(r) \/ Settle(r)
    BY <2>1 DEF FailRun, ScanInterrupted, Abandon, Settle, FinishRow, TypeOK, ActiveInv
  <2>2. CASE Park(r) \/ Unpark(r) \/ GiveUp(r)
    BY <2>2 DEF Park, Unpark, GiveUp, TypeOK, ActiveInv
  <2>3. CASE Decide(r) \/ Finish(r) \/ Leave(r)
    BY <2>3 DEF Decide, Finish, Leave, TypeOK
  <2> QED BY <1>3, <2>1, <2>2, <2>3 DEF RunStep
<1>4. CASE ShutdownBegin
  BY <1>4 DEF ShutdownBegin, TypeOK, ActiveInv
<1>5. CASE Down \/ Boot
  BY <1>5 DEF Down, Boot, Reconcile, ReconcileFails, Reconciled, ReconciledRunningOnly, TypeOK
<1>6. CASE ShutdownReturns \/ ShutdownTimesOut \/ UNCHANGED vars
  BY <1>6 DEF ShutdownReturns, ShutdownTimesOut, vars
<1> QED BY <1>1, <1>2, <1>3, <1>4, <1>5, <1>6 DEF Next, Process

BeingStarted(r) == \E p \in Starting : rid[p] = r
LifeKept(r) ==
  UNCHANGED <<row[r], PhaseOf(r), r \in cancelled, r \in preview, r \in unsaved>>

(* A step that leaves a run's row, goroutine, flag and start alone is none *)
(* of its life's.                                                          *)
LEMMA LifeUntouched ==
  ASSUME NEW s \in Runs, row'[s] = row[s], rpc'[s] = rpc[s], server' = server,
         (s \in cancelled') <=> (s \in cancelled), (s \in preview') <=> (s \in preview),
         (s \in unsaved') <=> (s \in unsaved),
         BeingStarted(s)' <=> BeingStarted(s)
  PROVE  LifeKept(s)
<1>1. PhaseOf(s)' = PhaseOf(s)
  BY DEF PhaseOf, BeingStarted
<1> QED BY <1>1 DEF LifeKept

LEMMA LifeOfCallers ==
  ASSUME IInv, RowsInv, LifeInv, NEW p \in Procs, NEW s \in Runs,
         ProcStep(p) \/ (p \in Clients /\ ClientCall(p))
  PROVE  Life(s)!Next \/ LifeKept(s)
<1> USE DEF Goto
<1>1. ASSUME NEW r \in Runs, CreateRun(p, r) PROVE Life(s)!Next \/ LifeKept(s)
  <2>1. CASE s = r
    <3>1. PhaseOf(s) = "new" /\ PhaseOf(s)' = "working"
      <4>1. row[s] = "none" /\ row'[s] = "running"
        BY <1>1, <2>1 DEF CreateRun, TypeOK
      <4>2. server' = "up"
        BY <1>1 DEF CreateRun, TypeOK, RowsInv
      <4>3. BeingStarted(s)'
        BY <1>1, <2>1 DEF CreateRun, BeingStarted, Starting, TypeOK
      <4> QED BY <4>1, <4>2, <4>3 DEF PhaseOf, BeingStarted
    <3>2. Life(s)!Create
      BY <1>1, <2>1, <3>1 DEF CreateRun, TypeOK, Life!Create
    <3> QED BY <3>2 DEF Life!Next
  <2>2. CASE s # r
    <3>1. BeingStarted(s)' <=> BeingStarted(s)
      BY <1>1, <2>2 DEF CreateRun, BeingStarted, Starting, TypeOK
    <3> QED BY <1>1, <2>2, <3>1, LifeUntouched DEF CreateRun, TypeOK
  <2> QED BY <2>1, <2>2
<1>2. CASE Publish(p)
  <2>1. CASE s = rid[p]
    <3>1. rpc'[s] = "working" /\ row[s] # "none" /\ row' = row /\ server' = server /\ server = "up"
      BY <1>2, <2>1 DEF Publish, TypeOK, CreatedInv, RowsInv
    <3>2. BeingStarted(s)
      BY <1>2, <2>1 DEF Publish, BeingStarted, Starting
    <3>3. PhaseOf(s) = "working" /\ PhaseOf(s)' = "working"
      BY <3>1, <3>2 DEF PhaseOf, BeingStarted
    <3> QED BY <1>2, <3>1, <3>3 DEF Publish, LifeKept
  <2>2. CASE s # rid[p]
    <3>1. BeingStarted(s)' <=> BeingStarted(s)
      BY <1>2, <2>2 DEF Publish, BeingStarted, Starting, TypeOK
    <3> QED BY <1>2, <2>2, <3>1, LifeUntouched DEF Publish, TypeOK, CreatedInv
  <2> QED BY <2>1, <2>2
<1>3. ASSUME NEW r \in Runs, p \in Clients, Cancel(p, r) PROVE Life(s)!Next \/ LifeKept(s)
  <2>1. BeingStarted(s)' <=> BeingStarted(s)
    BY <1>3 DEF Cancel, BeingStarted, Starting, TypeOK
  <2>2. CASE s = r /\ r \in active
    <3>1. /\ row' = row /\ rpc' = rpc /\ server' = server /\ preview' = preview
          /\ unsaved' = unsaved /\ s \in cancelled'
      BY <1>3, <2>2 DEF Cancel
    <3>2. PhaseOf(s)' = PhaseOf(s)
      BY <2>1, <3>1 DEF PhaseOf, BeingStarted
    <3>3. PhaseOf(s) \notin {"new", "dead"}
      BY <1>3, <2>2 DEF Cancel, PhaseOf
    <3>4. Life(s)!Ask
      BY <3>1, <3>2, <3>3 DEF Life!Ask
    <3> QED BY <3>4 DEF Life!Next
  <2>3. CASE ~(s = r /\ r \in active)
    <3>1. (s \in cancelled') <=> (s \in cancelled)
      BY <1>3, <2>3 DEF Cancel
    <3> QED BY <1>3, <2>1, <3>1, LifeUntouched DEF Cancel
  <2> QED BY <2>2, <2>3
<1>4. CASE DeleteJob(p)
  <2>1. BeingStarted(s)' <=> BeingStarted(s)
    BY <1>4 DEF DeleteJob, BeingStarted, Starting, TypeOK
  <2>2. CASE row'[s] = row[s]
    BY <1>4, <2>1, <2>2, LifeUntouched DEF DeleteJob
  <2>3. CASE row'[s] # row[s]
    <3>1. row[s] # "none" /\ row'[s] = "deleted"
      BY <1>4, <2>3 DEF DeleteJob
    <3>2. PhaseOf(s)' = PhaseOf(s)
      BY <1>4, <2>1, <3>1 DEF DeleteJob, PhaseOf, BeingStarted
    <3>3. Life(s)!Delete
      BY <1>4, <3>1, <3>2 DEF DeleteJob, Life!Delete
    <3> QED BY <3>3 DEF Life!Next
  <2> QED BY <2>2, <2>3
<1>5. CASE AddToGroup(p)
  <2>1. BeingStarted(s)' <=> BeingStarted(s)
    BY <1>5 DEF AddToGroup, BeingStarted, Starting, TypeOK
  <2> QED BY <1>5, <2>1, LifeUntouched DEF AddToGroup
<1>6. CASE p \in Clients /\ ClientCall(p) /\ ~\E r \in Runs : Cancel(p, r)
  <2>1. BeingStarted(s)' <=> BeingStarted(s)
    BY <1>6 DEF ClientCall, Request, ConfirmJob, DeleteCheck, BeingStarted, Starting, TypeOK
  <2> QED BY <1>6, <2>1, LifeUntouched DEF ClientCall, Request, ConfirmJob, DeleteCheck
<1>7. CASE \/ OverlapCheck(p) \/ LoadQueued(p) \/ LoadFails(p) \/ Reserve(p) \/ StartRefused(p)
           \/ CreateRunFails(p) \/ QueueNext(p) \/ Queued(p) \/ CancelContext(p) \/ Confirm(p)
  <2>1. BeingStarted(s)' <=> BeingStarted(s)
    BY <1>7 DEF OverlapCheck, LoadQueued, LoadFails, Reserve, StartRefused, CreateRunFails,
                QueueNext, Queued, CancelContext, Confirm, BeingStarted, Starting, TypeOK
  <2> QED BY <1>7, <2>1, LifeUntouched DEF OverlapCheck, LoadQueued, LoadFails, Reserve,
        StartRefused, CreateRunFails, QueueNext, Queued, CancelContext, Confirm
<1> QED BY <1>1, <1>2, <1>3, <1>4, <1>5, <1>6, <1>7 DEF ProcStep, ClientCall

LEMMA LifeOfRuns ==
  ASSUME IInv, RowsInv, LifeInv, NEW r \in Runs, NEW s \in Runs, RunStep(r)
  PROVE  Life(s)!Next \/ LifeKept(s)
<1> USE DEF RunAt
<1>1. BeingStarted(s)' <=> BeingStarted(s)
  <2>1. CASE Finish(r)
    BY <2>1 DEF Finish, Goto, BeingStarted, Starting, TypeOK, ActiveInv
  <2>2. CASE ~Finish(r)
    BY <2>2 DEF RunStep, FailRun, ScanInterrupted, Park, Unpark, GiveUp, Abandon, Decide,
                Settle, Leave, BeingStarted, Starting
  <2> QED BY <2>1, <2>2
<1>2. UNCHANGED <<server, preview, cancelled>>
  BY DEF RunStep, FailRun, ScanInterrupted, Park, Unpark, GiveUp, Abandon, Decide,
         Settle, Finish, Leave
<1>3. CASE s # r
  <2>1. row'[s] = row[s] /\ rpc'[s] = rpc[s] /\ ((s \in unsaved') <=> (s \in unsaved))
    BY <1>3 DEF RunStep, FailRun, ScanInterrupted, Park, Unpark, GiveUp, Abandon, Decide,
                Settle, Finish, Leave, SetRow, WriteFails, FinishRow, TypeOK
  <2> QED BY <1>1, <1>2, <2>1, LifeUntouched
<1>4. CASE s = r
  <2>0. rpc[r] # "none"
    BY DEF RunStep, FailRun, ScanInterrupted, Park, Unpark, GiveUp, Abandon, Decide,
           Settle, Finish, Leave
  <2>1. ~BeingStarted(s) /\ row[s] # "none"
    BY <1>4, <2>0 DEF BeingStarted, Starting, CreatedInv, ActiveInv
  <2>2. rpc[r] # "done" => server = "up"
    BY <2>0 DEF RowsInv, TypeOK
  <2>3. rpc \in [Runs -> Rpcs] /\ row \in [Runs -> LiveRows \cup TerminalRows \cup {"none", "deleted"}]
    BY DEF TypeOK
  <2> USE DEF SetRow, WriteFails, FinishRow
  <2>4. CASE FailRun(r)
    <3>1. PhaseOf(s) = "working" /\ PhaseOf(s)' = "settled"
      BY <1>1, <1>2, <1>4, <2>1, <2>2, <2>3, <2>4 DEF FailRun, PhaseOf, BeingStarted
    <3>2. Life(s)!Fail
      BY <1>2, <1>4, <2>3, <2>4, <3>1 DEF FailRun, Life!Fail, Life!Write
    <3> QED BY <3>2 DEF Life!Next
  <2>5. CASE ScanInterrupted(r)
    <3>1. PhaseOf(s) = "working" /\ PhaseOf(s)' = "settled"
      BY <1>1, <1>2, <1>4, <2>1, <2>2, <2>3, <2>5 DEF ScanInterrupted, PhaseOf, BeingStarted
    <3>2. s \in cancelled
      BY <1>4, <2>5 DEF ScanInterrupted, RowsInv
    <3>3. Life(s)!Interrupt
      BY <1>2, <1>4, <2>3, <2>5, <3>1, <3>2 DEF ScanInterrupted, Life!Interrupt, Life!Write
    <3> QED BY <3>3 DEF Life!Next
  <2>6. CASE Park(r)
    <3>1. PhaseOf(s) = "working" /\ PhaseOf(s)' = "parked"
      BY <1>1, <1>2, <1>4, <2>1, <2>2, <2>3, <2>6 DEF Park, PhaseOf, BeingStarted
    <3>2. Life(s)!Park
      BY <1>2, <1>4, <2>3, <2>6, <3>1 DEF Park, Life!Park, Life!Write
    <3> QED BY <3>2 DEF Life!Next
  <2>7. CASE Unpark(r)
    <3>1. PhaseOf(s) = "parked" /\ PhaseOf(s)' = "executing"
      BY <1>1, <1>2, <1>4, <2>1, <2>2, <2>3, <2>7 DEF Unpark, PhaseOf, BeingStarted
    <3>2. Life(s)!Unpark
      BY <1>2, <1>4, <2>3, <2>7, <3>1 DEF Unpark, Life!Unpark, Life!Write
    <3> QED BY <3>2 DEF Life!Next
  <2>8. CASE GiveUp(r)
    <3>1. PhaseOf(s) = "parked" /\ PhaseOf(s)' = "parked"
      BY <1>1, <1>2, <1>4, <2>1, <2>2, <2>3, <2>8 DEF GiveUp, PhaseOf, BeingStarted
    <3> QED BY <1>2, <2>8, <3>1 DEF GiveUp, LifeKept
  <2>9. CASE Abandon(r)
    <3>1. PhaseOf(s) = "parked" /\ PhaseOf(s)' = "settled"
      BY <1>1, <1>2, <1>4, <2>1, <2>2, <2>3, <2>9 DEF Abandon, PhaseOf, BeingStarted
    <3>2. Life(s)!Abandon
      BY <1>2, <1>4, <2>3, <2>9, <3>1 DEF Abandon, Life!Abandon, Life!Write
    <3> QED BY <3>2 DEF Life!Next
  <2>10. CASE Decide(r)
    <3>1. PhaseOf(s)' = PhaseOf(s)
      BY <1>1, <1>2, <1>4, <2>1, <2>2, <2>3, <2>10 DEF Decide, LifeInv, PhaseOf, BeingStarted
    <3> QED BY <1>2, <2>10, <3>1 DEF Decide, LifeKept
  <2>11. CASE Settle(r)
    <3>1. /\ PhaseOf(s) = IF s \in preview THEN "executing" ELSE "working"
          /\ PhaseOf(s)' = "settled"
      BY <1>1, <1>2, <1>4, <2>1, <2>2, <2>3, <2>11 DEF Settle, TypeOK, PhaseOf, BeingStarted, ActiveInv
    <3>2. verdict[s] \in Life(s)!Finals /\ (verdict[s] = "cancelled" => s \in cancelled)
      BY <1>4, <2>11 DEF Settle, ActiveInv, RowsInv, Life!Finals
    <3>3. PICK v \in Life(s)!Finals : v = verdict[s]
      BY <3>2
    <3>4. Life(s)!Conclude(v)
      BY <1>2, <1>4, <2>3, <2>11, <3>1, <3>2, <3>3 DEF Settle, Life!Conclude, Life!Write
    <3> QED BY <3>4 DEF Life!Next
  <2>12. CASE Finish(r) \/ Leave(r)
    <3>1. PhaseOf(s)' = PhaseOf(s)
      BY <1>1, <1>2, <1>4, <2>1, <2>2, <2>3, <2>12 DEF Finish, Leave, PhaseOf, BeingStarted
    <3> QED BY <1>2, <2>12, <3>1 DEF Finish, Leave, LifeKept
  <2> QED BY <2>4, <2>5, <2>6, <2>7, <2>8, <2>9, <2>10, <2>11, <2>12 DEF RunStep
<1> QED BY <1>3, <1>4

(* Every run of the registry lives the life of RunLife, whatever races for *)
(* its job and whenever the process dies (start, execute, Cancel, finish,  *)
(* Shutdown, ReconcileInterruptedRuns).                                    *)
THEOREM RunsLiveTheirLife == Spec => ImplementsRunLife
<1>1. Init => LifeInv /\ \A r \in Runs : Life(r)!Init
  <2> SUFFICES ASSUME Init PROVE LifeInv /\ \A r \in Runs : Life(r)!Init
    OBVIOUS
  <2>1. LifeInv
    BY DEF Init, LifeInv
  <2>2. ASSUME NEW r \in Runs PROVE Life(r)!Init
    <3>1. /\ PhaseOf(r) = "new" /\ row[r] = "none"
          /\ r \notin cancelled /\ r \notin preview /\ r \notin unsaved
      BY DEF Init, PhaseOf
    <3> QED BY <3>1 DEF Life!Init
  <2> QED BY <2>1, <2>2
<1>2. IInv /\ RowsInv /\ LifeInv /\ [Next]_vars
        => [\A r \in Runs : [Life(r)!Next]_(Life(r)!vars)]_vars
  <2> SUFFICES ASSUME IInv, RowsInv, LifeInv, [Next]_vars, NEW s \in Runs
               PROVE  Life(s)!Next \/ LifeKept(s)
    BY DEF LifeKept, Life!vars
  <2>1. CASE ShutdownBegin
    <3>1. PhaseOf(s)' = PhaseOf(s)
      BY <2>1 DEF ShutdownBegin, PhaseOf, Starting
    <3>2. CASE s \in active
      <4>1. PhaseOf(s) \notin {"new", "dead"}
        BY <2>1, <3>2 DEF ShutdownBegin, ActiveInv, PhaseOf
      <4>2. Life(s)!Ask
        BY <2>1, <3>1, <3>2, <4>1 DEF ShutdownBegin, Life!Ask
      <4> QED BY <4>2 DEF Life!Next
    <3>3. CASE s \notin active
      BY <2>1, <3>1, <3>3 DEF ShutdownBegin, LifeKept
    <3> QED BY <3>2, <3>3
  <2>2. CASE Down
    <3>1. CASE row[s] = "none"
      <4>1. PhaseOf(s) = "new" /\ PhaseOf(s)' = "new"
        BY <2>2, <3>1 DEF Down, PhaseOf
      <4> QED BY <2>2, <3>1, <4>1 DEF Down, LifeInv, LifeKept
    <3>2. CASE row[s] # "none"
      <4>1. PhaseOf(s) \notin {"new", "dead"} /\ PhaseOf(s)' = "dead"
        BY <2>2, <3>2 DEF Down, PhaseOf
      <4>2. Life(s)!Die
        BY <2>2, <4>1 DEF Down, Life!Die
      <4> QED BY <4>2 DEF Life!Next
    <3> QED BY <3>1, <3>2
  <2>3. CASE Boot
    <3>0. row[s] \in LiveRows \cup TerminalRows \cup {"none", "deleted"}
      BY DEF TypeOK
    <3>1. /\ UNCHANGED <<cancelled, preview>>
          /\ \/ row'[s] = Reconciled(row[s]) /\ s \notin unsaved'
             \/ row'[s] = row[s] /\ row[s] \in LiveRows /\ s \in unsaved'
      BY <2>3, <3>0 DEF Boot, Reconcile, ReconcileFails, Reconciled, ReconciledRunningOnly
    <3>2. CASE row[s] = "none"
      <4>1. row'[s] = "none"
        BY <3>1, <3>2 DEF Reconciled
      <4>2. PhaseOf(s) = "new" /\ PhaseOf(s)' = "new"
        BY <3>2, <4>1 DEF PhaseOf
      <4> QED BY <3>1, <3>2, <4>1, <4>2 DEF LifeKept, LifeInv
    <3>3. CASE row[s] # "none"
      <4>1. row'[s] # "none"
        BY <3>1, <3>3 DEF Reconciled, TypeOK
      <4>2. rpc'[s] \in {"none", "done"} /\ ~BeingStarted(s)'
        BY <2>3 DEF Boot, RowsInv, BeingStarted, Starting
      <4>3. PhaseOf(s) = "dead" /\ PhaseOf(s)' = "settled"
        BY <2>3, <3>3, <4>1, <4>2 DEF Boot, PhaseOf, BeingStarted
      <4>4. Reconciled(row[s]) = Life(s)!Reconciled
        BY DEF Reconciled, Life!Reconciled
      <4>5. Life(s)!Reconcile
        BY <3>1, <4>3, <4>4 DEF Life!Reconcile, Life!Lives
      <4> QED BY <4>5 DEF Life!Next
    <3> QED BY <3>2, <3>3
  <2>4. CASE ShutdownReturns \/ ShutdownTimesOut \/ UNCHANGED vars
    <3>1. PhaseOf(s)' = PhaseOf(s)
      BY <2>4 DEF ShutdownReturns, ShutdownTimesOut, vars, PhaseOf, Starting
    <3> QED BY <2>4, <3>1 DEF ShutdownReturns, ShutdownTimesOut, vars, LifeKept
  <2> QED BY <2>1, <2>2, <2>3, <2>4, LifeOfCallers, LifeOfRuns DEF Next, Process
<1> QED BY <1>1, <1>2, LifeInvNext, RegistryInvariant, RowsInvariant, PTL
        DEF Spec, ImplementsRunLife
=============================================================================
