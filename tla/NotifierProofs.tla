--------------------------- MODULE NotifierProofs ---------------------------
(***************************************************************************)
(* Proofs about Notifier for every set of webhooks and runs, any queue     *)
(* depth and any number of attempts, edits and ticks: what a receiver      *)
(* hears of a run is in order, a drain loses nothing it accepted, and no   *)
(* throttle key outlives its run.                                          *)
(***************************************************************************)
EXTENDS Notifier, TLAPS

(* Who is inside Notify: the goroutine where execute calls it, the flusher *)
(* while it lives, which is between StartFlusher and the join.             *)
FlowInv ==
  /\ \A r \in Runs : ~Returned(r, "main") => place[r] \in {"starting", "working", "announcing"}
  /\ \A r \in Runs : ~Returned(r, "flusher") => r \in flusher
  /\ \A r \in Runs : r \in flusher => place[r] \in {"working", "joining", "abandoning"}

(* A lane has a worker before anything is sent to it, and a worker that    *)
(* has left holds nothing.                                                 *)
WorkersInv ==
  /\ \A r \in Runs, role \in Roles, h \in Hooks : call[r][role].hook = h => worker[h] # "none"
  /\ \A h \in Hooks : worker[h] = "none" => lane[h] = <<>>
  /\ \A h \in Hooks : worker[h] # "running" => hand[h] = NoCallback
  /\ \A h \in Hooks : worker[h] = "exited" => Stopped /\ (clean => lane[h] = <<>>)
  /\ Stopped /\ clean => \A r \in Runs : place[r] \in {"new", "over"}
  /\ life = "drained" => \A h \in Hooks : worker[h] # "running"

(* How far a run's announcements have come, and that what is queued, in    *)
(* hand or heard of it has come no further, in order.                      *)
Level(r) ==
  IF place[r] \in {"new", "launched"} THEN 0 ELSE IF place[r] = "starting" THEN 1
  ELSE IF place[r] \in {"working", "joining", "abandoning"} THEN 2 ELSE 3
InOrder(h) ==
  /\ \A r \in Runs : Rank(last[h][r]) <= Level(r)
  /\ hand[h] # NoCallback =>
       /\ Rank(last[h][hand[h].run]) <= Rank(hand[h].event)
       /\ Rank(hand[h].event) <= Level(hand[h].run)
  /\ \A i \in 1 .. Len(lane[h]) :
       /\ Rank(last[h][lane[h][i].run]) <= Rank(lane[h][i].event)
       /\ Rank(lane[h][i].event) <= Level(lane[h][i].run)
       /\ hand[h] # NoCallback /\ hand[h].run = lane[h][i].run =>
            Rank(hand[h].event) <= Rank(lane[h][i].event)
  /\ \A i, k \in 1 .. Len(lane[h]) : i < k /\ lane[h][i].run = lane[h][k].run =>
       Rank(lane[h][i].event) <= Rank(lane[h][k].event)
OrderInv == \A h \in Hooks : InOrder(h)

IInv == TypeOK /\ FlowInv /\ WorkersInv /\ ForgottenStays /\ OrderInv

-----------------------------------------------------------------------------
(* Types                                                                   *)

LEMMA InitTypes == Init => TypeOK
<1> SUFFICES ASSUME Init PROVE TypeOK
  OBVIOUS
<1>1. /\ lane \in [Hooks -> Seq(Callback)] /\ \A h \in Hooks : Len(lane[h]) <= QueueDepth
      /\ tries \in [Hooks -> 0 .. MaxAttempts - 1] /\ ticks \in [Runs -> 0 .. MaxTicks]
      /\ edits \in 0 .. MaxEdits
  BY NotifierAssumption DEF Init
<1>2. call \in [Runs -> [Roles -> Call]]
  BY DEF Init, Idle, Call, Roles
<1>3. clean \in BOOLEAN
  BY Zenon DEF Init
<1> QED
  BY <1>1, <1>2, <1>3 DEF Init, TypeOK, Events

(* The steps of a call of Notify.                                          *)
LEMMA BeginTypes ==
  ASSUME TypeOK, NEW r \in Runs, NEW role \in Roles, NEW event, NEW b, Begin(r, role, event, b)
  PROVE  call' \in [Runs -> [Roles -> Call]] /\ unheard' \subseteq Hooks \X Runs
<1>1. Targets(event, b) \subseteq Hooks
  BY DEF Targets
<1>2. [todo |-> Targets(event, b), hook |-> None] \in Call
  BY <1>1 DEF Call
<1>3. call' \in [Runs -> [Roles -> Call]]
  BY <1>2 DEF Begin, TypeOK
<1>4. unheard' \subseteq Hooks \X Runs
  BY DEF Begin, TypeOK
<1> QED
  BY <1>3, <1>4

LEMMA CallTypes ==
  ASSUME TypeOK, NEW r \in Runs, NEW role \in Roles, CallStep(r, role)
  PROVE  TypeOK'
<1>0. call[r][role] \in Call
  BY DEF TypeOK
<1>1. ASSUME NEW h \in Hooks, Throttled(r, role, h) \/ Refused(r, role, h) \/ FindLane(r, role, h)
      PROVE  TypeOK'
  <2>1. call' \in [Runs -> [Roles -> Call]]
    <3>1. CASE call' = [call EXCEPT ![r][role].todo = @ \ {h}]
      BY <1>0, <3>1 DEF TypeOK, Call
    <3>2. CASE call' = [call EXCEPT ![r][role] = [todo |-> @.todo \ {h}, hook |-> h]]
      BY <1>0, <3>2 DEF TypeOK, Call
    <3> QED
      BY <1>1, <3>1, <3>2 DEF Throttled, Refused, FindLane
  <2>2. keys' \subseteq Hooks \X Runs /\ unheard' \subseteq Hooks \X Runs
    BY <1>1 DEF Throttled, Refused, FindLane, NoteProgress, Unsent, TypeOK
  <2>3. worker' \in [Hooks -> {"none", "running", "exited"}]
    BY <1>1 DEF Throttled, Refused, FindLane, TypeOK, laneVars
  <2> QED
    BY <1>1, <2>1, <2>2, <2>3
       DEF Throttled, Refused, FindLane, TypeOK, hookVars, laneVars, runVars, mainVars
<1>2. CASE Send(r, role)
  <2>0. call[r][role].hook \in Hooks
    BY <1>0, <1>2 DEF Send, Call
  <2>1. call' \in [Runs -> [Roles -> Call]]
    BY <1>0, <1>2 DEF Send, TypeOK, Call
  <2>2. EventOf(r, role) \in Events
    BY DEF EventOf, Events
  <2>3. /\ lane' \in [Hooks -> Seq(Callback)] /\ \A h \in Hooks : Len(lane'[h]) <= QueueDepth
        /\ unheard' \subseteq Hooks \X Runs
    <3>1. CASE Len(lane[call[r][role].hook]) < QueueDepth
      <4>1. [event |-> EventOf(r, role), run |-> r] \in Callback
        BY <2>2 DEF Callback
      <4>2. /\ lane[call[r][role].hook] \in Seq(Callback)
            /\ Len(lane[call[r][role].hook]) \in Nat
        BY <2>0 DEF TypeOK
      <4>3. LET q == Append(lane[call[r][role].hook], [event |-> EventOf(r, role), run |-> r])
            IN q \in Seq(Callback) /\ Len(q) <= QueueDepth
        BY <3>1, <4>1, <4>2, NotifierAssumption
      <4>4. lane' = [lane EXCEPT ![call[r][role].hook] =
                       Append(@, [event |-> EventOf(r, role), run |-> r])]
            /\ UNCHANGED unheard
        BY <1>2, <3>1 DEF Send
      <4> QED
        BY <2>0, <4>3, <4>4 DEF TypeOK
    <3>2. CASE ~(Len(lane[call[r][role].hook]) < QueueDepth)
      BY <1>2, <2>0, <3>2 DEF Send, TypeOK, Unsent
    <3> QED
      BY <3>1, <3>2
  <2> QED
    BY <1>2, <2>1, <2>3 DEF Send, TypeOK, hookVars, runVars, mainVars
<1> QED
  BY <1>1, <1>2 DEF CallStep

(* The steps of a worker, and the end of a retry window.                   *)
LEMMA WorkerTypes ==
  ASSUME TypeOK, NEW h \in Hooks, WorkerStep(h) \/ WindowEnds(h) \/ EditHook(h)
  PROVE  TypeOK'
<1>0. hand[h] # NoCallback => hand[h] \in Callback /\ hand[h].event \in Events /\ hand[h].run \in Runs
  BY DEF TypeOK, Callback
<1>1. CASE Take(h)
  <2>1. Head(lane[h]) \in Callback /\ Tail(lane[h]) \in Seq(Callback)
        /\ Len(Tail(lane[h])) <= QueueDepth
    BY <1>1, NotifierAssumption DEF Take, TypeOK
  <2> QED
    BY <1>1, <2>1 DEF Take, TypeOK, hookVars, runVars, mainVars
<1>2. CASE Leave(h)
  BY <1>2 DEF Leave, TypeOK, hookVars, runVars, mainVars
<1>3. ASSUME Drop(h) PROVE /\ hand' \in [Hooks -> Callback \cup {NoCallback}]
                           /\ tries' \in [Hooks -> 0 .. MaxAttempts - 1]
  BY <1>3, NotifierAssumption DEF Drop, TypeOK
<1>4. ASSUME Land(h), hand[h] # NoCallback PROVE last' \in [Hooks -> [Runs -> Events \cup {None}]]
  BY <1>0, <1>4 DEF Land, TypeOK
<1>5. ASSUME Fail(h), hand[h] # NoCallback
      PROVE  shunned' \subseteq Hooks /\ unheard' \subseteq Hooks \X Runs
  BY <1>0, <1>5 DEF Fail, Unsent, TypeOK
<1>6. CASE Delivered(h)
  BY <1>3, <1>4, <1>6 DEF Delivered, TypeOK, hookVars, runVars, mainVars
<1>7. CASE Attempt(h)
  <2>1. last' \in [Hooks -> [Runs -> Events \cup {None}]]
    BY <1>4, <1>7 DEF Attempt, TypeOK
  <2>2. CASE tries[h] + 1 < MaxAttempts
    <3>1. tries' \in [Hooks -> 0 .. MaxAttempts - 1]
      <4>1. tries[h] + 1 \in 0 .. MaxAttempts - 1
        BY <2>2, NotifierAssumption DEF TypeOK
      <4>2. tries' = [tries EXCEPT ![h] = tries[h] + 1]
        BY <1>7, <2>2 DEF Attempt
      <4> QED
        BY <4>1, <4>2 DEF TypeOK
    <3> QED
      BY <1>7, <2>1, <2>2, <3>1 DEF Attempt, TypeOK, hookVars, runVars, mainVars
  <2>3. CASE ~(tries[h] + 1 < MaxAttempts)
    BY <1>3, <1>5, <1>7, <2>1, <2>3 DEF Attempt, Fail, TypeOK, hookVars, runVars, mainVars
  <2> QED
    BY <2>2, <2>3
<1>8. CASE Rejected(h)
  BY <1>3, <1>5, <1>8 DEF Rejected, Fail, TypeOK, hookVars, runVars, mainVars
<1>9. CASE BackoffStopped(h)
  <2>1. unheard' \subseteq Hooks \X Runs
    BY <1>0, <1>9 DEF BackoffStopped, Unsent, TypeOK
  <2> QED
    BY <1>3, <1>9, <2>1 DEF BackoffStopped, TypeOK, hookVars, runVars, mainVars
<1>10. CASE WindowEnds(h)
  BY <1>10 DEF WindowEnds, TypeOK, hookVars, runVars, mainVars
<1>11. CASE EditHook(h)
  BY <1>11, NotifierAssumption DEF EditHook, SaveWebhook, TypeOK, laneVars, runVars, mainVars
<1> QED
  BY <1>1, <1>2, <1>6, <1>7, <1>8, <1>9, <1>10, <1>11 DEF WorkerStep

(* The steps of a run and of its flusher, and requests.                    *)
LEMMA RunTypes ==
  ASSUME TypeOK, NEW r \in Runs,
         RunStep(r) \/ FlusherStep(r) \/ StartRun(r) \/ Cancel(r) \/ Prompt(r)
  PROVE  TypeOK'
<1>1. CASE StartRun(r) \/ Cancel(r)
  BY <1>1 DEF StartRun, Cancel, Move, TypeOK, hookVars, laneVars, mainVars
<1>2. CASE NotifyStarted(r)
  BY <1>2, BeginTypes DEF NotifyStarted, Move, TypeOK, hookVars, laneVars, mainVars, Roles
<1>3. CASE EndEarly(r) \/ AbandonPreview(r)
  BY <1>3 DEF EndEarly, AbandonPreview, Ends, Move, TypeOK, hookVars, laneVars, mainVars
<1>4. CASE StartFlusher(r) \/ StopFlusher(r) \/ FlusherExits(r)
  BY <1>4 DEF StartFlusher, StopFlusher, FlusherExits, Move, TypeOK, hookVars, laneVars, mainVars
<1>5. CASE Tick(r) \/ Prompt(r)
  <2>1. ticks' \in [Runs -> 0 .. MaxTicks]
    <3>1. ticks[r] + 1 \in 0 .. MaxTicks
      BY <1>5, NotifierAssumption DEF Tick, Prompt, TypeOK
    <3>2. ticks' = [ticks EXCEPT ![r] = ticks[r] + 1]
      BY <1>5 DEF Tick, Prompt
    <3> QED
      BY <3>1, <3>2 DEF TypeOK
  <2> QED
    BY <1>5, <2>1, BeginTypes DEF Tick, Prompt, TypeOK, hookVars, laneVars, mainVars, Roles
<1>6. CASE NotifyOutcome(r)
  <2>1. call' \in [Runs -> [Roles -> Call]] /\ unheard' \subseteq Hooks \X Runs
    BY <1>6, BeginTypes DEF NotifyOutcome, TypeOK, Roles
  <2> QED
    BY <1>6, <2>1 DEF NotifyOutcome, Move, TypeOK, hookVars, laneVars, mainVars
<1>7. CASE Forget(r)
  BY <1>7 DEF Forget, Ends, Move, TypeOK, hookVars, laneVars, mainVars
<1> QED
  BY <1>1, <1>2, <1>3, <1>4, <1>5, <1>6, <1>7 DEF RunStep, FlusherStep

LEMMA NextTypes == ASSUME TypeOK, [Next]_vars PROVE TypeOK'
<1>1. CASE UNCHANGED vars
  BY <1>1 DEF vars, hookVars, laneVars, runVars, mainVars, TypeOK
<1>2. CASE CloseRuns
  BY <1>2 DEF CloseRuns, TypeOK, hookVars, laneVars
<1>3. CASE Stop
  <2>1. clean' \in BOOLEAN
    BY <1>3, Zenon DEF Stop
  <2> QED
    BY <1>3, <2>1 DEF Stop, TypeOK, hookVars, laneVars, runVars
<1>4. CASE StopReturns \/ StopTimesOut
  BY <1>4 DEF StopReturns, StopTimesOut, TypeOK, hookVars, laneVars, runVars
<1> QED
  BY <1>1, <1>2, <1>3, <1>4, CallTypes, WorkerTypes, RunTypes DEF Next

(* The notifier's state is well typed: no lane is longer than QueueDepth   *)
(* and no callback is tried more than MaxAttempts times.                   *)
THEOREM NotifierTypes == Spec => []TypeOK
BY InitTypes, NextTypes, PTL DEF Spec

-----------------------------------------------------------------------------
(* Who is inside Notify                                                    *)

(* A step of one call leaves the others alone.                             *)
LEMMA OtherCalls ==
  ASSUME TypeOK, NEW r \in Runs, NEW role \in Roles,
         CallStep(r, role) \/ \E event, b : Begin(r, role, event, b)
  PROVE  \A s \in Runs, o \in Roles : s # r \/ o # role => call'[s][o] = call[s][o]
<1>1. ASSUME NEW x, call' = [call EXCEPT ![r][role] = x]
      PROVE  \A s \in Runs, o \in Roles : s # r \/ o # role => call'[s][o] = call[s][o]
  BY <1>1 DEF TypeOK
<1>2. CASE \E event, b : Begin(r, role, event, b)
  BY <1>1, <1>2 DEF Begin
<1>3. ASSUME NEW h, Throttled(r, role, h) \/ Refused(r, role, h)
      PROVE  \A s \in Runs, o \in Roles : s # r \/ o # role => call'[s][o] = call[s][o]
  BY <1>3 DEF Throttled, Refused, TypeOK
<1>4. ASSUME NEW h, FindLane(r, role, h)
      PROVE  \A s \in Runs, o \in Roles : s # r \/ o # role => call'[s][o] = call[s][o]
  BY <1>4 DEF FindLane, TypeOK
<1>5. CASE Send(r, role)
  BY <1>5 DEF Send, TypeOK
<1> QED
  BY <1>2, <1>3, <1>4, <1>5 DEF CallStep

LEMMA FlowInit == Init => FlowInv
BY DEF Init, FlowInv, Returned, Idle, Roles

LEMMA FlowCall ==
  ASSUME TypeOK, FlowInv, NEW r \in Runs, NEW role \in Roles, CallStep(r, role)
  PROVE  FlowInv'
<1>1. UNCHANGED <<place, flusher>>
  BY DEF CallStep, Throttled, Refused, FindLane, Send, runVars
<1>2. ~Returned(r, role)
  BY DEF CallStep, Throttled, Refused, FindLane, Send, NextHook, Returned
<1>3. \A s \in Runs, o \in Roles : ~Returned(s, o)' => ~Returned(s, o)
  BY <1>2, OtherCalls DEF Returned
<1> QED
  BY <1>1, <1>3 DEF FlowInv, Roles

LEMMA FlowRun ==
  ASSUME TypeOK, FlowInv, NEW r \in Runs,
         RunStep(r) \/ FlusherStep(r) \/ StartRun(r) \/ Cancel(r) \/ Prompt(r)
  PROVE  FlowInv'
<1>0. \A s \in Runs : s # r => place'[s] = place[s]
  BY DEF RunStep, FlusherStep, StartRun, Cancel, Prompt, NotifyStarted, EndEarly, StartFlusher,
         StopFlusher, AbandonPreview, NotifyOutcome, Forget, Tick, FlusherExits, Move, TypeOK
<1>1. CASE StartRun(r) \/ Cancel(r)
  BY <1>0, <1>1 DEF StartRun, Cancel, Move, FlowInv, Returned, TypeOK
<1>2. CASE NotifyStarted(r)
  <2>1. place'[r] = "starting" /\ place[r] = "launched" /\ flusher' = flusher
    BY <1>2 DEF NotifyStarted, Move, TypeOK
  <2>2. \A s \in Runs, o \in Roles : s # r \/ o # "main" => call'[s][o] = call[s][o]
    BY <1>2, OtherCalls DEF NotifyStarted, Roles
  <2> QED
    BY <1>0, <2>1, <2>2 DEF FlowInv, Returned, Roles
<1>3. CASE EndEarly(r) \/ AbandonPreview(r) \/ Forget(r)
  <2>1. call' = call /\ flusher' = flusher /\ Returned(r, "main") /\ r \notin flusher
    BY <1>3 DEF EndEarly, AbandonPreview, Forget, Joined, Move, FlowInv
  <2> QED
    BY <1>0, <2>1 DEF FlowInv, Returned
<1>4. CASE StartFlusher(r)
  <2>1. call' = call /\ flusher' = flusher \cup {r} /\ place'[r] = "working" /\ Returned(r, "main")
    BY <1>4 DEF StartFlusher, Move, TypeOK
  <2> QED
    BY <1>0, <2>1 DEF FlowInv, Returned
<1>5. CASE StopFlusher(r)
  <2>1. call' = call /\ flusher' = flusher /\ place'[r] \in {"joining", "abandoning"} /\ Returned(r, "main")
    BY <1>5 DEF StopFlusher, Move, TypeOK
  <2> QED
    BY <1>0, <2>1 DEF FlowInv, Returned
<1>6. CASE FlusherExits(r)
  BY <1>6 DEF FlusherExits, FlowInv, Returned
<1>7. CASE Tick(r)
  <2>1. UNCHANGED <<place, flusher>> /\ r \in flusher
    BY <1>7 DEF Tick
  <2>2. \A s \in Runs, o \in Roles : s # r \/ o # "flusher" => call'[s][o] = call[s][o]
    BY <1>7, OtherCalls DEF Tick, Roles
  <2> QED
    BY <2>1, <2>2 DEF FlowInv, Returned, Roles
<1>8. CASE Prompt(r)
  <2>1. UNCHANGED <<place, flusher>> /\ place[r] = "working"
    BY <1>8 DEF Prompt
  <2>2. \A s \in Runs, o \in Roles : s # r \/ o # "main" => call'[s][o] = call[s][o]
    BY <1>8, OtherCalls DEF Prompt, Roles
  <2> QED
    BY <2>1, <2>2 DEF FlowInv, Returned, Roles
<1>9. CASE NotifyOutcome(r)
  <2>1. place'[r] = "announcing" /\ flusher' = flusher /\ r \notin flusher
    BY <1>9 DEF NotifyOutcome, Joined, Move, TypeOK
  <2>2. \A s \in Runs, o \in Roles : s # r \/ o # "main" => call'[s][o] = call[s][o]
    BY <1>9, OtherCalls DEF NotifyOutcome, Announces, Roles
  <2> QED
    BY <1>0, <2>1, <2>2 DEF FlowInv, Returned, Roles
<1> QED
  BY <1>1, <1>2, <1>3, <1>4, <1>5, <1>6, <1>7, <1>8, <1>9 DEF RunStep, FlusherStep

LEMMA FlowNext == ASSUME TypeOK, FlowInv, [Next]_vars PROVE FlowInv'
<1>1. CASE UNCHANGED <<call, place, flusher>>
  BY <1>1 DEF FlowInv, Returned
<1>2. ASSUME NEW h \in Hooks, WorkerStep(h) \/ WindowEnds(h) \/ EditHook(h)
      PROVE  UNCHANGED <<call, place, flusher>>
  BY <1>2 DEF WorkerStep, Take, Leave, Delivered, Attempt, Rejected, BackoffStopped,
              WindowEnds, EditHook, runVars
<1>3. CASE CloseRuns \/ Stop \/ StopReturns \/ StopTimesOut \/ UNCHANGED vars
  BY <1>1, <1>3 DEF CloseRuns, Stop, StopReturns, StopTimesOut, vars, runVars
<1> QED
  BY <1>1, <1>2, <1>3, FlowCall, FlowRun DEF Next

-----------------------------------------------------------------------------
(* The throttle's keys                                                     *)

LEMMA KeysNext ==
  ASSUME TypeOK, FlowInv, ForgottenStays, [Next]_vars PROVE ForgottenStays'
<1>1. ASSUME UNCHANGED <<place, silent, keys>> PROVE ForgottenStays'
  BY <1>1 DEF ForgottenStays
<1>2. ASSUME NEW r \in Runs, NEW role \in Roles, CallStep(r, role) PROVE ForgottenStays'
  <2>1. UNCHANGED <<place, silent>>
    BY <1>2 DEF CallStep, Throttled, Refused, FindLane, Send, runVars
  <2>2. CASE keys' = keys
    BY <1>1, <2>1, <2>2
  <2>3. ASSUME NEW h \in Hooks, keys' = keys \cup {<<h, r>>}, EventOf(r, role) = "progress"
        PROVE  ForgottenStays'
    <3>1. role = "flusher"
      BY <2>3 DEF EventOf, Roles
    <3>2. ~Returned(r, role)
      BY <1>2 DEF CallStep, Throttled, Refused, FindLane, Send, NextHook, Returned
    <3>3. place[r] # "over"
      BY <3>1, <3>2 DEF FlowInv
    <3> QED
      BY <2>1, <2>3, <3>3 DEF ForgottenStays
  <2> QED
    BY <1>2, <2>2, <2>3 DEF CallStep, Throttled, Refused, FindLane, Send, NoteProgress
<1>3. ASSUME NEW h \in Hooks, WorkerStep(h) \/ WindowEnds(h) \/ EditHook(h)
      PROVE  UNCHANGED <<place, silent, keys>>
  BY <1>3 DEF WorkerStep, Take, Leave, Delivered, Attempt, Rejected, BackoffStopped,
              WindowEnds, EditHook, runVars
<1>4. ASSUME NEW r \in Runs,
             RunStep(r) \/ FlusherStep(r) \/ StartRun(r) \/ Cancel(r) \/ Prompt(r)
      PROVE  ForgottenStays'
  <2>1. CASE EndEarly(r) \/ AbandonPreview(r)
    BY <2>1 DEF EndEarly, AbandonPreview, Move, TypeOK, ForgottenStays
  <2>2. CASE Forget(r)
    BY <2>2 DEF Forget, Move, TypeOK, ForgottenStays
  <2>3. ASSUME UNCHANGED <<silent, keys>>, \A s \in Runs : place'[s] = "over" => place[s] = "over"
        PROVE  ForgottenStays'
    BY <2>3 DEF ForgottenStays
  <2>4. CASE \/ StartRun(r) \/ Cancel(r) \/ Prompt(r) \/ Tick(r) \/ FlusherExits(r)
             \/ NotifyStarted(r) \/ StartFlusher(r) \/ StopFlusher(r) \/ NotifyOutcome(r)
    BY <2>3, <2>4 DEF StartRun, Cancel, Prompt, Tick, FlusherExits, NotifyStarted, StartFlusher,
                      StopFlusher, NotifyOutcome, Move, TypeOK
  <2> QED
    BY <1>4, <2>1, <2>2, <2>4 DEF RunStep, FlusherStep
<1>5. CASE CloseRuns \/ Stop \/ StopReturns \/ StopTimesOut \/ UNCHANGED vars
  BY <1>1, <1>5 DEF CloseRuns, Stop, StopReturns, StopTimesOut, vars, runVars
<1> QED
  BY <1>1, <1>2, <1>3, <1>4, <1>5 DEF Next

-----------------------------------------------------------------------------
(* The workers                                                             *)

LEMMA WorkersInit == Init => WorkersInv
<1> SUFFICES ASSUME Init PROVE WorkersInv
  OBVIOUS
<1>1. \A r \in Runs, role \in Roles : call[r][role].hook \notin Hooks
  BY NotifierAssumption DEF Init, Idle
<1>2. /\ \A h \in Hooks : worker[h] = "none" /\ lane[h] = <<>> /\ hand[h] = NoCallback
      /\ life = "up"
  BY DEF Init
<1> QED
  BY <1>1, <1>2 DEF WorkersInv, Stopped

LEMMA WorkersCall ==
  ASSUME TypeOK, FlowInv, WorkersInv, NEW r \in Runs, NEW role \in Roles, CallStep(r, role)
  PROVE  WorkersInv'
<1>0. UNCHANGED <<life, clean, place, hand>> /\ life # "drained"
  BY DEF CallStep, Throttled, Refused, FindLane, Send, NextHook, runVars, mainVars, laneVars, Alive
<1>1. \A s \in Runs, o \in Roles : s # r \/ o # role => call'[s][o] = call[s][o]
  BY OtherCalls
<1>2. call[r][role] \in Call
  BY DEF TypeOK
<1>3. CASE \E h \in Hooks : Throttled(r, role, h) \/ Refused(r, role, h)
  <2>1. UNCHANGED <<worker, lane>> /\ \E h \in Hooks : call' = [call EXCEPT ![r][role].todo = @ \ {h}]
    BY <1>3 DEF Throttled, Refused, laneVars
  <2>2. call'[r][role].hook = call[r][role].hook
    BY <1>2, <2>1 DEF TypeOK, Call
  <2> QED
    BY <1>0, <1>1, <2>1, <2>2 DEF WorkersInv, Stopped
<1>4. ASSUME NEW h \in Hooks, FindLane(r, role, h) PROVE WorkersInv'
  <2>1. call'[r][role].hook = h /\ UNCHANGED lane /\ ~Stopped
    BY <1>2, <1>4 DEF FindLane, TypeOK
  <2>2. worker'[h] # "none" /\ \A g \in Hooks : worker'[g] = worker[g] \/ worker'[g] = "running"
    BY <1>4 DEF FindLane, TypeOK
  <2> QED
    BY <1>0, <1>1, <2>1, <2>2 DEF WorkersInv, Stopped
<1>5. CASE Send(r, role)
  <2>0. call[r][role].hook \in Hooks /\ ~Returned(r, role)
    BY <1>2, <1>5 DEF Send, Call, Returned
  <2>1. call'[r][role].hook \notin Hooks /\ UNCHANGED worker
    BY <1>2, <1>5, NotifierAssumption DEF Send, TypeOK, Call
  <2>2. \A g \in Hooks : g # call[r][role].hook => lane'[g] = lane[g]
    BY <1>5 DEF Send, TypeOK
  <2>3. worker[call[r][role].hook] # "none"
    BY <2>0 DEF WorkersInv
  <2>4. place[r] \notin {"new", "over"}
    BY <2>0 DEF FlowInv, Roles
  <2>5. worker[call[r][role].hook] = "exited" => ~clean
    BY <2>0, <2>4 DEF WorkersInv
  <2> QED
    BY <1>0, <1>1, <2>0, <2>1, <2>2, <2>3, <2>5 DEF WorkersInv, Stopped
<1> QED
  BY <1>3, <1>4, <1>5 DEF CallStep

LEMMA WorkersNext ==
  ASSUME TypeOK, FlowInv, WorkersInv, [Next]_vars PROVE WorkersInv'
<1>1. CASE UNCHANGED vars
  BY <1>1 DEF vars, laneVars, runVars, mainVars, WorkersInv, Stopped
<1>2. ASSUME NEW h \in Hooks, WorkerStep(h) \/ WindowEnds(h) \/ EditHook(h) PROVE WorkersInv'
  <2>0. UNCHANGED <<life, clean, place, call>> /\ life # "drained"
    BY <1>2 DEF WorkerStep, Take, Leave, Delivered, Attempt, Rejected, BackoffStopped,
                WindowEnds, EditHook, runVars, mainVars, Alive
  <2>1. CASE Take(h)
    <3>1. /\ UNCHANGED worker /\ worker[h] = "running"
          /\ \A g \in Hooks : g # h => lane'[g] = lane[g] /\ hand'[g] = hand[g]
      BY <2>1 DEF Take, TypeOK
    <3> QED
      BY <2>0, <3>1 DEF WorkersInv, Stopped
  <2>2. CASE Leave(h)
    <3>1. /\ UNCHANGED <<lane, hand>> /\ hand[h] = NoCallback /\ Stopped /\ lane[h] = <<>>
          /\ worker'[h] = "exited" /\ \A g \in Hooks : g # h => worker'[g] = worker[g]
      BY <2>2 DEF Leave, MayLeave, TypeOK
    <3> QED
      BY <2>0, <3>1 DEF WorkersInv, Stopped
  <2>3. CASE Delivered(h) \/ Attempt(h) \/ Rejected(h) \/ BackoffStopped(h)
    <3>1. /\ UNCHANGED <<lane, worker>>
          /\ \A g \in Hooks : hand'[g] = hand[g] \/ hand'[g] = NoCallback
      BY <2>3 DEF Delivered, Attempt, Rejected, BackoffStopped, Fail, Drop, TypeOK
    <3> QED
      BY <2>0, <3>1 DEF WorkersInv, Stopped
  <2>4. CASE WindowEnds(h) \/ EditHook(h)
    BY <2>0, <2>4 DEF WindowEnds, EditHook, laneVars, WorkersInv, Stopped
  <2> QED
    BY <1>2, <2>1, <2>2, <2>3, <2>4 DEF WorkerStep
<1>3. ASSUME NEW r \in Runs,
             RunStep(r) \/ FlusherStep(r) \/ StartRun(r) \/ Cancel(r) \/ Prompt(r)
      PROVE  WorkersInv'
  <2>0. UNCHANGED <<life, clean, lane, worker, hand>> /\ life # "drained"
    BY <1>3 DEF RunStep, FlusherStep, StartRun, Cancel, Prompt, NotifyStarted, EndEarly,
                StartFlusher, StopFlusher, AbandonPreview, NotifyOutcome, Forget, Tick,
                FlusherExits, Move, laneVars, mainVars, Alive
  <2>1. ASSUME Stopped, clean PROVE place' = place
    <3>1. place[r] \in {"new", "over"} /\ life # "up"
      BY <2>1 DEF WorkersInv, Stopped
    <3> QED
      BY <1>3, <3>1 DEF RunStep, FlusherStep, StartRun, Cancel, Prompt, NotifyStarted, EndEarly,
                StartFlusher, StopFlusher, AbandonPreview, NotifyOutcome, Forget, Tick,
                FlusherExits, Move
  <2>2. ASSUME NEW role \in Roles, NEW event, NEW b, Begin(r, role, event, b), NEW s \in Runs, NEW o \in Roles,
               NEW h \in Hooks, call'[s][o].hook = h
        PROVE  call[s][o].hook = h
    <3>1. call'[r][role].hook = None
      BY <2>2 DEF Begin, TypeOK
    <3> QED
      BY <2>2, <3>1, OtherCalls, NotifierAssumption
  <2>3. \A s \in Runs, o \in Roles, h \in Hooks : call'[s][o].hook = h => call[s][o].hook = h
    BY <1>3, <2>2 DEF RunStep, FlusherStep, StartRun, Cancel, Prompt, NotifyStarted, EndEarly,
                StartFlusher, StopFlusher, AbandonPreview, NotifyOutcome, Forget, Tick,
                FlusherExits, Roles
  <2> QED
    BY <2>0, <2>1, <2>3 DEF WorkersInv, Stopped
<1>4. CASE CloseRuns \/ Stop
  BY <1>4 DEF CloseRuns, Stop, laneVars, runVars, WorkersInv, Stopped
<1>5. CASE StopReturns \/ StopTimesOut
  BY <1>5 DEF StopReturns, StopTimesOut, laneVars, runVars, WorkersInv, Stopped
<1> QED
  BY <1>1, <1>2, <1>3, <1>4, <1>5, WorkersCall DEF Next

-----------------------------------------------------------------------------
(* The order of a run's callbacks                                          *)

LEMMA Ranks == \A e : Rank(e) \in 0 .. 3
BY DEF Rank

LEMMA Levels == \A r \in Runs : Level(r) \in 0 .. 3 /\ Level(r)' \in 0 .. 3
BY DEF Level

LEMMA Queued ==
  ASSUME TypeOK, NEW h \in Hooks, NEW i \in 1 .. Len(lane[h]) PROVE lane[h][i].run \in Runs
<1>1. lane[h] \in Seq(Callback)
  BY DEF TypeOK
<1>2. lane[h][i] \in Callback
  BY <1>1
<1> QED
  BY <1>2 DEF Callback

LEMMA OrderInit == Init => OrderInv
<1> SUFFICES ASSUME Init, NEW h \in Hooks PROVE InOrder(h)
  BY DEF OrderInv
<1>1. lane[h] = <<>> /\ hand[h] = NoCallback
  BY DEF Init
<1>2. \A r \in Runs : Rank(last[h][r]) = 0 /\ Level(r) = 0
  BY DEF Init, Rank, Level
<1> QED
  BY <1>1, <1>2 DEF InOrder

(* No step of a run takes its announcements back.                          *)
LEMMA LevelGrows ==
  ASSUME TypeOK, [Next]_vars, NEW s \in Runs PROVE Level(s) <= Level(s)'
<1>1. ASSUME place'[s] = place[s] PROVE Level(s) <= Level(s)'
  BY <1>1, Levels DEF Level
<1>2. ASSUME NEW r \in Runs, NEW role \in Roles, CallStep(r, role) PROVE place' = place
  BY <1>2 DEF CallStep, Throttled, Refused, FindLane, Send, runVars
<1>3. ASSUME NEW h \in Hooks, WorkerStep(h) \/ WindowEnds(h) \/ EditHook(h) PROVE place' = place
  BY <1>3 DEF WorkerStep, Take, Leave, Delivered, Attempt, Rejected, BackoffStopped,
              WindowEnds, EditHook, runVars
<1>4. ASSUME NEW r \in Runs, NEW from, NEW to, Move(r, from, to),
             <<from, to>> \in {<<"new", "launched">>, <<"launched", "starting">>,
               <<"starting", "over">>, <<"starting", "working">>, <<"working", "joining">>,
               <<"working", "abandoning">>, <<"abandoning", "over">>,
               <<"joining", "announcing">>, <<"announcing", "over">>}
      PROVE  Level(s) <= Level(s)'
  <2>1. CASE s # r
    BY <1>1, <1>4, <2>1 DEF Move, TypeOK
  <2>2. CASE s = r
    BY <1>4, <2>2 DEF Move, TypeOK, Level
  <2> QED
    BY <2>1, <2>2
<1>5. ASSUME NEW r \in Runs,
             RunStep(r) \/ FlusherStep(r) \/ StartRun(r) \/ Cancel(r) \/ Prompt(r)
      PROVE  Level(s) <= Level(s)'
  <2>1. CASE Cancel(r) \/ Prompt(r) \/ FlusherStep(r)
    BY <1>1, <2>1 DEF Cancel, Prompt, FlusherStep, Tick, FlusherExits
  <2>2. CASE RunStep(r) \/ StartRun(r)
    BY <1>4, <2>2 DEF RunStep, StartRun, NotifyStarted, EndEarly, StartFlusher, StopFlusher,
                      AbandonPreview, NotifyOutcome, Forget
  <2> QED
    BY <1>5, <2>1, <2>2
<1>6. CASE CloseRuns \/ Stop \/ StopReturns \/ StopTimesOut \/ UNCHANGED vars
  BY <1>1, <1>6 DEF CloseRuns, Stop, StopReturns, StopTimesOut, vars, runVars
<1> QED
  BY <1>1, <1>2, <1>3, <1>5, <1>6 DEF Next

LEMMA OrderKept ==
  ASSUME TypeOK, NEW h \in Hooks, InOrder(h), \A r \in Runs : Level(r) <= Level(r)',
         lane'[h] = lane[h], last'[h] = last[h], hand'[h] \in {hand[h], NoCallback}
  PROVE  InOrder(h)'
<1>1. \A i \in 1 .. Len(lane[h]) : lane[h][i].run \in Runs
  BY Queued
<1>2. hand[h] # NoCallback => hand[h].run \in Runs
  BY DEF TypeOK, Callback
<1>3. \A r \in Runs : Rank(last[h][r])' = Rank(last[h][r])
  BY DEF Rank
<1> QED
  BY <1>1, <1>2, <1>3, Ranks, Levels DEF InOrder, Rank

(* The callback in hand is heard.                                          *)
LEMMA OrderLand ==
  ASSUME TypeOK, NEW h \in Hooks, InOrder(h), hand[h] # NoCallback, Land(h),
         UNCHANGED <<lane, place>>, hand'[h] \in {hand[h], NoCallback}
  PROVE  InOrder(h)'
<1>0. hand[h].run \in Runs /\ \A i \in 1 .. Len(lane[h]) : lane[h][i].run \in Runs
  BY Queued DEF TypeOK, Callback
<1>1. /\ last'[h][hand[h].run] = hand[h].event
      /\ \A r \in Runs : r # hand[h].run => last'[h][r] = last[h][r]
  BY <1>0 DEF Land, TypeOK
<1>2. \A r \in Runs : Level(r)' = Level(r)
  BY DEF Level
<1>3. /\ Rank(last'[h][hand[h].run]) = Rank(hand[h].event)
      /\ \A r \in Runs : r # hand[h].run => Rank(last'[h][r]) = Rank(last[h][r])
  BY <1>1
<1> QED
  BY <1>0, <1>2, <1>3, Ranks, Levels DEF InOrder

LEMMA OrderTake == ASSUME TypeOK, NEW h \in Hooks, InOrder(h), Take(h) PROVE InOrder(h)'
<1>0. lane[h] \in Seq(Callback) /\ lane[h] # <<>>
  BY DEF Take, TypeOK
<1>1. /\ hand'[h] = lane[h][1] /\ lane'[h] = Tail(lane[h])
      /\ Len(lane'[h]) = Len(lane[h]) - 1
      /\ \A i \in 1 .. Len(lane'[h]) : i + 1 \in 1 .. Len(lane[h]) /\ lane'[h][i] = lane[h][i + 1]
  BY <1>0 DEF Take, TypeOK
<1>2. 1 \in 1 .. Len(lane[h]) /\ \A i \in 1 .. Len(lane[h]) : lane[h][i].run \in Runs
  BY <1>0, Queued
<1>3. /\ \A r \in Runs : Level(r)' = Level(r)
      /\ UNCHANGED last
  BY DEF Take, Level, runVars
<1> QED
  BY <1>0, <1>1, <1>2, <1>3, Ranks, Levels DEF InOrder

(* A callback enters its lane with the highest rank its run has come to.   *)
LEMMA OrderSend ==
  ASSUME TypeOK, FlowInv, NEW r \in Runs, NEW role \in Roles, Send(r, role),
         NEW h \in Hooks, InOrder(h)
  PROVE  InOrder(h)'
<1>1. UNCHANGED <<place, hand, last>> /\ \A s \in Runs : Level(s)' = Level(s)
  BY DEF Send, runVars, Level
<1>2. CASE lane'[h] = lane[h]
  BY <1>1, <1>2, OrderKept, Levels
<1>3. CASE lane'[h] # lane[h]
  <2> DEFINE c == [event |-> EventOf(r, role), run |-> r]
  <2>1. lane'[h] = Append(lane[h], c)
    BY <1>3 DEF Send, TypeOK
  <2>2. /\ Len(lane'[h]) = Len(lane[h]) + 1 /\ lane'[h][Len(lane[h]) + 1] = c
        /\ \A i \in 1 .. Len(lane[h]) : lane'[h][i] = lane[h][i]
        /\ Len(lane[h]) \in Nat
    BY <2>1 DEF TypeOK
  <2>3. ~Returned(r, role)
    BY DEF Send, Returned
  <2>4. Rank(EventOf(r, role)) = Level(r)
    BY <2>3, NotifierAssumption DEF FlowInv, EventOf, Level, Rank, Roles, None
  <2>5. \A i \in 1 .. Len(lane[h]) : lane[h][i].run \in Runs
    BY Queued
  <2>6. hand[h] # NoCallback => hand[h].run \in Runs
    BY DEF TypeOK, Callback
  <2>7. c.run = r /\ c.event = EventOf(r, role)
    OBVIOUS
  <2> HIDE DEF c
  <2>8. \A i \in 1 .. Len(lane'[h]) : i \in 1 .. Len(lane[h]) \/ i = Len(lane[h]) + 1
    BY <2>2
  <2>9. \A s \in Runs : Rank(last'[h][s]) <= Level(s)'
    BY <1>1 DEF InOrder
  <2>10. hand'[h] # NoCallback =>
           /\ Rank(last'[h][hand'[h].run]) <= Rank(hand'[h].event)
           /\ Rank(hand'[h].event) <= Level(hand[h].run)'
    BY <1>1, <2>6 DEF InOrder
  <2>11. ASSUME NEW i \in 1 .. Len(lane'[h])
         PROVE  /\ Rank(last'[h][lane'[h][i].run]) <= Rank(lane'[h][i].event)
                /\ Rank(lane'[h][i].event) <= Level(lane[h][i].run)'
                /\ hand'[h] # NoCallback /\ hand'[h].run = lane'[h][i].run =>
                     Rank(hand'[h].event) <= Rank(lane'[h][i].event)
    <3>1. CASE i \in 1 .. Len(lane[h])
      BY <1>1, <2>2, <2>5, <3>1 DEF InOrder
    <3>2. CASE i = Len(lane[h]) + 1
      BY <1>1, <2>2, <2>4, <2>6, <2>7, <3>2, Ranks, Levels DEF InOrder
    <3> QED
      BY <2>8, <3>1, <3>2
  <2>12. ASSUME NEW i \in 1 .. Len(lane'[h]), NEW k \in 1 .. Len(lane'[h]),
                i < k, lane'[h][i].run = lane'[h][k].run
         PROVE  Rank(lane'[h][i].event) <= Rank(lane'[h][k].event)
    <3>1. i \in 1 .. Len(lane[h]) /\ lane'[h][i] = lane[h][i]
      BY <2>2, <2>8, <2>12
    <3>2. CASE k \in 1 .. Len(lane[h])
      BY <2>2, <2>12, <3>1, <3>2 DEF InOrder
    <3>3. CASE k = Len(lane[h]) + 1
      BY <2>2, <2>4, <2>7, <2>12, <3>1, <3>3 DEF InOrder
    <3> QED
      BY <2>8, <3>2, <3>3
  <2> QED
    BY <2>9, <2>10, <2>11, <2>12 DEF InOrder
<1> QED
  BY <1>2, <1>3

LEMMA OrderNext ==
  ASSUME TypeOK, FlowInv, OrderInv, [Next]_vars PROVE OrderInv'
<1> SUFFICES ASSUME NEW g \in Hooks PROVE InOrder(g)'
  BY DEF OrderInv
<1>0. InOrder(g) /\ \A r \in Runs : Level(r) <= Level(r)'
  BY LevelGrows DEF OrderInv
<1>1. ASSUME lane'[g] = lane[g], last'[g] = last[g], hand'[g] \in {hand[g], NoCallback}
      PROVE  InOrder(g)'
  BY <1>0, <1>1, OrderKept
<1>2. ASSUME NEW r \in Runs, NEW role \in Roles, CallStep(r, role) PROVE InOrder(g)'
  <2>1. CASE \E h \in Hooks : Throttled(r, role, h) \/ Refused(r, role, h) \/ FindLane(r, role, h)
    BY <1>1, <2>1 DEF Throttled, Refused, FindLane, laneVars
  <2> QED
    BY <1>0, <1>2, <2>1, OrderSend DEF CallStep
<1>3. ASSUME NEW h \in Hooks, WorkerStep(h) \/ WindowEnds(h) \/ EditHook(h) PROVE InOrder(g)'
  <2>1. CASE g # h
    BY <1>1, <1>3, <2>1 DEF WorkerStep, Take, Leave, Delivered, Attempt, Rejected, BackoffStopped,
                            WindowEnds, EditHook, Land, Fail, Drop, laneVars, TypeOK
  <2>2. CASE g = h /\ Take(h)
    BY <1>0, <2>2, OrderTake
  <2>3. CASE g = h /\ (Leave(h) \/ WindowEnds(h) \/ EditHook(h))
    BY <1>1, <2>3 DEF Leave, WindowEnds, EditHook, laneVars
  <2>4. CASE g = h /\ (Delivered(h) \/ Attempt(h) \/ Rejected(h) \/ BackoffStopped(h))
    <3>1. UNCHANGED <<lane, place>> /\ hand[g] # NoCallback /\ hand'[g] \in {hand[g], NoCallback}
      BY <2>4 DEF Delivered, Attempt, Rejected, BackoffStopped, Fail, Drop, runVars, TypeOK
    <3>2. Land(g) \/ UNCHANGED last
      BY <2>4 DEF Delivered, Attempt, Rejected, BackoffStopped
    <3> QED
      BY <1>0, <1>1, <3>1, <3>2, OrderLand
  <2> QED
    BY <1>3, <2>1, <2>2, <2>3, <2>4 DEF WorkerStep
<1>4. ASSUME NEW r \in Runs,
             RunStep(r) \/ FlusherStep(r) \/ StartRun(r) \/ Cancel(r) \/ Prompt(r)
      PROVE  UNCHANGED <<lane, hand, last>>
  BY <1>4 DEF RunStep, FlusherStep, StartRun, Cancel, Prompt, NotifyStarted, EndEarly,
              StartFlusher, StopFlusher, AbandonPreview, NotifyOutcome, Forget, Tick,
              FlusherExits, laneVars
<1>5. CASE CloseRuns \/ Stop \/ StopReturns \/ StopTimesOut \/ UNCHANGED vars
  BY <1>1, <1>5 DEF CloseRuns, Stop, StopReturns, StopTimesOut, vars, laneVars
<1> QED
  BY <1>1, <1>2, <1>3, <1>4, <1>5 DEF Next

-----------------------------------------------------------------------------
(* The theorems                                                            *)

LEMMA Invariance == Spec => []IInv
<1>1. Init => IInv
  BY InitTypes, FlowInit, WorkersInit, OrderInit DEF IInv, ForgottenStays, Init
<1>2. IInv /\ [Next]_vars => IInv'
  BY NextTypes, FlowNext, WorkersNext, KeysNext, OrderNext DEF IInv
<1> QED
  BY <1>1, <1>2, PTL DEF Spec

(* Forget is called once the flusher has been joined and Notify returned:  *)
(* a run that announced its end leaves no throttle key, and none comes     *)
(* back, however its last ticks and its deliveries interleave with it      *)
(* (execute's stopFlusher and Forget, progressDue).                        *)
THEOREM KeysAreForgotten == Spec => []ForgottenStays
BY Invariance, PTL DEF IInv

(* When Stop returns after the runs have ended, no lane still holds an     *)
(* accepted callback and no worker is delivering one, whatever the sends   *)
(* made outside the lock did (enqueue, worker, Stop, main's order of       *)
(* shutdown).                                                              *)
THEOREM DrainIsComplete == Spec => []DrainLosesNothing
<1>1. IInv => DrainLosesNothing
  <2> SUFFICES ASSUME IInv, life = "drained", clean, NEW h \in Hooks
               PROVE  lane[h] = <<>> /\ hand[h] = NoCallback
    BY DEF DrainLosesNothing
  <2>1. worker[h] \in {"none", "exited"}
    BY DEF IInv, TypeOK, WorkersInv
  <2> QED
    BY <2>1 DEF IInv, WorkersInv
<1> QED
  BY <1>1, Invariance, PTL

(* A receiver never hears of a run something that is behind what it has    *)
(* heard already: every callback enters its lane in the order the run      *)
(* announced it, and retries and attempts that landed after all do not     *)
(* change the order (Notify, enqueue, worker, deliver).                    *)
THEOREM CallbacksInOrder == Spec => LandsInOrder
<1>1. IInv /\ [Next]_vars =>
        [\A h \in Hooks, r \in Runs : Rank(last[h][r]) <= Rank(last'[h][r])]_vars
  <2> SUFFICES ASSUME IInv, Next, NEW g \in Hooks, NEW r \in Runs
               PROVE  Rank(last[g][r]) <= Rank(last'[g][r])
    OBVIOUS
  <2>1. CASE last' = last
    BY <2>1, Ranks
  <2>2. ASSUME NEW h \in Hooks, Land(h), hand[h] # NoCallback
        PROVE  Rank(last[g][r]) <= Rank(last'[g][r])
    <3>1. CASE g = h /\ r = hand[h].run
      <4>1. last'[g][r] = hand[g].event
        BY <2>2, <3>1 DEF Land, IInv, TypeOK
      <4>2. Rank(last[g][r]) <= Rank(hand[g].event)
        BY <2>2, <3>1 DEF IInv, OrderInv, InOrder
      <4> QED
        BY <4>1, <4>2
    <3>2. CASE ~(g = h /\ r = hand[h].run)
      <4>1. last'[g][r] = last[g][r]
        BY <2>2, <3>2 DEF Land, IInv, TypeOK
      <4> QED
        BY <4>1, Ranks
    <3> QED
      BY <3>1, <3>2
  <2>3. ASSUME NEW q \in Runs, NEW role \in Roles, CallStep(q, role) PROVE last' = last
    BY <2>3 DEF CallStep, Throttled, Refused, FindLane, Send
  <2>4. ASSUME NEW h \in Hooks, WorkerStep(h) \/ WindowEnds(h) \/ EditHook(h)
        PROVE  last' = last \/ (Land(h) /\ hand[h] # NoCallback)
    BY <2>4 DEF WorkerStep, Take, Leave, Delivered, Attempt, Rejected, BackoffStopped,
                WindowEnds, EditHook
  <2>5. ASSUME NEW q \in Runs,
               RunStep(q) \/ FlusherStep(q) \/ StartRun(q) \/ Cancel(q) \/ Prompt(q)
        PROVE  last' = last
    BY <2>5 DEF RunStep, FlusherStep, StartRun, Cancel, Prompt, NotifyStarted, EndEarly,
                StartFlusher, StopFlusher, AbandonPreview, NotifyOutcome, Forget, Tick,
                FlusherExits
  <2>6. CASE CloseRuns \/ Stop \/ StopReturns \/ StopTimesOut
    BY <2>1, <2>6 DEF CloseRuns, Stop, StopReturns, StopTimesOut
  <2> QED
    BY <2>1, <2>2, <2>3, <2>4, <2>5, <2>6 DEF Next
<1> QED
  BY <1>1, Invariance, PTL DEF Spec, LandsInOrder
=============================================================================
