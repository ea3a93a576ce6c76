------------------------------ MODULE Notifier ------------------------------
(***************************************************************************)
(* Outbound callbacks: internal/notify/notify.go, fed by the run goroutine *)
(* and the progress flusher of internal/runner/runner.go and by the        *)
(* webhook rows of internal/store/webhooks.go.  Every webhook has a lane,  *)
(* a bounded queue with a worker of its own; Notify drops what a lane has  *)
(* no room for, never waits, and sends after it let go of the lock it      *)
(* found the lane under.  Shutdown stops the runs first and drains the     *)
(* lanes last (cmd/cn4m-cascade/main.go).                                  *)
(*                                                                         *)
(* A request lands at its receiver before the client gives up on it or     *)
(* never.  What a payload says and the warning a failed JSON callback      *)
(* leaves in the run's log are not modelled.                               *)
(***************************************************************************)
EXTENDS Naturals, Sequences

CONSTANTS
  Hooks,        \* webhook ids
  BestEffort,   \* the cn4m and Discord ones among them
  Rows,         \* the settings a webhook's row may hold
  Runs,         \* run ids
  QueueDepth,   \* queueDepth
  MaxAttempts,  \* maxAttempts
  MaxTicks,     \* bound: progress ticks and prompts of one run
  MaxEdits,     \* bound: edits and deletions of webhooks
  StoreFaults   \* whether WebhooksFor may fail

Events == {"started", "progress", "prompt", "outcome"}
Roles  == {"main", "flusher"}
None   == "none"

ASSUME NotifierAssumption ==
  /\ BestEffort \subseteq Hooks /\ None \notin Hooks
  /\ Rows \subseteq [on : BOOLEAN, events : SUBSET Events]
  /\ QueueDepth \in Nat \ {0} /\ MaxAttempts \in Nat \ {0}
  /\ MaxTicks \in Nat /\ MaxEdits \in Nat /\ StoreFaults \in BOOLEAN

VARIABLES
  row,        \* the webhooks table
  edits,
  lane,       \* Notifier.lanes: the callbacks queued for each webhook
  worker,     \* the lane's goroutine: none, running, exited
  hand,       \* the callback it is delivering
  tries,      \* how many attempts it has made
  shunned,    \* Notifier.down: the webhooks inside their retry window
  keys,       \* the keys of Notifier.lastProgress
  call,       \* where each run's Notify calls are
  place,      \* where each run is
  flusher,    \* whether its flusher goroutine lives
  ticks,
  cancelled,  \* the runs whose context is cancelled
  life,       \* main(): up, closing, stopping, drained or timedout
  clean,      \* Runner.Shutdown returned before its deadline
  last,       \* what each receiver heard last of each run (history)
  unheard,    \* outcomes that were not sent, or given up (history)
  silent      \* the runs that ended without announcing it (history)

hookVars == <<row, edits>>
laneVars == <<lane, worker, hand, tries, shunned>>
runVars  == <<place, flusher, ticks, cancelled, silent>>
mainVars == <<life, clean>>
vars == <<hookVars, laneVars, runVars, mainVars, keys, call, last, unheard>>

Callback == [event : Events, run : Runs]
NoCallback == [event |-> None, run |-> None]
Idle == [todo |-> {}, hook |-> None]
Call == [todo : SUBSET Hooks, hook : Hooks \cup {None}]

Init ==
  /\ row \in [Hooks -> Rows] /\ edits = 0
  /\ lane = [h \in Hooks |-> <<>>]
  /\ worker = [h \in Hooks |-> "none"]
  /\ hand = [h \in Hooks |-> NoCallback]
  /\ tries = [h \in Hooks |-> 0]
  /\ shunned = {} /\ keys = {}
  /\ call = [r \in Runs |-> [role \in Roles |-> Idle]]
  /\ place = [r \in Runs |-> "new"]
  /\ flusher = {} /\ cancelled = {} /\ silent = {}
  /\ ticks = [r \in Runs |-> 0]
  /\ life = "up" /\ clean = TRUE
  /\ last = [h \in Hooks |-> [r \in Runs |-> None]]
  /\ unheard = {}

Alive   == life \notin {"drained", "timedout"}
Stopped == life \notin {"up", "closing"}

-----------------------------------------------------------------------------
(* Notify                                                                  *)

(* An empty list of events means every event.                              *)
Subscribes(w, event) == w.on /\ (w.events = {} \/ event \in w.events)

(* WebhooksFor and Subscribes: the hooks this call will go through.  The   *)
(* query fails with a cancelled context or a store error.                  *)
Targets(event, broken) ==
  IF broken THEN {} ELSE { h \in Hooks : Subscribes(row[h], event) }

Begin(r, role, event, broken) ==
  /\ call' = [call EXCEPT ![r][role] =
                [todo |-> Targets(event, broken), hook |-> None]]
  /\ unheard' = IF event = "outcome"
                THEN unheard \cup ((Hooks \ Targets(event, broken)) \X {r})
                ELSE unheard

Broken == IF StoreFaults THEN BOOLEAN ELSE {FALSE}

Returned(r, role) == call[r][role].todo = {} /\ call[r][role].hook = None

(* What a call announces follows from who makes it and where the run is.   *)
EventOf(r, role) ==
  IF role = "flusher" THEN "progress"
  ELSE IF place[r] = "starting" THEN "started"
  ELSE IF place[r] = "announcing" THEN "outcome" ELSE "prompt"

Unsent(event, h, r) == IF event = "outcome" THEN unheard \cup {<<h, r>>} ELSE unheard

NextHook(r, role, h) == Alive /\ h \in call[r][role].todo /\ call[r][role].hook = None

(* progressDue: inside the hook's interval a progress event is passed      *)
(* over; otherwise its time is noted, whatever becomes of it.              *)
Throttled(r, role, h) ==
  /\ NextHook(r, role, h)
  /\ EventOf(r, role) = "progress" /\ <<h, r>> \in keys
  /\ call' = [call EXCEPT ![r][role].todo = @ \ {h}]
  /\ UNCHANGED <<hookVars, laneVars, runVars, mainVars, keys, last, unheard>>

NoteProgress(event, h, r) ==
  keys' = IF event = "progress" THEN keys \cup {<<h, r>>} ELSE keys

BackedOff(h) == h \in BestEffort /\ h \in shunned

(* backedOff, and enqueue's answer once the notifier was stopped.          *)
Refused(r, role, h) ==
  /\ NextHook(r, role, h) /\ (BackedOff(h) \/ Stopped)
  /\ NoteProgress(EventOf(r, role), h, r)
  /\ call' = [call EXCEPT ![r][role].todo = @ \ {h}]
  /\ unheard' = Unsent(EventOf(r, role), h, r)
  /\ UNCHANGED <<hookVars, laneVars, runVars, mainVars, last>>

(* The part of enqueue under the lock: the lane, made on first use.        *)
FindLane(r, role, h) ==
  /\ NextHook(r, role, h) /\ ~BackedOff(h) /\ ~Stopped
  /\ NoteProgress(EventOf(r, role), h, r)
  /\ worker' = [worker EXCEPT ![h] = IF @ = "none" THEN "running" ELSE @]
  /\ call' = [call EXCEPT ![r][role] = [todo |-> @.todo \ {h}, hook |-> h]]
  /\ UNCHANGED <<hookVars, lane, hand, tries, shunned, runVars, mainVars, last, unheard>>

(* enqueue's send, after the unlock: a full lane drops the callback.       *)
Send(r, role) ==
  LET h == call[r][role].hook
  IN /\ Alive /\ h # None
     /\ IF Len(lane[h]) < QueueDepth
        THEN /\ lane' = [lane EXCEPT ![h] = Append(@, [event |-> EventOf(r, role), run |-> r])]
             /\ UNCHANGED unheard
        ELSE unheard' = Unsent(EventOf(r, role), h, r) /\ UNCHANGED lane
     /\ call' = [call EXCEPT ![r][role].hook = None]
     /\ UNCHANGED <<hookVars, worker, hand, tries, shunned, runVars, mainVars, keys, last>>

-----------------------------------------------------------------------------
(* The lane's worker                                                       *)

Take(h) ==
  /\ Alive /\ worker[h] = "running" /\ hand[h] = NoCallback /\ lane[h] # <<>>
  /\ hand' = [hand EXCEPT ![h] = Head(lane[h])]
  /\ lane' = [lane EXCEPT ![h] = Tail(@)]
  /\ UNCHANGED <<hookVars, worker, tries, shunned, runVars, mainVars, keys, call, last, unheard>>

(* Once told to stop, the worker leaves with an empty lane only.           *)
LeavesAtOnce(h) == Stopped
LeavesNever(h)  == FALSE
MayLeave(h)     == Stopped /\ lane[h] = <<>>

Leave(h) ==
  /\ Alive /\ worker[h] = "running" /\ hand[h] = NoCallback /\ MayLeave(h)
  /\ worker' = [worker EXCEPT ![h] = "exited"]
  /\ UNCHANGED <<hookVars, lane, hand, tries, shunned, runVars, mainVars, keys, call, last, unheard>>

Land(h) == last' = [last EXCEPT ![h][hand[h].run] = hand[h].event]
Drop(h) == hand' = [hand EXCEPT ![h] = NoCallback] /\ tries' = [tries EXCEPT ![h] = 0]

(* A 2xx answer; noteOutcome ends the outage.                              *)
Delivered(h) ==
  /\ Alive /\ hand[h] # NoCallback
  /\ Land(h) /\ Drop(h)
  /\ shunned' = shunned \ {h}
  /\ UNCHANGED <<hookVars, lane, worker, runVars, mainVars, keys, call, unheard>>

(* The attempts are used up, or a 4xx says that another is no use.         *)
Fail(h) ==
  /\ Drop(h)
  /\ shunned' = IF h \in BestEffort THEN shunned \cup {h} ELSE shunned
  /\ unheard' = Unsent(hand[h].event, h, hand[h].run)

Attempt(h) ==
  /\ Alive /\ hand[h] # NoCallback
  /\ Land(h) \/ UNCHANGED last
  /\ IF tries[h] + 1 < MaxAttempts
     THEN tries' = [tries EXCEPT ![h] = @ + 1] /\ UNCHANGED <<hand, shunned, unheard>>
     ELSE Fail(h)
  /\ UNCHANGED <<hookVars, lane, worker, runVars, mainVars, keys, call>>

Rejected(h) ==
  /\ Alive /\ hand[h] # NoCallback
  /\ Fail(h)
  /\ UNCHANGED <<hookVars, lane, worker, runVars, mainVars, keys, call, last>>

(* A stop during the wait before a retry gives the callback up.            *)
BackoffStopped(h) ==
  /\ Alive /\ hand[h] # NoCallback /\ tries[h] > 0 /\ Stopped
  /\ Drop(h)
  /\ unheard' = Unsent(hand[h].event, h, hand[h].run)
  /\ UNCHANGED <<hookVars, lane, worker, shunned, runVars, mainVars, keys, call, last>>

WindowEnds(h) ==
  /\ Alive /\ h \in shunned
  /\ shunned' = shunned \ {h}
  /\ UNCHANGED <<hookVars, lane, worker, hand, tries, runVars, mainVars, keys, call, last, unheard>>

-----------------------------------------------------------------------------
(* The webhook handlers: create, update and delete, one statement each.  A *)
(* webhook that is not there sends as little as one that is off.           *)

SaveWebhook(h, w) == row' = [row EXCEPT ![h] = w]

EditHook(h) ==
  /\ Alive /\ edits < MaxEdits
  /\ \E w \in Rows \ {row[h]} : SaveWebhook(h, w)
  /\ edits' = edits + 1
  /\ UNCHANGED <<laneVars, runVars, mainVars, keys, call, last, unheard>>

-----------------------------------------------------------------------------
(* The runs                                                                *)

(* The goroutine's own deferred cancel().                                  *)
Ends(r) == cancelled' = cancelled \cup {r}

Move(r, from, to) == Alive /\ place[r] = from /\ place' = [place EXCEPT ![r] = to]

StartRun(r) ==
  /\ life = "up" /\ Move(r, "new", "launched")
  /\ UNCHANGED <<hookVars, laneVars, flusher, ticks, cancelled, silent, mainVars,
                 keys, call, last, unheard>>

Cancel(r) ==
  /\ Alive /\ place[r] \notin {"new", "over"} /\ r \notin cancelled
  /\ cancelled' = cancelled \cup {r}
  /\ UNCHANGED <<hookVars, laneVars, place, flusher, ticks, silent, mainVars,
                 keys, call, last, unheard>>

(* run_started goes out under the run's own context.                       *)
NotifyStarted(r) ==
  /\ Move(r, "launched", "starting")
  /\ \E b \in Broken : Begin(r, "main", "started", b \/ r \in cancelled)
  /\ UNCHANGED <<hookVars, laneVars, flusher, ticks, cancelled, silent, mainVars, keys, last>>

(* failRun and cancelRun before the destinations: execute just returns.    *)
EndEarly(r) ==
  /\ Returned(r, "main") /\ Move(r, "starting", "over")
  /\ silent' = silent \cup {r} /\ Ends(r)
  /\ UNCHANGED <<hookVars, laneVars, flusher, ticks, mainVars, keys, call, last, unheard>>

StartFlusher(r) ==
  /\ Returned(r, "main") /\ Move(r, "starting", "working")
  /\ flusher' = flusher \cup {r}
  /\ UNCHANGED <<hookVars, laneVars, ticks, cancelled, silent, mainVars, keys, call, last, unheard>>

(* The flusher's ticker races with its stop channel: it may tick once more.*)
Tick(r) ==
  /\ Alive /\ r \in flusher /\ Returned(r, "flusher") /\ ticks[r] < MaxTicks
  /\ ticks' = [ticks EXCEPT ![r] = @ + 1]
  /\ \E b \in Broken : Begin(r, "flusher", "progress", b)
  /\ UNCHANGED <<hookVars, laneVars, place, flusher, cancelled, silent, mainVars, keys, last>>

(* Parallel destinations' prompts are taken one after the other here.      *)
Prompt(r) ==
  /\ Alive /\ place[r] = "working" /\ Returned(r, "main") /\ ticks[r] < MaxTicks
  /\ ticks' = [ticks EXCEPT ![r] = @ + 1]
  /\ \E b \in Broken : Begin(r, "main", "prompt", b)
  /\ UNCHANGED <<hookVars, laneVars, place, flusher, cancelled, silent, mainVars, keys, last>>

(* stopFlusher closes the flusher's channel, at the end of the work or of  *)
(* a preview nobody confirmed, and waits for the goroutine.                *)
StopFlusher(r) ==
  /\ Returned(r, "main")
  /\ \E to \in {"joining", "abandoning"} : Move(r, "working", to)
  /\ UNCHANGED <<hookVars, laneVars, flusher, ticks, cancelled, silent, mainVars,
                 keys, call, last, unheard>>

FlusherExits(r) ==
  /\ Alive /\ r \in flusher /\ place[r] # "working" /\ Returned(r, "flusher")
  /\ flusher' = flusher \ {r}
  /\ UNCHANGED <<hookVars, laneVars, place, ticks, cancelled, silent, mainVars,
                 keys, call, last, unheard>>

NotJoined(r) == TRUE
Joined(r)    == r \notin flusher

(* cancelRun and abandonPreview of a preview: no callback, no Forget.      *)
AbandonPreview(r) ==
  /\ Joined(r) /\ Move(r, "abandoning", "over")
  /\ silent' = silent \cup {r} /\ Ends(r)
  /\ UNCHANGED <<hookVars, laneVars, flusher, ticks, mainVars, keys, call, last, unheard>>

(* A cancelled run announces its end as any other run does.                *)
AnnouncesUncancelled(r) == r \notin cancelled
Announces(r)            == TRUE

NotifyOutcome(r) ==
  /\ Joined(r) /\ Move(r, "joining", "announcing")
  /\ IF Announces(r) THEN \E b \in Broken : Begin(r, "main", "outcome", b)
     ELSE UNCHANGED <<call, unheard>>
  /\ UNCHANGED <<hookVars, laneVars, flusher, ticks, cancelled, silent, mainVars, keys, last>>

Forget(r) ==
  /\ Returned(r, "main") /\ Move(r, "announcing", "over")
  /\ keys' = { k \in keys : k[2] # r } /\ Ends(r)
  /\ UNCHANGED <<hookVars, laneVars, flusher, ticks, silent, mainVars,
                 call, last, unheard>>

-----------------------------------------------------------------------------
(* The end of main()                                                       *)

CloseRuns ==
  /\ life = "up" /\ life' = "closing"
  /\ cancelled' = cancelled \cup { r \in Runs : place[r] \notin {"new", "over"} }
  /\ UNCHANGED <<hookVars, laneVars, place, flusher, ticks, silent, clean,
                 keys, call, last, unheard>>

(* Runner.Shutdown returns, its runs over or its deadline passed, and Stop *)
(* marks the notifier and tells the lanes.                                 *)
Stop ==
  /\ life = "closing" /\ life' = "stopping"
  /\ clean' = \A r \in Runs : place[r] \in {"new", "over"}
  /\ UNCHANGED <<hookVars, laneVars, runVars, keys, call, last, unheard>>

StopReturns ==
  /\ life = "stopping" /\ \A h \in Hooks : worker[h] # "running"
  /\ life' = "drained"
  /\ UNCHANGED <<hookVars, laneVars, runVars, clean, keys, call, last, unheard>>

StopTimesOut ==
  /\ life = "stopping" /\ life' = "timedout"
  /\ UNCHANGED <<hookVars, laneVars, runVars, clean, keys, call, last, unheard>>

-----------------------------------------------------------------------------
CallStep(r, role) ==
  \/ \E h \in Hooks : Throttled(r, role, h) \/ Refused(r, role, h) \/ FindLane(r, role, h)
  \/ Send(r, role)

WorkerStep(h) ==
  Take(h) \/ Leave(h) \/ Delivered(h) \/ Attempt(h) \/ Rejected(h) \/ BackoffStopped(h)

RunStep(r) ==
  \/ NotifyStarted(r) \/ EndEarly(r) \/ StartFlusher(r) \/ StopFlusher(r)
  \/ AbandonPreview(r) \/ NotifyOutcome(r) \/ Forget(r)

FlusherStep(r) == Tick(r) \/ FlusherExits(r)

Next ==
  \/ \E r \in Runs, role \in Roles : CallStep(r, role)
  \/ \E h \in Hooks : WorkerStep(h) \/ WindowEnds(h) \/ EditHook(h)
  \/ \E r \in Runs : RunStep(r) \/ FlusherStep(r) \/ StartRun(r) \/ Cancel(r) \/ Prompt(r)
  \/ CloseRuns \/ Stop \/ StopReturns \/ StopTimesOut

Spec == Init /\ [][Next]_vars

(* Goroutines are scheduled, every attempt and every wait before a retry   *)
(* is bounded, and a run's work ends.  Nobody has to cancel, edit or shut  *)
(* down, and no deadline has to pass.                                      *)
Fairness ==
  /\ \A r \in Runs : WF_vars(RunStep(r)) /\ WF_vars(FlusherStep(r))
  /\ \A r \in Runs, role \in Roles : WF_vars(CallStep(r, role))
  /\ \A h \in Hooks : WF_vars(WorkerStep(h))
  /\ WF_vars(StopReturns)

FairSpec == Spec /\ Fairness

-----------------------------------------------------------------------------
(* Properties                                                              *)

TypeOK ==
  /\ row \in [Hooks -> Rows] /\ edits \in 0 .. MaxEdits
  /\ lane \in [Hooks -> Seq(Callback)]
  /\ \A h \in Hooks : Len(lane[h]) <= QueueDepth
  /\ worker \in [Hooks -> {"none", "running", "exited"}]
  /\ hand \in [Hooks -> Callback \cup {NoCallback}]
  /\ tries \in [Hooks -> 0 .. MaxAttempts - 1]
  /\ shunned \subseteq Hooks /\ keys \subseteq Hooks \X Runs
  /\ call \in [Runs -> [Roles -> Call]]
  /\ place \in [Runs -> {"new", "launched", "starting", "working", "joining",
                         "abandoning", "announcing", "over"}]
  /\ flusher \subseteq Runs /\ cancelled \subseteq Runs /\ silent \subseteq Runs
  /\ ticks \in [Runs -> 0 .. MaxTicks]
  /\ life \in {"up", "closing", "stopping", "drained", "timedout"}
  /\ clean \in BOOLEAN
  /\ last \in [Hooks -> [Runs -> Events \cup {None}]]
  /\ unheard \subseteq Hooks \X Runs

Rank(event) == IF event = None THEN 0 ELSE IF event = "started" THEN 1
               ELSE IF event = "outcome" THEN 3 ELSE 2

(* What a receiver hears of a run never goes back: no progress after the   *)
(* run's outcome and no start after either, however the flusher, the run,  *)
(* other runs on the same lane and retries interleave (the lanes' comment: *)
(* a late "97%" would sit on the rail after the sync finished).            *)
LandsInOrder ==
  [][\A h \in Hooks, r \in Runs : Rank(last[h][r]) <= Rank(last'[h][r])]_vars

(* When Stop returns and the runs had ended before it, nothing that was    *)
(* accepted is still waiting: the backlog a shutdown produced is worked    *)
(* off first (worker's drain loop, main's order of shutdown).              *)
DrainLosesNothing ==
  life = "drained" /\ clean =>
    \A h \in Hooks : lane[h] = <<>> /\ hand[h] = NoCallback

(* Once a run is over, no throttle key of it is left or comes back, except *)
(* where execute ended without calling Forget (stopFlusher, Forget).       *)
ForgottenStays ==
  \A r \in Runs : place[r] = "over" /\ r \notin silent =>
    \A h \in Hooks : <<h, r>> \notin keys

(* A run that got to its destinations, cancelled or not, is announced to   *)
(* every webhook: the outcome lands, or was dropped for a reason Notify    *)
(* and deliver know of, or main's own deadline cut the delivery off        *)
(* (step 7 of execute, Notify, worker).                                    *)
CutOff == life = "timedout" \/ (life = "drained" /\ ~clean)
HearsTheEnd ==
  \A h \in Hooks, r \in Runs :
    (place[r] = "over" /\ r \notin silent)
      ~> (last[h][r] = "outcome" \/ <<h, r>> \in unheard \/ CutOff)

(* Stop does not depend on its deadline: dead receivers, retries and runs  *)
(* that are still reporting do not keep the drain open (worker, deliver).  *)
DrainEnds == (life = "stopping") ~> ~Alive

-----------------------------------------------------------------------------
(* What is promised about the end of a run, as an abstract specification.  *)

Outcome(r)   == [event |-> "outcome", run |-> r]
Announced(r) == place[r] \in {"announcing", "over"} /\ r \notin silent

(* A call of Notify still has the run's outcome to place for this webhook, *)
(* or a lane or its worker has it.                                         *)
Owes(h, r) ==
  /\ place[r] = "announcing"
  /\ h \in call[r]["main"].todo \/ call[r]["main"].hook = h
Holds(h, r) ==
  hand[h] = Outcome(r) \/ \E i \in 1 .. Len(lane[h]) : lane[h][i] = Outcome(r)

Box == INSTANCE Outbox WITH
  announced <- { r \in Runs : Announced(r) },
  owed      <- { k \in Hooks \X Runs : Owes(k[1], k[2]) },
  queued    <- { k \in Hooks \X Runs : Holds(k[1], k[2]) },
  told      <- { k \in Hooks \X Runs : last[k[1]][k[2]] = "outcome" },
  dropped   <- unheard

(* However calls, full lanes, outages, retries that landed after all, lost *)
(* answers, edits, cancels and a shutdown interleave, the end of a run is  *)
(* placed with each webhook's lane at most once, leaves it only by being   *)
(* told or given up, and nothing is dropped that no one recorded (Notify,  *)
(* enqueue, worker, deliver).                                              *)
ImplementsOutbox == Box!Spec

-----------------------------------------------------------------------------
(* What a comment promises and execute's early returns break.              *)

(* The cancel path's comment: a path that returned without a callback left *)
(* "anything told "started" waiting for a completion that never came".     *)
StartedIsConcluded ==
  \A r \in Runs : place[r] = "over" /\ r \in silent =>
    \A h \in Hooks : last[h][r] = None
=============================================================================
