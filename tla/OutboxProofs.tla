---------------------------- MODULE OutboxProofs ----------------------------
(***************************************************************************)
(* Notifier implements Outbox: for every set of webhooks and runs, any     *)
(* queue depth and any number of attempts, what becomes of a run's outcome *)
(* is one of Outbox's steps or changes nothing, and no outcome is ever     *)
(* lost without a trace.                                                   *)
(***************************************************************************)
EXTENDS NotifierProofs

(* A call has a webhook in hand only once it is off its list, and only a   *)
(* run that is over ended without a word.                                  *)
CallsInv ==
  /\ \A r \in Runs : call[r]["main"].hook \notin call[r]["main"].todo
  /\ \A r \in silent : place[r] = "over"

(* The outcome of a run is in one place only.                              *)
Once(h, r) ==
  /\ Owes(h, r) => ~Holds(h, r)
  /\ hand[h] = Outcome(r) => \A i \in 1 .. Len(lane[h]) : lane[h][i] # Outcome(r)
  /\ \A i, k \in 1 .. Len(lane[h]) :
       lane[h][i] = Outcome(r) /\ lane[h][k] = Outcome(r) => i = k

(* No outcome is lost without a trace: once a run has announced its end,   *)
(* every webhook's copy is still to be placed, waiting in its lane or with *)
(* its worker, heard, or on record as dropped.                             *)
Accounted(h, r) ==
  Owes(h, r) \/ Holds(h, r) \/ last[h][r] = "outcome" \/ <<h, r>> \in unheard
NoOutcomeLost == \A h \in Hooks, r \in Runs : Announced(r) => Accounted(h, r)

OutcomeInv ==
  /\ CallsInv /\ NoOutcomeLost
  /\ \A h \in Hooks, r \in Runs : Once(h, r)

-----------------------------------------------------------------------------
(* What a step does to one outcome.  A step that is not about it leaves    *)
(* all there is to say about it as it was.                                 *)

Unmoved(h, r) ==
  /\ Owes(h, r)' <=> Owes(h, r)
  /\ Holds(h, r)' <=> Holds(h, r)
  /\ last'[h][r] = "outcome" <=> last[h][r] = "outcome"
  /\ <<h, r>> \in unheard' <=> <<h, r>> \in unheard
  /\ Announced(r)' <=> Announced(r)
NoneAnnounced == \A r \in Runs : Announced(r)' <=> Announced(r)
AllUnmoved == NoneAnnounced /\ \A h \in Hooks, r \in Runs : Unmoved(h, r)
OthersUnmoved(h, r) ==
  NoneAnnounced /\ \A g \in Hooks, s \in Runs : g # h \/ s # r => Unmoved(g, s)

(* The steps of Outbox, for one outcome.                                   *)
Placed(h, r) ==
  /\ Owes(h, r) /\ ~Owes(h, r)' /\ Holds(h, r)'
  /\ last'[h][r] = "outcome" <=> last[h][r] = "outcome"
  /\ <<h, r>> \in unheard' <=> <<h, r>> \in unheard
  /\ Announced(r)' <=> Announced(r)
Passed(h, r) ==
  /\ Owes(h, r) /\ ~Owes(h, r)' /\ <<h, r>> \in unheard'
  /\ Holds(h, r)' <=> Holds(h, r)
  /\ last'[h][r] = "outcome" <=> last[h][r] = "outcome"
  /\ Announced(r)' <=> Announced(r)
Landed(h, r) ==
  /\ Holds(h, r) /\ last'[h][r] = "outcome"
  /\ \/ Holds(h, r)' /\ (<<h, r>> \in unheard' <=> <<h, r>> \in unheard)
     \/ ~Holds(h, r)' /\ (<<h, r>> \in unheard' <=> <<h, r>> \in unheard)
     \/ ~Holds(h, r)' /\ <<h, r>> \in unheard'
  /\ Owes(h, r)' <=> Owes(h, r)
  /\ Announced(r)' <=> Announced(r)
Lapsed(h, r) ==
  /\ Holds(h, r) /\ ~Holds(h, r)' /\ <<h, r>> \in unheard'
  /\ Owes(h, r)' <=> Owes(h, r)
  /\ last'[h][r] = "outcome" <=> last[h][r] = "outcome"
  /\ Announced(r)' <=> Announced(r)
Moved(h, r) == Placed(h, r) \/ Passed(h, r) \/ Landed(h, r) \/ Lapsed(h, r)

(* The run r announces its end to targets.                                 *)
Opened(r, targets) ==
  /\ ~Announced(r) /\ Announced(r)'
  /\ \A h \in Hooks :
       /\ Owes(h, r)' <=> (h \in targets \/ Owes(h, r))
       /\ <<h, r>> \in unheard' <=> (h \notin targets \/ <<h, r>> \in unheard)
       /\ Holds(h, r)' <=> Holds(h, r)
       /\ last'[h][r] = "outcome" <=> last[h][r] = "outcome"
       /\ ~Holds(h, r)
  /\ \A s \in Runs \ {r} : Announced(s)' <=> Announced(s)
  /\ \A g \in Hooks, s \in Runs \ {r} : Unmoved(g, s)

Step ==
  \/ AllUnmoved
  \/ \E h \in Hooks, r \in Runs : Moved(h, r) /\ OthersUnmoved(h, r)
  \/ \E r \in Runs, targets \in SUBSET Hooks : Opened(r, targets)

LEMMA OutcomeEvents ==
  ASSUME NEW r \in Runs, NEW role \in Roles
  PROVE  EventOf(r, role) = "outcome" <=> role = "main" /\ place[r] = "announcing"
BY DEF EventOf, Roles

LEMMA OwesKept ==
  ASSUME place' = place, NEW r \in Runs, NEW h \in Hooks,
         place[r] = "announcing" => call'[r]["main"] = call[r]["main"]
  PROVE  Owes(h, r)' <=> Owes(h, r)
BY DEF Owes

LEMMA HoldsKept ==
  ASSUME NEW h \in Hooks, NEW r \in Runs, lane'[h] = lane[h], hand'[h] = hand[h]
  PROVE  Holds(h, r)' <=> Holds(h, r)
BY DEF Holds, Outcome

(* The steps of a call before its send.                                    *)
LEMMA CallMoves ==
  ASSUME TypeOK, NEW r \in Runs, NEW role \in Roles, NEW h \in Hooks,
         Throttled(r, role, h) \/ Refused(r, role, h) \/ FindLane(r, role, h)
  PROVE  Step
<1>0. /\ UNCHANGED <<place, silent, lane, hand, last>>
      /\ call[r][role].hook = None /\ h \in call[r][role].todo
  BY DEF Throttled, Refused, FindLane, NextHook, laneVars, runVars
<1>1. \A s \in Runs : Announced(s)' <=> Announced(s)
  BY <1>0 DEF Announced
<1>2. \A g \in Hooks, s \in Runs : Holds(g, s)' <=> Holds(g, s)
  BY <1>0, HoldsKept
<1>3. \A s \in Runs, o \in Roles : s # r \/ o # role => call'[s][o] = call[s][o]
  BY OtherCalls DEF CallStep
<1>4. CASE EventOf(r, role) # "outcome"
  <2>1. role # "main" \/ place[r] # "announcing"
    BY <1>4, OutcomeEvents
  <2>2. \A g \in Hooks, s \in Runs : Owes(g, s)' <=> Owes(g, s)
    BY <1>0, <1>3, <2>1, OwesKept DEF Roles
  <2>3. unheard' = unheard
    BY <1>4 DEF Throttled, Refused, FindLane, Unsent
  <2> QED
    BY <1>0, <1>1, <1>2, <2>2, <2>3 DEF Step, AllUnmoved, Unmoved, NoneAnnounced
<1>5. CASE EventOf(r, role) = "outcome"
  <2>0. role = "main" /\ place[r] = "announcing"
    BY <1>5, OutcomeEvents
  <2>1. \A g \in Hooks, s \in Runs : s # r => (Owes(g, s)' <=> Owes(g, s))
    BY <1>0, <1>3, OwesKept DEF Roles
  <2>2. CASE FindLane(r, role, h)
    <3>1. call'[r]["main"].todo = call[r]["main"].todo \ {h} /\ call'[r]["main"].hook = h
      BY <2>0, <2>2 DEF FindLane, TypeOK
    <3>2. \A g \in Hooks : Owes(g, r)' <=> Owes(g, r)
      BY <1>0, <2>0, <3>1, NotifierAssumption DEF Owes
    <3>3. unheard' = unheard
      BY <2>2 DEF FindLane
    <3> QED
      BY <1>0, <1>1, <1>2, <2>1, <3>2, <3>3 DEF Step, AllUnmoved, Unmoved, NoneAnnounced
  <2>3. CASE Refused(r, role, h)
    <3>1. call'[r]["main"].todo = call[r]["main"].todo \ {h} /\ call'[r]["main"].hook = None
      BY <1>0, <2>0, <2>3 DEF Refused, TypeOK, Call
    <3>2. Owes(h, r) /\ ~Owes(h, r)' /\ \A g \in Hooks \ {h} : Owes(g, r)' <=> Owes(g, r)
      BY <1>0, <2>0, <3>1, NotifierAssumption DEF Owes
    <3>3. unheard' = unheard \cup {<<h, r>>}
      BY <1>5, <2>3 DEF Refused, Unsent
    <3>4. Passed(h, r)
      BY <1>0, <1>1, <1>2, <3>2, <3>3 DEF Passed
    <3>5. OthersUnmoved(h, r)
      BY <1>0, <1>1, <1>2, <2>1, <3>2, <3>3 DEF OthersUnmoved, Unmoved, NoneAnnounced
    <3> QED
      BY <3>4, <3>5 DEF Step, Moved
  <2>4. CASE Throttled(r, role, h)
    BY <1>5, <2>4 DEF Throttled
  <2> QED
    BY <2>2, <2>3, <2>4
<1> QED
  BY <1>4, <1>5

(* A send: the lane takes the outcome, or has no room for it.              *)
LEMMA SendMoves ==
  ASSUME TypeOK, CallsInv, NEW r \in Runs, NEW role \in Roles, Send(r, role)
  PROVE  Step
<1>a. call[r][role].hook \in Hooks
  BY DEF Send, TypeOK, Call
<1>b. PICK h \in Hooks : h = call[r][role].hook
  BY <1>a
<1> DEFINE c == [event |-> EventOf(r, role), run |-> r]
<1>0. UNCHANGED <<place, silent, hand, last>>
  BY DEF Send, runVars
<1>1. \A s \in Runs : Announced(s)' <=> Announced(s)
  BY <1>0 DEF Announced
<1>2. \A s \in Runs, o \in Roles : s # r \/ o # role => call'[s][o] = call[s][o]
  BY OtherCalls DEF CallStep
<1>3. \A g \in Hooks : g # h => lane'[g] = lane[g]
  BY <1>b DEF Send, TypeOK
<1>4. \A g \in Hooks, s \in Runs : g # h => (Holds(g, s)' <=> Holds(g, s))
  BY <1>0, <1>3, HoldsKept
<1>5. CASE EventOf(r, role) # "outcome"
  <2>1. role # "main" \/ place[r] # "announcing"
    BY <1>5, OutcomeEvents
  <2>2. \A g \in Hooks, s \in Runs : Owes(g, s)' <=> Owes(g, s)
    BY <1>0, <1>2, <2>1, OwesKept DEF Roles
  <2>3. unheard' = unheard
    BY <1>5 DEF Send, Unsent
  <2>4. ASSUME NEW s \in Runs PROVE Holds(h, s)' <=> Holds(h, s)
    <3>1. CASE lane'[h] = lane[h]
      BY <1>0, <3>1, HoldsKept
    <3>2. CASE lane'[h] = Append(lane[h], c)
      <4>1. /\ Len(lane'[h]) = Len(lane[h]) + 1 /\ lane'[h][Len(lane[h]) + 1] = c
            /\ \A i \in 1 .. Len(lane[h]) : lane'[h][i] = lane[h][i]
            /\ Len(lane[h]) \in Nat
        BY <1>0, <3>2 DEF TypeOK
      <4>2. c.event # Outcome(s).event
        BY <1>5 DEF Outcome
      <4>3. c # Outcome(s)
        BY <4>2
      <4> HIDE DEF c
      <4>4. \A i \in 1 .. Len(lane'[h]) : i \in 1 .. Len(lane[h]) \/ i = Len(lane[h]) + 1
        BY <4>1
      <4> QED
        BY <1>0, <4>1, <4>3, <4>4 DEF Holds, Outcome
    <3> QED
      BY <1>b, <3>1, <3>2 DEF Send, TypeOK
  <2> QED
    BY <1>0, <1>1, <1>4, <2>2, <2>3, <2>4 DEF Step, AllUnmoved, Unmoved, NoneAnnounced
<1>6. CASE EventOf(r, role) = "outcome"
  <2>0. role = "main" /\ place[r] = "announcing" /\ c = Outcome(r)
    BY <1>6, OutcomeEvents DEF Outcome
  <2>1. call'[r]["main"].todo = call[r]["main"].todo /\ call'[r]["main"].hook = None
    BY <2>0 DEF Send, TypeOK, Call
  <2>2. Owes(h, r) /\ ~Owes(h, r)' /\ \A g \in Hooks \ {h} : Owes(g, r)' <=> Owes(g, r)
    BY <1>b, <1>0, <2>0, <2>1, NotifierAssumption DEF Owes, CallsInv
  <2>3. \A g \in Hooks, s \in Runs : s # r => (Owes(g, s)' <=> Owes(g, s))
    BY <1>0, <1>2, OwesKept DEF Roles
  <2>4. CASE Len(lane[h]) < QueueDepth
    <3>0. lane' = [lane EXCEPT ![h] = Append(@, c)] /\ unheard' = unheard
      BY <1>b, <2>4 DEF Send
    <3>1. /\ Len(lane'[h]) = Len(lane[h]) + 1 /\ lane'[h][Len(lane[h]) + 1] = Outcome(r)
          /\ \A i \in 1 .. Len(lane[h]) : lane'[h][i] = lane[h][i]
          /\ Len(lane[h]) \in Nat
      BY <1>0, <2>0, <3>0 DEF TypeOK
    <3>2. Holds(h, r)'
      BY <3>1 DEF Holds, Outcome
    <3>3. \A s \in Runs : s # r => Outcome(r) # Outcome(s)
      BY DEF Outcome
    <3>4. \A i \in 1 .. Len(lane'[h]) : i \in 1 .. Len(lane[h]) \/ i = Len(lane[h]) + 1
      BY <3>1
    <3>5. \A i \in 1 .. Len(lane[h]) : i \in 1 .. Len(lane'[h])
      BY <3>1
    <3>6. \A s \in Runs : s # r => (Holds(h, s)' <=> Holds(h, s))
      BY <1>0, <3>1, <3>3, <3>4, <3>5 DEF Holds, Outcome
    <3>7. Placed(h, r)
      BY <1>0, <1>1, <2>2, <3>0, <3>2 DEF Placed
    <3>8. OthersUnmoved(h, r)
      BY <1>0, <1>1, <1>4, <2>2, <2>3, <3>0, <3>6 DEF OthersUnmoved, Unmoved, NoneAnnounced
    <3> QED
      BY <1>0, <3>7, <3>8 DEF Step, Moved
  <2>5. CASE ~(Len(lane[h]) < QueueDepth)
    <3>0. lane' = lane /\ unheard' = unheard \cup {<<h, r>>}
      BY <1>b, <1>6, <2>5 DEF Send, Unsent
    <3>1. \A s \in Runs : Holds(h, s)' <=> Holds(h, s)
      BY <1>0, <3>0, HoldsKept
    <3>2. Passed(h, r)
      BY <1>0, <1>1, <2>2, <3>0, <3>1 DEF Passed
    <3>3. OthersUnmoved(h, r)
      BY <1>0, <1>1, <1>4, <2>2, <2>3, <3>0, <3>1 DEF OthersUnmoved, Unmoved, NoneAnnounced
    <3> QED
      BY <1>0, <3>2, <3>3 DEF Step, Moved
  <2> QED
    BY <2>4, <2>5
<1> QED
  BY <1>5, <1>6

(* A worker takes the next callback: it stays held.                        *)
LEMMA TakeMoves ==
  ASSUME TypeOK, NEW h \in Hooks, Take(h)
  PROVE  AllUnmoved
<1>0. lane[h] \in Seq(Callback) /\ lane[h] # <<>> /\ UNCHANGED <<place, silent, last, unheard, call>>
  BY DEF Take, TypeOK, runVars
<1>1. /\ hand'[h] = lane[h][1] /\ hand[h] = NoCallback
      /\ Len(lane'[h]) = Len(lane[h]) - 1 /\ Len(lane[h]) \in Nat \ {0}
      /\ \A i \in 1 .. Len(lane'[h]) : i + 1 \in 1 .. Len(lane[h]) /\ lane'[h][i] = lane[h][i + 1]
  BY <1>0 DEF Take, TypeOK
<1>2. \A g \in Hooks : g # h => lane'[g] = lane[g] /\ hand'[g] = hand[g]
  BY DEF Take, TypeOK
<1>3. ASSUME NEW r \in Runs PROVE Holds(h, r)' <=> Holds(h, r)
  <2>1. ASSUME Holds(h, r)' PROVE Holds(h, r)
    <3>1. CASE hand'[h] = Outcome(r)
      <4>1. 1 \in 1 .. Len(lane[h])
        BY <1>1
      <4> QED
        BY <1>1, <3>1, <4>1 DEF Holds
    <3>2. CASE \E i \in 1 .. Len(lane'[h]) : lane'[h][i] = Outcome(r)
      BY <1>1, <3>2 DEF Holds
    <3> QED
      BY <2>1, <3>1, <3>2 DEF Holds, Outcome
  <2>2. ASSUME Holds(h, r) PROVE Holds(h, r)'
    <3>1. NoCallback # Outcome(r)
      <4>1. NoCallback.event # Outcome(r).event
        BY DEF NoCallback, Outcome, None
      <4> QED
        BY <4>1
    <3>2. PICK i \in 1 .. Len(lane[h]) : lane[h][i] = Outcome(r)
      BY <1>1, <2>2, <3>1 DEF Holds
    <3>3. CASE i = 1
      BY <1>1, <3>2, <3>3 DEF Holds, Outcome
    <3>4. CASE i # 1
      <4>1. i - 1 \in 1 .. Len(lane'[h]) /\ (i - 1) + 1 = i
        BY <1>1, <3>4
      <4>2. lane'[h][i - 1] = lane[h][i]
        BY <1>1, <4>1
      <4> QED
        BY <3>2, <4>1, <4>2 DEF Holds, Outcome
    <3> QED
      BY <3>3, <3>4
  <2> QED
    BY <2>1, <2>2
<1>4. \A g \in Hooks, r \in Runs : Holds(g, r)' <=> Holds(g, r)
  BY <1>2, <1>3, HoldsKept
<1>5. \A g \in Hooks, r \in Runs : Owes(g, r)' <=> Owes(g, r)
  BY <1>0, OwesKept
<1>6. \A r \in Runs : Announced(r)' <=> Announced(r)
  BY <1>0 DEF Announced
<1> QED
  BY <1>0, <1>4, <1>5, <1>6 DEF AllUnmoved, Unmoved, NoneAnnounced

(* A delivery: the outcome in hand lands, is dropped, or both, and once it *)
(* is out of the worker's hand it is nowhere else.                         *)
LEMMA DeliverMoves ==
  ASSUME TypeOK, NEW h \in Hooks, InOrder(h), \A r \in Runs : Once(h, r),
         Delivered(h) \/ Attempt(h) \/ Rejected(h) \/ BackoffStopped(h)
  PROVE  Step
<1>0. hand[h] # NoCallback /\ UNCHANGED <<place, silent, lane, call>>
  BY DEF Delivered, Attempt, Rejected, BackoffStopped, runVars
<1>a. hand[h].run \in Runs /\ hand[h].event \in Events /\ hand[h] \in Callback
  BY <1>0 DEF TypeOK, Callback
<1>b. PICK r \in Runs : r = hand[h].run
  BY <1>a
<1>1. \A g \in Hooks, s \in Runs : Owes(g, s)' <=> Owes(g, s)
  BY <1>0, OwesKept
<1>2. \A s \in Runs : Announced(s)' <=> Announced(s)
  BY <1>0 DEF Announced
<1>3. /\ \A g \in Hooks : g # h => hand'[g] = hand[g]
      /\ hand'[h] \in {hand[h], NoCallback}
  BY DEF Delivered, Attempt, Rejected, BackoffStopped, Fail, Drop, TypeOK
<1>4. \/ last' = last
      \/ /\ last'[h][r] = hand[h].event
         /\ \A g \in Hooks, s \in Runs : g # h \/ s # r => last'[g][s] = last[g][s]
  BY <1>a, <1>b DEF Delivered, Attempt, Rejected, BackoffStopped, Land, TypeOK
<1>5. \A g \in Hooks, s \in Runs : g # h => (Holds(g, s)' <=> Holds(g, s))
  BY <1>0, <1>3, HoldsKept
<1>6. \A s \in Runs : NoCallback # Outcome(s)
  <2>1. \A s \in Runs : NoCallback.event # Outcome(s).event
    BY DEF NoCallback, Outcome, None
  <2> QED
    BY <2>1
<1>7. \A s \in Runs : s # r => hand[h] # Outcome(s)
  BY <1>b DEF Outcome
<1>8. \A s \in Runs : s # r => (Holds(h, s)' <=> Holds(h, s))
  BY <1>0, <1>3, <1>6, <1>7 DEF Holds, Outcome
<1>9. CASE hand[h].event = "outcome"
  <2>1. hand[h] = Outcome(r)
    BY <1>a, <1>b, <1>9 DEF Outcome, Callback
  <2>2. Holds(h, r) /\ \A i \in 1 .. Len(lane[h]) : lane[h][i] # Outcome(r)
    BY <2>1 DEF Holds, Once
  <2>3. hand'[h] = NoCallback => ~Holds(h, r)'
    BY <1>0, <1>6, <2>2 DEF Holds, Outcome
  <2>4. hand'[h] = hand[h] => Holds(h, r)'
    BY <2>1 DEF Holds, Outcome
  <2>5. OthersUnmoved(h, r)
    <3>1. unheard' = unheard \/ unheard' = unheard \cup {<<h, r>>}
      BY <1>b DEF Delivered, Attempt, Rejected, BackoffStopped, Fail, Unsent
    <3> QED
      BY <1>1, <1>2, <1>4, <1>5, <1>8, <3>1 DEF OthersUnmoved, Unmoved, NoneAnnounced
  <2>6. /\ hand'[h] = hand[h] => unheard' = unheard
        /\ hand'[h] = NoCallback => unheard' = unheard \/ unheard' = unheard \cup {<<h, r>>}
    BY <1>0, <1>b DEF Delivered, Attempt, Rejected, BackoffStopped, Fail, Drop, Unsent, TypeOK
  <2>7. CASE last'[h][r] = "outcome"
    <3>1. Landed(h, r)
      BY <1>1, <1>2, <1>3, <2>2, <2>3, <2>4, <2>6, <2>7 DEF Landed
    <3> QED
      BY <2>5, <3>1 DEF Step, Moved
  <2>8. CASE last'[h][r] # "outcome"
    <3>1. last' = last
      BY <1>4, <1>9, <2>8
    <3>2. CASE hand'[h] = hand[h]
      <4>1. Unmoved(h, r)
        BY <1>1, <1>2, <2>2, <2>4, <2>6, <3>1, <3>2 DEF Unmoved
      <4> QED
        BY <2>5, <4>1 DEF Step, AllUnmoved, OthersUnmoved, NoneAnnounced
    <3>3. CASE hand'[h] = NoCallback
      <4>1. unheard' = unheard \cup {<<h, r>>}
        <5>1. ~Delivered(h)
          BY <1>a, <1>b, <1>9, <2>8 DEF Delivered, Land, TypeOK
        <5> QED
          BY <1>0, <1>b, <1>9, <3>3, <5>1 DEF Attempt, Rejected, BackoffStopped, Fail, Unsent
      <4>2. Lapsed(h, r)
        BY <1>1, <1>2, <2>2, <2>3, <3>1, <3>3, <4>1 DEF Lapsed
      <4> QED
        BY <2>5, <4>2 DEF Step, Moved
    <3> QED
      BY <1>3, <3>2, <3>3
  <2> QED
    BY <2>7, <2>8
<1>10. CASE hand[h].event # "outcome"
  <2>1. unheard' = unheard
    BY <1>10 DEF Delivered, Attempt, Rejected, BackoffStopped, Fail, Unsent
  <2>2. hand[h] # Outcome(r)
    BY <1>10 DEF Outcome
  <2>3. Holds(h, r)' <=> Holds(h, r)
    BY <1>0, <1>3, <1>6, <2>2 DEF Holds, Outcome
  <2>4. last'[h][r] = "outcome" <=> last[h][r] = "outcome"
    <3>1. Rank(last[h][r]) <= Rank(hand[h].event) /\ Rank(hand[h].event) <= 2
      BY <1>0, <1>b, <1>10, Ranks DEF InOrder, Rank
    <3>2. last[h][r] # "outcome"
      BY <3>1 DEF Rank, None
    <3> QED
      BY <1>4, <1>10, <3>2
  <2> QED
    BY <1>1, <1>2, <1>4, <1>5, <1>8, <2>1, <2>3, <2>4 DEF Step, AllUnmoved, Unmoved, NoneAnnounced
<1> QED
  BY <1>9, <1>10

(* A run's own steps: only the announcement of its end is about an outcome,*)
(* and it finds nothing of it on the way yet.                              *)
LEMMA NotifyOutcomeMoves ==
  ASSUME IInv, CallsInv, NEW r \in Runs, NotifyOutcome(r)
  PROVE  Step
<1>0. TypeOK /\ FlowInv /\ OrderInv
  BY DEF IInv
<1>1. /\ place[r] = "joining" /\ place'[r] = "announcing"
      /\ \A s \in Runs : s # r => place'[s] = place[s]
      /\ UNCHANGED <<silent, lane, hand, last>>
  BY <1>0 DEF NotifyOutcome, Move, TypeOK, laneVars
<1>2. PICK b \in Broken : Begin(r, "main", "outcome", b)
  BY DEF NotifyOutcome, Announces
<1>3. PICK targets \in SUBSET Hooks : targets = Targets("outcome", b)
  BY DEF Targets
<1>4. /\ call'[r]["main"] = [todo |-> targets, hook |-> None]
      /\ unheard' = unheard \cup ((Hooks \ targets) \X {r})
  BY <1>0, <1>2, <1>3 DEF Begin, TypeOK, Roles
<1>5. \A s \in Runs : s # r => call'[s]["main"] = call[s]["main"]
  BY <1>0, <1>2, OtherCalls DEF Roles
<1>6. ~Announced(r) /\ Announced(r)'
  BY <1>1 DEF Announced, CallsInv
<1>7. \A g \in Hooks, s \in Runs : Holds(g, s)' <=> Holds(g, s)
  BY <1>1, HoldsKept
<1>8. ASSUME NEW h \in Hooks PROVE ~Holds(h, r)
  <2>1. Level(r) = 2 /\ Rank("outcome") = 3
    BY <1>1 DEF Level, Rank, None
  <2>2. hand[h] # Outcome(r)
    <3>1. ASSUME hand[h] = Outcome(r) PROVE FALSE
      <4>1. hand[h].event = "outcome" /\ hand[h].run = r
        BY <3>1 DEF Outcome
      <4>2. hand[h] # NoCallback
        BY <4>1 DEF NoCallback, None
      <4>3. Rank(hand[h].event) <= Level(hand[h].run)
        BY <1>0, <4>2 DEF OrderInv, InOrder
      <4> QED
        BY <2>1, <4>1, <4>3
    <3> QED
      BY <3>1
  <2>3. ASSUME NEW i \in 1 .. Len(lane[h]), lane[h][i] = Outcome(r) PROVE FALSE
    <3>1. lane[h][i].event = "outcome" /\ lane[h][i].run = r
      BY <2>3 DEF Outcome
    <3>2. Rank(lane[h][i].event) <= Level(lane[h][i].run)
      BY <1>0 DEF OrderInv, InOrder
    <3> QED
      BY <2>1, <3>1, <3>2
  <2> QED
    BY <2>2, <2>3 DEF Holds
<1>9. ASSUME NEW g \in Hooks PROVE ~Owes(g, r) /\ (Owes(g, r)' <=> g \in targets)
  BY <1>1, <1>4, NotifierAssumption DEF Owes
<1>10. \A g \in Hooks, s \in Runs \ {r} : Unmoved(g, s)
  BY <1>1, <1>4, <1>5, <1>7 DEF Unmoved, Owes, Announced
<1>11. \A h \in Hooks : <<h, r>> \in unheard' <=> (h \notin targets \/ <<h, r>> \in unheard)
  BY <1>4
<1>12. \A s \in Runs \ {r} : Announced(s)' <=> Announced(s)
  BY <1>1 DEF Announced
<1>13. Opened(r, targets)
  BY <1>12, <1>1, <1>6, <1>7, <1>8, <1>9, <1>10, <1>11 DEF Opened
<1> QED
  BY <1>13 DEF Step

LEMMA RunMoves ==
  ASSUME IInv, CallsInv, NEW r \in Runs,
         RunStep(r) \/ FlusherStep(r) \/ StartRun(r) \/ Cancel(r) \/ Prompt(r)
  PROVE  Step
<1>0. TypeOK /\ FlowInv
  BY DEF IInv
<1>1. CASE NotifyOutcome(r)
  BY <1>1, NotifyOutcomeMoves
<1>2. CASE ~NotifyOutcome(r)
  <2>1. UNCHANGED <<lane, hand, last>>
    BY <1>2 DEF RunStep, FlusherStep, StartRun, Cancel, Prompt, NotifyStarted, EndEarly,
                StartFlusher, StopFlusher, AbandonPreview, Forget, Tick, FlusherExits, laneVars
  <2>2. unheard' = unheard
    BY <1>2 DEF RunStep, FlusherStep, StartRun, Cancel, Prompt, NotifyStarted, EndEarly,
                StartFlusher, StopFlusher, AbandonPreview, Forget, Tick, FlusherExits, Begin
  <2>3. \A s \in Runs : s # r => place'[s] = place[s] /\ call'[s]["main"] = call[s]["main"]
    <3>1. \A s \in Runs : s # r => place'[s] = place[s]
      BY <1>0, <1>2 DEF RunStep, FlusherStep, StartRun, Cancel, Prompt, NotifyStarted, EndEarly,
                StartFlusher, StopFlusher, AbandonPreview, Forget, Tick, FlusherExits, Move, TypeOK
    <3>2. call' = call \/ \E role \in Roles : \E event, b : Begin(r, role, event, b)
      BY <1>2 DEF RunStep, FlusherStep, StartRun, Cancel, Prompt, NotifyStarted, EndEarly, Roles,
                StartFlusher, StopFlusher, AbandonPreview, Forget, Tick, FlusherExits
    <3> QED
      BY <1>0, <3>1, <3>2, OtherCalls DEF Roles
  <2>4. \A s \in Runs : s # r => (s \in silent' <=> s \in silent)
    BY <1>2 DEF RunStep, FlusherStep, StartRun, Cancel, Prompt, NotifyStarted, EndEarly,
                StartFlusher, StopFlusher, AbandonPreview, Forget, Tick, FlusherExits
  <2>5. \A g \in Hooks, s \in Runs : Holds(g, s)' <=> Holds(g, s)
    BY <2>1, HoldsKept
  <2>6. (Announced(r)' <=> Announced(r)) /\ \A g \in Hooks : Owes(g, r)' <=> Owes(g, r)
    <3>1. CASE NotifyStarted(r) \/ StartRun(r) \/ StartFlusher(r) \/ StopFlusher(r)
      <4>1. place[r] \notin {"announcing", "over"} /\ place'[r] \notin {"announcing", "over"}
        BY <1>0, <3>1 DEF NotifyStarted, StartRun, StartFlusher, StopFlusher, Move, TypeOK
      <4> QED
        BY <4>1 DEF Announced, Owes
    <3>2. CASE EndEarly(r) \/ AbandonPreview(r)
      <4>1. place[r] \notin {"announcing", "over"} /\ place'[r] = "over" /\ r \in silent'
        BY <1>0, <3>2 DEF EndEarly, AbandonPreview, Move, TypeOK
      <4> QED
        BY <4>1 DEF Announced, Owes
    <3>3. CASE Forget(r)
      <4>1. place[r] = "announcing" /\ place'[r] = "over" /\ silent' = silent /\ Returned(r, "main")
        BY <1>0, <3>3 DEF Forget, Move, TypeOK
      <4>2. \A g \in Hooks : ~Owes(g, r) /\ ~Owes(g, r)'
        BY <4>1, NotifierAssumption DEF Owes, Returned
      <4> QED
        BY <4>1, <4>2 DEF Announced
    <3>4. CASE Cancel(r) \/ FlusherExits(r)
      BY <3>4 DEF Cancel, FlusherExits, Announced, Owes
    <3>5. CASE Tick(r) \/ Prompt(r)
      <4>1. UNCHANGED <<place, silent>>
        BY <3>5 DEF Tick, Prompt
      <4>2. place[r] # "announcing"
        BY <1>0, <3>5 DEF Tick, Prompt, FlowInv
      <4> QED
        BY <4>1, <4>2 DEF Announced, Owes
    <3> QED
      BY <1>2, <3>1, <3>2, <3>3, <3>4, <3>5 DEF RunStep, FlusherStep
  <2>7. \A g \in Hooks, s \in Runs : s # r => (Owes(g, s)' <=> Owes(g, s))
    BY <2>3 DEF Owes
  <2>8. \A s \in Runs : s # r => (Announced(s)' <=> Announced(s))
    BY <2>3, <2>4 DEF Announced
  <2> QED
    BY <2>1, <2>2, <2>5, <2>6, <2>7, <2>8 DEF Step, AllUnmoved, Unmoved, NoneAnnounced
<1> QED
  BY <1>1, <1>2

(* Every step of the system is one of Outbox's, for one outcome, or about  *)
(* none.                                                                   *)
LEMMA NextMoves == ASSUME IInv, OutcomeInv, [Next]_vars PROVE Step
<1>0. TypeOK /\ OrderInv /\ CallsInv
  BY DEF IInv, OutcomeInv
<1>1. ASSUME UNCHANGED <<lane, hand, last, unheard, place, silent, call>> PROVE Step
  BY <1>1, HoldsKept, OwesKept DEF Step, AllUnmoved, Unmoved, NoneAnnounced, Announced
<1>2. ASSUME NEW r \in Runs, NEW role \in Roles, CallStep(r, role) PROVE Step
  BY <1>0, <1>2, CallMoves, SendMoves DEF CallStep
<1>3. ASSUME NEW h \in Hooks, WorkerStep(h) \/ WindowEnds(h) \/ EditHook(h) PROVE Step
  <2>1. CASE Take(h)
    BY <1>0, <2>1, TakeMoves DEF Step
  <2>2. CASE Leave(h) \/ WindowEnds(h) \/ EditHook(h)
    BY <1>1, <2>2 DEF Leave, WindowEnds, EditHook, laneVars, runVars
  <2>3. CASE Delivered(h) \/ Attempt(h) \/ Rejected(h) \/ BackoffStopped(h)
    BY <1>0, <2>3, DeliverMoves DEF OrderInv, OutcomeInv
  <2> QED
    BY <1>3, <2>1, <2>2, <2>3 DEF WorkerStep
<1>4. CASE CloseRuns \/ Stop \/ StopReturns \/ StopTimesOut \/ UNCHANGED vars
  BY <1>1, <1>4 DEF CloseRuns, Stop, StopReturns, StopTimesOut, vars, laneVars, runVars
<1> QED
  BY <1>0, <1>2, <1>3, <1>4, RunMoves DEF Next

-----------------------------------------------------------------------------
(* The invariant                                                           *)

LEMMA OutcomeInit == Init => OutcomeInv
<1> SUFFICES ASSUME Init PROVE OutcomeInv
  OBVIOUS
<1>1. /\ \A r \in Runs : call[r]["main"] = Idle /\ place[r] = "new"
      /\ \A h \in Hooks : lane[h] = <<>> /\ hand[h] = NoCallback
      /\ silent = {}
  BY DEF Init, Roles
<1>2. CallsInv
  BY <1>1 DEF CallsInv, Idle
<1>3. NoOutcomeLost
  BY <1>1 DEF NoOutcomeLost, Announced
<1>4. ASSUME NEW h \in Hooks, NEW r \in Runs PROVE Once(h, r)
  BY <1>1 DEF Once, Owes
<1> QED
  BY <1>2, <1>3, <1>4 DEF OutcomeInv

LEMMA CallsNext == ASSUME IInv, CallsInv, [Next]_vars PROVE CallsInv'
<1>0. TypeOK
  BY DEF IInv
<1>1. ASSUME UNCHANGED <<call, silent, place>> PROVE CallsInv'
  BY <1>1 DEF CallsInv
<1>2. ASSUME NEW r \in Runs, NEW role \in Roles, CallStep(r, role) PROVE CallsInv'
  <2>1. \A s \in Runs, o \in Roles : s # r \/ o # role => call'[s][o] = call[s][o]
    BY <1>0, <1>2, OtherCalls
  <2>2. UNCHANGED <<place, silent>>
    BY <1>2 DEF CallStep, Throttled, Refused, FindLane, Send, runVars
  <2>3. call[r][role] \in Call
    BY <1>0 DEF TypeOK
  <2>4. role = "main" => call'[r]["main"].hook \notin call'[r]["main"].todo
    <3>1. CASE \E h \in Hooks : Throttled(r, role, h) \/ Refused(r, role, h)
      <4>1. PICK h \in Hooks : call' = [call EXCEPT ![r][role].todo = @ \ {h}]
        BY <3>1 DEF Throttled, Refused
      <4>2. /\ call'[r][role].todo = call[r][role].todo \ {h}
            /\ call'[r][role].hook = call[r][role].hook
        BY <1>0, <2>3, <4>1 DEF TypeOK, Call
      <4> QED
        BY <4>2 DEF CallsInv
    <3>2. CASE \E h \in Hooks : FindLane(r, role, h)
      BY <1>0, <3>2 DEF FindLane, TypeOK
    <3>3. CASE Send(r, role)
      BY <1>0, <2>3, <3>3, NotifierAssumption DEF Send, TypeOK, Call
    <3> QED
      BY <1>2, <3>1, <3>2, <3>3 DEF CallStep
  <2> QED
    BY <2>1, <2>2, <2>4 DEF CallsInv, Roles
<1>3. ASSUME NEW h \in Hooks, WorkerStep(h) \/ WindowEnds(h) \/ EditHook(h) PROVE CallsInv'
  BY <1>1, <1>3 DEF WorkerStep, Take, Leave, Delivered, Attempt, Rejected, BackoffStopped,
                    WindowEnds, EditHook, runVars
<1>4. ASSUME NEW r \in Runs,
             RunStep(r) \/ FlusherStep(r) \/ StartRun(r) \/ Cancel(r) \/ Prompt(r)
      PROVE  CallsInv'
  <2>1. call' = call \/ \E role \in Roles : \E event, b : Begin(r, role, event, b)
    BY <1>4 DEF RunStep, FlusherStep, StartRun, Cancel, Prompt, NotifyStarted, EndEarly, Roles,
                StartFlusher, StopFlusher, AbandonPreview, NotifyOutcome, Announces, Forget,
                Tick, FlusherExits
  <2>2. \A s \in Runs : call'[s]["main"].hook \notin call'[s]["main"].todo
    <3>1. CASE call' = call
      BY <3>1 DEF CallsInv
    <3>2. ASSUME NEW role \in Roles, NEW event, NEW b, Begin(r, role, event, b)
          PROVE  \A s \in Runs : call'[s]["main"].hook \notin call'[s]["main"].todo
      <4>1. call'[r][role].hook = None /\ call'[r][role].todo \subseteq Hooks
        BY <1>0, <3>2 DEF Begin, TypeOK, Targets
      <4> QED
        BY <1>0, <3>2, <4>1, OtherCalls, NotifierAssumption DEF CallsInv, Roles
    <3> QED
      BY <2>1, <3>1, <3>2
  <2>3. \A s \in silent' : place'[s] = "over"
    <3>1. CASE EndEarly(r) \/ AbandonPreview(r)
      BY <1>0, <3>1 DEF EndEarly, AbandonPreview, Move, TypeOK, CallsInv
    <3>2. CASE ~(EndEarly(r) \/ AbandonPreview(r))
      <4>1. silent' = silent /\ (place' = place \/ (place[r] # "over" /\ \A s \in Runs : s # r => place'[s] = place[s]))
        BY <1>0, <1>4, <3>2 DEF RunStep, FlusherStep, StartRun, Cancel, Prompt, NotifyStarted,
                StartFlusher, StopFlusher, NotifyOutcome, Forget, Tick, FlusherExits, Move, TypeOK
      <4> QED
        BY <1>0, <4>1 DEF CallsInv, TypeOK
    <3> QED
      BY <3>1, <3>2
  <2> QED
    BY <2>2, <2>3 DEF CallsInv
<1>5. CASE CloseRuns \/ Stop \/ StopReturns \/ StopTimesOut \/ UNCHANGED vars
  BY <1>1, <1>5 DEF CloseRuns, Stop, StopReturns, StopTimesOut, vars, runVars
<1> QED
  BY <1>2, <1>3, <1>4, <1>5 DEF Next

(* Owes and Holds exclude each other after every step that Step describes. *)
LEMMA OwesXorHolds ==
  ASSUME OutcomeInv, Step, NEW h \in Hooks, NEW r \in Runs, Owes(h, r)'
  PROVE  ~Holds(h, r)'
<1>0. Owes(h, r) => ~Holds(h, r)
  BY DEF OutcomeInv, Once
<1>1. ASSUME Unmoved(h, r) PROVE ~Holds(h, r)'
  BY <1>0, <1>1 DEF Unmoved
<1>2. ASSUME Moved(h, r) PROVE ~Holds(h, r)'
  BY <1>0, <1>2 DEF Moved, Placed, Passed, Landed, Lapsed
<1>3. ASSUME NEW targets, Opened(r, targets) PROVE ~Holds(h, r)'
  BY <1>3 DEF Opened
<1> QED
  BY <1>1, <1>2, <1>3 DEF Step, AllUnmoved, OthersUnmoved, Opened

LEMMA OnceKept ==
  ASSUME NEW h \in Hooks, NEW r \in Runs, Once(h, r), Owes(h, r)' => ~Holds(h, r)',
         lane'[h] = lane[h], hand'[h] = hand[h] \/ hand'[h] = NoCallback
  PROVE  Once(h, r)'
<1>1. NoCallback # Outcome(r)
  <2>1. NoCallback.event # Outcome(r).event
    BY DEF NoCallback, Outcome, None
  <2> QED
    BY <2>1
<1> QED
  BY <1>1 DEF Once, Outcome

LEMMA OnceNext ==
  ASSUME IInv, OutcomeInv, [Next]_vars, NEW h \in Hooks, NEW r \in Runs
  PROVE  Once(h, r)'
<1>0. TypeOK /\ Once(h, r) /\ lane[h] \in Seq(Callback) /\ Len(lane[h]) \in Nat
  BY DEF IInv, OutcomeInv, TypeOK
<1>1. Owes(h, r)' => ~Holds(h, r)'
  BY NextMoves, OwesXorHolds
<1>2. CASE lane'[h] = lane[h] /\ (hand'[h] = hand[h] \/ hand'[h] = NoCallback)
  BY <1>0, <1>1, <1>2, OnceKept
<1>3. ASSUME Take(h) PROVE Once(h, r)'
  <2>1. /\ hand'[h] = lane[h][1]
        /\ Len(lane'[h]) = Len(lane[h]) - 1 /\ lane[h] # <<>>
        /\ \A i \in 1 .. Len(lane'[h]) : i + 1 \in 1 .. Len(lane[h]) /\ lane'[h][i] = lane[h][i + 1]
    BY <1>0, <1>3 DEF Take, TypeOK
  <2>2. 1 \in 1 .. Len(lane[h]) /\ \A i \in 1 .. Len(lane'[h]) : i + 1 # 1
    BY <1>0, <2>1
  <2>3. hand'[h] = Outcome(r) => \A i \in 1 .. Len(lane'[h]) : lane'[h][i] # Outcome(r)
    BY <1>0, <2>1, <2>2 DEF Once
  <2>4. \A i, k \in 1 .. Len(lane'[h]) :
          lane'[h][i] = Outcome(r) /\ lane'[h][k] = Outcome(r) => i = k
    BY <1>0, <2>1 DEF Once
  <2> QED
    BY <1>1, <2>3, <2>4 DEF Once, Outcome
<1>4. ASSUME NEW s \in Runs, NEW role \in Roles, Send(s, role), lane'[h] # lane[h]
      PROVE  Once(h, r)'
  <2> DEFINE c == [event |-> EventOf(s, role), run |-> s]
  <2>0. call[s][role].hook = h /\ lane'[h] = Append(lane[h], c) /\ hand' = hand /\ place' = place
    BY <1>0, <1>4 DEF Send, TypeOK, runVars
  <2>1. /\ Len(lane'[h]) = Len(lane[h]) + 1 /\ lane'[h][Len(lane[h]) + 1] = c
        /\ \A i \in 1 .. Len(lane[h]) : lane'[h][i] = lane[h][i]
    BY <1>0, <2>0
  <2>2. c = Outcome(r) => ~Holds(h, r)
    <3>1. ASSUME c = Outcome(r) PROVE Owes(h, r)
      <4>1. c.event = "outcome" /\ c.run = r
        BY <3>1 DEF Outcome
      <4>2. s = r /\ role = "main" /\ place[r] = "announcing"
        BY <4>1, OutcomeEvents
      <4> QED
        BY <2>0, <4>2 DEF Owes
    <3> QED
      BY <1>0, <3>1 DEF Once
  <2> HIDE DEF c
  <2>3. \A i \in 1 .. Len(lane'[h]) : i \in 1 .. Len(lane[h]) \/ i = Len(lane[h]) + 1
    BY <1>0, <2>1
  <2>4. hand'[h] = Outcome(r) => \A i \in 1 .. Len(lane'[h]) : lane'[h][i] # Outcome(r)
    BY <1>0, <2>0, <2>1, <2>2, <2>3 DEF Once, Holds
  <2>5. \A i, k \in 1 .. Len(lane'[h]) :
          lane'[h][i] = Outcome(r) /\ lane'[h][k] = Outcome(r) => i = k
    BY <1>0, <2>1, <2>2, <2>3 DEF Once, Holds
  <2> QED
    BY <1>1, <2>4, <2>5 DEF Once, Outcome
<1>5. ASSUME NEW s \in Runs, NEW role \in Roles, CallStep(s, role) PROVE Once(h, r)'
  <2>1. CASE lane'[h] = lane[h]
    BY <1>2, <1>5, <2>1 DEF CallStep, Throttled, Refused, FindLane, Send, laneVars
  <2>2. CASE lane'[h] # lane[h]
    BY <1>4, <1>5, <2>2 DEF CallStep, Throttled, Refused, FindLane, laneVars
  <2> QED
    BY <2>1, <2>2
<1>6. ASSUME NEW g \in Hooks, WorkerStep(g) \/ WindowEnds(g) \/ EditHook(g) PROVE Once(h, r)'
  <2>1. CASE g = h /\ Take(h)
    BY <1>3, <2>1
  <2>2. CASE ~(g = h /\ Take(h))
    BY <1>0, <1>2, <1>6, <2>2 DEF WorkerStep, Take, Leave, Delivered, Attempt, Rejected,
            BackoffStopped, WindowEnds, EditHook, Fail, Drop, laneVars, TypeOK
  <2> QED
    BY <2>1, <2>2
<1>7. ASSUME NEW s \in Runs,
             RunStep(s) \/ FlusherStep(s) \/ StartRun(s) \/ Cancel(s) \/ Prompt(s)
      PROVE  Once(h, r)'
  BY <1>2, <1>7 DEF RunStep, FlusherStep, StartRun, Cancel, Prompt, NotifyStarted, EndEarly,
              StartFlusher, StopFlusher, AbandonPreview, NotifyOutcome, Forget, Tick,
              FlusherExits, laneVars
<1>8. CASE CloseRuns \/ Stop \/ StopReturns \/ StopTimesOut \/ UNCHANGED vars
  BY <1>2, <1>8 DEF CloseRuns, Stop, StopReturns, StopTimesOut, vars, laneVars
<1> QED
  BY <1>5, <1>6, <1>7, <1>8 DEF Next

LEMMA LostNext ==
  ASSUME OutcomeInv, Step PROVE NoOutcomeLost'
<1> SUFFICES ASSUME NEW h \in Hooks, NEW r \in Runs, Announced(r)' PROVE Accounted(h, r)'
  BY DEF NoOutcomeLost
<1>0. Announced(r) => Accounted(h, r)
  BY DEF OutcomeInv, NoOutcomeLost
<1>1. ASSUME Unmoved(h, r) PROVE Accounted(h, r)'
  BY <1>0, <1>1 DEF Unmoved, Accounted
<1>2. ASSUME Moved(h, r) PROVE Accounted(h, r)'
  BY <1>2 DEF Moved, Placed, Passed, Landed, Lapsed, Accounted
<1>3. ASSUME NEW targets, Opened(r, targets) PROVE Accounted(h, r)'
  BY <1>3 DEF Opened, Accounted
<1> QED
  BY <1>1, <1>2, <1>3 DEF Step, AllUnmoved, OthersUnmoved, Opened

LEMMA OutcomeInvariance == Spec => [](IInv /\ OutcomeInv)
<1>1. Init => OutcomeInv
  BY OutcomeInit
<1>2. IInv /\ OutcomeInv /\ [Next]_vars => OutcomeInv'
  <2> SUFFICES ASSUME IInv, OutcomeInv, [Next]_vars PROVE OutcomeInv'
    OBVIOUS
  <2>1. CallsInv'
    BY CallsNext DEF OutcomeInv
  <2>2. NoOutcomeLost'
    BY NextMoves, LostNext
  <2>3. \A h \in Hooks, r \in Runs : Once(h, r)'
    BY OnceNext
  <2> QED
    BY <2>1, <2>2, <2>3 DEF OutcomeInv
<1> QED
  BY <1>1, <1>2, Invariance, PTL DEF Spec

-----------------------------------------------------------------------------
(* The theorems                                                            *)

(* Once a run has announced its end, every webhook's copy of it is still   *)
(* to be placed by Notify, waiting in its lane or with its worker, heard   *)
(* by the receiver, or on record as dropped: neither a send outside the    *)
(* lock, a full lane, an outage nor a stopped retry loses it unseen        *)
(* (Notify, enqueue, worker, deliver).                                     *)
THEOREM OutcomesAreAccounted == Spec => []NoOutcomeLost
BY OutcomeInvariance, PTL DEF OutcomeInv

(* When Stop returns after the runs have ended, every webhook has heard    *)
(* the end of every run that announced it, or its callback is on record as *)
(* dropped: the safety half of HearsTheEnd (Stop, worker's drain loop).    *)
DrainSettles ==
  life = "drained" /\ clean =>
    \A h \in Hooks, r \in Runs :
      Announced(r) => last[h][r] = "outcome" \/ <<h, r>> \in unheard

(* It is so for any number of webhooks, runs and queued callbacks, however *)
(* the sends outside the lock, retries and Stop interleave (enqueue,       *)
(* deliver, Stop).                                                         *)
THEOREM DrainSettlesOutcomes == Spec => []DrainSettles
<1>1. IInv /\ OutcomeInv /\ DrainLosesNothing => DrainSettles
  <2> SUFFICES ASSUME IInv, OutcomeInv, DrainLosesNothing, life = "drained", clean,
                      NEW h \in Hooks, NEW r \in Runs, Announced(r)
               PROVE  last[h][r] = "outcome" \/ <<h, r>> \in unheard
    BY DEF DrainSettles
  <2>1. lane[h] = <<>> /\ hand[h] = NoCallback
    BY DEF DrainLosesNothing
  <2>2. ~Holds(h, r)
    <3>1. NoCallback.event # Outcome(r).event
      BY DEF NoCallback, Outcome, None
    <3> QED
      BY <2>1, <3>1 DEF Holds
  <2>3. ~Owes(h, r)
    BY DEF IInv, WorkersInv, Stopped, Owes
  <2> QED
    BY <2>2, <2>3 DEF OutcomeInv, NoOutcomeLost, Accounted
<1> QED
  BY <1>1, OutcomeInvariance, DrainIsComplete, PTL

-----------------------------------------------------------------------------
(* The refinement                                                          *)

AnnouncedRuns == { r \in Runs : Announced(r) }
OwedOnes      == { k \in Hooks \X Runs : Owes(k[1], k[2]) }
QueuedOnes    == { k \in Hooks \X Runs : Holds(k[1], k[2]) }
ToldOnes      == { k \in Hooks \X Runs : last[k[1]][k[2]] = "outcome" }

Members ==
  /\ AnnouncedRuns \subseteq Runs
  /\ OwedOnes \subseteq Hooks \X Runs /\ QueuedOnes \subseteq Hooks \X Runs
  /\ ToldOnes \subseteq Hooks \X Runs /\ unheard \subseteq Hooks \X Runs
  /\ \A r \in Runs : r \in AnnouncedRuns <=> Announced(r)
  /\ \A h \in Hooks, r \in Runs :
       /\ <<h, r>> \in OwedOnes <=> Owes(h, r)
       /\ <<h, r>> \in QueuedOnes <=> Holds(h, r)
       /\ <<h, r>> \in ToldOnes <=> last[h][r] = "outcome"

LEMMA SetMembers == ASSUME TypeOK PROVE Members
<1>1. \A h \in Hooks, r \in Runs : <<h, r>> \in Hooks \X Runs /\ <<h, r>>[1] = h /\ <<h, r>>[2] = r
  OBVIOUS
<1>2. AnnouncedRuns \subseteq Runs /\ \A r \in Runs : r \in AnnouncedRuns <=> Announced(r)
  BY DEF AnnouncedRuns
<1>3. /\ OwedOnes \subseteq Hooks \X Runs
      /\ \A h \in Hooks, r \in Runs : <<h, r>> \in OwedOnes <=> Owes(h, r)
  BY <1>1 DEF OwedOnes
<1>4. /\ QueuedOnes \subseteq Hooks \X Runs
      /\ \A h \in Hooks, r \in Runs : <<h, r>> \in QueuedOnes <=> Holds(h, r)
  BY <1>1 DEF QueuedOnes
<1>5. /\ ToldOnes \subseteq Hooks \X Runs
      /\ \A h \in Hooks, r \in Runs : <<h, r>> \in ToldOnes <=> last[h][r] = "outcome"
  BY <1>1 DEF ToldOnes
<1>6. unheard \subseteq Hooks \X Runs
  BY DEF TypeOK
<1> QED
  BY <1>2, <1>3, <1>4, <1>5, <1>6 DEF Members

LEMMA SetMembersNext == ASSUME TypeOK' PROVE Members'
<1>1. \A h \in Hooks, r \in Runs : <<h, r>> \in Hooks \X Runs /\ <<h, r>>[1] = h /\ <<h, r>>[2] = r
  OBVIOUS
<1>2. AnnouncedRuns' \subseteq Runs /\ \A r \in Runs : r \in AnnouncedRuns' <=> Announced(r)'
  BY DEF AnnouncedRuns
<1>3. /\ OwedOnes' \subseteq Hooks \X Runs
      /\ \A h \in Hooks, r \in Runs : <<h, r>> \in OwedOnes' <=> Owes(h, r)'
  BY <1>1 DEF OwedOnes
<1>4. /\ QueuedOnes' \subseteq Hooks \X Runs
      /\ \A h \in Hooks, r \in Runs : <<h, r>> \in QueuedOnes' <=> Holds(h, r)'
  BY <1>1 DEF QueuedOnes
<1>5. /\ ToldOnes' \subseteq Hooks \X Runs
      /\ \A h \in Hooks, r \in Runs : <<h, r>> \in ToldOnes' <=> last'[h][r] = "outcome"
  BY <1>1 DEF ToldOnes
<1>6. unheard' \subseteq Hooks \X Runs
  BY DEF TypeOK
<1> QED
  BY <1>2, <1>3, <1>4, <1>5, <1>6 DEF Members

LEMMA PairSets ==
  ASSUME NEW S \in SUBSET (Hooks \X Runs), NEW T \in SUBSET (Hooks \X Runs),
         \A h \in Hooks, r \in Runs : <<h, r>> \in S <=> <<h, r>> \in T
  PROVE  S = T
<1>1. ASSUME NEW k \in Hooks \X Runs PROVE k \in S <=> k \in T
  <2>1. PICK h \in Hooks, r \in Runs : k = <<h, r>>
    BY <1>1
  <2> QED
    BY <2>1
<1> QED
  BY <1>1

LEMMA PairRemoved ==
  ASSUME NEW S \in SUBSET (Hooks \X Runs), NEW T \in SUBSET (Hooks \X Runs),
         NEW h \in Hooks, NEW r \in Runs, <<h, r>> \notin T,
         \A g \in Hooks, s \in Runs : g # h \/ s # r => (<<g, s>> \in T <=> <<g, s>> \in S)
  PROVE  T = S \ {<<h, r>>}
BY PairSets

LEMMA PairAdded ==
  ASSUME NEW S \in SUBSET (Hooks \X Runs), NEW T \in SUBSET (Hooks \X Runs),
         NEW h \in Hooks, NEW r \in Runs, <<h, r>> \in T,
         \A g \in Hooks, s \in Runs : g # h \/ s # r => (<<g, s>> \in T <=> <<g, s>> \in S)
  PROVE  T = S \cup {<<h, r>>}
BY PairSets

BoxKept == UNCHANGED <<AnnouncedRuns, OwedOnes, QueuedOnes, ToldOnes, unheard>>

PairTypes ==
  /\ OwedOnes \in SUBSET (Hooks \X Runs) /\ OwedOnes' \in SUBSET (Hooks \X Runs)
  /\ QueuedOnes \in SUBSET (Hooks \X Runs) /\ QueuedOnes' \in SUBSET (Hooks \X Runs)
  /\ ToldOnes \in SUBSET (Hooks \X Runs) /\ ToldOnes' \in SUBSET (Hooks \X Runs)
  /\ unheard \in SUBSET (Hooks \X Runs) /\ unheard' \in SUBSET (Hooks \X Runs)

(* The same facts about one pair, as Outbox's sets say them.               *)
PairKept(h, r) ==
  /\ <<h, r>> \in OwedOnes' <=> <<h, r>> \in OwedOnes
  /\ <<h, r>> \in QueuedOnes' <=> <<h, r>> \in QueuedOnes
  /\ <<h, r>> \in ToldOnes' <=> <<h, r>> \in ToldOnes
  /\ <<h, r>> \in unheard' <=> <<h, r>> \in unheard

LEMMA PairOfUnmoved ==
  ASSUME Members, Members', NEW h \in Hooks, NEW r \in Runs, Unmoved(h, r)
  PROVE  PairKept(h, r)
BY DEF Members, Unmoved, PairKept

LEMMA RunsOfUnmoved == ASSUME Members, Members', NoneAnnounced PROVE AnnouncedRuns' = AnnouncedRuns
BY DEF Members, NoneAnnounced

(* A step about no outcome changes none of Outbox's variables.             *)
LEMMA BoxUnmoved == ASSUME Members, Members', AllUnmoved PROVE BoxKept
<1>a. PairTypes
  BY DEF Members, PairTypes
<1>b. \A h \in Hooks, r \in Runs : PairKept(h, r)
  BY PairOfUnmoved DEF AllUnmoved
<1>0. PairTypes /\ \A h \in Hooks, r \in Runs : PairKept(h, r)
  BY <1>a, <1>b
<1>1. OwedOnes' = OwedOnes
  BY <1>0, PairSets DEF PairTypes, PairKept
<1>2. QueuedOnes' = QueuedOnes
  BY <1>0, PairSets DEF PairTypes, PairKept
<1>3. ToldOnes' = ToldOnes
  BY <1>0, PairSets DEF PairTypes, PairKept
<1>4. unheard' = unheard
  <2>1. \A h \in Hooks, r \in Runs : <<h, r>> \in unheard' <=> <<h, r>> \in unheard
    BY <1>0 DEF PairKept
  <2>2. unheard \subseteq Hooks \X Runs /\ unheard' \subseteq Hooks \X Runs
    BY <1>0 DEF PairTypes
  <2> QED
    BY <2>1, <2>2
<1>5. AnnouncedRuns' = AnnouncedRuns
  BY RunsOfUnmoved DEF AllUnmoved
<1> QED
  BY <1>1, <1>2, <1>3, <1>4, <1>5 DEF BoxKept

(* A step about one outcome is the step of Outbox about it.                *)
LEMMA BoxMoved ==
  ASSUME Members, Members', NEW h \in Hooks, NEW r \in Runs, Moved(h, r), OthersUnmoved(h, r)
  PROVE  Box!Next
<1> DEFINE k == <<h, r>>
<1>a. PairTypes
  BY DEF Members, PairTypes
<1>b. \A g \in Hooks, s \in Runs : g # h \/ s # r => PairKept(g, s)
  BY PairOfUnmoved DEF OthersUnmoved
<1>0. /\ PairTypes /\ AnnouncedRuns' = AnnouncedRuns /\ k \in Hooks \X Runs
      /\ \A g \in Hooks, s \in Runs : g # h \/ s # r => PairKept(g, s)
  BY <1>a, <1>b, RunsOfUnmoved DEF OthersUnmoved
<1>1. /\ k \in OwedOnes <=> Owes(h, r)
      /\ k \in OwedOnes' <=> Owes(h, r)'
      /\ k \in QueuedOnes <=> Holds(h, r)
      /\ k \in QueuedOnes' <=> Holds(h, r)'
      /\ k \in ToldOnes <=> last[h][r] = "outcome"
      /\ k \in ToldOnes' <=> last'[h][r] = "outcome"
  BY DEF Members
<1>2. /\ k \notin OwedOnes' => OwedOnes' = OwedOnes \ {k}
      /\ k \notin QueuedOnes' => QueuedOnes' = QueuedOnes \ {k}
  BY <1>0, PairRemoved DEF PairTypes, PairKept
<1>3. /\ k \in QueuedOnes' => QueuedOnes' = QueuedOnes \cup {k}
      /\ k \in ToldOnes' => ToldOnes' = ToldOnes \cup {k}
      /\ k \in unheard' => unheard' = unheard \cup {k}
  BY <1>0, PairAdded DEF PairTypes, PairKept
<1>4. /\ (k \in OwedOnes' <=> k \in OwedOnes) => OwedOnes' = OwedOnes
      /\ (k \in QueuedOnes' <=> k \in QueuedOnes) => QueuedOnes' = QueuedOnes
      /\ (k \in ToldOnes' <=> k \in ToldOnes) => ToldOnes' = ToldOnes
  BY <1>0, PairSets DEF PairTypes, PairKept
<1>c. (k \in unheard' <=> k \in unheard) => unheard' = unheard
  <2> SUFFICES ASSUME k \in unheard' <=> k \in unheard PROVE unheard' = unheard
    OBVIOUS
  <2>1. \A g \in Hooks, s \in Runs : <<g, s>> \in unheard' <=> <<g, s>> \in unheard
    BY <1>0 DEF PairKept
  <2>2. unheard \subseteq Hooks \X Runs /\ unheard' \subseteq Hooks \X Runs
    BY <1>0 DEF PairTypes
  <2> QED
    BY <2>1, <2>2
<1> HIDE DEF k
<1>5. CASE Placed(h, r)
  <2>1. Box!Accept(k)
    BY <1>0, <1>1, <1>2, <1>3, <1>4, <1>c, <1>5
       DEF Placed, k, Box!Accept, AnnouncedRuns, OwedOnes, QueuedOnes, ToldOnes
  <2> QED
    BY <1>0, <2>1 DEF Box!Next
<1>6. CASE Passed(h, r)
  <2>1. Box!Refuse(k)
    BY <1>0, <1>1, <1>2, <1>3, <1>4, <1>c, <1>6
       DEF Passed, k, Box!Refuse, AnnouncedRuns, OwedOnes, QueuedOnes, ToldOnes
  <2> QED
    BY <1>0, <2>1 DEF Box!Next
<1>7. CASE Landed(h, r)
  <2>1. Box!Tell(k)
    BY <1>0, <1>1, <1>2, <1>3, <1>4, <1>c, <1>7
       DEF Landed, k, Box!Tell, AnnouncedRuns, OwedOnes, QueuedOnes, ToldOnes
  <2> QED
    BY <1>0, <2>1 DEF Box!Next
<1>8. CASE Lapsed(h, r)
  <2>1. Box!GiveUp(k)
    BY <1>0, <1>1, <1>2, <1>3, <1>4, <1>c, <1>8
       DEF Lapsed, k, Box!GiveUp, AnnouncedRuns, OwedOnes, QueuedOnes, ToldOnes
  <2> QED
    BY <1>0, <2>1 DEF Box!Next
<1> QED
  BY <1>5, <1>6, <1>7, <1>8 DEF Moved

(* A run that announces its end is announced in Outbox.                    *)
LEMMA BoxOpened ==
  ASSUME Members, Members', NEW r \in Runs, NEW targets \in SUBSET Hooks, Opened(r, targets)
  PROVE  Box!Next
<1>1. r \notin AnnouncedRuns /\ AnnouncedRuns' = AnnouncedRuns \cup {r}
  BY DEF Members, Opened
<1>2. /\ \A h \in Hooks, s \in Runs : s # r => PairKept(h, s)
      /\ \A h \in Hooks :
           /\ <<h, r>> \in OwedOnes' <=> (h \in targets \/ <<h, r>> \in OwedOnes)
           /\ <<h, r>> \in unheard' <=> (h \notin targets \/ <<h, r>> \in unheard)
           /\ <<h, r>> \in QueuedOnes' <=> <<h, r>> \in QueuedOnes
           /\ <<h, r>> \in ToldOnes' <=> <<h, r>> \in ToldOnes
  BY PairOfUnmoved DEF Members, Opened
<1>3. PairTypes
  BY DEF Members, PairTypes
<1>4. OwedOnes' = OwedOnes \cup (targets \X {r})
  <2> DEFINE T == OwedOnes \cup (targets \X {r})
  <2>1. T \in SUBSET (Hooks \X Runs) /\ OwedOnes' \in SUBSET (Hooks \X Runs)
    BY <1>3 DEF PairTypes
  <2>2. \A h \in Hooks, s \in Runs : <<h, s>> \in OwedOnes' <=> <<h, s>> \in T
    BY <1>2 DEF PairKept
  <2> HIDE DEF T
  <2>3. OwedOnes' = T
    BY <2>1, <2>2, PairSets
  <2> QED
    BY <2>3 DEF T
<1>5. unheard' = unheard \cup ((Hooks \ targets) \X {r})
  <2> DEFINE T == unheard \cup ((Hooks \ targets) \X {r})
  <2>1. T \subseteq Hooks \X Runs /\ unheard' \subseteq Hooks \X Runs
    BY <1>3 DEF PairTypes
  <2>2. \A h \in Hooks, s \in Runs : <<h, s>> \in unheard' <=> <<h, s>> \in T
    BY <1>2 DEF PairKept
  <2> HIDE DEF T
  <2>3. unheard' = T
    BY <2>1, <2>2
  <2> QED
    BY <2>3 DEF T
<1>6. QueuedOnes' = QueuedOnes
  <2>1. \A h \in Hooks, s \in Runs : <<h, s>> \in QueuedOnes' <=> <<h, s>> \in QueuedOnes
    BY <1>2 DEF PairKept
  <2> QED
    BY <1>3, <2>1, PairSets DEF PairTypes
<1>7. ToldOnes' = ToldOnes
  <2>1. \A h \in Hooks, s \in Runs : <<h, s>> \in ToldOnes' <=> <<h, s>> \in ToldOnes
    BY <1>2 DEF PairKept
  <2> QED
    BY <1>3, <2>1, PairSets DEF PairTypes
<1>8. Box!Announce(r, targets)
  BY <1>1, <1>4, <1>5, <1>6, <1>7
     DEF Box!Announce, AnnouncedRuns, OwedOnes, QueuedOnes, ToldOnes
<1> QED
  BY <1>8 DEF Box!Next

(* The notifier implements Outbox: every step of a call, a worker, a run,  *)
(* an edit or the shutdown is a step of Outbox about one outcome or        *)
(* changes nothing Outbox can see (Notify, enqueue, worker, deliver).      *)
THEOREM RefinesOutbox == Spec => ImplementsOutbox
<1>1. Init => Box!Init
  <2> SUFFICES ASSUME Init PROVE Box!Init
    OBVIOUS
  <2>1. \A r \in Runs : place[r] = "new"
    BY DEF Init
  <2>2. \A h \in Hooks, r \in Runs : ~Holds(h, r)
    <3>1. \A h \in Hooks : lane[h] = <<>> /\ hand[h] = NoCallback
      BY DEF Init
    <3>2. \A r \in Runs : NoCallback.event # Outcome(r).event
      BY DEF NoCallback, Outcome, None
    <3> QED
      BY <3>1, <3>2 DEF Holds
  <2>3. \A h \in Hooks, r \in Runs : last[h][r] = None
    BY DEF Init
  <2>4. AnnouncedRuns = {} /\ OwedOnes = {}
    BY <2>1 DEF AnnouncedRuns, OwedOnes, Announced, Owes
  <2>5. QueuedOnes = {}
    BY <2>2 DEF QueuedOnes
  <2>6. ToldOnes = {}
    BY <2>3 DEF ToldOnes, None
  <2>7. unheard = {}
    BY DEF Init
  <2> QED
    BY <2>4, <2>5, <2>6, <2>7 DEF Box!Init, AnnouncedRuns, OwedOnes, QueuedOnes, ToldOnes
<1>2. IInv /\ OutcomeInv /\ [Next]_vars => [Box!Next]_(Box!vars)
  <2> SUFFICES ASSUME IInv, OutcomeInv, [Next]_vars PROVE Box!Next \/ BoxKept
    BY DEF Box!vars, BoxKept, AnnouncedRuns, OwedOnes, QueuedOnes, ToldOnes
  <2>1. Members /\ Members'
    BY SetMembers, SetMembersNext, NextTypes DEF IInv
  <2> QED
    BY <2>1, NextMoves, BoxUnmoved, BoxMoved, BoxOpened DEF Step
<1> QED
  BY <1>1, <1>2, OutcomeInvariance, PTL DEF Spec, ImplementsOutbox, Box!Spec
=============================================================================
