---------------------------- MODULE MountManager ----------------------------
(***************************************************************************)
(* The mount manager of internal/mountmgr/manager.go for one SMB target:   *)
(* reference-counted mounts, the idle reaper, the target's edit and delete *)
(* handlers of internal/api/targets.go, Shutdown and the cleanup at boot.  *)
(* Users are the runs and API handlers that resolve a storage              *)
(* (internal/storage).  An entry is an object of its own: the map may      *)
(* forget one while somebody still holds a pointer to it.                  *)
(***************************************************************************)
EXTENDS Integers, FiniteSets

CONSTANTS
  Users,       \* storages that acquire and release the target once
  Sources,     \* the shares the target's row may name
  MaxEntries,  \* how many entries the map may ever hold
  MaxEdits,    \* how often the target is edited
  Deletes,     \* whether the target may be deleted
  Faults       \* whether a mount's server may die and an unmount may fail

None == "none"

ASSUME MountAssumption ==
  /\ IsFiniteSet(Users)
  /\ None \notin Sources /\ None \notin Users
  /\ MaxEntries \in Nat \ {0} /\ MaxEdits \in Nat
  /\ Deletes \in BOOLEAN /\ Faults \in BOOLEAN

EntryIds == 1 .. MaxEntries

VARIABLES
  cur,      \* Manager.entries[id]: an entry, or 0
  made,     \* how many entries were made
  refs, entryMounted, idle,  \* entry.refs, .mounted, .idleSince # 0
  lock,     \* who holds entry.mu
  table,    \* the kernel's mount table: the share at the mountpoint
  missed,   \* this process tried to detach that share and could not (history)
  want,     \* the share the target's row names
  stored,   \* whether the row exists
  edits,
  upc,      \* where each user is
  snap,     \* the share each user's copy of the row names
  my,       \* the entry each user looked up
  got,      \* the share each user was handed
  apc,      \* where the handler that edits or deletes the target is
  life      \* up, stopping or down

mountVars == <<table, missed>>
entryVars == <<cur, made, refs, entryMounted, idle, lock>>
rowVars   == <<want, stored, edits>>
userVars  == <<upc, snap, my, got>>
vars == <<entryVars, mountVars, rowVars, userVars, apc, life>>

Holding == {"holding", "releasing"}
Holders == { u \in Users : upc[u] \in Holding }

Init ==
  /\ cur = 0 /\ made = 0
  /\ refs = [e \in EntryIds |-> 0]
  /\ entryMounted = [e \in EntryIds |-> FALSE]
  /\ idle = [e \in EntryIds |-> FALSE]
  /\ lock = [e \in EntryIds |-> None]
  /\ table = None /\ missed = FALSE
  /\ want \in Sources /\ stored = TRUE /\ edits = 0
  /\ upc = [u \in Users |-> "idle"]
  /\ snap = [u \in Users |-> None]
  /\ my = [u \in Users |-> 0]
  /\ got = [u \in Users |-> None]
  /\ apc = "idle" /\ life = "up"

Goto(u, l) == upc' = [upc EXCEPT ![u] = l]

(* entryFor: the map's entry, made if there is none.                       *)
EntryFor(e) ==
  IF cur # 0 THEN e = cur /\ UNCHANGED <<cur, made>>
  ELSE /\ made < MaxEntries /\ e = made + 1
       /\ cur' = e /\ made' = e

-----------------------------------------------------------------------------
(* Acquire                                                                 *)

LoadTarget(u) ==
  /\ upc[u] = "idle" /\ life = "up" /\ stored
  /\ snap' = [snap EXCEPT ![u] = want]
  /\ Goto(u, "loaded")
  /\ UNCHANGED <<entryVars, mountVars, rowVars, my, got, apc, life>>

FindEntry(u) ==
  /\ upc[u] = "loaded"
  /\ \E e \in EntryIds : EntryFor(e) /\ my' = [my EXCEPT ![u] = e]
  /\ Goto(u, "entry")
  /\ UNCHANGED <<refs, entryMounted, idle, lock, mountVars, rowVars, snap, got, apc, life>>

LockIgnored(e) == TRUE
LockFree(e) == lock[e] = None

LockEntry(u) ==
  /\ upc[u] = "entry" /\ LockFree(my[u])
  /\ lock' = [lock EXCEPT ![my[u]] = u]
  /\ Goto(u, "locked")
  /\ UNCHANGED <<cur, made, refs, entryMounted, idle, mountVars, rowVars, snap, my, got, apc, life>>

(* Acquire's tail, and its unlock.                                         *)
TakeRef(e) == refs' = [refs EXCEPT ![e] = @ + 1]

Acquired(u) ==
  /\ TakeRef(my[u])
  /\ entryMounted' = [entryMounted EXCEPT ![my[u]] = TRUE]
  /\ lock' = [lock EXCEPT ![my[u]] = None]
  /\ got' = [got EXCEPT ![u] = snap[u]]
  /\ Goto(u, "holding")

(* ensureMounted: a mount of the right share that answers the probe is     *)
(* used as it is ...                                                       *)
Usable(u) == table = snap[u]

JoinMount(u) ==
  /\ upc[u] = "locked" /\ Usable(u)
  /\ Acquired(u)
  /\ missed' = FALSE
  /\ UNCHANGED <<cur, made, idle, table, rowVars, snap, my, apc, life>>

(* forceUnmount: a lazy detach; an error is only logged.                   *)
ForceUnmount ==
  \/ table' = None /\ missed' = FALSE
  \/ Faults /\ table # None /\ UNCHANGED table /\ missed' = TRUE

(* ... one of another share, or one whose server died, is detached.        *)
Detach(u) ==
  /\ upc[u] = "locked" /\ table # None
  /\ ~Usable(u) \/ Faults
  /\ ForceUnmount
  /\ entryMounted' = [entryMounted EXCEPT ![my[u]] = FALSE]
  /\ Goto(u, "mounting")
  /\ UNCHANGED <<cur, made, refs, idle, lock, rowVars, snap, my, got, apc, life>>

Mount(u) ==
  /\ upc[u] = "mounting" \/ (upc[u] = "locked" /\ table = None)
  /\ table' = snap[u] /\ missed' = FALSE
  /\ Acquired(u)
  /\ UNCHANGED <<cur, made, idle, rowVars, snap, my, apc, life>>

(* The mount fails, or the kernel's table could not be read to begin with. *)
MountFails(u) ==
  /\ upc[u] = "mounting" \/ (upc[u] = "locked" /\ (table = None \/ Faults))
  /\ lock' = [lock EXCEPT ![my[u]] = None]
  /\ Goto(u, "done")
  /\ UNCHANGED <<cur, made, refs, entryMounted, idle, mountVars, rowVars, snap, my, got, apc, life>>

(* release looks the entry up again, then drops the reference.             *)
Release(u) ==
  /\ upc[u] = "holding"
  /\ \E e \in EntryIds : EntryFor(e) /\ my' = [my EXCEPT ![u] = e]
  /\ Goto(u, "releasing")
  /\ UNCHANGED <<refs, entryMounted, idle, lock, mountVars, rowVars, snap, got, apc, life>>

DropNothing(e) == UNCHANGED refs
DropRef(e) == refs' = [refs EXCEPT ![e] = IF @ > 0 THEN @ - 1 ELSE @]

StartsIdleLate(e) == refs[e] = 0
StartsIdle(e) == refs[e] <= 1
IdleClock(e) == idle' = [idle EXCEPT ![e] = IF StartsIdle(e) THEN TRUE ELSE @]

ReleaseRef(u) ==
  /\ upc[u] = "releasing" /\ LockFree(my[u])
  /\ DropRef(my[u])
  /\ IdleClock(my[u])
  /\ Goto(u, "done")
  /\ UNCHANGED <<cur, made, entryMounted, lock, mountVars, rowVars, snap, my, got, apc, life>>

-----------------------------------------------------------------------------
(* The reaper and the handlers.                                            *)

(* unmountLocked: an ordinary unmount, then a lazy one; both may fail, and *)
(* so may the look at the kernel's table before them.                      *)
UnmountLocked(e, ok) ==
  \/ /\ ok /\ table' = None /\ missed' = FALSE
     /\ entryMounted' = [entryMounted EXCEPT ![e] = FALSE]
  \/ ~ok /\ Faults /\ UNCHANGED <<mountVars, entryMounted>>

ReapableMounted(e) == entryMounted[e] /\ idle[e]
Reapable(e) == refs[e] = 0 /\ entryMounted[e] /\ idle[e]

(* One target of a reapOnce: TryLock, and the grace period is over.        *)
Reap ==
  /\ life = "up" /\ cur # 0 /\ LockFree(cur) /\ Reapable(cur)
  /\ \E ok \in BOOLEAN : UnmountLocked(cur, ok)
  /\ UNCHANGED <<cur, made, refs, idle, lock, rowVars, userVars, apc, life>>

(* handleUpdateTarget writes the row, then unmounts unless in use.         *)
EditTarget ==
  /\ life = "up" /\ apc = "idle" /\ stored /\ edits < MaxEdits
  /\ want' \in Sources \ {want} /\ edits' = edits + 1
  /\ apc' = "edited"
  /\ UNCHANGED <<entryVars, mountVars, stored, userVars, life>>

(* Unmount refuses while references are outstanding (ErrInUse).            *)
Unmountable(e) == refs[e] = 0

UnmountAfterEdit ==
  /\ apc = "edited"
  /\ \E e \in EntryIds :
       /\ EntryFor(e) /\ LockFree(e)
       /\ IF Unmountable(e) THEN \E ok \in BOOLEAN : UnmountLocked(e, ok)
          ELSE UNCHANGED <<mountVars, entryMounted>>
  /\ apc' = "idle"
  /\ UNCHANGED <<refs, idle, lock, rowVars, userVars, life>>

(* handleDeleteTarget: Unmount, the row, Forget.                           *)
DeleteUnmounts ==
  /\ Deletes /\ life = "up" /\ apc = "idle" /\ stored
  /\ \E e \in EntryIds :
       /\ EntryFor(e) /\ LockFree(e)
       /\ \/ /\ Unmountable(e)
             /\ \E ok \in BOOLEAN : UnmountLocked(e, ok) /\ apc' = (IF ok THEN "unmounted" ELSE "idle")
          \/ ~Unmountable(e) /\ apc' = "idle" /\ UNCHANGED <<mountVars, entryMounted>>
  /\ UNCHANGED <<refs, idle, lock, rowVars, userVars, life>>

DeleteRow ==
  /\ apc = "unmounted"
  /\ stored' = FALSE /\ apc' = "deleted"
  /\ UNCHANGED <<entryVars, mountVars, want, edits, userVars, life>>

(* Forget reads the references under the entry's lock ...                  *)
ForgetCheck ==
  /\ apc = "deleted"
  /\ cur # 0 => LockFree(cur)
  /\ apc' = IF cur # 0 /\ refs[cur] > 0 THEN "gone" ELSE "forgetting"
  /\ UNCHANGED <<entryVars, mountVars, rowVars, userVars, life>>

(* ... and drops the entry under the map's.                                *)
Forget ==
  /\ apc = "forgetting"
  /\ cur' = 0 /\ apc' = "gone"
  /\ UNCHANGED <<made, refs, entryMounted, idle, lock, mountVars, rowVars, userVars, life>>

-----------------------------------------------------------------------------
(* Shutdown detaches lazily whoever holds what; it waits for no lock.      *)
Shutdown ==
  /\ life = "up" /\ life' = "stopping"
  /\ IF cur # 0 /\ table # None
     THEN /\ ForceUnmount
          /\ entryMounted' = IF LockFree(cur) THEN [entryMounted EXCEPT ![cur] = FALSE]
                             ELSE entryMounted
     ELSE UNCHANGED <<mountVars, entryMounted>>
  /\ UNCHANGED <<cur, made, refs, idle, lock, rowVars, userVars, apc>>

(* The process ends; the kernel keeps its mounts.                          *)
Down ==
  /\ life \in {"up", "stopping"} /\ life' = "down"
  /\ upc' = [u \in Users |-> IF upc[u] = "idle" THEN "idle" ELSE "done"]
  /\ cur' = 0 /\ made' = 0
  /\ refs' = [e \in EntryIds |-> 0]
  /\ entryMounted' = [e \in EntryIds |-> FALSE]
  /\ idle' = [e \in EntryIds |-> FALSE]
  /\ lock' = [e \in EntryIds |-> None]
  /\ apc' = IF stored THEN "idle" ELSE "gone"
  /\ missed' = FALSE
  /\ UNCHANGED <<table, rowVars, snap, my, got>>

(* ReconcileStale, before anything is served: what the process before left *)
(* is detached; a failure is only logged.                                  *)
LeaveStale == UNCHANGED mountVars
ReconcileStale == ForceUnmount

Boot ==
  /\ life = "down" /\ life' = "up"
  /\ ReconcileStale
  /\ UNCHANGED <<entryVars, rowVars, userVars, apc>>

-----------------------------------------------------------------------------
UserStep(u) ==
  \/ FindEntry(u) \/ LockEntry(u) \/ JoinMount(u) \/ Detach(u)
  \/ Mount(u) \/ MountFails(u) \/ Release(u) \/ ReleaseRef(u)

Handler ==
  \/ EditTarget \/ UnmountAfterEdit
  \/ DeleteUnmounts \/ DeleteRow \/ ForgetCheck \/ Forget

Next ==
  \/ \E u \in Users : LoadTarget(u) \/ UserStep(u)
  \/ Reap \/ Handler \/ Shutdown \/ Down \/ Boot

Spec == Init /\ [][Next]_vars

(* Users get on with it and give their reference back, the reaper ticks    *)
(* and an unmount it tries again and again does not fail for ever, the     *)
(* handlers finish, a stopping process ends and is restarted.              *)
Fairness ==
  /\ \A u \in Users : WF_vars(UserStep(u))
  /\ WF_vars(Reap /\ table' = None)
  /\ WF_vars(UnmountAfterEdit \/ DeleteRow \/ ForgetCheck \/ Forget)
  /\ WF_vars(life = "stopping" /\ Down) /\ WF_vars(Boot)

FairSpec == Spec /\ Fairness

-----------------------------------------------------------------------------
(* Properties                                                              *)

TypeOK ==
  /\ cur \in EntryIds \cup {0} /\ made \in EntryIds \cup {0}
  /\ refs \in [EntryIds -> Nat]
  /\ entryMounted \in [EntryIds -> BOOLEAN] /\ idle \in [EntryIds -> BOOLEAN]
  /\ lock \in [EntryIds -> Users \cup {None}]
  /\ table \in Sources \cup {None} /\ missed \in BOOLEAN /\ want \in Sources
  /\ stored \in BOOLEAN /\ edits \in 0 .. MaxEdits
  /\ upc \in [Users -> {"idle", "loaded", "entry", "locked", "mounting",
                        "holding", "releasing", "done"}]
  /\ snap \in [Users -> Sources \cup {None}] /\ my \in [Users -> EntryIds \cup {0}]
  /\ got \in [Users -> Sources \cup {None}]
  /\ apc \in {"idle", "edited", "unmounted", "deleted", "forgetting", "gone"}
  /\ life \in {"up", "stopping", "down"}

(* As long as the target exists, the references its entry counts are       *)
(* exactly the users holding one: no failed mount, retry or second lookup  *)
(* counts twice or loses one (Acquire, release).                           *)
RefsCountHolders ==
  life = "up" /\ stored /\ cur # 0 => refs[cur] = Cardinality(Holders)

(* Two goroutines racing to use the share are never both mounting it       *)
(* (entry's comment: they "mount it exactly once").                        *)
OneMounter ==
  stored => \A u, v \in Users :
    upc[u] \in {"locked", "mounting"} /\ upc[v] \in {"locked", "mounting"} => u = v

(* As long as the target exists, neither the reaper nor an edit nor a      *)
(* delete takes the mount away from somebody who holds a reference         *)
(* (reapOnce, Unmount).  Another Acquire and Shutdown may: they detach     *)
(* whatever is mounted.                                                    *)
HeldMountStays ==
  [][Reap \/ UnmountAfterEdit \/ DeleteUnmounts =>
       (stored /\ Holders # {} => table' = table)]_vars

(* A mount that the target's entry knows of and nobody uses or is about to *)
(* use is the reaper's: its idle clock runs and its lock is free, whatever *)
(* failed mounts, detaches, second lookups and releases came before        *)
(* (release's idle clock, Acquire's unlock on every path, reapOnce).       *)
Known == cur # 0 /\ entryMounted[cur]
UnusedIsReapable ==
  stored /\ Known /\ Holders = {} /\ (\A u \in Users : upc[u] \notin {"locked", "mounting"})
    => LockFree(cur) /\ Reapable(cur)

(* A mount nobody uses does not stay in the kernel for ever: it is used    *)
(* again, unmounted by the reaper, or, when the process ended before that, *)
(* detached by the next one's start (release's idle clock, reapOnce,       *)
(* ReconcileStale).  Two things leave one nobody looks after until the     *)
(* target is used again or the process restarts: a lazy detach that failed *)
(* before a mount that failed too or at boot, and a delete that forgot the *)
(* entry through which somebody had mounted meanwhile (Forget).            *)
Forgotten == \E e \in EntryIds \ {cur} : entryMounted[e]
MountIsReclaimed ==
  table # None ~> (table = None \/ Holders # {} \/ missed \/ Forgotten)

-----------------------------------------------------------------------------
(* What a comment promises and an interleaving breaks.                     *)

(* handleUpdateTarget: "a busy target keeps its current mount until the    *)
(* jobs holding it finish".                                                *)
BusyTargetKeepsMount ==
  life = "up" => \A u \in Holders : table # None => table = got[u]
=============================================================================
