---------------------------- MODULE MountProofs ----------------------------
(***************************************************************************)
(* Proofs about MountManager for any finite set of users, any shares, any  *)
(* number of edits and entries, with faults and deletes allowed.           *)
(***************************************************************************)
EXTENDS MountManager, FiniteSetTheorems, TLAPS

-----------------------------------------------------------------------------
(* The inductive invariant, part by part.                                  *)

Inside == {"locked", "mounting"}

(* Whoever is inside ensureMounted holds the lock of its entry.            *)
LockInv == \A u \in Users : upc[u] \in Inside => my[u] \in EntryIds /\ lock[my[u]] = u

(* While the target exists the map's entry is the only one there is, and   *)
(* the one everybody looked up; the handler forgets only after the delete. *)
EntryInv ==
  /\ apc \in {"deleted", "forgetting"} => ~stored
  /\ stored => /\ cur = made
               /\ \A u \in Users : upc[u] \in Inside \cup {"entry", "releasing"}
                                     => my[u] = cur /\ my[u] \in EntryIds
               /\ \A u \in Users : upc[u] \in {"locked", "mounting", "holding"} => cur # 0
  /\ \A u \in Users : upc[u] \in {"entry", "releasing"} => my[u] \in EntryIds

(* The references of that entry are the users holding one, and an entry    *)
(* that was not made yet has none.                                         *)
CountInv ==
  stored => /\ \A e \in EntryIds : e > made => refs[e] = 0
            /\ made # 0 => refs[made] = Cardinality(Holders)
            /\ made = 0 => Holders = {}

IInv == TypeOK /\ LockInv /\ EntryInv /\ CountInv
-----------------------------------------------------------------------------
USE MountAssumption
    DEF None, EntryIds, Inside, Holding, Goto, EntryFor, LockFree, IInv,
        entryVars, mountVars, rowVars, userVars

(* Cardinalities of the set of holders are those of a finite set.          *)
LEMMA HoldersFinite == IsFiniteSet(Holders) /\ Cardinality(Holders) \in Nat
<1>1. Holders \in SUBSET Users
  BY DEF Holders
<1> QED
  BY <1>1, FS_Subset, FS_CardinalityType

(* The count part survives any step that changes neither the references,   *)
(* nor the entries made, nor who holds one.                                *)
LEMMA SameCount ==
  ASSUME CountInv, stored' => stored, refs' = refs, made' = made, Holders' = Holders
  PROVE  CountInv'
BY DEF CountInv

(* A step of one user that neither becomes nor stops being a holder.       *)
LEMMA SameHolders ==
  ASSUME TypeOK, NEW u \in Users, NEW l,
         upc' = [upc EXCEPT ![u] = l], upc[u] \in Holding <=> l \in Holding
  PROVE  Holders' = Holders
BY DEF TypeOK, Holders

(* A look-up that makes an entry makes one nobody holds and nobody counts. *)
LEMMA LookupCount ==
  ASSUME TypeOK, EntryInv, CountInv, NEW e \in EntryIds, EntryFor(e),
         refs' = refs, stored' = stored, Holders' = Holders
  PROVE  CountInv'
<1>1. CASE cur # 0
  BY <1>1 DEF CountInv
<1>2. CASE cur = 0
  <2> SUFFICES ASSUME stored PROVE CountInv'
    BY DEF CountInv
  <2>1. made = 0 /\ made' = 1 /\ e = 1
    BY <1>2 DEF EntryInv, TypeOK
  <2>2. Holders = {} /\ refs[1] = 0
    BY <2>1 DEF CountInv
  <2> QED
    BY <2>1, <2>2, FS_EmptySet DEF CountInv, TypeOK
<1> QED
  BY <1>1, <1>2

(* A user that takes a reference becomes a holder ...                      *)
LEMMA AcquireCount ==
  ASSUME IInv, NEW u \in Users, upc[u] \in Inside, Acquired(u),
         made' = made, stored' = stored
  PROVE  CountInv'
<1> SUFFICES ASSUME stored PROVE CountInv'
  BY DEF CountInv
<1>1. made # 0 /\ my[u] = made /\ made \in EntryIds
  BY DEF EntryInv
<1>2. Holders' = Holders \cup {u} /\ u \notin Holders
  BY DEF TypeOK, Holders, Acquired
<1>3. Cardinality(Holders') = Cardinality(Holders) + 1
  BY <1>2, HoldersFinite, FS_AddElement
<1>4. refs' = [refs EXCEPT ![made] = refs[made] + 1]
  BY <1>1 DEF Acquired, TakeRef
<1> QED
  BY <1>1, <1>3, <1>4, HoldersFinite DEF CountInv, TypeOK

(* ... and one that drops its reference stops being one.                   *)
LEMMA ReleaseCount ==
  ASSUME IInv, NEW u \in Users, ReleaseRef(u)
  PROVE  CountInv'
<1> SUFFICES ASSUME stored PROVE CountInv'
  BY DEF CountInv, ReleaseRef
<1>1. made # 0 /\ my[u] = made /\ made \in EntryIds /\ made' = made
  BY DEF EntryInv, ReleaseRef
<1>2. Holders' = Holders \ {u} /\ u \in Holders
  BY DEF TypeOK, Holders, ReleaseRef
<1>3. Cardinality(Holders') = Cardinality(Holders) - 1 /\ Cardinality(Holders) # 0
  BY <1>2, HoldersFinite, FS_RemoveElement, FS_EmptySet
<1>4. refs[made] = Cardinality(Holders)
  BY <1>1 DEF CountInv
<1>5. refs[made] > 0
  BY <1>3, <1>4, HoldersFinite
<1>6. refs' = [refs EXCEPT ![made] = IF refs[made] > 0 THEN refs[made] - 1 ELSE refs[made]]
  BY <1>1 DEF ReleaseRef, DropRef
<1>7. refs' = [refs EXCEPT ![made] = refs[made] - 1]
  BY <1>5, <1>6
<1> QED
  BY <1>1, <1>3, <1>4, <1>7, HoldersFinite DEF CountInv, TypeOK

-----------------------------------------------------------------------------
(* What the history records stays a Boolean.                               *)
LEMMA MissedType ==
  ASSUME TypeOK, [Next]_vars
  PROVE  missed' \in BOOLEAN
<1>1. missed' = missed \/ missed' = TRUE \/ missed' = FALSE
  <2>1. CASE \E u \in Users : LoadTarget(u) \/ UserStep(u)
    BY <2>1, Zenon DEF UserStep, LoadTarget, FindEntry, LockEntry, JoinMount, Detach, Mount,
                MountFails, Release, ReleaseRef, ForceUnmount
  <2>2. CASE Reap \/ Handler
    BY <2>2, Zenon DEF Reap, Handler, EditTarget, UnmountAfterEdit, DeleteUnmounts, DeleteRow,
                ForgetCheck, Forget, UnmountLocked
  <2>3. CASE Shutdown \/ Down \/ Boot
    BY <2>3, Zenon DEF Shutdown, Down, Boot, ReconcileStale, ForceUnmount
  <2>4. CASE UNCHANGED vars
    BY <2>4 DEF vars
  <2> QED
    BY <2>1, <2>2, <2>3, <2>4, Zenon DEF Next
<1> QED
  BY <1>1, Zenon DEF TypeOK

(* The initial states satisfy the invariant: nothing is mounted.           *)
LEMMA InitInv == Init => IInv
<1> SUFFICES ASSUME Init PROVE IInv
  OBVIOUS
<1>m. missed \in BOOLEAN
  BY Zenon DEF Init
<1>1. TypeOK /\ LockInv /\ EntryInv
  BY <1>m DEF Init, TypeOK, LockInv, EntryInv
<1>2. Holders = {}
  BY DEF Init, Holders
<1> QED
  BY <1>1, <1>2, FS_EmptySet DEF Init, CountInv

(* The steps of Acquire up to the lock keep the invariant.                 *)
LEMMA LookupInv ==
  ASSUME IInv, NEW u \in Users,
         LoadTarget(u) \/ FindEntry(u) \/ LockEntry(u) \/ Release(u)
  PROVE  IInv'
<1>m. missed' \in BOOLEAN
  BY MissedType, Zenon DEF Next, UserStep
<1>1. CASE LoadTarget(u)
  <2>1. TypeOK' /\ LockInv' /\ EntryInv'
    BY <1>m, <1>1 DEF LoadTarget, TypeOK, LockInv, EntryInv
  <2>2. CountInv'
    BY <1>1, SameCount, SameHolders DEF LoadTarget
  <2> QED
    BY <2>1, <2>2
<1>2. CASE FindEntry(u)
  <2>1. PICK e \in EntryIds : EntryFor(e) /\ my' = [my EXCEPT ![u] = e]
    BY <1>2 DEF FindEntry
  <2>2. TypeOK' /\ LockInv' /\ EntryInv'
    BY <1>m, <1>2, <2>1 DEF FindEntry, TypeOK, LockInv, EntryInv
  <2>3. CountInv'
    BY <1>2, <2>1, LookupCount, SameHolders DEF FindEntry
  <2> QED
    BY <2>2, <2>3
<1>3. CASE LockEntry(u)
  <2>1. TypeOK' /\ LockInv' /\ EntryInv'
    BY <1>m, <1>3 DEF LockEntry, TypeOK, LockInv, EntryInv
  <2>2. CountInv'
    BY <1>3, SameCount, SameHolders DEF LockEntry
  <2> QED
    BY <2>1, <2>2
<1>4. CASE Release(u)
  <2>1. PICK e \in EntryIds : EntryFor(e) /\ my' = [my EXCEPT ![u] = e]
    BY <1>4 DEF Release
  <2>2. TypeOK' /\ LockInv' /\ EntryInv'
    BY <1>m, <1>4, <2>1 DEF Release, TypeOK, LockInv, EntryInv
  <2>3. CountInv'
    BY <1>4, <2>1, LookupCount, SameHolders DEF Release
  <2> QED
    BY <2>2, <2>3
<1> QED
  BY <1>1, <1>2, <1>3, <1>4

(* So do the steps under the lock, and the release.                        *)
LEMMA LockedInv ==
  ASSUME IInv, NEW u \in Users,
         JoinMount(u) \/ Detach(u) \/ Mount(u) \/ MountFails(u) \/ ReleaseRef(u)
  PROVE  IInv'
<1>m. missed' \in BOOLEAN
  BY MissedType, Zenon DEF Next, UserStep
<1>1. CASE JoinMount(u)
  <2>1. TypeOK' /\ LockInv' /\ EntryInv'
    BY <1>m, <1>1 DEF JoinMount, Acquired, TakeRef, TypeOK, LockInv, EntryInv
  <2>2. CountInv'
    BY <1>1, AcquireCount DEF JoinMount
  <2> QED
    BY <2>1, <2>2
<1>2. CASE Detach(u)
  <2>1. TypeOK' /\ LockInv' /\ EntryInv'
    BY <1>m, <1>2 DEF Detach, ForceUnmount, TypeOK, LockInv, EntryInv
  <2>2. CountInv'
    BY <1>2, SameCount, SameHolders DEF Detach
  <2> QED
    BY <2>1, <2>2
<1>3. CASE Mount(u)
  <2>1. TypeOK'
    BY <1>m, <1>3 DEF Mount, Acquired, TakeRef, TypeOK, LockInv
  <2>2. LockInv' /\ EntryInv'
    BY <1>3 DEF Mount, Acquired, TakeRef, TypeOK, LockInv, EntryInv
  <2>3. CountInv'
    BY <1>3, AcquireCount DEF Mount
  <2> QED
    BY <2>1, <2>2, <2>3
<1>4. CASE MountFails(u)
  <2>1. TypeOK' /\ LockInv' /\ EntryInv'
    BY <1>m, <1>4 DEF MountFails, TypeOK, LockInv, EntryInv
  <2>2. CountInv'
    BY <1>4, SameCount, SameHolders DEF MountFails
  <2> QED
    BY <2>1, <2>2
<1>5. CASE ReleaseRef(u)
  <2>1. my[u] \in EntryIds /\ refs[my[u]] \in Nat
    BY <1>5 DEF ReleaseRef, EntryInv, TypeOK
  <2>2. refs' \in [EntryIds -> Nat]
    BY <1>5, <2>1 DEF ReleaseRef, DropRef, TypeOK
  <2>3. idle' \in [EntryIds -> BOOLEAN]
    BY <1>5, Zenon DEF ReleaseRef, IdleClock, TypeOK
  <2>a. TypeOK'
    BY <1>m, <1>5, <2>2, <2>3 DEF ReleaseRef, TypeOK
  <2>b. LockInv' /\ EntryInv'
    BY <1>5 DEF ReleaseRef, TypeOK, LockInv, EntryInv
  <2>4. TypeOK' /\ LockInv' /\ EntryInv'
    BY <2>a, <2>b
  <2>5. CountInv'
    BY <1>5, ReleaseCount
  <2> QED
    BY <2>4, <2>5
<1> QED
  BY <1>1, <1>2, <1>3, <1>4, <1>5

(* So do the reaper and the edit handler.                                  *)
LEMMA HandlerInv ==
  ASSUME IInv, Reap \/ EditTarget \/ UnmountAfterEdit \/ DeleteUnmounts
  PROVE  IInv'
<1>m. missed' \in BOOLEAN
  BY MissedType, Zenon DEF Next, Handler
<1>1. Holders' = Holders
  BY DEF Reap, EditTarget, UnmountAfterEdit, DeleteUnmounts, Holders
<1>2. CASE Reap
  <2>1. TypeOK' /\ LockInv' /\ EntryInv'
    BY <1>m, <1>2 DEF Reap, UnmountLocked, TypeOK, LockInv, EntryInv
  <2> QED
    BY <1>1, <1>2, <2>1, SameCount DEF Reap
<1>3. CASE EditTarget
  <2>1. TypeOK' /\ LockInv' /\ EntryInv'
    BY <1>m, <1>3 DEF EditTarget, TypeOK, LockInv, EntryInv
  <2> QED
    BY <1>1, <1>3, <2>1, SameCount DEF EditTarget
<1>4. CASE UnmountAfterEdit
  <2>1. PICK e \in EntryIds :
          /\ EntryFor(e)
          /\ IF Unmountable(e) THEN \E ok \in BOOLEAN : UnmountLocked(e, ok)
             ELSE UNCHANGED <<mountVars, entryMounted>>
    BY <1>4 DEF UnmountAfterEdit
  <2>a. table' \in Sources \cup {None} /\ entryMounted' \in [EntryIds -> BOOLEAN]
    BY <2>1 DEF UnmountLocked, TypeOK
  <2>b. cur' \in EntryIds \cup {0} /\ made' \in EntryIds \cup {0}
    BY <2>1 DEF TypeOK
  <2>c. LockInv' /\ EntryInv'
    BY <1>4, <2>1 DEF UnmountAfterEdit, TypeOK, LockInv, EntryInv
  <2>2. TypeOK' /\ LockInv' /\ EntryInv'
    BY <1>m, <1>4, <2>1, <2>a, <2>b, <2>c DEF UnmountAfterEdit, TypeOK
  <2> QED
    BY <1>1, <1>4, <2>1, <2>2, LookupCount DEF UnmountAfterEdit
<1>5. CASE DeleteUnmounts
  <2>1. PICK e \in EntryIds :
          /\ EntryFor(e)
          /\ (\E ok \in BOOLEAN : UnmountLocked(e, ok)) \/ UNCHANGED <<mountVars, entryMounted>>
          /\ apc' \in {"idle", "unmounted"}
    BY <1>5 DEF DeleteUnmounts
  <2>a. table' \in Sources \cup {None} /\ entryMounted' \in [EntryIds -> BOOLEAN]
    BY <2>1 DEF UnmountLocked, TypeOK
  <2>b. cur' \in EntryIds \cup {0} /\ made' \in EntryIds \cup {0}
    BY <2>1 DEF TypeOK
  <2>c. LockInv' /\ EntryInv'
    BY <1>5, <2>1 DEF DeleteUnmounts, TypeOK, LockInv, EntryInv
  <2>2. TypeOK' /\ LockInv' /\ EntryInv'
    BY <1>m, <1>5, <2>1, <2>a, <2>b, <2>c DEF DeleteUnmounts, TypeOK
  <2> QED
    BY <1>1, <1>5, <2>1, <2>2, LookupCount DEF DeleteUnmounts
<1> QED
  BY <1>2, <1>3, <1>4, <1>5

(* So do the delete handler's last steps and the process around it.        *)
LEMMA ProcessInv ==
  ASSUME IInv, DeleteRow \/ ForgetCheck \/ Forget \/ Shutdown \/ Down \/ Boot
  PROVE  IInv'
<1>m. missed' \in BOOLEAN
  BY MissedType, Zenon DEF Next, Handler
<1>1. CASE DeleteRow \/ ForgetCheck \/ Forget
  <2>a. TypeOK'
    BY <1>m, <1>1 DEF DeleteRow, ForgetCheck, Forget, TypeOK
  <2>b. LockInv'
    BY <1>1 DEF DeleteRow, ForgetCheck, Forget, LockInv
  <2>c. EntryInv'
    BY <1>1 DEF DeleteRow, ForgetCheck, Forget, EntryInv
  <2>1. TypeOK' /\ LockInv' /\ EntryInv'
    BY <1>m, <2>a, <2>b, <2>c
  <2>2. Holders' = Holders
    BY <1>1 DEF DeleteRow, ForgetCheck, Forget, Holders
  <2> QED
    BY <1>1, <2>1, <2>2 DEF DeleteRow, ForgetCheck, Forget, CountInv
<1>2. CASE Shutdown \/ Boot
  <2>a. table' \in Sources \cup {None} /\ entryMounted' \in [EntryIds -> BOOLEAN]
    BY <1>2 DEF Shutdown, Boot, ReconcileStale, ForceUnmount, TypeOK
  <2>b. LockInv' /\ EntryInv'
    BY <1>2 DEF Shutdown, Boot, LockInv, EntryInv
  <2>1. TypeOK' /\ LockInv' /\ EntryInv'
    BY <1>m, <1>2, <2>a, <2>b DEF Shutdown, Boot, TypeOK
  <2>2. Holders' = Holders
    BY <1>2 DEF Shutdown, Boot, Holders
  <2> QED
    BY <1>2, <2>1, <2>2, SameCount DEF Shutdown, Boot
<1>3. CASE Down
  <2>1. TypeOK' /\ LockInv' /\ EntryInv'
    BY <1>m, <1>3 DEF Down, TypeOK, LockInv, EntryInv
  <2>2. Holders' = {}
    BY <1>3 DEF Down, Holders
  <2> QED
    BY <1>3, <2>1, <2>2 DEF Down, CountInv
<1> QED
  BY <1>1, <1>2, <1>3

(* Every step keeps the invariant.                                         *)
LEMMA NextInv == IInv /\ [Next]_vars => IInv'
<1> SUFFICES ASSUME IInv, [Next]_vars PROVE IInv'
  OBVIOUS
<1>1. CASE UNCHANGED vars
  BY <1>1 DEF vars, TypeOK, LockInv, EntryInv, CountInv, Holders
<1>2. CASE \E u \in Users : LoadTarget(u) \/ UserStep(u)
  BY <1>2, LookupInv, LockedInv DEF UserStep
<1>3. CASE Reap \/ Handler \/ Shutdown \/ Down \/ Boot
  BY <1>3, HandlerInv, ProcessInv DEF Handler
<1> QED
  BY <1>1, <1>2, <1>3 DEF Next

(* The inductive invariant of the mount manager holds of every behaviour.  *)
THEOREM MountInvariant == Spec => []IInv
BY InitInv, NextInv, PTL DEF Spec

(* Type correctness for every set of users, shares and entries.            *)
THEOREM MountTypeCorrect == Spec => []TypeOK
<1>1. IInv => TypeOK
  OBVIOUS
<1> QED
  BY <1>1, MountInvariant, PTL

(* However many users race, while the target exists the entry counts       *)
(* exactly the users that hold a reference: Acquire and release never      *)
(* lose or double one, so refs = 0 means that nobody uses the mount.       *)
THEOREM RefsAreHolders == Spec => []RefsCountHolders
<1>1. IInv => RefsCountHolders
  BY DEF EntryInv, CountInv, RefsCountHolders
<1> QED
  BY <1>1, MountInvariant, PTL

(* However many users race, while the target exists at most one of them is *)
(* between the lookup of the mount table and the end of the mount.         *)
THEOREM MountsAreExclusive == Spec => []OneMounter
<1>1. IInv => OneMounter
  BY DEF LockInv, EntryInv, OneMounter
<1> QED
  BY <1>1, MountInvariant, PTL

(* No step of the reaper, of an edit or of a delete takes the mount from   *)
(* under a holder while the target exists: the count is exact, and each    *)
(* of them unmounts only at zero.                                          *)
THEOREM HoldersKeepTheirMount == Spec => HeldMountStays
<1>1. IInv /\ stored /\ Holders # {} => cur # 0 /\ cur \in EntryIds /\ refs[cur] # 0
  BY HoldersFinite, FS_EmptySet DEF EntryInv, CountInv, TypeOK
<1>2. IInv /\ (Reap \/ UnmountAfterEdit \/ DeleteUnmounts) /\ stored /\ Holders # {}
        => table' = table
  BY <1>1 DEF Reap, Reapable, UnmountAfterEdit, DeleteUnmounts, Unmountable
<1>3. IInv /\ [Next]_vars =>
        [Reap \/ UnmountAfterEdit \/ DeleteUnmounts =>
           (stored /\ Holders # {} => table' = table)]_vars
  BY <1>2
<1> QED
  BY <1>3, MountInvariant, PTL DEF Spec, HeldMountStays

-----------------------------------------------------------------------------
(* What the reaper finds                                                   *)

(* A lock that is taken has an owner inside ensureMounted, who will give   *)
(* it back, and the idle clock of a mounted entry without references runs. *)
ReaperInv ==
  /\ \A e \in EntryIds : lock[e] # None => /\ lock[e] \in Users
                                           /\ upc[lock[e]] \in Inside
                                           /\ my[lock[e]] = e
  /\ \A e \in EntryIds : entryMounted[e] /\ refs[e] = 0 => idle[e]

LEMMA ReaperInit == Init => ReaperInv
BY DEF Init, ReaperInv

LEMMA ReaperUser ==
  ASSUME IInv, ReaperInv, NEW u \in Users, LoadTarget(u) \/ UserStep(u)
  PROVE  ReaperInv'
<1> USE DEF TypeOK
<1>1. CASE LoadTarget(u)
  BY <1>1 DEF LoadTarget, ReaperInv
<1>2. CASE FindEntry(u)
  BY <1>2 DEF FindEntry, ReaperInv
<1>3. CASE Release(u)
  BY <1>3 DEF Release, ReaperInv
<1>4. CASE LockEntry(u)
  BY <1>4 DEF LockEntry, EntryInv, ReaperInv
<1>5. CASE JoinMount(u) \/ Mount(u)
  <2>1. my[u] \in EntryIds /\ lock[my[u]] = u /\ refs[my[u]] \in Nat
    BY <1>5 DEF JoinMount, Mount, LockInv
  <2>2. /\ refs'[my[u]] = refs[my[u]] + 1 /\ \A e \in EntryIds \ {my[u]} : refs'[e] = refs[e]
        /\ \A e \in EntryIds \ {my[u]} : entryMounted'[e] = entryMounted[e]
        /\ idle' = idle
    BY <1>5, <2>1 DEF JoinMount, Mount, Acquired, TakeRef
  <2>3. /\ lock'[my[u]] = None /\ \A e \in EntryIds \ {my[u]} : lock'[e] = lock[e]
        /\ my' = my /\ \A v \in Users \ {u} : upc'[v] = upc[v]
    BY <1>5, <2>1 DEF JoinMount, Mount, Acquired
  <2> HIDE DEF TypeOK
  <2>4. \A e \in EntryIds : entryMounted'[e] /\ refs'[e] = 0 => idle'[e]
    BY <2>1, <2>2 DEF ReaperInv
  <2>5. \A e \in EntryIds : lock'[e] # None => /\ lock'[e] \in Users /\ upc'[lock'[e]] \in Inside
                                              /\ my'[lock'[e]] = e
    <3> SUFFICES ASSUME NEW e \in EntryIds, lock'[e] # None
                 PROVE  lock'[e] \in Users /\ upc'[lock'[e]] \in Inside /\ my'[lock'[e]] = e
      OBVIOUS
    <3>1. e # my[u] /\ lock'[e] = lock[e]
      BY <2>3
    <3>2. lock[e] \in Users /\ upc[lock[e]] \in Inside /\ my[lock[e]] = e /\ lock[e] # u
      BY <3>1 DEF ReaperInv
    <3> QED
      BY <2>3, <3>1, <3>2
  <2> QED
    BY <2>4, <2>5 DEF ReaperInv
<1>6. CASE Detach(u)
  BY <1>6 DEF Detach, LockInv, ReaperInv
<1>7. CASE MountFails(u)
  BY <1>7 DEF MountFails, LockInv, ReaperInv
<1>8. CASE ReleaseRef(u)
  <2>1. my[u] \in EntryIds /\ refs[my[u]] \in Nat
    BY <1>8 DEF ReleaseRef, EntryInv
  <2>2. /\ refs'[my[u]] = IF refs[my[u]] > 0 THEN refs[my[u]] - 1 ELSE refs[my[u]]
        /\ \A e \in EntryIds \ {my[u]} : refs'[e] = refs[e]
    BY <1>8, <2>1 DEF ReleaseRef, DropRef
  <2>3. /\ refs[my[u]] <= 1 => idle'[my[u]]
        /\ \A e \in EntryIds \ {my[u]} : idle'[e] = idle[e]
    BY <1>8, <2>1, Zenon DEF ReleaseRef, IdleClock, StartsIdle
  <2>4. refs'[my[u]] = 0 => refs[my[u]] <= 1
    BY <2>1, <2>2
  <2>5. entryMounted' = entryMounted /\ lock' = lock /\ my' = my
        /\ \A v \in Users : v # u => upc'[v] = upc[v]
    BY <1>8 DEF ReleaseRef
  <2> HIDE DEF TypeOK
  <2>6. \A e \in EntryIds : lock[e] # u
    BY <1>8 DEF ReleaseRef, ReaperInv
  <2>7. \A e \in EntryIds : entryMounted'[e] /\ refs'[e] = 0 => idle'[e]
    BY <2>2, <2>3, <2>4, <2>5 DEF ReaperInv
  <2>8. \A e \in EntryIds : lock'[e] # None => /\ lock'[e] \in Users /\ upc'[lock'[e]] \in Inside
                                              /\ my'[lock'[e]] = e
    BY <2>5, <2>6 DEF ReaperInv
  <2> QED
    BY <2>7, <2>8 DEF ReaperInv
<1> QED
  BY <1>1, <1>2, <1>3, <1>4, <1>5, <1>6, <1>7, <1>8 DEF UserStep

LEMMA ReaperNext == IInv /\ ReaperInv /\ [Next]_vars => ReaperInv'
<1> SUFFICES ASSUME IInv, ReaperInv, [Next]_vars PROVE ReaperInv'
  OBVIOUS
<1>1. ASSUME UNCHANGED <<lock, refs, idle, my, upc>>,
             \A e \in EntryIds : entryMounted'[e] => entryMounted[e]
      PROVE  ReaperInv'
  BY <1>1 DEF ReaperInv
<1>2. ASSUME NEW e \in EntryIds, NEW ok \in BOOLEAN, UnmountLocked(e, ok)
      PROVE  \A d \in EntryIds : entryMounted'[d] => entryMounted[d]
  BY <1>2 DEF UnmountLocked, TypeOK
<1>3. CASE Reap
  <2>1. cur \in EntryIds
    BY <1>3 DEF Reap, TypeOK
  <2> QED
    BY <1>1, <1>2, <1>3, <2>1 DEF Reap
<1>4. CASE UnmountAfterEdit \/ DeleteUnmounts
  BY <1>1, <1>2, <1>4 DEF UnmountAfterEdit, DeleteUnmounts
<1>5. CASE EditTarget \/ DeleteRow \/ ForgetCheck \/ Forget \/ Boot \/ UNCHANGED vars
  BY <1>1, <1>5 DEF EditTarget, DeleteRow, ForgetCheck, Forget, Boot, vars
<1>6. CASE Shutdown
  <2>1. \A d \in EntryIds : entryMounted'[d] => entryMounted[d]
    BY <1>6 DEF Shutdown, TypeOK
  <2> QED
    BY <1>1, <1>6, <2>1 DEF Shutdown
<1>7. CASE Down
  BY <1>7 DEF Down, ReaperInv
<1> QED
  BY <1>3, <1>4, <1>5, <1>6, <1>7, ReaperUser DEF Next, Handler

(* Whatever failed mounts, detaches, lookups and releases came before, a   *)
(* mount the entry knows of and nobody uses meets the reaper's conditions: *)
(* the safety half of MountIsReclaimed (release, Acquire, reapOnce).       *)
THEOREM UnusedMountsAreReapable == Spec => []UnusedIsReapable
<1>1. Init => ReaperInv
  BY ReaperInit
<1>2. IInv /\ ReaperInv => UnusedIsReapable
  <2> SUFFICES ASSUME IInv, ReaperInv, stored, Known, Holders = {},
                      \A u \in Users : upc[u] \notin {"locked", "mounting"}
               PROVE  LockFree(cur) /\ Reapable(cur)
    BY DEF UnusedIsReapable
  <2>1. cur \in EntryIds /\ cur = made /\ entryMounted[cur]
    BY DEF Known, TypeOK, EntryInv
  <2>2. refs[cur] = 0
    BY <2>1, FS_EmptySet DEF CountInv, Known
  <2> QED
    BY <2>1, <2>2 DEF ReaperInv, Reapable
<1> QED
  BY <1>1, <1>2, ReaperNext, MountInvariant, PTL DEF Spec

(* Without faults of the server or of an unmount, what is mounted is known *)
(* to the entry of a target that exists: together with UnusedIsReapable,   *)
(* no mount is stranded (ensureMounted, unmountLocked, Shutdown).          *)
MountIsKnown == stored /\ life # "down" /\ table # None => Known

(* Where nothing fails, no lookup, edit, remount, reap or restart strands  *)
(* a mount of a target that is stored, for any number of users and edits   *)
(* (Acquire, ensureMounted, reapOnce).                                     *)
THEOREM MountsAreKnown == ~Faults /\ Spec => []MountIsKnown
<1>1. Init => MountIsKnown
  BY DEF Init, MountIsKnown
<1>2. ASSUME ~Faults, IInv, MountIsKnown, [Next]_vars PROVE MountIsKnown'
  <2> USE DEF TypeOK, MountIsKnown, Known
  <2>1. ASSUME NEW u \in Users, LoadTarget(u) \/ FindEntry(u) \/ LockEntry(u)
                                  \/ Release(u) \/ ReleaseRef(u) \/ MountFails(u)
        PROVE  MountIsKnown'
    BY <1>2, <2>1 DEF LoadTarget, FindEntry, LockEntry, Release, ReleaseRef, MountFails
  <2>2. ASSUME NEW u \in Users, JoinMount(u) \/ Mount(u) PROVE MountIsKnown'
    <3>1. my[u] \in EntryIds /\ (stored => my[u] = cur /\ cur # 0)
      BY <1>2, <2>2 DEF JoinMount, Mount, LockInv, EntryInv
    <3>2. cur' = cur /\ stored' = stored /\ entryMounted'[my[u]] = TRUE
      BY <1>2, <2>2, <3>1 DEF JoinMount, Mount, Acquired
    <3> QED
      BY <3>1, <3>2
  <2>3. ASSUME NEW u \in Users, Detach(u) PROVE MountIsKnown'
    BY <1>2, <2>3 DEF Detach, ForceUnmount
  <2>4. CASE Reap \/ UnmountAfterEdit \/ DeleteUnmounts
    BY <1>2, <2>4 DEF Reap, UnmountAfterEdit, DeleteUnmounts, UnmountLocked
  <2>5. CASE EditTarget \/ DeleteRow \/ ForgetCheck \/ UNCHANGED vars
    BY <1>2, <2>5 DEF EditTarget, DeleteRow, ForgetCheck, vars
  <2>6. CASE Forget
    BY <1>2, <2>6 DEF Forget, EntryInv
  <2>7. CASE Shutdown \/ Down \/ Boot
    BY <1>2, <2>7 DEF Shutdown, Down, Boot, ReconcileStale, ForceUnmount
  <2> QED
    BY <1>2, <2>1, <2>2, <2>3, <2>4, <2>5, <2>6, <2>7 DEF Next, UserStep, Handler
<1>3. ~Faults /\ IInv /\ MountIsKnown /\ [Next]_vars => MountIsKnown'
  BY <1>2
<1>4. CASE Faults
  BY <1>4, PTL
<1>5. CASE ~Faults
  <2>1. IInv /\ MountIsKnown /\ [Next]_vars => MountIsKnown'
    BY <1>3, <1>5
  <2> QED
    BY <1>1, <2>1, MountInvariant, PTL DEF Spec
<1> QED
  BY <1>4, <1>5
=============================================================================
