----------------------------- MODULE SyncProofs -----------------------------
(* Theorems about SyncEngine, for every tree, filter chain and fault.      *)
EXTENDS SyncEngine, TLAPS

(* A parent of a parent is a parent (ancestors, MatchesAncestor).          *)
LEMMA ParentsTransitive ==
  ASSUME NEW p \in Paths, NEW q \in Parents(p), NEW r \in Parents(q)
  PROVE  r \in Parents(p)
<1>0. p \in Seq(STRING)
  BY EngineAssumption
<1>1. PICK i \in 1 .. Len(p) - 1 : q = SubSeq(p, 1, i)
  BY DEF Parents
<1>2. Len(q) = i /\ \A k \in 1 .. i : q[k] = p[k]
  BY <1>0, <1>1
<1>3. q \in Seq(STRING)
  BY <1>0, <1>1
<1>4. PICK j \in 1 .. i - 1 : r = SubSeq(q, 1, j)
  BY <1>2 DEF Parents
<1>5. SubSeq(q, 1, j) = SubSeq(p, 1, j)
  BY <1>0, <1>2, <1>3, <1>4
<1>6. j \in 1 .. Len(p) - 1
  BY <1>0, <1>4
<1> QED
  BY <1>4, <1>5, <1>6 DEF Parents

(* What the walk skips beneath a pruned directory, Admits refuses by the   *)
(* same rules: the two sides of a diff never disagree about a subtree      *)
(* (PrunesDir's comment, Rule.matches).                                    *)
LEMMA PruneIsSound ==
  ASSUME NEW pats, NEW p \in Paths, NEW q \in Parents(p), NEW isDir,
         PrunesDir(pats, q)
  PROVE  Matches(pats, p, isDir)
<1>1. PICK pat \in pats : Match(pat, q, TRUE) \/ MatchesAncestor(pat, q)
  BY DEF PrunesDir, Matches
<1>2. \E r \in Parents(p) : Match(pat, r, TRUE)
  BY <1>1, ParentsTransitive DEF MatchesAncestor
<1> QED
  BY <1>1, <1>2 DEF Matches, MatchesAncestor

(* An entry of one of the two kinds that are one entry.                    *)
LEMMA EntryKinds ==
  ASSUME NEW e \in Entries
  PROVE  /\ e.kind = "none" <=> e = None
         /\ e.kind = "dir" <=> e = Dir
BY EngineAssumption DEF Entries, None, Dir, Link

(* A listing is typed as the tree it is of.                                *)
LEMMA ListingType ==
  ASSUME NEW t \in [Paths -> Entries], NEW excludes, NEW u, NEW v
  PROVE  Listing(t, excludes, u, v) \in [Paths -> Entries]
BY DEF Listing, Entries

(* What Plan establishes, from a listing with no error.                    *)
LEMMA PlanDeletesSoundly ==
  ASSUME TypeOK, Plan
  PROVE  DeletesOnlyWhatSourceLacks'
<1> SUFFICES ASSUME NEW p \in plan'.deletes \cup plan'.rmdirs,
                    src'[p].kind = dstList'[p].kind, p \notin gone'
             PROVE  FALSE
  BY DEF DeletesOnlyWhatSourceLacks
<1>1. PICK us \in ScanErrors(src, chain.jobExcludes), v \in SUBSET FilesOf(src) :
        /\ gone' = v
        /\ srcList' = Listing(src, chain.jobExcludes, us, v)
        /\ srcComplete' = (us = {})
  BY DEF Plan
<1>2. src' = src /\ chain' = chain /\ opts' = opts
  BY DEF Plan, inputs
<1>3. plan' = Diff(srcList', srcComplete', dstList')
  BY DEF Plan
<1>4. /\ p \in Extraneous(srcList', dstList')
      /\ ~DeletionGuard(srcList', srcComplete', dstList')
  BY <1>3 DEF Diff
<1>5. us = {}
  BY <1>1, <1>4 DEF DeletionGuard
<1>6. /\ p \in Paths /\ dstList'[p] # None /\ srcList'[p] = None
      /\ Admits(p, dstList'[p] = Dir)
  BY <1>4 DEF Extraneous
<1>a. src[p] \in Entries /\ dstList'[p] \in Entries
  BY <1>6, ListingType DEF TypeOK, Plan
<1>7. src[p] # None
  BY <1>a, <1>2, <1>6, EntryKinds
<1>8. Hidden(chain.jobExcludes, {}, src, p)
  BY <1>1, <1>5, <1>6, <1>7 DEF Listing
<1>9. chain.jobExcludes \subseteq chain.excludes
  BY EngineAssumption DEF TypeOK
<1>10. CASE src[p] = Dir /\ PrunesDir(chain.jobExcludes, p)
  <2>1. dstList'[p] = Dir
    BY <1>a, <1>2, <1>10, EntryKinds
  <2> QED
    BY <2>1, <1>6, <1>9, <1>10 DEF PrunesDir, Matches, Admits
<1>11. CASE \E q \in Parents(p) : PrunesDir(chain.jobExcludes, q)
  <2>1. Matches(chain.jobExcludes, p, dstList'[p] = Dir)
    BY <1>6, <1>11, PruneIsSound
  <2> QED
    BY <2>1, <1>6, <1>9 DEF Matches, Admits
<1> QED
  BY <1>8, <1>10, <1>11 DEF Hidden

-----------------------------------------------------------------------------
(* The type invariant.                                                     *)

LEMMA DiffType ==
  ASSUME NEW sl, NEW complete, NEW dl
  PROVE  Diff(sl, complete, dl) \in
           [unblocks : SUBSET Paths, mkdirs : SUBSET Paths, copies : SUBSET Paths,
            deletes : SUBSET Paths, rmdirs : SUBSET Paths, blocked : BOOLEAN]
<1>1. Extraneous(sl, dl) \subseteq Paths
  BY DEF Extraneous
<1>2. \A c \in SUBSET Paths : RequiredDirs(c, dl) \subseteq Paths
  BY EngineAssumption DEF RequiredDirs
<1> QED
  BY <1>1, <1>2 DEF Diff

LEMMA PlanType ==
  ASSUME TypeOK, Plan
  PROVE  TypeOK'
<1>1. /\ srcList' \in [Paths -> Entries] /\ dstList' \in [Paths -> Entries]
      /\ srcComplete' \in BOOLEAN /\ dstComplete' \in BOOLEAN
      /\ gone' \subseteq Paths
  BY ListingType DEF TypeOK, Plan, FilesOf
<1>2. plan' \in [unblocks : SUBSET Paths, mkdirs : SUBSET Paths, copies : SUBSET Paths,
                 deletes : SUBSET Paths, rmdirs : SUBSET Paths, blocked : BOOLEAN]
  BY DiffType DEF Plan
<1> QED
  BY <1>1, <1>2 DEF TypeOK, Plan, Stages, inputs, pool, results

(* A call on the destination, in time or late.                             *)
LEMMA EffectType ==
  ASSUME TypeOK, NEW op \in {"remove", "mkdir", "rename"}, NEW p \in Paths, Effect(op, p)
  PROVE  dst' \in [Paths -> Entries] /\ outside' \subseteq Paths
<1>1. CASE op = "remove"
  BY <1>1 DEF Effect, RemoveEffect, TypeOK, Entries
<1>2. CASE op = "mkdir"
  BY <1>2 DEF Effect, MkdirEffect, TypeOK, Entries
<1>3. CASE op = "rename"
  BY <1>3 DEF Effect, LandEffect, TypeOK
<1> QED
  BY <1>1, <1>2, <1>3

LEMMA CallType ==
  ASSUME TypeOK, NEW op \in {"remove", "mkdir", "rename"}, NEW p \in Paths,
         Call(op, p) \/ CallFails(op, p)
  PROVE  dst' \in [Paths -> Entries] /\ outside' \subseteq Paths /\ late' \subseteq Calls
<1>1. CASE Call(op, p)
  BY <1>1, EffectType DEF Call, TypeOK
<1>2. CASE CallFails(op, p)
  BY <1>2 DEF CallFails, Hangs, Calls, TypeOK
<1> QED
  BY <1>1, <1>2

(* Files, directories and the copier pool stay within their types, and no  *)
(* copy is tried more often than MaxAttempts.                              *)
LEMMA StepType ==
  ASSUME TypeOK, [Next]_vars
  PROVE  TypeOK'
<1>1. CASE Plan
  BY <1>1, PlanType
<1>2. ASSUME NEW p \in Paths, ClearBlocker(p) \/ MakeDir(p)
      PROVE  TypeOK'
  <2>1. PICK s \in Stages, op \in {"remove", "mkdir"} : Step(s, op, p)
    BY <1>2 DEF ClearBlocker, MakeDir, Stages
  <2>2. dst' \in [Paths -> Entries] /\ outside' \subseteq Paths /\ late' \subseteq Calls
    BY <2>1, CallType DEF Step
  <2>3. failures' \subseteq [path : Paths, why : {"locked", "other", "share"}]
    BY <2>1 DEF Step, Records, Failure, TypeOK
  <2> QED
    BY <2>1, <2>2, <2>3 DEF Step, TypeOK, inputs, scans, pool
<1>3. ASSUME NEW p \in Paths, StartCopy(p)
      PROVE  TypeOK'
  BY <1>3, EngineAssumption DEF StartCopy, TypeOK, inputs, scans, results
<1>4. ASSUME NEW p \in Paths, Leave(p)
      PROVE  busy' \subseteq Paths /\ tries' \in [Paths -> 0 .. MaxAttempts]
  BY <1>4, EngineAssumption DEF Leave, TypeOK
<1>5. ASSUME NEW p \in Paths, CopyLands(p)
      PROVE  TypeOK'
  <2>1. dst' \in [Paths -> Entries] /\ outside' \subseteq Paths /\ late' \subseteq Calls
    BY <1>5, CallType DEF CopyLands
  <2> QED
    BY <1>5, <2>1, <1>4 DEF CopyLands, TypeOK, inputs, scans, results
<1>6. ASSUME NEW p \in Paths, CopyVanishes(p)
      PROVE  TypeOK'
  BY <1>6, <1>4 DEF CopyVanishes, TypeOK, inputs, scans
<1>7. ASSUME NEW p \in Paths, NEW why \in {"locked", "other", "share"}, FailCopy(p, why)
      PROVE  /\ busy' \subseteq Paths /\ tries' \in [Paths -> 0 .. MaxAttempts]
             /\ failures' \subseteq [path : Paths, why : {"locked", "other", "share"}]
             /\ aborted' \in BOOLEAN /\ shareGone' \in BOOLEAN
  BY <1>7, <1>4 DEF FailCopy, Records, Failure, TypeOK
<1>8. ASSUME NEW p \in Paths, NEW transport \in BOOLEAN, CopyAttemptFails(p, transport)
      PROVE  TypeOK'
  <2>1. dst' \in [Paths -> Entries] /\ outside' \subseteq Paths /\ late' \subseteq Calls
    BY <1>8, CallType DEF CopyAttemptFails, TypeOK
  <2>2. /\ busy' \subseteq Paths /\ tries' \in [Paths -> 0 .. MaxAttempts]
        /\ failures' \subseteq [path : Paths, why : {"locked", "other", "share"}]
        /\ aborted' \in BOOLEAN /\ shareGone' \in BOOLEAN
    <3>1. CASE /\ AttemptsLeft(p) /\ tries' = [tries EXCEPT ![p] = @ + 1]
               /\ UNCHANGED <<busy, failures, aborted, shareGone>>
      BY <3>1, EngineAssumption DEF AttemptsLeft, TypeOK
    <3>2. CASE FailCopy(p, "share") \/ FailCopy(p, "other")
      BY <3>2, <1>7
    <3> QED
      BY <1>8, <3>1, <3>2 DEF CopyAttemptFails, ConfirmShareGone
  <2> QED
    BY <1>8, <2>1, <2>2 DEF CopyAttemptFails, TypeOK, inputs, scans
<1>9. ASSUME NEW p \in Paths, NEW why \in {"locked", "other"}, CopyRefused(p, why)
      PROVE  TypeOK'
  <2>1. late' \subseteq Calls
    BY <1>9 DEF CopyRefused, Hangs, Calls, TypeOK
  <2> QED
    BY <1>9, <2>1, <1>7 DEF CopyRefused, TypeOK, inputs, scans
<1>10. ASSUME NEW p \in Paths, CopyInterrupted(p)
       PROVE  TypeOK'
  <2>1. late' \subseteq Calls
    BY <1>10 DEF CopyInterrupted, Hangs, Calls, TypeOK
  <2> QED
    BY <1>10, <2>1, <1>4 DEF CopyInterrupted, TypeOK, inputs, scans, results
<1>11. ASSUME NEW p \in Paths, Delete(p) \/ RemoveDir(p)
       PROVE  TypeOK'
  <2>1. dst' \in [Paths -> Entries] /\ outside' \subseteq Paths /\ late' \subseteq Calls
    BY <1>11, CallType DEF Delete, RemoveDir
  <2>2. failures' \subseteq [path : Paths, why : {"locked", "other", "share"}]
    BY <1>11 DEF Delete, RemoveDir, Records, Failure, TypeOK, results
  <2>3. aborted' \in BOOLEAN
    <3>1. \/ aborted' = aborted
          \/ aborted' = (aborted \/ opts.onError = "abort")
      BY <1>11 DEF Delete, RemoveDir, results
    <3> QED
      BY <3>1, Zenon DEF TypeOK
  <2> QED
    BY <1>11, <2>1, <2>2, <2>3 DEF Delete, RemoveDir, TypeOK, inputs, scans, pool, results
<1>12. CASE StagesDone \/ CopiesDone \/ DeletesDone
  BY <1>12 DEF StagesDone, CopiesDone, DeletesDone, EnterStage, Stages, TypeOK,
               inputs, scans, pool, results
<1>13. CASE LateCall
  <2>1. PICK c \in late :
          /\ late' = late \ {c}
          /\ Effect(c[1], c[2]) \/ UNCHANGED <<dst, outside>>
    BY <1>13 DEF LateCall
  <2>2. c[1] \in {"remove", "mkdir", "rename"} /\ c[2] \in Paths
    BY DEF TypeOK, Calls
  <2>3. dst' \in [Paths -> Entries] /\ outside' \subseteq Paths /\ late' \subseteq Calls
    BY <2>1, <2>2, EffectType DEF TypeOK
  <2> QED
    BY <1>13, <2>3 DEF LateCall, TypeOK, inputs, scans, pool, results
<1>14. CASE Cancel
  BY <1>14 DEF Cancel, TypeOK, inputs, scans, pool, results
<1>15. CASE UNCHANGED vars
  BY <1>15 DEF vars, TypeOK, inputs, scans, pool, results
<1> QED
  BY <1>1, <1>2, <1>3, <1>5, <1>6, <1>8, <1>9, <1>10, <1>11, <1>12, <1>13, <1>14, <1>15
  DEF Next, ExecStep

(* Every reachable state of the engine is well typed; in particular no     *)
(* file is tried more often than MaxAttempts, whatever the faults (Copy's  *)
(* attempt loop).                                                          *)
THEOREM SyncTypes == Spec => []TypeOK
<1>1. Init => TypeOK
  <2> SUFFICES ASSUME Init PROVE TypeOK
    OBVIOUS
  <2>1. src \in [Paths -> Entries] /\ dst \in [Paths -> Entries]
    BY EngineAssumption DEF Init, IsTree
  <2>2. [p \in Paths |-> None] \in [Paths -> Entries]
    BY DEF Entries
  <2>3. [p \in Paths |-> 0] \in [Paths -> 0 .. MaxAttempts]
    BY EngineAssumption
  <2> QED
    BY <2>1, <2>2, <2>3 DEF Init, TypeOK, NoPlan, Stages
<1> QED
  BY <1>1, StepType, PTL DEF Spec

-----------------------------------------------------------------------------
(* For every pair of trees, every chain and every fault: no mirror plans   *)
(* the removal of something the source has (Scan's Errors, PrunesDir,      *)
(* deletionGuard).                                                         *)
THEOREM DeletesAreSound == Spec => []DeletesOnlyWhatSourceLacks
<1>1. Init => DeletesOnlyWhatSourceLacks
  BY DEF Init, NoPlan, DeletesOnlyWhatSourceLacks
<1>2. ASSUME TypeOK, DeletesOnlyWhatSourceLacks, [Next]_vars
      PROVE  DeletesOnlyWhatSourceLacks'
  <2>1. CASE Plan
    BY <1>2, <2>1, PlanDeletesSoundly
  <2>2. CASE UNCHANGED <<src, plan, dstList>> /\ gone \subseteq gone'
    BY <1>2, <2>2 DEF DeletesOnlyWhatSourceLacks
  <2>3. Plan \/ (UNCHANGED <<src, plan, dstList>> /\ gone \subseteq gone')
    <3>1. ASSUME NEW p \in Paths, CopyVanishes(p)
          PROVE  UNCHANGED <<src, plan, dstList>> /\ gone \subseteq gone'
      BY <3>1 DEF CopyVanishes, inputs, scans
    <3>2. ASSUME ExecStep, ~\E p \in Paths : CopyVanishes(p)
          PROVE  UNCHANGED <<src, plan, dstList, gone>>
      BY <3>2 DEF ExecStep, ClearBlocker, MakeDir, Step, StartCopy, CopyLands, CopyAttemptFails,
           CopyRefused, CopyInterrupted, Delete, RemoveDir, StagesDone, CopiesDone, DeletesDone,
           inputs, scans
    <3>3. LateCall \/ Cancel \/ UNCHANGED vars => UNCHANGED <<src, plan, dstList, gone>>
      BY DEF LateCall, Cancel, vars, inputs, scans
    <3> QED
      BY <1>2, <3>1, <3>2, <3>3 DEF Next
  <2> QED
    BY <2>1, <2>2, <2>3
<1> QED
  BY <1>1, <1>2, SyncTypes, PTL DEF Spec
=============================================================================
