--------------------------- MODULE SyncExecProofs ---------------------------
(***************************************************************************)
(* What Execute makes of a plan, for every tree, filter chain, fault and   *)
(* late call: nothing but the plan is done to the destination, deletions   *)
(* wait for the copies, and a plain success is a destination in sync.      *)
(***************************************************************************)
EXTENDS SyncProofs

Removals == plan.deletes \cup plan.rmdirs
Landed(p) == dst[p] = srcList[p] \/ p \in outside

(* What Diff puts into which part of a plan P.                             *)
Chosen(P, sl, dl) ==
  /\ \A p \in P.copies : p \in Paths /\ sl[p].kind = "file" /\ InScope(sl, p)
  /\ \A p \in P.mkdirs : p \in Paths /\ sl[p] = Dir /\ \A q \in Parents(p) : sl[q] = Dir
  /\ \A p \in P.unblocks : p \in Paths /\ InScope(sl, p)
  /\ \A p \in P.deletes \cup P.rmdirs :
       p \in Paths /\ sl[p] = None /\ dl[p] # None /\ Admits(p, dl[p] = Dir)
  /\ ~Mirroring => P.unblocks = {} /\ P.deletes \cup P.rmdirs = {}
PlanInv == Chosen(plan, srcList, dstList)

(* What it leaves out of a plan: what the listing shows to be right.       *)
InSync(s, d) ==
  IF Mirroring THEN d.kind = s.kind /\ (d = Dir \/ Close(s, d))
  ELSE /\ d # None
       /\ d.kind = "file" /\ s.kind = "file" => Close(s, d) \/ s.mtime <= d.mtime + Tolerance
Covered(P, sl, dl) ==
  /\ \A p \in Paths : InScope(sl, p) =>
       \/ sl[p].kind = "file" /\ p \in P.copies
       \/ sl[p] = Dir /\ p \in P.mkdirs
       \/ p \notin P.copies \cup P.unblocks /\ dl[p] # None /\ InSync(sl[p], dl[p])
  /\ Mirroring /\ ~P.blocked =>
       \A p \in Paths : sl[p] = None /\ dl[p] \notin {None, Dir} /\ Admits(p, FALSE)
         => p \in P.deletes
  /\ Mirroring /\ ~P.blocked =>
       \A p \in Paths : sl[p] = None /\ dl[p] = Dir /\ Admits(p, TRUE) => p \in P.rmdirs
CoverInv == stage # "scan" => Covered(plan, srcList, dstList)

(* Execute and the calls it left behind work on the plan only.             *)
Part(s) == IF s = "unblock" THEN plan.unblocks ELSE IF s = "mkdir" THEN plan.mkdirs
           ELSE IF s = "copy" THEN plan.copies ELSE IF s = "delete" THEN plan.deletes
           ELSE IF s = "rmdir" THEN plan.rmdirs ELSE {}
Planned(op, p) == IF op = "remove" THEN p \in plan.unblocks \cup Removals
                  ELSE IF op = "mkdir" THEN p \in plan.mkdirs ELSE p \in plan.copies
CallsInv ==
  /\ todo \subseteq Part(stage)
  /\ busy \subseteq plan.copies /\ (busy # {} => stage = "copy")
  /\ \A c \in late : Planned(c[1], c[2])
  /\ stage = "scan" => late = {} /\ plan = NoPlan /\ skipped = {}
  /\ skipped \subseteq gone

(* What a copy replaces, and what is no directory where one is made.       *)
Renews(s, d) == d.kind = "file" /\ s.mtime > d.mtime
Replaces(P, sl, dl) ==
  /\ ~Mirroring => \A p \in P.copies : dl[p] = None \/ Renews(sl[p], dl[p])
  /\ Mirroring => \A p \in P.mkdirs \ P.unblocks : InScope(sl, p) => dl[p] = None

(* What may have become of the destination's entries.                      *)
DstInv ==
  /\ \A p \in Removals : dst[p] \in {dstList[p], None}
  /\ ~Mirroring /\ dstComplete =>
       \A p \in plan.copies : dst[p] \in {None, Dir, srcList[p]} \/ Renews(srcList[p], dst[p])
  /\ stage # "scan" =>
       /\ \A p \in Paths \ (plan.copies \cup plan.unblocks \cup Removals) :
            dstList[p] # None => dst[p] = dstList[p]
       /\ dstComplete => \A p \in Paths :
            srcList[p] = None /\ Admits(p, FALSE) /\ dst[p] \notin {None, Dir} =>
              dst[p] = dstList[p]
       /\ dstComplete => \A p \in Paths :
            srcList[p] = None /\ Admits(p, TRUE) /\ dst[p] = Dir => dstList[p] = Dir
       /\ dstComplete /\ Mirroring => \A p \in plan.mkdirs \ plan.unblocks :
            InScope(srcList, p) => dst[p] \in {None, Dir}

(* How far an execution that met no failure has come.                      *)
LateInv ==
  failures = {} =>
    /\ \A c \in late : c[1] = "rename" \/ (c[1] = "remove" /\ c[2] \in Removals)
    /\ stage \in {"unblock", "mkdir"} => late = {}
Clean == failures = {} /\ ~ExecDone /\ stage # "scan" /\ (stage = "done" => ~withheld)
ProgressInv ==
  Clean =>
    /\ \A p \in plan.unblocks :
         (stage = "unblock" /\ p \in todo) \/ dst[p] \in {None, Dir, srcList[p]}
    /\ \A p \in plan.mkdirs :
         stage = "unblock" \/ (stage = "mkdir" /\ p \in todo) \/ p \in outside \/ dst[p] # None
    /\ \A p \in plan.copies :
         \/ stage \in {"unblock", "mkdir"} \/ (stage = "copy" /\ p \in todo \cup busy)
         \/ p \in skipped \/ Landed(p)
    /\ \A p \in plan.deletes :
         \/ stage \in {"unblock", "mkdir", "copy"} \/ (stage = "delete" /\ p \in todo)
         \/ dst[p] = None
    /\ \A p \in plan.rmdirs :
         \/ stage \in {"unblock", "mkdir", "copy", "delete"} \/ (stage = "rmdir" /\ p \in todo)
         \/ dst[p] = None \/ p \in leftDirs

(* Whoever deletes, or may, under skip_deletes has every copy in place.    *)
Deleting ==
  \/ \E p \in Removals : dst[p] = None \/ <<"remove", p>> \in late
  \/ stage \in {"delete", "rmdir"} /\ ~ExecDone /\ Removals # {}
DeletesInv ==
  opts.deletePolicy = "skip_deletes" /\ Deleting =>
    /\ stage \in {"delete", "rmdir", "done"}
    /\ \A c \in late : c[1] = "remove" => c[2] \in Removals
    /\ \A p \in plan.copies \ skipped : Landed(p)

TreeInv == IsTree(src)

IInv == /\ TypeOK /\ TreeInv /\ PlanInv /\ CoverInv /\ CallsInv
        /\ DstInv /\ LateInv /\ ProgressInv /\ DeletesInv

-----------------------------------------------------------------------------
(* The listings                                                            *)

LEMMA Kinds ==
  ASSUME NEW e \in Entries
  PROVE  /\ e.kind \in {"none", "dir", "link", "file"}
         /\ e.kind = "none" <=> e = None
         /\ e.kind = "dir" <=> e = Dir
         /\ e.kind = "link" <=> e = Link
         /\ e.kind = "file" <=> e \in Files
         /\ e.size \in Nat /\ e.mtime \in Nat
BY EngineAssumption DEF Entries, None, Dir, Link

(* Above whatever is listed, directories are listed.                       *)
LEMMA ListedParents ==
  ASSUME NEW t, IsTree(t), NEW excludes, NEW u, NEW v \in SUBSET FilesOf(t),
         NEW p \in Paths, Listing(t, excludes, u, v)[p] # None, NEW q \in Parents(p)
  PROVE  Listing(t, excludes, u, v)[q] = Dir
<1>0. q \in Paths
  BY EngineAssumption
<1>1. t[p] # None /\ ~Hidden(excludes, u, t, p)
  BY DEF Listing
<1>2. t[q] = Dir
  BY <1>1 DEF IsTree
<1>3. q \notin v
  BY <1>2 DEF FilesOf, Dir
<1>4. ~PrunesDir(excludes, q) /\ \A r \in Parents(q) : ~PrunesDir(excludes, r) /\ r \notin u
  BY <1>1, ParentsTransitive DEF Hidden
<1>5. ~Hidden(excludes, u, t, q)
  BY <1>1, <1>2, <1>4 DEF Hidden, Dir
<1> QED
  BY <1>0, <1>2, <1>3, <1>5 DEF Listing

(* What a listing in full does not show of what is in scope is not there,  *)
(* or a directory that is out of scope as one.                             *)
LEMMA SeenInFull ==
  ASSUME NEW t, NEW p \in Paths, NEW isDir, Admits(p, isDir),
         Listing(t, chain.excludes, {}, {})[p] = None, t[p] # None
  PROVE  t[p] = Dir /\ Matches(chain.excludes, p, TRUE)
<1>1. Hidden(chain.excludes, {}, t, p)
  BY DEF Listing
<1>2. \A q \in Parents(p) : ~PrunesDir(chain.excludes, q)
  BY PruneIsSound DEF Admits
<1> QED
  BY <1>1, <1>2 DEF Hidden, PrunesDir

-----------------------------------------------------------------------------
(* The plan                                                                *)

LEMMA SameFileIsClose ==
  ASSUME NEW s \in Entries, NEW d \in Entries, SameFile(s, d) PROVE Close(s, d)
<1>1. s.mtime \in Nat /\ d.mtime \in Nat /\ Tolerance \in Nat /\ Hour \in Nat
  BY Kinds, EngineAssumption
<1> QED
  BY <1>1 DEF SameFile, Close, Abs

LEMMA DiffFacts ==
  ASSUME NEW sl \in [Paths -> Entries], NEW dl \in [Paths -> Entries], NEW complete,
         \A p \in Paths : sl[p] # None => \A q \in Parents(p) : sl[q] = Dir,
         NEW P, P = Diff(sl, complete, dl)
  PROVE  Chosen(P, sl, dl) /\ Covered(P, sl, dl) /\ Replaces(P, sl, dl)
<1> DEFINE wanted  == { p \in Paths : sl[p] \notin {None, Link} /\ Admits(p, sl[p] = Dir) }
           blocked == { p \in wanted : dl[p] # None /\ dl[p].kind # sl[p].kind }
           absent  == { p \in wanted : dl[p] = None }
           creates == IF Mirroring THEN absent \cup blocked ELSE absent
           changed == { p \in wanted \ (absent \cup blocked) :
                          /\ sl[p] # Dir /\ ~SameFile(sl[p], dl[p])
                          /\ Mirroring \/ SrcIsNewer(sl[p], dl[p]) }
           copies  == { p \in creates : sl[p] # Dir } \cup changed
           removals == IF DeletionGuard(sl, complete, dl) THEN {} ELSE Extraneous(sl, dl)
<1>1. /\ P.unblocks = IF Mirroring THEN blocked ELSE {}
      /\ P.mkdirs = { p \in creates : sl[p] = Dir } \cup RequiredDirs(copies, dl)
      /\ P.copies = copies
      /\ P.deletes = { p \in removals : dl[p] # Dir }
      /\ P.rmdirs = { p \in removals : dl[p] = Dir }
      /\ P.blocked = (Extraneous(sl, dl) # removals)
  BY DEF Diff
<1>2. \A p \in wanted : p \in Paths /\ InScope(sl, p)
  BY DEF InScope
<1>3. \A p \in Paths : InScope(sl, p) => p \in wanted
  BY DEF InScope
<1>4. \A p \in wanted : sl[p] = Dir \/ sl[p].kind = "file"
  BY Kinds
<1>5. blocked \subseteq wanted /\ absent \subseteq wanted /\ copies \subseteq wanted
  OBVIOUS
<1>6. \A p \in copies : sl[p] # Dir
  OBVIOUS
<1>7. \A p \in RequiredDirs(copies, dl) :
        p \in Paths /\ sl[p] = Dir /\ dl[p] # Dir /\ \A q \in Parents(p) : sl[q] = Dir
  <2> SUFFICES ASSUME NEW p \in RequiredDirs(copies, dl)
               PROVE  p \in Paths /\ sl[p] = Dir /\ dl[p] # Dir /\ \A q \in Parents(p) : sl[q] = Dir
    OBVIOUS
  <2>1. PICK c \in copies : p \in Parents(c) /\ dl[p] # Dir
    BY DEF RequiredDirs
  <2>2. c \in Paths /\ sl[c] # None
    BY <1>5
  <2>3. p \in Paths /\ sl[p] = Dir
    BY <2>1, <2>2, EngineAssumption
  <2> QED
    BY <2>1, <2>3 DEF Dir, None
<1>8. \A p \in P.mkdirs : p \in Paths /\ sl[p] = Dir /\ \A q \in Parents(p) : sl[q] = Dir
  <2>1. \A p \in creates : p \in Paths /\ (sl[p] = Dir => \A q \in Parents(p) : sl[q] = Dir)
    BY <1>5 DEF Dir, None
  <2> QED
    BY <1>1, <1>7, <2>1
<1>9. \A p \in P.deletes \cup P.rmdirs :
        p \in Paths /\ sl[p] = None /\ dl[p] # None /\ Admits(p, dl[p] = Dir) /\ Mirroring
  BY <1>1 DEF Extraneous
<1>10. ASSUME NEW p \in wanted
       PROVE  \/ sl[p].kind = "file" /\ p \in P.copies
              \/ sl[p] = Dir /\ p \in P.mkdirs
              \/ p \notin P.copies \cup P.unblocks /\ dl[p] # None /\ InSync(sl[p], dl[p])
  <2>0. p \in Paths /\ sl[p] \in Entries /\ dl[p] \in Entries
    OBVIOUS
  <2>1. CASE p \in creates
    BY <1>1, <1>4, <2>1
  <2>2. CASE p \in blocked /\ ~Mirroring
    BY <1>1, <2>2 DEF InSync
  <2>3. CASE p \notin absent \cup blocked
    <3>1. dl[p] # None /\ dl[p].kind = sl[p].kind /\ p \notin creates /\ p \notin P.unblocks
      BY <1>1, <2>3
    <3>2. CASE sl[p] = Dir
      BY <1>1, <1>6, <2>0, <3>1, <3>2, Kinds DEF InSync, Dir
    <3>3. CASE sl[p] # Dir /\ p \in changed
      BY <1>1, <1>4, <3>3
    <3>4. CASE sl[p] # Dir /\ p \notin changed
      <4>1. p \notin P.copies
        BY <1>1, <3>1, <3>4
      <4>2. SameFile(sl[p], dl[p]) \/ (~Mirroring /\ ~SrcIsNewer(sl[p], dl[p]))
        BY <2>3, <3>4
      <4>3. Close(sl[p], dl[p]) \/ (~Mirroring /\ sl[p].mtime <= dl[p].mtime + Tolerance)
        BY <2>0, <4>2, SameFileIsClose, Kinds, EngineAssumption DEF SrcIsNewer
      <4> QED
        BY <3>1, <4>1, <4>3 DEF InSync
    <3> QED
      BY <3>2, <3>3, <3>4
  <2> QED
    BY <2>1, <2>2, <2>3
<1>11. ASSUME Mirroring, ~P.blocked, NEW p \in Paths,
              sl[p] = None, dl[p] \notin {None, Dir}, Admits(p, FALSE)
       PROVE  p \in P.deletes
  <2>1. (dl[p] = Dir) = FALSE
    BY <1>11
  <2>2. p \in Extraneous(sl, dl)
    BY <1>11, <2>1 DEF Extraneous
  <2> QED
    BY <1>1, <1>11, <2>2
<1>11d. ASSUME Mirroring, ~P.blocked, NEW p \in Paths,
               sl[p] = None, dl[p] = Dir, Admits(p, TRUE)
        PROVE  p \in P.rmdirs
  <2>1. (dl[p] = Dir) = TRUE /\ dl[p] # None
    BY <1>11d DEF Dir, None
  <2>2. p \in Extraneous(sl, dl)
    BY <1>11d, <2>1 DEF Extraneous
  <2> QED
    BY <1>1, <1>11d, <2>2
<1>12. ASSUME ~Mirroring, NEW p \in P.copies PROVE dl[p] = None \/ Renews(sl[p], dl[p])
  <2>1. p \in absent \/ p \in changed
    BY <1>1, <1>12
  <2>2. CASE p \in changed
    <3>1. p \in Paths /\ sl[p] \in Entries /\ dl[p] \in Entries /\ SrcIsNewer(sl[p], dl[p])
      BY <1>12, <2>2
    <3>2. dl[p].kind = "file"
      BY <1>4, <2>2
    <3> QED
      BY <3>1, <3>2, Kinds, EngineAssumption DEF SrcIsNewer, Renews
  <2> QED
    BY <2>1, <2>2
<1>13. ASSUME Mirroring, NEW p \in P.mkdirs \ P.unblocks, InScope(sl, p) PROVE dl[p] = None
  <2>1. p \in wanted /\ p \notin blocked /\ dl[p] \in Entries /\ sl[p] = Dir
    BY <1>1, <1>3, <1>8, <1>13
  <2>2. dl[p] = None \/ dl[p] = Dir
    BY <2>1, Kinds DEF Dir
  <2>3. dl[p] # Dir
    BY <1>1, <1>7, <1>13, <2>1 DEF None, Dir
  <2> QED
    BY <2>2, <2>3
<1>14. \A p \in P.copies : p \in Paths /\ sl[p].kind = "file" /\ InScope(sl, p)
  BY <1>1, <1>2, <1>4, <1>5, <1>6
<1>15. \A p \in P.unblocks : p \in Paths /\ InScope(sl, p)
  BY <1>1, <1>2, <1>5
<1>16. ~Mirroring => P.unblocks = {} /\ P.deletes \cup P.rmdirs = {}
  BY <1>1, <1>9
<1> HIDE DEF wanted, blocked, absent, creates, changed, copies, removals
<1> QED
  BY <1>3, <1>8, <1>9, <1>10, <1>11, <1>11d, <1>12, <1>13, <1>14, <1>15, <1>16
  DEF Chosen, Covered, Replaces

(* What Plan starts Execute with.                                          *)
LEMMA PlanStep ==
  ASSUME TypeOK, TreeInv, CallsInv, Plan
  PROVE  /\ PlanInv' /\ CoverInv' /\ CallsInv' /\ DstInv'
         /\ LateInv' /\ ProgressInv' /\ DeletesInv'
<1>1. PICK us \in ScanErrors(src, chain.jobExcludes), ud \in ScanErrors(dst, chain.excludes),
           v \in SUBSET FilesOf(src) :
        /\ srcList' = Listing(src, chain.jobExcludes, us, v)
        /\ dstList' = Listing(dst, chain.excludes, ud, {})
        /\ dstComplete' = (ud = {})
  BY DEF Plan
<1>2. /\ chain' = chain /\ opts' = opts /\ dst' = dst /\ outside' = outside /\ late' = late
      /\ busy' = busy /\ skipped' = skipped /\ failures' = failures
      /\ plan' = Diff(srcList', srcComplete', dstList')
      /\ stage = "scan" /\ stage' = "unblock" /\ todo' = plan'.unblocks
  BY DEF Plan, inputs, pool, results
<1>3. srcList' \in [Paths -> Entries] /\ dstList' \in [Paths -> Entries]
  BY <1>1, ListingType DEF TypeOK
<1>4. \A p \in Paths : srcList'[p] # None => \A q \in Parents(p) : srcList'[q] = Dir
  BY <1>1, ListedParents DEF TreeInv
<1>5. late = {} /\ busy = {} /\ skipped = {}
  BY <1>2 DEF CallsInv
<1>6. \A p \in Paths : dstList'[p] # None => dst[p] = dstList'[p]
  BY <1>1 DEF Listing
<1> DEFINE P == plan'
           sl == srcList'
           dl == dstList'
<1>7. Chosen(P, sl, dl) /\ Covered(P, sl, dl) /\ Replaces(P, sl, dl)
  BY <1>2, <1>3, <1>4, DiffFacts
<1>10. PlanInv'
  BY <1>2, <1>7 DEF PlanInv, Chosen, InScope, Admits, Mirroring
<1>11. CoverInv'
  BY <1>2, <1>7 DEF CoverInv, Covered, InScope, Admits, Mirroring, InSync, Close
<1>12. CallsInv'
  BY <1>2, <1>5 DEF CallsInv, Part
<1>13. DstInv'
  <2>1. \A p \in P.deletes \cup P.rmdirs : dst'[p] \in {dl[p], None}
    BY <1>2, <1>6, <1>7 DEF Chosen
  <2>2. ASSUME dstComplete', NEW p \in Paths, NEW d, Admits(p, d), dl[p] = None, dst[p] # None
        PROVE  dst[p] = Dir /\ Matches(chain.excludes, p, TRUE)
    <3>1. ud = {}
      BY <1>1, <2>2
    <3> QED
      BY <1>1, <2>2, <3>1, SeenInFull
  <2>3. ASSUME ~Mirroring, dstComplete', NEW p \in P.copies
        PROVE  dst'[p] \in {None, Dir, sl[p]} \/ Renews(sl[p], dst'[p])
    BY <1>2, <1>6, <1>7, <2>2, <2>3 DEF InScope, Chosen, Replaces
  <2>4. ASSUME dstComplete', NEW p \in Paths, Admits(p, FALSE), dst'[p] \notin {None, Dir}
        PROVE  dst'[p] = dl[p]
    BY <1>2, <1>6, <2>2, <2>4
  <2>4d. ASSUME dstComplete', NEW p \in Paths, Admits(p, TRUE), dst'[p] = Dir
         PROVE  dl[p] = Dir
    <3>1. dst[p] # None
      BY <1>2, <2>4d DEF Dir, None
    <3>2. ~Matches(chain.excludes, p, TRUE)
      BY <2>4d, Zenon DEF Admits
    <3> QED
      BY <1>2, <1>6, <2>2, <2>4d, <3>1, <3>2
  <2>5. ASSUME dstComplete', Mirroring, NEW p \in P.mkdirs \ P.unblocks, InScope(sl, p)
        PROVE  dst'[p] \in {None, Dir}
    BY <1>2, <1>7, <2>2, <2>5 DEF InScope, Chosen, Replaces, Admits, Dir
  <2> QED
    BY <1>2, <1>6, <2>1, <2>3, <2>4, <2>4d, <2>5 DEF DstInv, Removals, InScope, Admits, Mirroring, Renews
<1>14. LateInv' /\ ProgressInv'
  BY <1>2, <1>5 DEF LateInv, ProgressInv
<1>15. DeletesInv'
  <2>1. ~Deleting'
    BY <1>2, <1>5, <1>6, <1>7 DEF Deleting, Removals, Chosen
  <2> QED
    BY <2>1 DEF DeletesInv
<1> QED
  BY <1>10, <1>11, <1>12, <1>13, <1>14, <1>15

-----------------------------------------------------------------------------
(* What a step may do to the destination                                   *)

MayRemove(q) ==
  \/ <<"remove", q>> \in late
  \/ stage = "unblock" /\ q \in plan.unblocks
  \/ stage \in {"delete", "rmdir"} /\ ~ExecDone /\ q \in Removals
EntryStep(q) ==
  \/ dst'[q] = dst[q]
  \/ dst'[q] = None /\ MayRemove(q)
  \/ dst[q] = None /\ dst'[q] = Dir /\ srcList[q] = Dir
  \/ q \in plan.copies /\ dst[q] # Dir /\ dst'[q] = srcList[q]
Entered == outside \subseteq outside' /\ \A q \in Paths : EntryStep(q)

LEMMA EffectStep ==
  ASSUME TypeOK, PlanInv, NEW op \in {"remove", "mkdir", "rename"}, NEW p \in Paths,
         op = "remove" => MayRemove(p), op # "remove" => Planned(op, p),
         Possible(op, p), Effect(op, p)
  PROVE  Entered
<1>1. CASE op = "remove"
  <2>1. RemoveEffect(p)
    BY <1>1 DEF Effect
  <2>2. outside' = outside /\ dst'[p] = None /\ \A q \in Paths : q # p => dst'[q] = dst[q]
    BY <2>1 DEF RemoveEffect, TypeOK
  <2> QED
    BY <1>1, <2>2 DEF Entered, EntryStep
<1>2. CASE op = "mkdir"
  <2>1. MkdirEffect(p) /\ p \in plan.mkdirs
    BY <1>2 DEF Effect, Planned
  <2>2. \A q \in Parents(p) \cup {p} : srcList[q] = Dir
    BY <2>1 DEF PlanInv, Chosen
  <2>3. /\ outside \subseteq outside'
        /\ \A q \in Paths : dst'[q] = dst[q] \/
             (q \in Parents(p) \cup {p} /\ dst[q] = None /\ dst'[q] = Dir)
    BY <2>1 DEF MkdirEffect, TypeOK
  <2> QED
    BY <2>2, <2>3 DEF Entered, EntryStep
<1>3. CASE op = "rename"
  <2>1. LandEffect(p) /\ p \in plan.copies /\ dst[p] # Dir
    BY <1>3 DEF Effect, Possible, CanLand, Planned
  <2>2. /\ outside \subseteq outside'
        /\ \A q \in Paths : dst'[q] = dst[q] \/ (q = p /\ dst'[q] = srcList[q])
    BY <2>1 DEF LandEffect, TypeOK
  <2> QED
    BY <2>1, <2>2 DEF Entered, EntryStep
<1> QED
  BY <1>1, <1>2, <1>3

LEMMA CallStep ==
  ASSUME TypeOK, PlanInv, NEW op \in {"remove", "mkdir", "rename"}, NEW p \in Paths,
         op = "remove" => MayRemove(p), op # "remove" => Planned(op, p),
         Call(op, p) \/ CallFails(op, p)
  PROVE  Entered /\ \A c \in late' : c \in late \/ c = <<op, p>>
<1>1. CASE Call(op, p)
  BY <1>1, EffectStep DEF Call
<1>2. CASE CallFails(op, p)
  BY <1>2 DEF CallFails, Hangs, Entered, EntryStep
<1> QED
  BY <1>1, <1>2

(* Every step of Execute, and every late call, is planned.                 *)
LateStep(c) ==
  \/ c \in late
  \/ stage = "copy" /\ \E p \in plan.copies : c = <<"rename", p>>
  \/ stage = "mkdir" /\ failures' # {} /\ \E p \in plan.mkdirs : c = <<"mkdir", p>>
  \/ /\ stage \in {"unblock", "delete", "rmdir"} /\ (stage # "rmdir" => failures' # {})
     /\ \E p \in Paths : MayRemove(p) /\ c = <<"remove", p>>
Frame ==
  /\ UNCHANGED <<inputs, scans>> /\ Entered
  /\ \A c \in late' : LateStep(c)
  /\ failures \subseteq failures' /\ (ExecDone => ExecDone') /\ (withheld => withheld')
  /\ skipped \subseteq skipped' /\ gone \subseteq gone' /\ leftDirs \subseteq leftDirs'

LEMMA StillFrame ==
  ASSUME UNCHANGED <<inputs, scans, dst, outside, late>>,
         failures \subseteq failures', ExecDone => ExecDone', withheld => withheld',
         skipped \subseteq skipped', gone \subseteq gone', leftDirs \subseteq leftDirs'
  PROVE  Frame
BY DEF Frame, Entered, EntryStep, LateStep

LEMMA FailCopyRecords ==
  ASSUME NEW p, NEW why, FailCopy(p, why)
  PROVE  failures \subseteq failures' /\ failures' # {} /\ (aborted => aborted')
<1>1. failures' = failures \cup {Failure(p, why)}
  BY DEF FailCopy, Records
<1>2. aborted => aborted'
  BY Zenon DEF FailCopy
<1> QED
  BY <1>1, <1>2

LEMMA ExecFrame ==
  ASSUME TypeOK, PlanInv, CallsInv, ExecStep PROVE Frame
<1>1. ASSUME NEW p \in Paths, ClearBlocker(p) PROVE Frame
  <2>1. /\ stage = "unblock" /\ MayRemove(p)
        /\ Call("remove", p) \/ CallFails("remove", p)
        /\ (failures' = failures /\ UNCHANGED late) \/ failures' = failures \cup {Failure(p, "other")}
        /\ UNCHANGED <<inputs, scans, gone, skipped, withheld, leftDirs, aborted, cancelled>>
    BY <1>1 DEF ClearBlocker, Step, MayRemove, CallsInv, Part, Records, Call
  <2>2. Entered /\ \A c \in late' : c \in late \/ c = <<"remove", p>>
    BY <2>1, CallStep
  <2> QED
    BY <2>1, <2>2 DEF Frame, LateStep, ExecDone
<1>2. ASSUME NEW p \in Paths, MakeDir(p) PROVE Frame
  <2>1. /\ stage = "mkdir" /\ Planned("mkdir", p) /\ p \in plan.mkdirs
        /\ Call("mkdir", p) \/ CallFails("mkdir", p)
        /\ (failures' = failures /\ UNCHANGED late) \/ failures' = failures \cup {Failure(p, "other")}
        /\ UNCHANGED <<inputs, scans, gone, skipped, withheld, leftDirs, aborted, cancelled>>
    BY <1>2 DEF MakeDir, Step, Planned, CallsInv, Part, Records, Call
  <2>2. Entered /\ \A c \in late' : c \in late \/ c = <<"mkdir", p>>
    BY <2>1, CallStep
  <2> QED
    BY <2>1, <2>2 DEF Frame, LateStep, ExecDone
<1>3. ASSUME NEW p \in Paths, StartCopy(p) \/ CopyVanishes(p) PROVE Frame
  BY <1>3, StillFrame DEF StartCopy, CopyVanishes, results, ExecDone
<1>4. ASSUME NEW p \in Paths, p \in busy PROVE stage = "copy" /\ p \in plan.copies /\ Planned("rename", p)
  BY <1>4 DEF CallsInv, Planned
<1>5. ASSUME NEW p \in Paths, CopyLands(p) PROVE Frame
  <2>1. Entered /\ late' = late
    BY <1>4, <1>5, CallStep DEF CopyLands, Call
  <2> QED
    BY <1>5, <2>1 DEF CopyLands, Frame, LateStep, ExecDone, results
<1>6. ASSUME NEW p \in Paths, NEW transport \in BOOLEAN, CopyAttemptFails(p, transport) PROVE Frame
  <2>1. Entered /\ \A c \in late' : c \in late \/ c = <<"rename", p>>
    <3>1. CASE transport
      BY <1>4, <1>6, <3>1, CallStep DEF CopyAttemptFails
    <3>2. CASE ~transport
      BY <1>6, <3>2 DEF CopyAttemptFails, Entered, EntryStep
    <3> QED
      BY <3>1, <3>2
  <2>2. failures \subseteq failures' /\ (aborted => aborted') /\ cancelled' = cancelled
    BY <1>6, FailCopyRecords DEF CopyAttemptFails, ConfirmShareGone
  <2> QED
    BY <1>4, <1>6, <2>1, <2>2 DEF CopyAttemptFails, Frame, LateStep, ExecDone
<1>7. ASSUME NEW p \in Paths, NEW why, CopyRefused(p, why) \/ CopyInterrupted(p) PROVE Frame
  <2>1. /\ UNCHANGED <<inputs, scans, dst, outside, skipped, gone, withheld, leftDirs, cancelled>> /\ p \in busy
        /\ \A c \in late' : c \in late \/ c = <<"rename", p>>
    BY <1>7 DEF CopyRefused, CopyInterrupted, Hangs, results
  <2>2. failures \subseteq failures' /\ (aborted => aborted')
    BY <1>7, FailCopyRecords DEF CopyRefused, CopyInterrupted, results
  <2> QED
    BY <1>4, <2>1, <2>2 DEF Frame, Entered, EntryStep, LateStep, ExecDone
<1>8. ASSUME NEW p \in Paths, Delete(p) PROVE Frame
  <2>1. /\ stage = "delete" /\ MayRemove(p)
        /\ Call("remove", p) \/ CallFails("remove", p)
        /\ (failures' = failures /\ UNCHANGED late) \/ failures' = failures \cup {Failure(p, "other")}
        /\ UNCHANGED <<inputs, scans, gone, skipped, withheld, leftDirs, cancelled>>
    BY <1>8 DEF Delete, MayRemove, CallsInv, Part, Records, Removals, Call
  <2>2. Entered /\ \A c \in late' : c \in late \/ c = <<"remove", p>>
    BY <2>1, CallStep
  <2>3. aborted' = aborted \/ aborted' = (aborted \/ opts.onError = "abort")
    BY <1>8 DEF Delete
  <2>4. aborted => aborted'
    BY <2>3, Zenon
  <2> QED
    BY <2>1, <2>2, <2>4 DEF Frame, LateStep, ExecDone
<1>9. ASSUME NEW p \in Paths, RemoveDir(p) PROVE Frame
  <2>1. /\ stage = "rmdir" /\ MayRemove(p)
        /\ Call("remove", p) \/ CallFails("remove", p)
        /\ UNCHANGED <<inputs, scans, gone, failures, skipped, withheld, aborted, cancelled>>
        /\ leftDirs \subseteq leftDirs'
    BY <1>9 DEF RemoveDir, Deepest, MayRemove, CallsInv, Part, Removals
  <2>2. Entered /\ \A c \in late' : c \in late \/ c = <<"remove", p>>
    BY <2>1, CallStep
  <2> QED
    BY <2>1, <2>2 DEF Frame, LateStep, ExecDone
<1>10. CASE StagesDone \/ CopiesDone \/ DeletesDone
  BY <1>10, StillFrame DEF StagesDone, CopiesDone, DeletesDone, results, ExecDone, TypeOK
<1> QED
  BY <1>1, <1>2, <1>3, <1>5, <1>6, <1>7, <1>8, <1>9, <1>10 DEF ExecStep

LEMMA NextFrame ==
  ASSUME TypeOK, PlanInv, CallsInv, [Next]_vars, ~Plan PROVE Frame
<1>1. CASE LateCall
  <2>1. PICK c \in late :
          /\ late' = late \ {c}
          /\ (Possible(c[1], c[2]) /\ Effect(c[1], c[2])) \/ UNCHANGED <<dst, outside>>
    BY <1>1 DEF LateCall
  <2>2. /\ c[1] \in {"remove", "mkdir", "rename"} /\ c[2] \in Paths
        /\ c[1] = "remove" => MayRemove(c[2])
        /\ Planned(c[1], c[2])
    BY DEF TypeOK, Calls, MayRemove, CallsInv
  <2>3. Entered
    BY <2>1, <2>2, EffectStep DEF Entered, EntryStep
  <2> QED
    BY <1>1, <2>1, <2>3 DEF LateCall, Frame, LateStep, ExecDone, results
<1>2. CASE Cancel \/ UNCHANGED vars
  BY <1>2, StillFrame DEF Cancel, vars, results, ExecDone
<1> QED
  BY <1>1, <1>2, ExecFrame DEF Next

-----------------------------------------------------------------------------
(* The parts of the invariant                                              *)

LEMMA PlanKept ==
  ASSUME PlanInv, UNCHANGED <<inputs, scans>> PROVE PlanInv'
BY DEF PlanInv, Chosen, InScope, Admits, Mirroring, inputs, scans

LEMMA CoverKept ==
  ASSUME CoverInv, UNCHANGED <<inputs, scans>>, stage = "scan" => stage' = "scan" PROVE CoverInv'
BY DEF CoverInv, Covered, InScope, Admits, Mirroring, InSync, Close, inputs, scans

LEMMA RemovedIsPlanned ==
  ASSUME CallsInv, NEW p, MayRemove(p) PROVE p \in plan.unblocks \cup Removals
<1>1. CASE <<"remove", p>> \in late
  <2>1. Planned("remove", p)
    BY <1>1 DEF CallsInv
  <2> QED
    BY <2>1 DEF Planned
<1> QED
  BY <1>1 DEF MayRemove

LEMMA CallsNext ==
  ASSUME TypeOK, CallsInv, [Next]_vars, ~Plan, Frame
  PROVE  CallsInv' /\ (stage = "scan" <=> stage' = "scan")
<1>0. plan' = plan
  BY DEF Frame, scans
<1>1. \A c \in late' : Planned(c[1], c[2])'
  <2> SUFFICES ASSUME NEW c \in late' PROVE Planned(c[1], c[2])
    BY <1>0 DEF Planned, Removals
  <2>1. LateStep(c)
    BY DEF Frame
  <2>2. CASE \E p \in Paths : MayRemove(p) /\ c = <<"remove", p>>
    BY <2>2, RemovedIsPlanned DEF Planned
  <2> QED
    BY <2>1, <2>2 DEF LateStep, Planned, CallsInv
<1>2. \A s : Part(s)' = Part(s)
  BY <1>0 DEF Part
<1>3. skipped' \subseteq gone'
  <2>1. CASE UNCHANGED skipped
    BY <2>1 DEF CallsInv, Frame
  <2>2. ASSUME NEW p \in Paths, CopyVanishes(p) PROVE skipped' \subseteq gone'
    BY <2>2 DEF CopyVanishes, CallsInv
  <2>3. UNCHANGED skipped \/ \E p \in Paths : CopyVanishes(p)
    BY DEF Next, ExecStep, ClearBlocker, MakeDir, Step, StartCopy, CopyLands, CopyAttemptFails,
           CopyRefused, CopyInterrupted, Delete, RemoveDir, StagesDone, CopiesDone, DeletesDone,
           LateCall, Cancel, results, vars
  <2> QED
    BY <2>1, <2>2, <2>3
<1>4. ASSUME stage' = stage, stage # "scan", todo' \subseteq todo, busy' \subseteq busy PROVE CallsInv'
  BY <1>0, <1>1, <1>2, <1>3, <1>4 DEF CallsInv
<1>5. CASE UNCHANGED <<stage, todo, pool, late, skipped>>
  BY <1>0, <1>1, <1>2, <1>3, <1>5 DEF CallsInv, pool
<1>6. ASSUME NEW p \in Paths, ExecStep, p \in todo \/ p \in busy PROVE stage # "scan"
  BY <1>6 DEF CallsInv, Part
<1>7. ASSUME NEW p \in Paths,
             \/ ClearBlocker(p) \/ MakeDir(p) \/ CopyLands(p) \/ CopyVanishes(p)
             \/ CopyInterrupted(p) \/ Delete(p) \/ RemoveDir(p)
             \/ \E why \in {"locked", "other"} : CopyRefused(p, why)
             \/ \E transport \in BOOLEAN : CopyAttemptFails(p, transport)
      PROVE  stage' = stage /\ stage # "scan" /\ todo' \subseteq todo /\ busy' \subseteq busy
  <2>1. CASE ClearBlocker(p) \/ MakeDir(p) \/ Delete(p) \/ RemoveDir(p)
    BY <2>1 DEF ClearBlocker, MakeDir, Step, Delete, RemoveDir, pool
  <2>2. CASE CopyLands(p) \/ CopyVanishes(p) \/ CopyInterrupted(p)
    BY <2>2 DEF CopyLands, CopyVanishes, CopyInterrupted, Leave, CallsInv
  <2>3. CASE \/ \E why \in {"locked", "other"} : CopyRefused(p, why)
             \/ \E transport \in BOOLEAN : CopyAttemptFails(p, transport)
    <3>1. stage' = stage /\ todo' = todo /\ p \in busy
      BY <2>3 DEF CopyRefused, CopyAttemptFails
    <3>2. busy' = busy \/ busy' = busy \ {p}
      BY <2>3 DEF CopyRefused, CopyAttemptFails, ConfirmShareGone, FailCopy, Leave
    <3> QED
      BY <3>1, <3>2 DEF CallsInv
  <2> QED
    BY <1>7, <2>1, <2>2, <2>3
<1>8. ASSUME NEW p \in Paths, StartCopy(p) PROVE CallsInv' /\ stage' = stage
  <2>1. stage = "copy" /\ stage' = "copy" /\ p \in plan.copies /\ todo' \subseteq todo /\ busy' = busy \cup {p}
    BY <1>8 DEF StartCopy, CallsInv, Part
  <2> QED
    BY <1>0, <1>1, <1>2, <1>3, <2>1 DEF CallsInv
<1>9. CASE StagesDone \/ CopiesDone \/ DeletesDone
  <2>1. busy' = busy /\ busy = {}
    BY <1>9 DEF StagesDone, CopiesDone, DeletesDone, pool, CallsInv
  <2>2. todo' = Part(stage') /\ stage # "scan" /\ stage' # "scan"
    BY <1>9 DEF StagesDone, CopiesDone, DeletesDone, EnterStage, Part
  <2> QED
    BY <1>0, <1>1, <1>2, <1>3, <2>1, <2>2 DEF CallsInv
<1>10. CASE LateCall
  <2>1. UNCHANGED <<stage, todo, busy, skipped>> /\ late # {}
    BY <1>10 DEF LateCall, pool, results
  <2> QED
    BY <1>4, <2>1 DEF CallsInv
<1>11. CASE Cancel \/ UNCHANGED vars
  BY <1>5, <1>11 DEF Cancel, vars, results
<1> QED
  BY <1>4, <1>7, <1>8, <1>9, <1>10, <1>11 DEF Next, ExecStep, StagesDone, CopiesDone, DeletesDone,
     EnterStage, LateCall, Cancel, vars

LEMMA DstKept ==
  ASSUME TypeOK, PlanInv, CallsInv, DstInv, Frame, stage = "scan" <=> stage' = "scan"
  PROVE  DstInv'
<1>0. UNCHANGED <<chain, opts, plan, srcList, dstList, dstComplete>>
  BY DEF Frame, inputs, scans
<1>1. \A q \in Paths : EntryStep(q)
  BY DEF Frame, Entered
<1>2. /\ Removals \subseteq Paths /\ plan.copies \subseteq Paths /\ plan.mkdirs \subseteq Paths
      /\ \A q \in Removals : srcList[q] = None
      /\ \A q \in plan.copies : srcList[q] \notin {None, Dir}
      /\ \A q \in plan.mkdirs : srcList[q] = Dir
      /\ \A q \in plan.unblocks : srcList[q] # None
      /\ None # Dir
  BY DEF PlanInv, Chosen, Removals, InScope, None, Dir
<1>3. \A q \in Paths : MayRemove(q) => q \in plan.unblocks \cup Removals
  BY RemovedIsPlanned
<1>4. ~Mirroring => plan.unblocks = {} /\ Removals = {}
  BY DEF PlanInv, Chosen, Removals
<1>5. \A p \in Removals : dst'[p] \in {dstList[p], None}
  BY <1>1, <1>2 DEF EntryStep, DstInv
<1>6. ~Mirroring /\ dstComplete =>
        \A p \in plan.copies : dst'[p] \in {None, Dir, srcList[p]} \/ Renews(srcList[p], dst'[p])
  BY <1>1, <1>2, <1>3, <1>4 DEF EntryStep, DstInv
<1>7. ASSUME stage # "scan", NEW p \in Paths \ (plan.copies \cup plan.unblocks \cup Removals),
             dstList[p] # None
      PROVE  dst'[p] = dstList[p]
  BY <1>1, <1>3, <1>7 DEF EntryStep, DstInv
<1>8. ASSUME stage # "scan", dstComplete, NEW p \in Paths, srcList[p] = None, Admits(p, FALSE),
             dst'[p] \notin {None, Dir}
      PROVE  dst'[p] = dstList[p]
  BY <1>1, <1>2, <1>8 DEF EntryStep, DstInv
<1>8d. ASSUME stage # "scan", dstComplete, NEW p \in Paths, srcList[p] = None, Admits(p, TRUE),
              dst'[p] = Dir
       PROVE  dstList[p] = Dir
  BY <1>1, <1>2, <1>8d DEF EntryStep, DstInv
<1>9. ASSUME stage # "scan", dstComplete, Mirroring, NEW p \in plan.mkdirs \ plan.unblocks,
             InScope(srcList, p)
      PROVE  dst'[p] \in {None, Dir}
  BY <1>1, <1>2, <1>9 DEF EntryStep, DstInv
<1> QED
  BY <1>0, <1>5, <1>6, <1>7, <1>8, <1>8d, <1>9 DEF DstInv, Removals, InScope, Admits, Mirroring, Renews

LEMMA LateKept ==
  ASSUME TypeOK, PlanInv, CallsInv, LateInv, Frame, [Next]_vars, ~Plan
  PROVE  LateInv'
<1> SUFFICES ASSUME failures' = {} PROVE
      /\ \A c \in late' : c[1] = "rename" \/ (c[1] = "remove" /\ c[2] \in Removals)
      /\ stage' \in {"unblock", "mkdir"} => late' = {}
  BY DEF LateInv, Removals, Frame, scans
<1>1. failures = {} /\ \A c \in late' : LateStep(c)
  BY DEF Frame
<1>2. \A p : MayRemove(p) /\ stage = "rmdir" => p \in Removals
  BY <1>1 DEF MayRemove, LateInv
<1>3. \A c \in late' : c[1] = "rename" \/ (c[1] = "remove" /\ c[2] \in Removals)
  BY <1>1, <1>2 DEF LateStep, LateInv
<1>4. ASSUME stage' \in {"unblock", "mkdir"} PROVE stage \in {"unblock", "mkdir"}
  <2>1. stage' = stage \/ StagesDone \/ CopiesDone \/ DeletesDone
    BY DEF Next, ExecStep, ClearBlocker, MakeDir, Step, StartCopy, CopyLands, CopyVanishes,
           CopyAttemptFails, CopyRefused, CopyInterrupted, Delete, RemoveDir, LateCall, Cancel, vars
  <2> QED
    BY <1>4, <2>1 DEF StagesDone, CopiesDone, DeletesDone, EnterStage
<1>5. stage' \in {"unblock", "mkdir"} => late' = {}
  BY <1>1, <1>4 DEF LateStep, LateInv
<1> QED
  BY <1>3, <1>5

(* What has been done stays done.                                          *)
LEMMA DoneStays ==
  ASSUME TypeOK, PlanInv, LateInv, Frame, failures = {}
  PROVE  /\ \A p \in plan.unblocks :
              dst[p] \in {None, Dir, srcList[p]} => dst'[p] \in {None, Dir, srcList[p]}
         /\ \A p \in plan.mkdirs : stage # "unblock" /\ (p \in outside \/ dst[p] # None) =>
              p \in outside' \/ dst'[p] # None
         /\ \A p \in plan.copies : stage # "unblock" /\ Landed(p) => Landed(p)'
         /\ \A p \in Removals : dst[p] = None => dst'[p] = None
<1>0. srcList' = srcList /\ outside \subseteq outside' /\ \A q \in Paths : EntryStep(q)
  BY DEF Frame, Entered, scans
<1>1. /\ plan.unblocks \subseteq Paths /\ plan.copies \subseteq Paths
      /\ plan.mkdirs \subseteq Paths /\ plan.deletes \subseteq Paths
      /\ \A q \in Removals : srcList[q] = None
      /\ \A q \in plan.copies : srcList[q] \notin {None, Dir}
      /\ \A q \in plan.mkdirs : srcList[q] = Dir
      /\ None # Dir /\ Removals \subseteq Paths
  BY DEF PlanInv, Chosen, Removals, InScope, None, Dir
<1>2. \A q : MayRemove(q) => stage = "unblock" \/ q \in Removals
  BY DEF MayRemove, LateInv
<1> QED
  BY <1>0, <1>1, <1>2 DEF EntryStep, Landed

LEMMA CleanBefore ==
  ASSUME TypeOK, Frame, [Next]_vars, stage = "scan" <=> stage' = "scan", Clean'
  PROVE  Clean /\ failures = {} /\ ~ExecDone
<1>1. failures = {} /\ ~ExecDone /\ stage # "scan" /\ (withheld => withheld')
  BY DEF Clean, Frame
<1>2. stage = "done" => stage' = "done"
  BY DEF Next, Plan, ExecStep, ClearBlocker, MakeDir, Step, StartCopy, CopyLands, CopyVanishes,
         CopyAttemptFails, CopyRefused, CopyInterrupted, Delete, RemoveDir, LateCall, Cancel, vars,
         StagesDone, CopiesDone, DeletesDone, EnterStage
<1> QED
  BY <1>1, <1>2 DEF Clean

LEMMA ProgressNext ==
  ASSUME TypeOK, PlanInv, CallsInv, LateInv, ProgressInv, Frame, [Next]_vars, ~Plan,
         stage = "scan" <=> stage' = "scan"
  PROVE  ProgressInv'
<1> SUFFICES ASSUME Clean' PROVE ProgressInv'
  BY DEF ProgressInv
<1>1. Clean /\ failures = {} /\ failures' = {} /\ ~ExecDone /\ plan' = plan /\ srcList' = srcList
      /\ skipped \subseteq skipped' /\ (stage' = "done" => ~withheld')
  BY CleanBefore DEF Frame, scans, Clean
<1>2. /\ \A p \in plan.unblocks :
              dst[p] \in {None, Dir, srcList[p]} => dst'[p] \in {None, Dir, srcList[p]}
      /\ \A p \in plan.mkdirs : stage # "unblock" /\ (p \in outside \/ dst[p] # None) =>
              p \in outside' \/ dst'[p] # None
      /\ \A p \in plan.copies : stage # "unblock" /\ Landed(p) => Landed(p)'
      /\ \A p \in Removals : dst[p] = None => dst'[p] = None
      /\ plan.deletes \subseteq Removals /\ plan.rmdirs \subseteq Removals
      /\ leftDirs \subseteq leftDirs'
  BY <1>1, DoneStays DEF Removals, Frame
<1>3. /\ plan.unblocks \subseteq Paths /\ plan.copies \subseteq Paths
      /\ plan.mkdirs \subseteq Paths /\ plan.deletes \subseteq Paths
  BY DEF TypeOK
<1>4. CASE UNCHANGED <<stage, todo, busy>>
  BY <1>1, <1>2, <1>4 DEF ProgressInv
<1>5. ASSUME NEW p \in Paths, ClearBlocker(p) PROVE ProgressInv'
  <2>1. Call("remove", p) /\ stage = "unblock" /\ stage' = "unblock" /\ todo' = todo \ {p}
    BY <1>1, <1>5 DEF ClearBlocker, Step, Records
  <2>2. dst'[p] = None
    BY <2>1 DEF Call, Effect, RemoveEffect, TypeOK
  <2> QED
    BY <1>1, <1>2, <2>1, <2>2 DEF ProgressInv
<1>6. ASSUME NEW p \in Paths, MakeDir(p) PROVE ProgressInv'
  <2>1. Call("mkdir", p) /\ stage = "mkdir" /\ stage' = "mkdir" /\ todo' = todo \ {p}
    BY <1>1, <1>6 DEF MakeDir, Step, Records
  <2>2. p \in outside' \/ dst'[p] # None
    BY <2>1 DEF Call, Effect, MkdirEffect, TypeOK, None, Dir
  <2> QED
    BY <1>1, <1>2, <2>1, <2>2 DEF ProgressInv
<1>7. ASSUME NEW p \in Paths, StartCopy(p) PROVE ProgressInv'
  <2>1. stage = "copy" /\ stage' = "copy" /\ todo' = todo \ {p} /\ busy' = busy \cup {p}
    BY <1>7 DEF StartCopy
  <2> QED
    BY <1>1, <1>2, <2>1 DEF ProgressInv
<1>8. ASSUME NEW p \in Paths, CopyLands(p) \/ CopyVanishes(p) PROVE ProgressInv'
  <2>1. stage = "copy" /\ stage' = "copy" /\ todo' = todo /\ busy' = busy \ {p}
    BY <1>8 DEF CopyLands, CopyVanishes, Leave, CallsInv
  <2>2. p \in skipped' \/ Landed(p)'
    BY <1>1, <1>8 DEF CopyLands, CopyVanishes, Call, Effect, LandEffect, Landed, TypeOK
  <2> QED
    BY <1>1, <1>2, <2>1, <2>2 DEF ProgressInv
<1>9. ASSUME NEW p \in Paths, NEW transport \in BOOLEAN, CopyAttemptFails(p, transport)
      PROVE  UNCHANGED <<stage, todo, busy>>
  BY <1>1, <1>9, FailCopyRecords DEF CopyAttemptFails, ConfirmShareGone
<1>10. ASSUME NEW p \in Paths, NEW why, CopyRefused(p, why) \/ CopyInterrupted(p) PROVE FALSE
  BY <1>1, <1>10, FailCopyRecords DEF CopyRefused, CopyInterrupted
<1>11. ASSUME NEW p \in Paths, Delete(p) PROVE ProgressInv'
  <2>1. Call("remove", p) /\ stage = "delete" /\ stage' = "delete" /\ todo' = todo \ {p}
    BY <1>1, <1>11 DEF Delete, Records
  <2>2. dst'[p] = None
    BY <2>1 DEF Call, Effect, RemoveEffect, TypeOK
  <2> QED
    BY <1>1, <1>2, <2>1, <2>2 DEF ProgressInv
<1>12. ASSUME NEW p \in Paths, RemoveDir(p) PROVE ProgressInv'
  <2>1. stage = "rmdir" /\ stage' = "rmdir" /\ todo' = todo \ {p}
    BY <1>12 DEF RemoveDir
  <2>2. dst'[p] = None \/ p \in leftDirs'
    <3>1. CASE Call("remove", p)
      BY <3>1 DEF Call, Effect, RemoveEffect, TypeOK
    <3> QED
      BY <1>12, <3>1 DEF RemoveDir
  <2> QED
    BY <1>1, <1>2, <2>1, <2>2 DEF ProgressInv
<1>13. CASE StagesDone
  <2>1. UNCHANGED <<dst, outside, skipped>>
    BY <1>13 DEF StagesDone, results
  <2>2. CASE stage = "unblock" /\ todo = {} /\ stage' = "mkdir" /\ todo' = plan.mkdirs
    BY <1>1, <1>2, <2>1, <2>2 DEF ProgressInv
  <2>3. CASE stage = "mkdir" /\ todo = {} /\ stage' = "copy" /\ todo' = plan.copies
    BY <1>1, <1>2, <2>1, <2>3 DEF ProgressInv
  <2> QED
    BY <1>1, <1>13, <2>2, <2>3 DEF StagesDone, EnterStage
<1>14. CASE CopiesDone
  <2>1. /\ stage = "copy" /\ stage' = "delete" /\ todo' = plan.deletes
        /\ todo = {} /\ busy = {} /\ UNCHANGED <<dst, outside, skipped>>
    BY <1>1, <1>14 DEF CopiesDone, EnterStage, Fed
  <2> QED
    BY <1>1, <1>2, <2>1 DEF ProgressInv
<1>15. CASE DeletesDone
  <2>1. /\ todo = {} /\ UNCHANGED <<dst, outside, skipped>>
        /\ \/ stage = "delete" /\ stage' = "rmdir" /\ todo' = plan.rmdirs
           \/ stage = "rmdir" /\ stage' = "done"
    BY <1>1, <1>15 DEF DeletesDone, EnterStage, Fed, results
  <2>2. CASE stage = "delete" /\ stage' = "rmdir" /\ todo' = plan.rmdirs
    BY <1>1, <1>2, <2>1, <2>2 DEF ProgressInv
  <2>3. CASE stage = "rmdir" /\ stage' = "done"
    BY <1>1, <1>2, <2>1, <2>3 DEF ProgressInv
  <2> QED
    BY <2>1, <2>2, <2>3
<1>16. CASE LateCall \/ Cancel \/ UNCHANGED vars
  BY <1>4, <1>16 DEF LateCall, Cancel, vars, pool
<1> QED
  BY <1>4, <1>5, <1>6, <1>7, <1>8, <1>9, <1>10, <1>11, <1>12, <1>13, <1>14, <1>15, <1>16
  DEF Next, ExecStep

LEMMA DeletesNext ==
  ASSUME TypeOK, PlanInv, CallsInv, DstInv, LateInv, ProgressInv, DeletesInv, Frame,
         [Next]_vars, ~Plan, stage = "scan" <=> stage' = "scan"
  PROVE  DeletesInv'
<1> SUFFICES ASSUME opts.deletePolicy = "skip_deletes", Deleting' PROVE
      /\ stage' \in {"delete", "rmdir", "done"}
      /\ \A c \in late' : c[1] = "remove" => c[2] \in Removals
      /\ \A p \in plan.copies \ skipped' : Landed(p)'
  BY DEF DeletesInv, Removals, Frame, inputs, scans
<1>0. /\ UNCHANGED <<plan, srcList, opts>> /\ outside \subseteq outside' /\ skipped \subseteq skipped'
      /\ \A q \in Paths : EntryStep(q)
      /\ \A c \in late' : LateStep(c)
      /\ ExecDone => ExecDone'
  BY DEF Frame, Entered, inputs, scans
<1>1. /\ plan.copies \subseteq Paths /\ Removals \subseteq Paths
      /\ \A q \in Removals : srcList[q] = None /\ q \notin plan.unblocks /\ q \notin plan.copies
      /\ \A q \in plan.copies : srcList[q] \notin {None, Dir}
  BY DEF PlanInv, Chosen, Removals, InScope, None, Dir
<1>2. \A q \in Removals : MayRemove(q) => Deleting
  BY <1>1 DEF MayRemove, Deleting
<1>3. stage' = stage \/ StagesDone \/ CopiesDone \/ DeletesDone
  BY DEF Next, ExecStep, ClearBlocker, MakeDir, Step, StartCopy, CopyLands, CopyVanishes,
         CopyAttemptFails, CopyRefused, CopyInterrupted, Delete, RemoveDir, LateCall, Cancel, vars
<1>4. CASE Deleting
  <2>1. /\ stage \in {"delete", "rmdir", "done"}
        /\ \A c \in late : c[1] = "remove" => c[2] \in Removals
        /\ \A p \in plan.copies \ skipped : Landed(p)
    BY <1>4 DEF DeletesInv
  <2>2. stage' \in {"delete", "rmdir", "done"}
    BY <1>3, <2>1 DEF StagesDone, CopiesDone, DeletesDone, EnterStage
  <2>3. \A q : MayRemove(q) => q \in Removals
    BY <2>1 DEF MayRemove
  <2>4. \A c \in late' : c[1] = "remove" => c[2] \in Removals
    BY <1>0, <2>1, <2>3 DEF LateStep
  <2>5. \A p \in plan.copies \ skipped' : Landed(p)'
    BY <1>0, <1>1, <2>1, <2>3 DEF EntryStep, Landed
  <2> QED
    BY <2>2, <2>4, <2>5
<1>5. CASE ~Deleting
  <2>1. \A p \in Removals : dst'[p] # None
    BY <1>0, <1>1, <1>2, <1>5 DEF EntryStep, Deleting
  <2>2. \A p \in Removals : <<"remove", p>> \notin late'
    BY <1>0, <1>2, <1>5 DEF LateStep, Deleting
  <2>3. stage' \in {"delete", "rmdir"} /\ ~ExecDone' /\ Removals # {}
    BY <1>0, <2>1, <2>2 DEF Deleting, Removals
  <2>4. ~ExecDone /\ stage \notin {"delete", "rmdir"}
    BY <1>0, <1>5, <2>3 DEF Deleting
  <2>5. CopiesDone /\ stage = "copy"
    BY <1>3, <2>3, <2>4 DEF StagesDone, CopiesDone, DeletesDone, EnterStage
  <2>6. /\ failures = {} /\ todo = {} /\ busy = {}
        /\ UNCHANGED <<dst, outside, late, skipped>>
    BY <2>3, <2>4, <2>5 DEF CopiesDone, DeletesProceed, Fed, EnterStage, Removals
  <2>7. Clean
    BY <2>4, <2>5, <2>6 DEF Clean
  <2>8. \A p \in plan.copies \ skipped : Landed(p)
    BY <2>5, <2>6, <2>7 DEF ProgressInv
  <2>9. \A c \in late : c[1] = "remove" => c[2] \in Removals
    BY <2>6 DEF LateInv
  <2> QED
    BY <1>0, <2>3, <2>6, <2>8, <2>9 DEF Landed
<1> QED
  BY <1>4, <1>5

-----------------------------------------------------------------------------
(* The theorems                                                            *)

LEMMA InvInit == Init => IInv
<1> SUFFICES ASSUME Init PROVE IInv
  OBVIOUS
<1>1. TypeOK
  <2>1. src \in [Paths -> Entries] /\ dst \in [Paths -> Entries]
    BY EngineAssumption DEF Init, IsTree
  <2>2. [p \in Paths |-> None] \in [Paths -> Entries]
    BY DEF Entries
  <2>3. [p \in Paths |-> 0] \in [Paths -> 0 .. MaxAttempts]
    BY EngineAssumption
  <2> QED
    BY <2>1, <2>2, <2>3 DEF Init, TypeOK, NoPlan, Stages
<1>2. TreeInv
  BY EngineAssumption DEF Init, TreeInv
<1>3. /\ stage = "scan" /\ plan = NoPlan /\ late = {} /\ busy = {} /\ todo = {} /\ skipped = {}
      /\ Removals = {} /\ plan.copies = {} /\ plan.mkdirs = {} /\ plan.unblocks = {}
      /\ plan.deletes = {} /\ plan.rmdirs = {}
  BY DEF Init, Removals, NoPlan
<1>4. PlanInv /\ CoverInv /\ CallsInv /\ DstInv
  BY <1>3 DEF PlanInv, Chosen, CoverInv, CallsInv, Part, DstInv
<1>5. LateInv /\ ProgressInv /\ DeletesInv
  BY <1>3 DEF LateInv, ProgressInv, Clean, DeletesInv, Deleting
<1> QED
  BY <1>1, <1>2, <1>4, <1>5 DEF IInv

LEMMA InvNext == IInv /\ [Next]_vars => IInv'
<1> SUFFICES ASSUME IInv, [Next]_vars PROVE IInv'
  OBVIOUS
<1>1. TypeOK'
  BY StepType DEF IInv
<1>2. CASE Plan
  <2>1. TreeInv'
    BY <1>2 DEF IInv, TreeInv, Plan, inputs
  <2> QED
    BY <1>1, <1>2, <2>1, PlanStep DEF IInv
<1>3. CASE ~Plan
  <2>1. Frame
    BY <1>3, NextFrame DEF IInv
  <2>2. CallsInv' /\ (stage = "scan" <=> stage' = "scan")
    BY <1>3, <2>1, CallsNext DEF IInv
  <2>3. TreeInv' /\ PlanInv' /\ CoverInv'
    BY <2>1, <2>2, PlanKept, CoverKept DEF IInv, TreeInv, Frame, inputs
  <2>4. DstInv' /\ LateInv' /\ ProgressInv' /\ DeletesInv'
    BY <1>3, <2>1, <2>2, DstKept, LateKept, ProgressNext, DeletesNext DEF IInv
  <2> QED
    BY <1>1, <2>2, <2>3, <2>4 DEF IInv
<1> QED
  BY <1>2, <1>3

LEMMA Invariance == Spec => []IInv
BY InvInit, InvNext, PTL DEF Spec

(* Under skip_deletes a mirror removes nothing before every copy of its    *)
(* plan is in place or its source is gone, whatever fails, aborts, is      *)
(* cancelled or takes effect late (Execute's guard, runCopies, bounded).   *)
THEOREM DeletesWait == Spec => []DeletesFollowCopies
<1>1. IInv => DeletesFollowCopies
  BY DEF IInv, DeletesInv, Deleting, Removals, Landed, DeletesFollowCopies
<1> QED
  BY <1>1, Invariance, PTL

(* A destination that listed in full and is reported as a plain success is *)
(* in sync, for every tree, filter chain and fault on the way; a mirror    *)
(* has nothing extraneous in scope left but directories whose removal was  *)
(* tried and failed (Diff, Execute, removeDirs, classifyDestination).      *)
THEOREM SuccessIsInSync == Spec => []SuccessMeansInSync
<1>1. IInv => SuccessMeansInSync
  <2> SUFFICES ASSUME IInv, stage = "done", Status = "success", dstComplete
               PROVE  /\ \A p \in Paths \ (gone \cup outside) :
                           InScope(srcList, p) => InSync(srcList[p], dst[p])
                      /\ Mirroring => \A p \in Paths \ leftDirs :
                           dst[p] # None /\ Admits(p, dst[p] = Dir) => srcList[p] # None
    BY DEF SuccessMeansInSync, InSync
  <2>1. ~cancelled /\ ~aborted /\ failures = {} /\ ~plan.blocked /\ ~withheld
    BY DEF Status, ClassifyDestination
  <2>2. Clean
    BY <2>1 DEF Clean, ExecDone
  <2>3. /\ \A p \in plan.unblocks : dst[p] \in {None, Dir, srcList[p]}
        /\ \A p \in plan.mkdirs : p \in outside \/ dst[p] # None
        /\ \A p \in plan.copies : p \in skipped \/ Landed(p)
        /\ \A p \in plan.deletes : dst[p] = None
        /\ \A p \in plan.rmdirs : dst[p] = None \/ p \in leftDirs
    BY <2>2 DEF IInv, ProgressInv
  <2>4. Covered(plan, srcList, dstList) /\ skipped \subseteq gone
    BY DEF IInv, CoverInv, CallsInv
  <2>5. ASSUME NEW p \in Paths \ (gone \cup outside), InScope(srcList, p)
        PROVE  InSync(srcList[p], dst[p])
    <3>0. srcList[p] \in Entries /\ dst[p] \in Entries /\ srcList[p] # None
      BY <2>5 DEF IInv, TypeOK, InScope
    <3>1. CASE srcList[p].kind = "file" /\ p \in plan.copies
      <4>1. dst[p] = srcList[p]
        BY <2>3, <2>4, <2>5, <3>1 DEF Landed
      <4>2. Close(srcList[p], srcList[p])
        <5>1. srcList[p].mtime \in Nat /\ Tolerance \in Nat
          BY <3>0, Kinds, EngineAssumption
        <5> QED
          BY <5>1 DEF Close, Abs
      <4> QED
        BY <3>0, <4>1, <4>2 DEF InSync
    <3>2. CASE srcList[p] = Dir /\ p \in plan.mkdirs
      <4>1. dst[p] # None
        BY <2>3, <2>5, <3>2
      <4>2. Mirroring => dst[p] = Dir
        BY <2>3, <2>5, <3>2, <4>1 DEF IInv, DstInv
      <4> QED
        BY <3>2, <4>1, <4>2 DEF InSync, Dir
    <3>3. CASE p \notin plan.copies \cup plan.unblocks /\ dstList[p] # None /\ InSync(srcList[p], dstList[p])
      <4>1. p \notin Removals
        BY <3>0 DEF IInv, PlanInv, Chosen, Removals
      <4>2. dst[p] = dstList[p]
        BY <2>5, <3>3, <4>1 DEF IInv, DstInv
      <4> QED
        BY <3>3, <4>2
    <3> QED
      BY <2>4, <2>5, <3>1, <3>2, <3>3 DEF Covered
  <2>6. ASSUME Mirroring, NEW p \in Paths, dst[p] \notin {None, Dir}, Admits(p, FALSE),
               srcList[p] = None
        PROVE  FALSE
    <3>1. dst[p] = dstList[p]
      BY <2>6 DEF IInv, DstInv
    <3>2. p \in plan.deletes
      BY <2>1, <2>4, <2>6, <3>1 DEF Covered
    <3> QED
      BY <2>3, <2>6, <3>2
  <2>7. ASSUME Mirroring, NEW p \in Paths \ leftDirs, dst[p] = Dir, Admits(p, TRUE),
               srcList[p] = None
        PROVE  FALSE
    <3>1. dstList[p] = Dir
      BY <2>7 DEF IInv, DstInv
    <3>2. p \in plan.rmdirs
      BY <2>1, <2>4, <2>7, <3>1 DEF Covered
    <3> QED
      BY <2>3, <2>7, <3>2 DEF Dir, None
  <2>8. ASSUME Mirroring, NEW p \in Paths \ leftDirs, dst[p] # None, Admits(p, dst[p] = Dir)
        PROVE  srcList[p] # None
    <3>1. CASE dst[p] = Dir
      <4>1. (dst[p] = Dir) = TRUE
        BY <3>1
      <4>2. Admits(p, TRUE)
        BY <2>8, <4>1
      <4> QED
        BY <2>7, <2>8, <3>1, <4>2
    <3>2. CASE dst[p] # Dir
      <4>1. (dst[p] = Dir) = FALSE
        BY <3>2
      <4>2. Admits(p, FALSE)
        BY <2>8, <4>1
      <4> QED
        BY <2>6, <2>8, <3>2, <4>2
    <3> QED
      BY <3>1, <3>2
  <2> QED
    BY <2>5, <2>8
<1> QED
  BY <1>1, Invariance, PTL

(* Once it has seen the whole destination, an update removes nothing and   *)
(* replaces a file only by a newer one, late renames included (Diff's      *)
(* update branches, Copy, bounded).                                        *)
THEOREM UpdateIsSafe == Spec => UpdateLosesNothing
<1>1. IInv /\ [Next]_vars => [opts.mode = "update" /\ dstComplete => KeepsOrRenews]_vars
  <2> SUFFICES ASSUME IInv, Next, opts.mode = "update", dstComplete,
                      NEW p \in Paths, dst[p] # None, dst'[p] # dst[p]
               PROVE  dst[p].kind = "file" /\ dst'[p].kind = "file" /\ dst'[p].mtime > dst[p].mtime
    BY DEF KeepsOrRenews
  <2>1. ~Plan
    BY DEF Plan
  <2>2. EntryStep(p)
    BY <2>1, NextFrame DEF IInv, Frame, Entered
  <2>3. ~Mirroring
    BY DEF Mirroring
  <2>4. ~MayRemove(p)
    BY <2>3, RemovedIsPlanned DEF IInv, PlanInv, Chosen, Removals
  <2>5. p \in plan.copies /\ dst[p] # Dir /\ dst'[p] = srcList[p]
    BY <2>2, <2>4 DEF EntryStep
  <2>6. Renews(srcList[p], dst[p])
    BY <2>3, <2>5 DEF IInv, DstInv
  <2>7. srcList[p].kind = "file"
    BY <2>5 DEF IInv, PlanInv, Chosen
  <2> QED
    BY <2>5, <2>6, <2>7 DEF Renews
<1> QED
  BY <1>1, Invariance, PTL DEF Spec, UpdateLosesNothing

(* What the filter excludes at the destination is never touched, by a late *)
(* call or a directory's removal either, unless the source has something   *)
(* in scope at that path (Diff, removeDirs).                               *)
THEOREM ExcludedIsSafe == Spec => ExcludedStays
<1>1. IInv /\ [Next]_vars =>
        [\A p \in Paths : dst[p] # None /\ ~Admits(p, dst[p] = Dir) /\ ~InScope(srcList, p)
           => dst'[p] = dst[p]]_vars
  <2> SUFFICES ASSUME IInv, Next, NEW p \in Paths, dst[p] # None, ~Admits(p, dst[p] = Dir),
                      ~InScope(srcList, p), dst'[p] # dst[p]
               PROVE  FALSE
    OBVIOUS
  <2>1. ~Plan
    BY DEF Plan
  <2>2. EntryStep(p)
    BY <2>1, NextFrame DEF IInv, Frame, Entered
  <2>3. p \notin plan.copies /\ p \notin plan.unblocks
    BY DEF IInv, PlanInv, Chosen
  <2>4. MayRemove(p)
    BY <2>2, <2>3 DEF EntryStep
  <2>5. p \in Removals
    BY <2>3, <2>4, RemovedIsPlanned DEF IInv
  <2>6. dst[p] = dstList[p]
    BY <2>5 DEF IInv, DstInv
  <2>7. Admits(p, dstList[p] = Dir)
    BY <2>5 DEF IInv, PlanInv, Chosen, Removals
  <2> QED
    BY <2>6, <2>7
<1> QED
  BY <1>1, Invariance, PTL DEF Spec, ExcludedStays

-----------------------------------------------------------------------------
(* Execute comes to an end                                                 *)

LEMMA StageAdvances ==
  ASSUME TypeOK, StagesDone \/ CopiesDone \/ DeletesDone
  PROVE  Advances
BY DEF StagesDone, CopiesDone, DeletesDone, EnterStage, Advances, StageOrder

LEMMA ActionAdvances ==
  ASSUME TypeOK, NEW p \in Paths,
         ClearBlocker(p) \/ MakeDir(p) \/ StartCopy(p) \/ Delete(p) \/ RemoveDir(p)
  PROVE  Advances
<1>1. stage' = stage /\ p \in todo /\ todo' = todo \ {p}
  BY DEF ClearBlocker, MakeDir, Step, StartCopy, Delete, RemoveDir, Deepest, Shallowest
<1> QED
  BY <1>1 DEF Advances

LEMMA LeaveAdvances ==
  ASSUME NEW p \in busy, Leave(p), UNCHANGED <<stage, todo>>
  PROVE  Advances
BY DEF Leave, Advances

LEMMA AttemptAdvances ==
  ASSUME TypeOK, NEW p \in Paths, NEW transport \in BOOLEAN, CopyAttemptFails(p, transport)
  PROVE  Advances
<1>1. p \in busy /\ UNCHANGED <<stage, todo>>
  BY DEF CopyAttemptFails
<1>2. CASE Leave(p)
  BY <1>1, <1>2, LeaveAdvances
<1>3. CASE ~Leave(p)
  <2>1. /\ AttemptsLeft(p) /\ tries' = [tries EXCEPT ![p] = @ + 1] /\ busy' = busy
    BY <1>3 DEF CopyAttemptFails, FailCopy, ConfirmShareGone
  <2>2. tries[p] \in 0 .. MaxAttempts /\ MaxAttempts \in Nat
    BY EngineAssumption DEF TypeOK
  <2>3. tries'[p] = tries[p] + 1 /\ \A q \in Paths \ {p} : tries'[q] = tries[q]
    BY <2>1 DEF TypeOK
  <2> QED
    BY <1>1, <2>1, <2>2, <2>3 DEF AttemptsLeft, Advances
<1> QED
  BY <1>2, <1>3

(* No step of Execute is taken twice, whatever fails, and no cancel or     *)
(* late call sets it back: with finitely many paths it has an end, which   *)
(* is the part of ExecuteReturns that needs no fairness (Execute,          *)
(* runCopies, Copy).                                                       *)
THEOREM ExecuteHasAnEnd == Spec => ExecuteAdvances
<1>1. TypeOK /\ [Next]_vars =>
        [/\ Advances \/ UNCHANGED <<stage, todo, busy, tries>>
         /\ ExecStep => Advances]_vars
  <2>1. ASSUME TypeOK, ExecStep PROVE Advances
    <3>1. CASE StagesDone \/ CopiesDone \/ DeletesDone
      BY <2>1, <3>1, StageAdvances
    <3>2. ASSUME NEW p \in Paths,
                 ClearBlocker(p) \/ MakeDir(p) \/ StartCopy(p) \/ Delete(p) \/ RemoveDir(p)
          PROVE  Advances
      BY <2>1, <3>2, ActionAdvances
    <3>3. ASSUME NEW p \in Paths, NEW transport \in BOOLEAN, CopyAttemptFails(p, transport)
          PROVE  Advances
      BY <2>1, <3>3, AttemptAdvances
    <3>4. ASSUME NEW p \in Paths, NEW why \in {"locked", "other"},
                 CopyLands(p) \/ CopyVanishes(p) \/ CopyRefused(p, why) \/ CopyInterrupted(p)
          PROVE  Advances
      <4>1. p \in busy /\ Leave(p) /\ UNCHANGED <<stage, todo>>
        BY <3>4 DEF CopyLands, CopyVanishes, CopyRefused, CopyInterrupted, FailCopy
      <4> QED
        BY <4>1, LeaveAdvances
    <3> QED
      BY <2>1, <3>1, <3>2, <3>3, <3>4 DEF ExecStep
  <2>2. ASSUME Plan PROVE Advances
    BY <2>2 DEF Plan, Advances, StageOrder
  <2>3. ASSUME LateCall \/ Cancel PROVE UNCHANGED <<stage, todo, busy, tries>>
    BY <2>3 DEF LateCall, Cancel, pool
  <2> QED
    BY <2>1, <2>2, <2>3 DEF Next
<1> QED
  BY <1>1, SyncTypes, PTL DEF Spec, ExecuteAdvances
=============================================================================
