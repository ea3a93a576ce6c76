----------------------------- MODULE SyncEngine -----------------------------
(***************************************************************************)
(* One destination of a run, from its listings to its result: the filter   *)
(* chain (internal/filter), the scan, the plan (scanner.go and differ.go   *)
(* of internal/engine) and its execution by the executor and its pool of   *)
(* copiers (executor.go, copier.go, bounded.go), up to the status the      *)
(* runner gives it (classifyDestination).                                  *)
(*                                                                         *)
(* A path is a sequence of names.  A call into the file system that does   *)
(* not answer in time is given up, not undone: it may still take effect at *)
(* any later moment, after the run too.  A file is what the differ compares*)
(* of it, its size and time; a glob is the set of paths it selects.        *)
(***************************************************************************)
EXTENDS Integers, Sequences, FiniteSets

CONSTANTS
  Paths,        \* the relative paths there are
  Files,        \* the files considered
  SourceTrees, DestTrees,  \* what may be on either side at the start
  Chains,       \* the filter chains considered
  JobOptions,   \* the job settings considered
  Tolerance, Hour,  \* mtime_tolerance, and the length of an hour
  Workers,      \* the size of the copier pool
  MaxAttempts,  \* attemptsFor(backoff)
  MaxLate,      \* bound on the calls that hang at a time
  Faults,       \* whether calls fail or hang and directories are unreadable
  Cancels       \* whether the run may be cancelled

None == [kind |-> "none", size |-> 0, mtime |-> 0]
Dir  == [kind |-> "dir",  size |-> 0, mtime |-> 0]
Link == [kind |-> "link", size |-> 0, mtime |-> 0]
Entries == {None, Dir, Link} \cup Files

Root == << >>
Parents(p) == { SubSeq(p, 1, i) : i \in 1 .. Len(p) - 1 }

IsTree(t) ==
  /\ t \in [Paths -> Entries]
  /\ \A p \in Paths : t[p] # None => \A q \in Parents(p) : t[q] = Dir

Pattern == [at : SUBSET Paths, dirOnly : BOOLEAN]
Chain == [ hasIncludes : BOOLEAN, includes : SUBSET Pattern,
           excludes : SUBSET Pattern,     \* the job's and the destination's
           jobExcludes : SUBSET Pattern,  \* the job's: they prune the source
           degraded : BOOLEAN ]
JobOption == [ mode : {"mirror", "update"}, onError : {"continue", "abort"},
               deletePolicy : {"skip_deletes", "proceed"}, ignoreDST : BOOLEAN ]

ASSUME EngineAssumption ==
  /\ Paths \subseteq Seq(STRING)
  /\ \A p \in Paths : Len(p) > 0 /\ Parents(p) \subseteq Paths
  /\ Files \subseteq [kind : {"file"}, size : Nat, mtime : Nat]
  /\ \A t \in SourceTrees \cup DestTrees : IsTree(t)
  /\ \A c \in Chains : c \in Chain /\ c.jobExcludes \subseteq c.excludes
  /\ JobOptions \subseteq JobOption
  /\ Tolerance \in Nat /\ Hour \in Nat
  /\ Workers \in Nat \ {0} /\ MaxAttempts \in 1 .. 3 /\ MaxLate \in Nat
  /\ Faults \in BOOLEAN /\ Cancels \in BOOLEAN

VARIABLES
  src,       \* the source
  dst,       \* the destination
  chain, opts,
  srcList, srcComplete,  \* the source's ScanResult
  dstList, dstComplete,  \* the destination's
  gone,      \* the source files that vanished
  plan,
  stage,     \* where Execute is
  todo,      \* the stage's actions that were not begun
  busy,      \* the copies a worker is at
  tries,     \* the attempt each of them is at
  late,      \* the calls that were given up and are still in the kernel
  failures, skipped, withheld,  \* ExecResult
  leftDirs,  \* the directories removeDirs warned it could not remove
  aborted, shareGone,
  cancelled, \* the run's context
  outside    \* what was written through a link

inputs  == <<src, chain, opts>>
scans   == <<srcList, srcComplete, dstList, dstComplete, plan>>
results == <<failures, skipped, withheld, leftDirs, aborted, shareGone>>
pool    == <<busy, tries>>
vars == <<inputs, dst, scans, gone, stage, todo, pool, late, results, cancelled, outside>>

-----------------------------------------------------------------------------
(* The filter chain.                                                       *)

Match(pat, p, isDir) == p \in pat.at /\ (pat.dirOnly => isDir)
MatchesAncestor(pat, p) == \E q \in Parents(p) : Match(pat, q, TRUE)

(* A pattern that matches a directory selects everything beneath it.       *)
Matches(pats, p, isDir) == \E pat \in pats : Match(pat, p, isDir) \/ MatchesAncestor(pat, p)

Admits(p, isDir) ==
  /\ chain.hasIncludes => Matches(chain.includes, p, isDir)
  /\ ~Matches(chain.excludes, p, isDir)

PrunesDir(excludes, p) == Matches(excludes, p, TRUE)

-----------------------------------------------------------------------------
(* Scan: what is beneath an unreadable or a pruned directory is not seen,  *)
(* nor a file whose stat fails; a link is listed and not followed; a file  *)
(* that vanished before its stat is no error.                              *)

Hidden(excludes, unreadable, t, p) ==
  \/ t[p] = Dir /\ PrunesDir(excludes, p)
  \/ t[p].kind = "file" /\ p \in unreadable
  \/ \E q \in Parents(p) : q \in unreadable \/ PrunesDir(excludes, q)
  \/ Root \in unreadable

Listing(t, excludes, unreadable, missing) ==
  [p \in Paths |-> IF p \in missing \/ Hidden(excludes, unreadable, t, p) THEN None ELSE t[p]]

FilesOf(t)  == { p \in Paths : t[p].kind = "file" }
Readable(t) == { p \in Paths : t[p].kind \in {"dir", "file"} } \cup {Root}

(* A set of reads and stats that may fail: each of them is attempted.      *)
ScanErrors(t, excludes) ==
  { u \in SUBSET Readable(t) : \A p \in u : p = Root \/ ~Hidden(excludes, u \ {p}, t, p) }

-----------------------------------------------------------------------------
(* Diff                                                                    *)

Abs(n) == IF n < 0 THEN -n ELSE n

SameSize(s, d) == s.size = d.size
SameFile(s, d) ==
  /\ s.size = d.size
  /\ LET diff == Abs(s.mtime - d.mtime)
     IN diff <= Tolerance \/ (opts.ignoreDST /\ Abs(diff - Hour) <= Tolerance)

SrcIsNewer(s, d) == s.mtime > d.mtime + Tolerance

MirroringAlways == TRUE
Mirroring == opts.mode = "mirror"

(* A degraded filter, a source not read in full, or one that lists as      *)
(* empty withholds every deletion.                                         *)
DeletionGuardOff(sl, complete, dl) == FALSE
DeletionGuard(sl, complete, dl) ==
  \/ chain.degraded \/ ~complete
  \/ (\A p \in Paths : sl[p] = None) /\ \E p \in Paths : dl[p] # None

ExtraneousUnfiltered(sl, dl) ==
  IF Mirroring THEN { p \in Paths : dl[p] # None /\ sl[p] = None } ELSE {}
Extraneous(sl, dl) ==
  IF Mirroring
  THEN { p \in Paths : dl[p] # None /\ sl[p] = None /\ Admits(p, dl[p] = Dir) }
  ELSE {}

(* requiredDirs: the parents of what is copied, admitted or not.           *)
RequiredDirs(copies, dl) == { q \in UNION { Parents(p) : p \in copies } : dl[q] # Dir }

Diff(sl, complete, dl) ==
  LET wanted    == { p \in Paths : sl[p] \notin {None, Link} /\ Admits(p, sl[p] = Dir) }
      blocked   == { p \in wanted : dl[p] # None /\ dl[p].kind # sl[p].kind }
      absent    == { p \in wanted : dl[p] = None }
      creates   == IF Mirroring THEN absent \cup blocked ELSE absent
      changed   == { p \in wanted \ (absent \cup blocked) :
                       /\ sl[p] # Dir /\ ~SameFile(sl[p], dl[p])
                       /\ Mirroring \/ SrcIsNewer(sl[p], dl[p]) }
      copies    == { p \in creates : sl[p] # Dir } \cup changed
      removals  == IF DeletionGuard(sl, complete, dl) THEN {} ELSE Extraneous(sl, dl)
  IN [ unblocks |-> IF Mirroring THEN blocked ELSE {},
       mkdirs   |-> { p \in creates : sl[p] = Dir } \cup RequiredDirs(copies, dl),
       copies   |-> copies,
       deletes  |-> { p \in removals : dl[p] # Dir },
       rmdirs   |-> { p \in removals : dl[p] = Dir },
       blocked  |-> Extraneous(sl, dl) # removals ]

NoPlan == [unblocks |-> {}, mkdirs |-> {}, copies |-> {}, deletes |-> {}, rmdirs |-> {},
           blocked |-> FALSE]

-----------------------------------------------------------------------------
Init ==
  /\ src \in SourceTrees /\ dst \in DestTrees /\ chain \in Chains /\ opts \in JobOptions
  /\ srcList = [p \in Paths |-> None] /\ srcComplete = TRUE
  /\ dstList = [p \in Paths |-> None] /\ dstComplete = TRUE
  /\ gone = {} /\ plan = NoPlan /\ stage = "scan" /\ todo = {}
  /\ busy = {} /\ tries = [p \in Paths |-> 0] /\ late = {}
  /\ failures = {} /\ skipped = {} /\ withheld = FALSE /\ leftDirs = {}
  /\ aborted = FALSE /\ shareGone = FALSE /\ cancelled = FALSE /\ outside = {}

(* The scans and the plan (planOneDestination).                            *)
Plan ==
  /\ stage = "scan"
  /\ \E us \in ScanErrors(src, chain.jobExcludes), ud \in ScanErrors(dst, chain.excludes),
        v \in SUBSET FilesOf(src) :
       /\ ~Faults => us = {} /\ ud = {} /\ v = {}
       /\ gone' = v
       /\ srcList' = Listing(src, chain.jobExcludes, us, v)
       /\ srcComplete' = (us = {})
       /\ dstList' = Listing(dst, chain.excludes, ud, {})
       /\ dstComplete' = (ud = {})
  /\ plan' = Diff(srcList', srcComplete', dstList')
  /\ stage' = "unblock" /\ todo' = plan'.unblocks
  /\ UNCHANGED <<inputs, dst, pool, late, results, cancelled, outside>>

-----------------------------------------------------------------------------
(* The destination's file system (external).                               *)

HasEntries(p) == \E q \in Paths : p \in Parents(q) /\ dst[q] # None
Removable(p) == ~(dst[p] = Dir /\ HasEntries(p))
RemoveEffect(p) == dst' = [dst EXCEPT ![p] = None] /\ UNCHANGED outside

UnderLink(p) == \E q \in Parents(p) : dst[q] = Link
Blocked(p)   == \E q \in Parents(p) : dst[q].kind = "file"

(* MkdirAll makes what is missing above p too, and follows a link.         *)
CanMkdir(p) == ~Blocked(p) /\ dst[p].kind # "file"
MkdirEffect(p) ==
  IF UnderLink(p) THEN outside' = outside \cup {p} /\ UNCHANGED dst
  ELSE /\ dst' = [q \in Paths |-> IF q \in Parents(p) \cup {p} /\ dst[q] = None THEN Dir ELSE dst[q]]
       /\ UNCHANGED outside

(* The temp file needs its directory; the rename replaces a file or a link *)
(* and fails on a directory.                                               *)
DirThere(p) == \A q \in Parents(p) : dst[q] = Dir \/ UnderLink(q) \/ dst[q] = Link
CanLand(p)  == DirThere(p) /\ dst[p] # Dir
LandEffect(p) ==
  IF UnderLink(p) THEN outside' = outside \cup {p} /\ UNCHANGED dst
  ELSE dst' = [dst EXCEPT ![p] = srcList[p]] /\ UNCHANGED outside

Possible(op, p) == CASE op = "remove" -> Removable(p)
                     [] op = "mkdir"  -> CanMkdir(p)
                     [] op = "rename" -> CanLand(p)
Effect(op, p) == CASE op = "remove" -> RemoveEffect(p)
                   [] op = "mkdir"  -> MkdirEffect(p)
                   [] op = "rename" -> LandEffect(p)

(* bounded: the call answers, or is left behind in the kernel.             *)
Call(op, p) == Possible(op, p) /\ Effect(op, p) /\ UNCHANGED late

Hangs(op, p) == late' = late \cup {<<op, p>>} /\ Cardinality(late') <= MaxLate

CallFails(op, p) ==
  /\ UNCHANGED <<dst, outside>>
  /\ \/ (Faults \/ ~Possible(op, p)) /\ UNCHANGED late
     \/ Faults /\ Hangs(op, p)

(* What was left behind takes effect, or fails.                            *)
LateCall ==
  \E c \in late :
    /\ late' = late \ {c}
    /\ IF Possible(c[1], c[2]) THEN Effect(c[1], c[2]) \/ UNCHANGED <<dst, outside>>
       ELSE UNCHANGED <<dst, outside>>
    /\ UNCHANGED <<inputs, scans, gone, stage, todo, pool, results, cancelled>>

-----------------------------------------------------------------------------
(* Execute                                                                 *)

ExecDone == cancelled \/ aborted

Shallowest(S) == { p \in S : \A q \in S : Len(p) <= Len(q) }
Deepest(S)    == { p \in S : \A q \in S : Len(p) >= Len(q) }

Failure(p, why) == [path |-> p, why |-> why]
Records(p, why) == failures' = failures \cup {Failure(p, why)}

EnterStage(s, actions) == stage' = s /\ todo' = actions

(* clearBlockers and makeDirs, one action after the other.                 *)
Step(s, op, p) ==
  /\ stage = s /\ p \in todo /\ ~ExecDone
  /\ todo' = todo \ {p}
  /\ \/ Call(op, p) /\ UNCHANGED failures
     \/ CallFails(op, p) /\ Records(p, "other")
  /\ UNCHANGED <<inputs, scans, gone, stage, pool, skipped, withheld, leftDirs, aborted,
                 shareGone, cancelled>>

ClearBlocker(p) == p \in Deepest(todo) /\ Step("unblock", "remove", p)
MakeDir(p)      == p \in Shallowest(todo) /\ Step("mkdir", "mkdir", p)

StagesDone ==
  /\ \/ stage = "unblock" /\ todo = {} /\ EnterStage("mkdir", plan.mkdirs)
     \/ stage = "mkdir" /\ todo = {} /\ EnterStage("copy", plan.copies)
     \/ stage \in {"unblock", "mkdir"} /\ todo # {} /\ ExecDone /\ EnterStage("done", {})
  /\ UNCHANGED <<inputs, dst, scans, gone, pool, late, results, cancelled, outside>>

(* A worker of runCopies takes a file ...                                  *)
StartCopy(p) ==
  /\ stage = "copy" /\ p \in todo /\ ~ExecDone /\ Cardinality(busy) < Workers
  /\ todo' = todo \ {p} /\ busy' = busy \cup {p}
  /\ tries' = [tries EXCEPT ![p] = 1]
  /\ UNCHANGED <<inputs, dst, scans, gone, stage, late, results, cancelled, outside>>

Leave(p) == busy' = busy \ {p} /\ tries' = [tries EXCEPT ![p] = 0]

(* ... whose attempt stages a temp file and renames it ...                 *)
CopyLands(p) ==
  /\ p \in busy /\ p \notin gone
  /\ Call("rename", p)
  /\ Leave(p)
  /\ UNCHANGED <<inputs, scans, gone, stage, todo, results, cancelled>>

(* ... or finds the source gone: a warning ...                             *)
CopyVanishes(p) ==
  /\ p \in busy /\ (Faults \/ p \in gone)
  /\ Leave(p) /\ skipped' = skipped \cup {p} /\ gone' = gone \cup {p}
  /\ UNCHANGED <<inputs, dst, scans, stage, todo, late, failures, withheld, leftDirs,
                 aborted, shareGone, cancelled, outside>>

(* ... or fails.  A transport error has the share probed; a dead share, or *)
(* the abort policy, stops every worker.                                   *)

FailCopy(p, why) ==
  /\ Leave(p) /\ Records(p, why)
  /\ aborted' = (aborted \/ why = "share" \/ opts.onError = "abort")
  /\ shareGone' = (shareGone \/ why = "share")

(* A directory that is missing is not worth another attempt.               *)
Retryable(p) == \A q \in Parents(p) : dst[q] # None \/ UnderLink(q)

AttemptsLeftOffByOne(p) == tries[p] <= MaxAttempts
AttemptsLeft(p) == tries[p] < MaxAttempts

(* The probes fail, or the last attempt did.                               *)
ConfirmShareGone(p) == FailCopy(p, "share")

CopyAttemptFails(p, transport) ==
  /\ p \in busy /\ p \notin gone
  /\ IF transport THEN Faults /\ CallFails("rename", p)
     ELSE (Faults \/ ~CanLand(p)) /\ UNCHANGED <<dst, outside, late>>
  /\ \/ /\ (transport \/ Retryable(p)) /\ AttemptsLeft(p) /\ ~ExecDone
        /\ tries' = [tries EXCEPT ![p] = @ + 1]
        /\ UNCHANGED <<busy, failures, aborted, shareGone>>
     \/ transport /\ ConfirmShareGone(p)
     \/ ~transport /\ ~(AttemptsLeft(p) /\ Retryable(p)) /\ FailCopy(p, "other")
  /\ UNCHANGED <<inputs, scans, gone, stage, todo, skipped, withheld, leftDirs, cancelled>>

(* What no other attempt would change: permission, a full disk, a file     *)
(* that somebody holds open, or a rename that did not answer in time.      *)
CopyRefused(p, why) ==
  /\ p \in busy /\ Faults
  /\ UNCHANGED late \/ (why = "other" /\ Hangs("rename", p))
  /\ FailCopy(p, why)
  /\ UNCHANGED <<inputs, dst, scans, gone, stage, todo, skipped, withheld, leftDirs, cancelled,
                 outside>>

(* The context ended: the worker leaves, its attempt may go on.            *)
CopyInterrupted(p) ==
  /\ p \in busy /\ ExecDone
  /\ Leave(p)
  /\ UNCHANGED late \/ Hangs("rename", p)
  /\ UNCHANGED <<inputs, dst, scans, gone, stage, todo, results, cancelled, outside>>

(* Failed copies withhold the deletions, unless the job says otherwise.    *)
DeletesProceedOnAny == TRUE
DeletesProceed ==
  failures = {} \/ opts.deletePolicy = "proceed" \/ plan.deletes \cup plan.rmdirs = {}

(* The feed ends with the actions, or with the context.                    *)
FedAll == todo = {}
Fed == todo = {} \/ ExecDone

CopiesDone ==
  /\ stage = "copy" /\ busy = {} /\ Fed
  /\ IF DeletesProceed THEN EnterStage("delete", plan.deletes) /\ UNCHANGED withheld
     ELSE EnterStage("done", {}) /\ withheld' = TRUE
  /\ UNCHANGED <<inputs, dst, scans, gone, pool, late, failures, skipped, leftDirs, aborted,
                 shareGone, cancelled, outside>>

(* A worker of runDeletes.                                                 *)
Delete(p) ==
  /\ stage = "delete" /\ p \in todo /\ ~ExecDone
  /\ todo' = todo \ {p}
  /\ \/ Call("remove", p) /\ UNCHANGED <<failures, aborted>>
     \/ /\ CallFails("remove", p) /\ Records(p, "other")
        /\ aborted' = (aborted \/ opts.onError = "abort")
  /\ UNCHANGED <<inputs, scans, gone, stage, pool, skipped, withheld, leftDirs, shareGone,
                 cancelled>>

(* removeDirs: a directory that stays is a warning.                        *)
RemoveDir(p) ==
  /\ stage = "rmdir" /\ p \in Deepest(todo) /\ ~ExecDone
  /\ todo' = todo \ {p}
  /\ \/ Call("remove", p) /\ UNCHANGED leftDirs
     \/ CallFails("remove", p) /\ leftDirs' = leftDirs \cup {p}
  /\ UNCHANGED <<inputs, scans, gone, stage, pool, failures, skipped, withheld, aborted,
                 shareGone, cancelled>>

DeletesDone ==
  /\ Fed
  /\ \/ stage = "delete" /\ EnterStage("rmdir", plan.rmdirs)
     \/ stage = "rmdir" /\ EnterStage("done", {})
  /\ UNCHANGED <<inputs, dst, scans, gone, pool, late, results, cancelled, outside>>

Cancel ==
  /\ Cancels /\ ~cancelled /\ stage \notin {"scan", "done"}
  /\ cancelled' = TRUE
  /\ UNCHANGED <<inputs, dst, scans, gone, stage, todo, pool, late, results, outside>>

(* executeOneDestination and classifyDestination.                          *)
AllLocked == \A f \in failures : f.why = "locked"
ClassifyDestination ==
  IF shareGone \/ aborted THEN "failed"
  ELSE IF failures # {} THEN (IF AllLocked /\ ~plan.blocked THEN "degraded" ELSE "failed")
  ELSE IF plan.blocked \/ withheld THEN "degraded" ELSE "success"
Status == IF cancelled THEN "cancelled" ELSE ClassifyDestination

-----------------------------------------------------------------------------
ExecStep ==
  \/ \E p \in Paths :
       \/ ClearBlocker(p) \/ MakeDir(p)
       \/ StartCopy(p) \/ CopyLands(p) \/ CopyVanishes(p)
       \/ \E transport \in BOOLEAN : CopyAttemptFails(p, transport)
       \/ \E why \in {"locked", "other"} : CopyRefused(p, why)
       \/ CopyInterrupted(p) \/ Delete(p) \/ RemoveDir(p)
  \/ StagesDone \/ CopiesDone \/ DeletesDone

Next == Plan \/ ExecStep \/ LateCall \/ Cancel

Spec == Init /\ [][Next]_vars

(* Every call answers or is given up, every copy is tried a bounded number *)
(* of times, goroutines run.  What was given up may hang for ever.         *)
Fairness == WF_vars(Plan) /\ WF_vars(ExecStep)

FairSpec == Spec /\ Fairness

-----------------------------------------------------------------------------
(* Properties                                                              *)

Calls == {"remove", "mkdir", "rename"} \X Paths
Stages == {"scan", "unblock", "mkdir", "copy", "delete", "rmdir", "done"}

TypeOK ==
  /\ src \in [Paths -> Entries] /\ dst \in [Paths -> Entries]
  /\ chain \in Chains /\ opts \in JobOptions
  /\ srcList \in [Paths -> Entries] /\ dstList \in [Paths -> Entries]
  /\ srcComplete \in BOOLEAN /\ dstComplete \in BOOLEAN
  /\ gone \subseteq Paths /\ stage \in Stages /\ todo \subseteq Paths
  /\ plan \in [unblocks : SUBSET Paths, mkdirs : SUBSET Paths, copies : SUBSET Paths,
                deletes : SUBSET Paths, rmdirs : SUBSET Paths, blocked : BOOLEAN]
  /\ busy \subseteq Paths /\ tries \in [Paths -> 0 .. MaxAttempts] /\ late \subseteq Calls
  /\ failures \subseteq [path : Paths, why : {"locked", "other", "share"}]
  /\ skipped \subseteq Paths /\ withheld \in BOOLEAN /\ leftDirs \subseteq Paths
  /\ aborted \in BOOLEAN /\ shareGone \in BOOLEAN /\ cancelled \in BOOLEAN
  /\ outside \subseteq Paths

(* No deletion is planned of something the source has: not because its     *)
(* folder could not be read, was pruned, or is protected by a rule that    *)
(* did not load (Scan, deletionGuard, PrunesDir).                          *)
DeletesOnlyWhatSourceLacks ==
  \A p \in plan.deletes \cup plan.rmdirs :
    src[p].kind # dstList[p].kind \/ p \in gone

(* Under skip_deletes, something extraneous has been removed only if every *)
(* copy of the plan is in place, or its source is gone: no failure, abort, *)
(* cancel or late call lets a mirror lose a file before it has its copy    *)
(* (Execute's guard).                                                      *)
DeletesFollowCopies ==
  /\ opts.deletePolicy = "skip_deletes"
  /\ \E p \in plan.deletes \cup plan.rmdirs : dst[p] = None
  => \A q \in plan.copies \ skipped : dst[q] = srcList[q] \/ q \in outside

InScope(t, p) == t[p] \notin {None, Link} /\ Admits(p, t[p] = Dir)

Close(s, d) == LET diff == Abs(s.mtime - d.mtime)
               IN s.size = d.size /\ (diff <= Tolerance \/
                     (opts.ignoreDST /\ diff \in Hour - Tolerance .. Hour + Tolerance))

(* A destination that listed in full and is reported as a plain success is *)
(* what the job promises: a mirror has what the source listed, and nothing *)
(* else in scope but directories whose removal failed, which is no more    *)
(* than a warning; an update has nothing older (Diff, Execute, removeDirs, *)
(* classifyDestination).  What vanished or went through a link is excepted.*)
SuccessMeansInSync ==
  stage = "done" /\ Status = "success" /\ dstComplete =>
    /\ \A p \in Paths \ (gone \cup outside) :
         InScope(srcList, p) =>
           IF Mirroring
           THEN dst[p].kind = srcList[p].kind /\ (dst[p] = Dir \/ Close(srcList[p], dst[p]))
           ELSE /\ dst[p] # None
                /\ dst[p].kind = "file" /\ srcList[p].kind = "file" =>
                      Close(srcList[p], dst[p]) \/ srcList[p].mtime <= dst[p].mtime + Tolerance
    /\ Mirroring =>
         \A p \in Paths \ leftDirs : dst[p] # None /\ Admits(p, dst[p] = Dir) => srcList[p] # None

KeepsOrRenews ==
  \A p \in Paths : dst[p] # None /\ dst'[p] # dst[p] =>
    dst[p].kind = "file" /\ dst'[p].kind = "file" /\ dst'[p].mtime > dst[p].mtime

(* Once it has seen the whole destination, an update never removes         *)
(* anything and replaces a file only by a newer one, whatever fails or     *)
(* lands late (Diff's update branches).                                    *)
UpdateLosesNothing == [][opts.mode = "update" /\ dstComplete => KeepsOrRenews]_vars

(* What the filter excludes at the destination stays as it is, whatever    *)
(* becomes of the directory around it, unless the source has something in  *)
(* scope at that very path (DiffOptions.Filter's comment, Diff, os.Remove  *)
(* of a directory that is not empty).                                      *)
ExcludedStays ==
  [][\A p \in Paths :
       dst[p] # None /\ ~Admits(p, dst[p] = Dir) /\ ~InScope(srcList, p) => dst'[p] = dst[p]]_vars

(* The order of Execute's stages.                                          *)
StageOrder == [scan |-> 0, unblock |-> 1, mkdir |-> 2, copy |-> 3, delete |-> 4,
               rmdir |-> 5, done |-> 6]

Advances ==
  \/ StageOrder[stage] < StageOrder[stage']
  \/ stage' = stage /\ todo' \subseteq todo /\ todo' # todo
  \/ UNCHANGED <<stage, todo>> /\ busy' \subseteq busy /\ busy' # busy
  \/ /\ UNCHANGED <<stage, todo, busy>>
     /\ \E p \in busy : /\ tries[p] < tries'[p] /\ tries'[p] <= MaxAttempts
                       /\ \A q \in Paths \ {p} : tries'[q] = tries[q]

(* Every step of Execute takes work away for good: it enters a later       *)
(* stage, takes an action off the stage's list, ends a copy, or uses up    *)
(* one of its attempts; and neither a cancel nor a call that lands late    *)
(* gives any of it back (Execute's stages, runCopies' feed, Copy's         *)
(* attempts).  So there is no endless execution, whatever fails.           *)
ExecuteAdvances ==
  [][/\ Advances \/ UNCHANGED <<stage, todo, busy, tries>>
     /\ ExecStep => Advances]_vars

(* Execute returns: no retry, abort or full pool keeps it going for ever   *)
(* (Copy's attempts, runCopies' feed and workers).                         *)
ExecuteReturns == <>(stage = "done")

-----------------------------------------------------------------------------
(* What the run's log says and an update breaks: "found a symlink at the   *)
(* destination: nothing is written through it".                            *)
NothingThroughLinks == outside = {}

(* What ModeUpdate's comment says, "copies new and newer files and never   *)
(* deletes", and a destination that did not list in full breaks: what the  *)
(* scan missed is copied over, older or not.                               *)
UpdateCopiesOnlyNewer == [][opts.mode = "update" => KeepsOrRenews]_vars
=============================================================================
