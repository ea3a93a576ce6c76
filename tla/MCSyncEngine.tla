---------------------------- MODULE MCSyncEngine ----------------------------
(* Model-checking instances of SyncEngine: a folder with one file in it,   *)
(* and a file beside it; either may be something else on the other side.   *)
EXTENDS SyncEngine, TLC

A == <<"a">>
X == <<"a", "x">>
B == <<"b">>

File(size, mtime) == [kind |-> "file", size |-> size, mtime |-> mtime]
Old == File(1, 0)
New == File(1, 3)

MCPaths == {A, X, B}
MCFiles == {Old, New}

Tree(a, x, b) == (A :> a) @@ (X :> x) @@ (B :> b)
MCSourceTrees == { Tree(None, None, None), Tree(None, None, New),
                   Tree(Link, None, None), Tree(New, None, None),
                   Tree(Dir, None, New), Tree(Dir, Old, None), Tree(Dir, New, New) }
MCDestTrees   == { Tree(None, None, Old), Tree(Link, None, None), Tree(Old, None, None),
                   Tree(Dir, Old, Old), Tree(Dir, New, None) }

AllOf(pats, dirOnly) == [at |-> pats, dirOnly |-> dirOnly]
NoFilter == [hasIncludes |-> FALSE, includes |-> {}, excludes |-> {}, jobExcludes |-> {},
             degraded |-> FALSE]
JobExclude  == {AllOf({A}, TRUE)}
MCChains == { NoFilter,
              [NoFilter EXCEPT !.degraded = TRUE],
              [NoFilter EXCEPT !.excludes = JobExclude, !.jobExcludes = JobExclude],
              [NoFilter EXCEPT !.excludes = {AllOf({X}, FALSE)}],
              [NoFilter EXCEPT !.hasIncludes = TRUE, !.includes = {AllOf({X}, FALSE)}] }

Option(m, e, d, h) == [mode |-> m, onError |-> e, deletePolicy |-> d, ignoreDST |-> h]
MCOptions == { Option("mirror", "continue", "skip_deletes", FALSE),
               Option("mirror", "abort", "proceed", TRUE),
               Option("update", "continue", "skip_deletes", FALSE) }
LinkTrees == { t \in MCDestTrees : t[A] = Link }
FileTrees == { t \in MCDestTrees : t[A] = Dir }
UpdateOptions == { o \in MCOptions : o.mode = "update" }
PlainChain == {NoFilter}
=============================================================================
