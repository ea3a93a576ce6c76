--------------------------- MODULE MCRunPipeline ---------------------------
(* Model-checking instances of RunPipeline: which job settings a run considers. *)
EXTENDS RunPipeline, TLC

(* Every policy meets every rule for missing folders, and each rule is met *)
(* by parallel and by sequential destinations; a preview creates nothing,  *)
(* so there one rule that would is enough for each.  Each setting has one  *)
(* of the two fallbacks, and every kind of prompt meets both.              *)
InParallel == {<<"skip", "always">>, <<"prompt", "never">>}

CoveringJobs == { c \in JobConfig :
  /\ (c.fallback = "abort") = ((c.policy = "prompt") = c.parallel)
  /\ CASE c.preview  -> c.create = (IF c.parallel THEN "ask" ELSE "always")
       [] c.parallel -> <<c.policy, c.create>> \in InParallel \cup {<<"abort", "ask">>}
       [] OTHER      -> <<c.policy, c.create>> \notin InParallel }
RunJobs      == { c \in JobConfig : ~c.preview }
=============================================================================
