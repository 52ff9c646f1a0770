------------------------------ MODULE UnifyLoops ------------------------------
(***************************************************************************)
(* The two loops of core/unify.rs as a system: a call of unifiers or of    *)
(* matchers with two terms, then one iteration at a time.  The environment *)
(* is the empty one whose maxidx is 0 (core/pattern.rs), that of the       *)
(* pattern (tools/simp.rs) or that of both terms (core/thm.rs).            *)
(***************************************************************************)
EXTENDS Unify

CONSTANT Inputs    \* the terms a call may be given

VARIABLES
  mode,   \* which loop runs: "unify" or "match"
  left,   \* the first term of the call (the pattern of a match)
  right,  \* the second term (the object)
  work

vars == <<mode, left, right, work>>

Init ==
  /\ mode \in {"unify", "match"}
  /\ left \in Inputs
  /\ right \in Inputs
  /\ \E maxidx \in {0, compute_maxidx(left), Max({compute_maxidx(left), compute_maxidx(right)})} :
       work = start(maxidx, <<<<left, right>>>>)

UnifyStep ==
  /\ mode = "unify"
  /\ work.status = "running"
  /\ work' = unify_step(work)
  /\ UNCHANGED <<mode, left, right>>

MatchStep ==
  /\ mode = "match"
  /\ work.status = "running"
  /\ work' = match_step(work)
  /\ UNCHANGED <<mode, left, right>>

Next == UnifyStep \/ MatchStep

\* A loop in Rust runs on until it returns.
Spec == Init /\ [][Next]_vars /\ WF_vars(Next)
===============================================================================
