--------------------------------- MODULE Unify ---------------------------------
(***************************************************************************)
(* core/unify.rs: the two loops that every resolution step of the kernel   *)
(* relies on.  unify_dpairs_iter unifies two terms, match_pattern_iter     *)
(* instantiates a pattern to an object.  Both keep an explicit stack of    *)
(* disagreement pairs and an environment; one iteration is one step.       *)
(*                                                                         *)
(* A "work" record is the state of one loop: its environment and the       *)
(* maxidx the caller made it with, its stack (the top first), the number   *)
(* of iterations and how it ended.                                         *)
(***************************************************************************)
EXTENDS PureTerm

CONSTANT SearchBound    \* the cap on iterations (600 for unify, 2000 for match)

ASSUME SearchBoundAssumption == SearchBound \in Nat \ {0}

start(maxidx, pairs) ==
  [env |-> empty_env, maxidx |-> maxidx, stack |-> pairs, steps |-> 0, status |-> "running"]

fail(w) == [w EXCEPT !.status = "none"]
\* Mutant: only the last of the new pairs reaches the stack.
push_last(w, pairs) == [w EXCEPT !.stack = <<Last(pairs)>> \o @]

push(w, pairs) == [w EXCEPT !.stack = pairs \o @]
bind(w, v, t) ==
  IF update_asserts(w.maxidx, v) THEN [w EXCEPT !.env = update(@, v, t)]
  ELSE [w EXCEPT !.status = "panic"]

RECURSIVE occurs_check(_, _)
\* Mutant: only the term itself is looked at.
occurs_at_top(v, t) == t = v

\* Mutant: any variable counts as the one looked for.
occurs_any(v, t) ==
  CASE is_var(t) -> TRUE
    [] is_abs(t) -> occurs_check(v, t[2])
    [] is_app(t) -> occurs_check(v, t[2]) \/ occurs_check(v, t[3])
    [] OTHER -> FALSE

occurs_check(v, t) ==
  CASE is_var(t) -> t = v
    [] is_abs(t) -> occurs_check(v, t[2])
    [] is_app(t) -> occurs_check(v, t[2]) \/ occurs_check(v, t[3])
    [] OTHER -> FALSE

\* Mutant: the pair is postponed to the end of the stack instead of being bound.
postpone_var_step(w, v, rigid) == [w EXCEPT !.stack = Append(@, <<v, rigid>>)]

\* bind_var_step; the variable is unbound, for both sides are normal.
bind_var_step(w, v, rigid) == IF occurs_check(v, rigid) THEN fail(w) ELSE bind(w, v, rigid)

\* ?f a against a: ?f becomes the identity.
is_projection(t, u) == is_app(t) /\ is_var(t[2]) /\ t[3] = u
project(w, t) == bind(w, t[2], Abs(Bound(0)))

(***************************************************************************)
(* One iteration of unify_dpairs_iter.  Two different variables are        *)
(* "postponed" by dropping the pair.                                       *)
(***************************************************************************)
unify_step(w) ==
  IF w.stack = <<>> THEN [w EXCEPT !.status = "some"]
  ELSE IF w.steps >= SearchBound THEN fail(w)
  ELSE
    LET t == norm_term(w.env, Head(w.stack)[1])
        u == norm_term(w.env, Head(w.stack)[2])
        popped == [w EXCEPT !.stack = Tail(@), !.steps = @ + 1]
    IN IF t = u THEN popped
       ELSE IF is_var(t) /\ is_var(u) THEN popped
       ELSE IF is_var(t) THEN bind_var_step(popped, t, u)
       ELSE IF is_var(u) THEN bind_var_step(popped, u, t)
       ELSE IF is_app(t) /\ is_app(u) THEN push(popped, <<<<t[2], u[2]>>, <<t[3], u[3]>>>>)
       ELSE IF is_abs(t) /\ is_abs(u) THEN push(popped, <<<<t[2], u[2]>>>>)
       ELSE IF is_projection(t, u) THEN project(popped, t)
       ELSE IF is_projection(u, t) THEN project(popped, u)
       ELSE fail(popped)

-----------------------------------------------------------------------------
(* Matching. *)

RECURSIVE spine_head(_)
spine_head(t) == IF is_app(t) THEN spine_head(t[2]) ELSE t

RECURSIVE spine_args(_)
spine_args(t) == IF is_app(t) THEN Append(spine_args(t[2]), t[3]) ELSE <<>>

\* collect_bound_args: a Var, but also a Free, applied to distinct Bounds and Frees.
is_ho_pattern(t) ==
  /\ Kind(spine_head(t)) \in {"Var", "Free"}
  /\ \A i \in DOMAIN spine_args(t) : Kind(spine_args(t)[i]) \in {"Bound", "Free"}
  /\ IsInjective(spine_args(t))

\* dest_head_var: a Free head is taken for the Var of that name with index 0.
dest_head_var(t) ==
  LET h == spine_head(t) IN IF Kind(h) = "Free" THEN Var(h[2], 0) ELSE h

\* match_ho_pattern wraps one binder per argument round the object as it stands.
RECURSIVE abs_n(_, _)
abs_n(n, t) == IF n = 0 THEN t ELSE Abs(abs_n(n - 1, t))

\* It returns from the loop: what is left on the stack is never compared.
match_ho_pattern(w, pat, obj) ==
  LET v == dest_head_var(pat)
      abstracted == abs_n(Len(spine_args(pat)), obj)
  IN IF v \in DOMAIN w.env \/ occurs_check(v, abstracted) THEN fail(w)
     ELSE [bind(w, v, abstracted) EXCEPT !.status = IF @ = "panic" THEN @ ELSE "some"]

\* One iteration of match_pattern_iter.
match_step(w) ==
  IF w.stack = <<>> THEN [w EXCEPT !.status = "some"]
  ELSE IF w.steps >= SearchBound THEN fail(w)
  ELSE
    LET pat == norm_term(w.env, Head(w.stack)[1])
        obj == norm_term(w.env, Head(w.stack)[2])
        popped == [w EXCEPT !.stack = Tail(@), !.steps = @ + 1]
    IN IF pat = obj THEN popped
       ELSE IF is_var(pat) THEN bind_var_step(popped, pat, obj)
       ELSE IF is_app(pat) /\ is_ho_pattern(pat) THEN match_ho_pattern(popped, pat, obj)
       ELSE IF is_app(pat) /\ is_app(obj) THEN push(popped, <<<<pat[2], obj[2]>>, <<pat[3], obj[3]>>>>)
       ELSE IF is_abs(pat) /\ is_abs(obj) THEN push(popped, <<<<pat[2], obj[2]>>>>)
       ELSE fail(popped)

\* unifiers and matchers: the loops run to their end.
RECURSIVE run_unify(_)
run_unify(w) == IF w.status = "running" THEN run_unify(unify_step(w)) ELSE w

RECURSIVE run_match(_)
run_match(w) == IF w.status = "running" THEN run_match(match_step(w)) ELSE w

unifiers(maxidx, pairs) == run_unify(start(maxidx, pairs))
matchers(maxidx, pat, obj) == run_match(start(maxidx, <<<<pat, obj>>>>))
===============================================================================
