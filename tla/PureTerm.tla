------------------------------- MODULE PureTerm -------------------------------
(***************************************************************************)
(* The term language of the kernel and the functions every inference rule  *)
(* is built from: core/term.rs, core/logic.rs, core/term_subst.rs, the     *)
(* term normaliser of core/envir.rs and alpha_eq, free_in and              *)
(* compute_maxidx of core/thm.rs.                                          *)
(*                                                                         *)
(* Types and the names of binders are left out: no rule of the kernel      *)
(* decides anything by a binder's name, and the types of almost all terms  *)
(* are Typ::dummy(), which every comparison of types lets through.         *)
(*                                                                         *)
(* The functions are recursive on terms, so no theorem is proved in a      *)
(* module that sees this one.                                              *)
(***************************************************************************)
EXTENDS Naturals, Sequences, FiniteSets, TLC, FiniteSetsExt, SequencesExt

(***************************************************************************)
(* enum Term.  A term is a tuple whose first component is its constructor. *)
(***************************************************************************)
Const(name) == <<"Const", name>>
Free(name) == <<"Free", name>>
Var(name, index) == <<"Var", name, index>>
Bound(i) == <<"Bound", i>>
Abs(body) == <<"Abs", body>>
App(func, arg) == <<"App", func, arg>>

Kind(t) == t[1]
is_abs(t) == Kind(t) = "Abs"
is_app(t) == Kind(t) = "App"
is_var(t) == Kind(t) = "Var"

\* Option::None of the functions that may fail.
None == <<"None">>

-----------------------------------------------------------------------------
(* core/logic.rs: the meta-logic's connectives. *)

PureImp == Const("Pure.imp")
PureAll == Const("Pure.all")
PureEq == Const("Pure.eq")

mk_implies(a, b) == App(App(PureImp, a), b)

is_implies(t) == is_app(t) /\ is_app(t[2]) /\ t[2][2] = PureImp

\* dest_implies
antecedent(t) == t[2][3]
consequent(t) == t[3]

\* strip_imp_prems: the premises and the conclusion of a chain.
RECURSIVE prems(_)
prems(t) == IF is_implies(t) THEN <<antecedent(t)>> \o prems(consequent(t)) ELSE <<>>

RECURSIVE concl(_)
concl(t) == IF is_implies(t) THEN concl(consequent(t)) ELSE t

\* The loop at the end of every composing rule: fold mk_implies from the right.
mk_chain(ps, c) == FoldRight(mk_implies, ps, c)

mk_equals(t, u) == App(App(PureEq, t), u)

\* dest_equals also takes HOL.eq and every constant whose name ends in ".eq".
EqNames == {"Pure.eq", "HOL.eq", "Foo.eq"}
is_equals(t) == is_app(t) /\ is_app(t[2]) /\ t[2][2] \in {Const(n) : n \in EqNames}
lhs(t) == t[2][3]
rhs(t) == t[3]

-----------------------------------------------------------------------------
(* core/term.rs: lambda, which turns a variable into the bound index 0. *)

\* same_var: a Free and the Var of that name with index 0 are one variable.
same_var(a, b) ==
  \/ a = b /\ Kind(a) \in {"Free", "Var"}
  \/ Kind(a) = "Free" /\ Kind(b) = "Var" /\ a[2] = b[2] /\ b[3] = 0
  \/ Kind(a) = "Var" /\ Kind(b) = "Free" /\ a[2] = b[2] /\ a[3] = 0

RECURSIVE incr_bound(_, _)
incr_bound(d, t) ==
  CASE Kind(t) = "Bound" -> IF t[2] >= d THEN Bound(t[2] + 1) ELSE t
    [] is_app(t) -> App(incr_bound(d, t[2]), incr_bound(d, t[3]))
    [] is_abs(t) -> Abs(incr_bound(d + 1, t[2]))
    [] OTHER -> t

RECURSIVE subst_var_bound(_, _, _)
\* Mutant: the depth is not raised under a binder.
subst_var_bound_at_depth_0(d, v, t) ==
  CASE same_var(v, t) -> Bound(d)
    [] is_app(t) -> App(subst_var_bound(d, v, t[2]), subst_var_bound(d, v, t[3]))
    [] is_abs(t) -> Abs(subst_var_bound(d, v, t[2]))
    [] OTHER -> t

subst_var_bound(d, v, t) ==
  CASE same_var(v, t) -> Bound(d)
    [] is_app(t) -> App(subst_var_bound(d, v, t[2]), subst_var_bound(d, v, t[3]))
    [] is_abs(t) -> Abs(subst_var_bound(d + 1, v, t[2]))
    [] OTHER -> t

lambda(v, body) == Abs(subst_var_bound(0, v, incr_bound(0, body)))

mk_all(name, body) == App(PureAll, lambda(Free(name), body))

\* dest_all
is_all(t) == is_app(t) /\ t[2] = PureAll /\ is_abs(t[3])
all_body(t) == t[3][2]

-----------------------------------------------------------------------------
(* core/term_subst.rs *)

\* lift_bound_iter: the cutoff is the same under every binder it descends into.
RECURSIVE lift_bound(_, _, _)
lift_bound(t, cutoff, n) ==
  CASE Kind(t) = "Bound" -> IF t[2] >= cutoff THEN Bound(t[2] + n) ELSE t
    [] is_abs(t) -> Abs(lift_bound(t[2], cutoff, n))
    [] is_app(t) -> App(lift_bound(t[2], cutoff, n), lift_bound(t[3], cutoff, n))
    [] OTHER -> t

\* Under a binder the arguments are lifted and Bound(0) stands for itself.
RECURSIVE subst_bounds(_, _)
subst_bounds(args, t) ==
  CASE Kind(t) = "Bound" -> IF t[2] < Len(args) THEN lift_bound(args[t[2] + 1], 0, 0)
                            ELSE Bound(t[2] - Len(args))
    [] is_abs(t) ->
         LET lifted == [i \in 1..Len(args) |-> lift_bound(args[i], 0, 1)]
         IN Abs(subst_bounds(<<Bound(0)>> \o lifted, t[2]))
    [] is_app(t) -> App(subst_bounds(args, t[2]), subst_bounds(args, t[3]))
    [] OTHER -> t

RECURSIVE beta_norm(_)
beta_norm(t) ==
  CASE is_app(t) ->
         LET f == beta_norm(t[2])
         IN IF is_abs(f) THEN beta_norm(subst_bounds(<<beta_norm(t[3])>>, f[2]))
            ELSE App(f, beta_norm(t[3]))
    [] is_abs(t) -> Abs(beta_norm(t[2]))
    [] OTHER -> t

RECURSIVE occurs_bound(_, _)
occurs_bound(i, t) ==
  CASE Kind(t) = "Bound" -> t[2] = i
    [] is_abs(t) -> occurs_bound(i + 1, t[2])
    [] is_app(t) -> occurs_bound(i, t[2]) \/ occurs_bound(i, t[3])
    [] OTHER -> FALSE

RECURSIVE lower_bound(_, _)
lower_bound(t, cutoff) ==
  CASE Kind(t) = "Bound" -> IF t[2] >= cutoff THEN Bound(t[2] - 1) ELSE t
    [] is_abs(t) -> Abs(lower_bound(t[2], cutoff + 1))
    [] is_app(t) -> App(lower_bound(t[2], cutoff), lower_bound(t[3], cutoff))
    [] OTHER -> t

RECURSIVE eta_contract(_)
eta_contract(t) ==
  IF /\ is_abs(t)
     /\ is_app(t[2])
     /\ t[2][3] = Bound(0)
     /\ ~occurs_bound(0, t[2][2])
  THEN eta_contract(lower_bound(t[2][2], 1))
  ELSE t

-----------------------------------------------------------------------------
(* core/thm.rs: what the kernel asks of a term. *)

\* One name is the other with a theory's name in front of it.
SuffixPairs == {<<"HOL.b", "b">>}
SameBaseName(n1, n2) == n1 = n2 \/ <<n1, n2>> \in SuffixPairs \/ <<n2, n1>> \in SuffixPairs

RECURSIVE alpha_eq(_, _)
alpha_eq(a, b) ==
  CASE Kind(a) = "Const" /\ Kind(b) = "Const" -> a = b
    [] Kind(a) = "Free" /\ Kind(b) = "Free" -> a = b
    [] {Kind(a), Kind(b)} = {"Free", "Const"} -> SameBaseName(a[2], b[2])
    [] {Kind(a), Kind(b)} = {"Var", "Free"} -> a[2] = b[2]
    [] Kind(a) = "Var" /\ Kind(b) = "Var" -> a = b
    [] Kind(a) = "Bound" /\ Kind(b) = "Bound" -> a = b
    [] is_abs(a) /\ is_abs(b) -> alpha_eq(a[2], b[2])
    [] is_app(a) /\ is_app(b) -> alpha_eq(a[2], b[2]) /\ alpha_eq(a[3], b[3])
    [] OTHER -> FALSE

RECURSIVE free_in(_, _)
free_in(name, t) ==
  CASE Kind(t) = "Free" -> t[2] = name
    [] is_abs(t) -> free_in(name, t[2])
    [] is_app(t) -> free_in(name, t[2]) \/ free_in(name, t[3])
    [] OTHER -> FALSE

\* likely_unifiable, with the types left out.
likely_unifiable(a, b) ==
  \/ is_var(a) \/ is_var(b)
  \/ is_app(a) /\ is_app(b)
  \/ is_abs(a) /\ is_abs(b)
  \/ a = b

RECURSIVE compute_maxidx(_)
compute_maxidx(t) ==
  CASE Kind(t) = "Var" -> t[3]
    [] is_abs(t) -> compute_maxidx(t[2])
    [] is_app(t) -> Max({compute_maxidx(t[2]), compute_maxidx(t[3])})
    [] OTHER -> 0

-----------------------------------------------------------------------------
(* core/envir.rs.  An environment is a function from some Vars to terms. *)

empty_env == <<>>

\* update asserts that the index of v is not beyond the maxidx of the environment.
update_asserts(maxidx, v) == v[3] <= maxidx
update(env, v, t) == (v :> t) @@ env

\* norm_term: replace bound Vars and contract the redexes that appear.
RECURSIVE norm_term(_, _)
norm_term(env, t) ==
  CASE is_var(t) -> IF t \in DOMAIN env THEN norm_term(env, env[t]) ELSE t
    [] is_abs(t) -> Abs(norm_term(env, t[2]))
    [] is_app(t) ->
         LET f == norm_term(env, t[2])
             a == norm_term(env, t[3])
         IN IF is_abs(f) THEN norm_term(env, subst_bounds(<<a>>, f[2])) ELSE App(f, a)
    [] OTHER -> t
===============================================================================
