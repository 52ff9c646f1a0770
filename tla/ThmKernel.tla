------------------------------- MODULE ThmKernel -------------------------------
(***************************************************************************)
(* core/thm.rs: the LCF kernel.  A client holds a few theorem values and   *)
(* hands them to the inference rules; every rule is one action.            *)
(*                                                                         *)
(* Terms enter through the CONSTANT operators below, so that the theorems  *)
(* of ThmKernelProofs hold for every term language that satisfies their    *)
(* assumptions; MCThmKernel gives them the definitions of PureTerm and     *)
(* Unify.  Serial numbers and the derivation record are left out: no rule  *)
(* reads them.  So are flex-flex pairs: no rule ever creates one.          *)
(***************************************************************************)
EXTENDS Naturals, Sequences, FiniteSets

CONSTANTS
  Term,          \* the certified terms a client builds
  Prop,          \* those of type prop (a bound on what is derived, too)
  PremList,      \* lists of premises (a bound on the results of resolution)
  FreeName,      \* names of free variables
  Oracle,        \* names of oracles: "admitted", "sorry", ...
  Admissible,    \* the propositions clients admit without a proof
  Sort,          \* type-class constraints
  Env,           \* environments that bind schematic variables
  MaxLive,       \* how many theorem values the client holds at once
  MaxHyps        \* bound on the hypotheses of one theorem

CONSTANTS
  Implies(_, _), IsImplies(_), Antecedent(_), Consequent(_), \* mk_implies, dest_implies
  Equals(_, _), IsEquals(_), Lhs(_), Rhs(_),                 \* mk_equals, dest_equals
  ForAll(_, _), IsForAll(_), BodyOf(_),                      \* mk_all, dest_all
  Prems(_), Concl(_),  \* strip_imp_prems
  Chain(_, _),         \* the fold of mk_implies that rebuilds a proposition
  SubstBound(_, _),    \* subst_bounds(&[t], body)
  Lam(_),              \* Term::abs: a binder round the term as it is
  Apply(_, _),         \* Term::app
  AlphaEq(_, _),       \* Hyps::alpha_eq
  LikelyUnifiable(_, _), \* likely_unifiable: the filter in front of unifiers
  FreeIn(_, _),        \* free_in
  MaxIdx(_),           \* CTerm::maxidx
  Norm(_, _),          \* Envir::norm_term
  EnvMaxIdx(_),        \* the maxidx a client gave the environment it built
  EmptyEnv,            \* Envir::init
  Unifiers(_),         \* the environments unifiers returns for a list of pairs
  Matchers(_, _)       \* the environments matchers returns

VARIABLE thms    \* the theorem values the client holds

vars == <<thms>>

(***************************************************************************)
(* struct Thm.  used and sorts are history: every admission the derivation *)
(* rests on, with the proposition it admitted, and every sort hypothesis   *)
(* the theorems it was derived from carried.                               *)
(***************************************************************************)
Thm == [hyps : SUBSET Prop, prop : Prop, maxidx : Nat,
        shyps : SUBSET Sort, oracles : SUBSET Oracle,
        used : SUBSET (Oracle \X Prop), sorts : SUBSET Sort]

Larger(m, n) == IF m >= n THEN m ELSE n

\* Hyps::insert and Hyps::union: what is there stays, and stands for its variants.
HypsContain(H, t) == \E h \in H : AlphaEq(h, t)
HypsUnion(G, H) == G \union {h \in H : ~HypsContain(G, h)}
HypsRemove(H, t) == {h \in H : ~AlphaEq(h, t)}

\* Hyps::insert one by one: the first of several variants is kept, and the
\* model does not fix which one is the first.
Deduplicated(S) ==
  {H \in SUBSET S : /\ \A s \in S : HypsContain(H, s)
                    /\ \A h, k \in H : AlphaEq(h, k) => h = k}

\* A theorem without premises (Derivation::Axiom).
Primitive(H, p, m) ==
  [hyps |-> H, prop |-> p, maxidx |-> m, shyps |-> {}, oracles |-> {}, used |-> {}, sorts |-> {}]

\* The result of a rule with one premise: everything but the sequent is passed on.
Derived(th, H, p, m) ==
  [hyps |-> H, prop |-> p, maxidx |-> m, shyps |-> th.shyps,
   oracles |-> th.oracles, used |-> th.used, sorts |-> th.sorts]

\* Mutant: the oracles of the second premise are forgotten.
Combined_first(th1, th2, p) ==
  [Derived(th1, HypsUnion(th1.hyps, th2.hyps), p, Larger(th1.maxidx, th2.maxidx))
     EXCEPT !.used = @ \union th2.used, !.sorts = @ \union th2.sorts, !.shyps = @ \union th2.shyps]

\* union_oracles, union_shyps and Hyps::union: the result of a rule with two premises.
Combined(th1, th2, p) ==
  [hyps |-> HypsUnion(th1.hyps, th2.hyps),
   prop |-> p,
   maxidx |-> Larger(th1.maxidx, th2.maxidx),
   shyps |-> th1.shyps \union th2.shyps,
   oracles |-> th1.oracles \union th2.oracles,
   used |-> th1.used \union th2.used,
   sorts |-> th1.sorts \union th2.sorts]

\* The client keeps the result and may drop a value it holds to make room.
Keep(th) ==
  /\ th.prop \in Prop
  /\ th.hyps \subseteq Prop
  /\ Cardinality(th.hyps) <= MaxHyps
  /\ \E dropped \in {{}} \union {{d} : d \in thms} :
        /\ thms' = (thms \ dropped) \union {th}
        /\ Cardinality(thms') <= MaxLive

-----------------------------------------------------------------------------
(* Rules without premises. *)

\* The one entry point for what is not proved.
admit(ct, name) ==
  Keep([hyps |-> {}, prop |-> ct, maxidx |-> MaxIdx(ct), shyps |-> {},
        oracles |-> {name}, used |-> {<<name, ct>>}, sorts |-> {}])

assume(ct) == Keep(Primitive({ct}, ct, MaxIdx(ct)))

\* trivial: assume, then implies_intr.
trivial(ct) ==
  Keep(Primitive({}, Implies(ct, ct), MaxIdx(ct)))

reflexive(ct) == Keep(Primitive({}, Equals(ct, ct), MaxIdx(ct)))

\* The body is returned as it stands under the binder; the argument is not used.
beta_conversion(body, arg) ==
  Keep(Primitive({}, Equals(Apply(Lam(body), arg), body), MaxIdx(Apply(Lam(body), arg))))

-----------------------------------------------------------------------------
(* Equality. *)

symmetric(th) ==
  /\ IsEquals(th.prop)
  /\ Keep(Derived(th, th.hyps, Equals(Rhs(th.prop), Lhs(th.prop)), th.maxidx))

transitive(th1, th2) ==
  /\ IsEquals(th1.prop)
  /\ IsEquals(th2.prop)
  /\ AlphaEq(Rhs(th1.prop), Lhs(th2.prop))
  /\ Keep(Combined(th1, th2, Equals(Lhs(th1.prop), Rhs(th2.prop))))

\* The guard on types is that both applications are terms.
combination(thf, thx) ==
  LET fx == Apply(Lhs(thf.prop), Lhs(thx.prop))
      gy == Apply(Rhs(thf.prop), Rhs(thx.prop))
  IN /\ IsEquals(thf.prop)
     /\ IsEquals(thx.prop)
     /\ fx \in Term
     /\ gy \in Term
     /\ Keep(Combined(thf, thx, Equals(fx, gy)))

\* x is not turned into the bound variable: Term::abs only adds the binder.
abstraction(x, th) ==
  /\ IsEquals(th.prop)
  /\ \A h \in th.hyps : ~FreeIn(x, h)
  /\ Keep(Derived(th, th.hyps, Equals(Lam(Lhs(th.prop)), Lam(Rhs(th.prop))), th.maxidx))

-----------------------------------------------------------------------------
(* Implication and quantification. *)

implies_intr(assumption, th) ==
  /\ HypsContain(th.hyps, assumption)
  /\ Keep(Derived(th, HypsRemove(th.hyps, assumption), Implies(assumption, th.prop), th.maxidx))

implies_elim(thimp, tha) ==
  /\ IsImplies(thimp.prop)
  /\ AlphaEq(Antecedent(thimp.prop), tha.prop)
  /\ Keep(Combined(thimp, tha, Consequent(thimp.prop)))

\* Mutant: the variable may be free in a hypothesis.
forall_intr_unguarded(x, th) ==
  Keep(Derived(th, th.hyps, ForAll(x, th.prop), th.maxidx))

forall_intr(x, th) ==
  /\ \A h \in th.hyps : ~FreeIn(x, h)
  /\ Keep(Derived(th, th.hyps, ForAll(x, th.prop), th.maxidx))

\* Mutant: the index of the instance is not counted.
forall_elim_maxidx(ct, th) ==
  /\ IsForAll(th.prop)
  /\ Keep(Derived(th, th.hyps, SubstBound(ct, BodyOf(th.prop)), th.maxidx))

forall_elim(ct, th) ==
  /\ IsForAll(th.prop)
  /\ Keep(Derived(th, th.hyps, SubstBound(ct, BodyOf(th.prop)), Larger(th.maxidx, MaxIdx(ct))))

-----------------------------------------------------------------------------
(* Instantiation and resolution. *)

\* The instances of a theorem under an environment whose maxidx is m.
Instances(env, m, th) ==
  {Derived(th, H, Norm(env, th.prop), Larger(th.maxidx, m)) :
     H \in Deduplicated({Norm(env, h) : h \in th.hyps})}

instantiate(env, th) == \E inst \in Instances(env, EnvMaxIdx(env), th) : Keep(inst)

\* qs with its i-th element replaced by the sequence ps.
Splice(ps, qs, i) == SubSeq(qs, 1, i - 1) \o ps \o SubSeq(qs, i + 1, Len(qs))

\* The i-th premise of th2 is replaced by ps.
Composed(th1, th2, ps, i) ==
  Combined(th1, th2, Chain(Splice(ps, Prems(th2.prop), i), Concl(th2.prop)))

\* The slices panic when instantiation leaves no i-th premise.
KeepComposed(th1, th2, ps, i) ==
  /\ i \in 1..Len(Prems(th2.prop))
  /\ Splice(ps, Prems(th2.prop), i) \in PremList
  /\ Keep(Composed(th1, th2, ps, i))

\* Both theorems are instantiated, then the premises of the first take the place
\* of the i-th premise of the second.
Resolve(env, m, th1, th2, i) ==
  \E i1 \in Instances(env, m, th1), i2 \in Instances(env, m, th2) :
    KeepComposed(i1, i2, Prems(i1.prop), i)

\* match_flag: the conclusion of th1 is matched to the premise.
bicompose_match(th1, th2, i) ==
  \E env \in Env \intersect Matchers(Concl(th1.prop), Prems(th2.prop)[i]) :
    Resolve(env, Larger(th1.maxidx, th2.maxidx), th1, th2, i)

\* No match_flag: all of th1 is the premise, or else its conclusion is, or else
\* the two are unified.  In the first two cases instantiation only normalises.
bicompose_exact(th1, th2, i) ==
  /\ AlphaEq(th1.prop, Prems(th2.prop)[i])
  /\ \E i1 \in Instances(EmptyEnv, 0, th1), i2 \in Instances(EmptyEnv, 0, th2) :
       KeepComposed(i1, i2, <<>>, i)

bicompose_concl(th1, th2, i) ==
  /\ ~AlphaEq(th1.prop, Prems(th2.prop)[i])
  /\ AlphaEq(Concl(th1.prop), Prems(th2.prop)[i])
  /\ Resolve(EmptyEnv, 0, th1, th2, i)

bicompose_unify(th1, th2, i) ==
  /\ ~AlphaEq(th1.prop, Prems(th2.prop)[i])
  /\ ~AlphaEq(Concl(th1.prop), Prems(th2.prop)[i])
  /\ LikelyUnifiable(Concl(th1.prop), Prems(th2.prop)[i])
  /\ \E env \in Env \intersect Unifiers(<<<<Concl(th1.prop), Prems(th2.prop)[i]>>>>) :
       Resolve(env, Larger(th1.maxidx, th2.maxidx), th1, th2, i)

bicompose(th1, th2) ==
  \E i \in 1..Len(Prems(th2.prop)) :
    \/ bicompose_match(th1, th2, i)
    \/ bicompose_exact(th1, th2, i)
    \/ bicompose_concl(th1, th2, i)
    \/ bicompose_unify(th1, th2, i)

subst_premise(theq, state) ==
  \E i \in 1..Len(Prems(state.prop)) :
    LET ps == Splice(<<Rhs(theq.prop)>>, Prems(state.prop), i)
    IN /\ IsEquals(theq.prop)
       /\ AlphaEq(Lhs(theq.prop), Prems(state.prop)[i])
       /\ ps \in PremList
       /\ Keep(Combined(state, theq, Chain(ps, Concl(state.prop))))

-----------------------------------------------------------------------------
(* Elimination resolution: bicompose_eresolve.  The first premise of th1,  *)
(* the major one, is discharged by a hypothesis of th2, by a premise of    *)
(* such a hypothesis, or by a fact handed in beside the two theorems.      *)

\* The hypotheses of th, and the premises stripped from them.
HypCandidates(th) ==
  th.hyps \union UNION {{Prems(h)[j] : j \in 1..Len(Prems(h))} : h \in th.hyps}

EresolveEnvs(th1, th2, i, candidates) ==
  UNION {Env \intersect
           Unifiers(<<<<Prems(th1.prop)[1], m>>, <<Concl(th1.prop), Prems(th2.prop)[i]>>>>) :
         m \in {m \in candidates : LikelyUnifiable(Prems(th1.prop)[1], m)}}

\* What the fact rests on is history the result does not get to know of.
KeepEresolved(env, th1, th2, i, used, sorts) ==
  LET m == Larger(th1.maxidx, th2.maxidx)
  IN \E i1 \in Instances(env, m, th1), i2 \in Instances(env, m, th2) :
       /\ i \in 1..Len(Prems(i2.prop))
       /\ Splice(Tail(Prems(i1.prop)), Prems(i2.prop), i) \in PremList
       /\ Keep([Composed(i1, i2, Tail(Prems(i1.prop)), i) EXCEPT
                  !.used = @ \union used, !.sorts = @ \union sorts])

eresolve_hyp(th1, th2, i) ==
  \E env \in EresolveEnvs(th1, th2, i, HypCandidates(th2)) :
    KeepEresolved(env, th1, th2, i, {}, {})

\* The facts are tried after the hypotheses; their own hypotheses and oracles
\* are not looked at.
eresolve_fact(th1, th2, i, fact) ==
  /\ EresolveEnvs(th1, th2, i, HypCandidates(th2)) = {}
  /\ \E env \in EresolveEnvs(th1, th2, i, {fact.prop}) :
       KeepEresolved(env, th1, th2, i, fact.used, fact.sorts)

\* No match_flag: no unification, and no facts.
eresolve_exact(th1, th2, i) ==
  /\ \E h \in HypCandidates(th2) : AlphaEq(Prems(th1.prop)[1], h)
  /\ \/ AlphaEq(th1.prop, Prems(th2.prop)[i])
     \/ AlphaEq(Concl(th1.prop), Prems(th2.prop)[i])
  /\ KeepEresolved(EmptyEnv, th1, th2, i, {}, {})

bicompose_eresolve(th1, th2) ==
  /\ Prems(th1.prop) # <<>>
  /\ \E i \in 1..Len(Prems(th2.prop)) :
       \/ eresolve_hyp(th1, th2, i)
       \/ \E fact \in thms : eresolve_fact(th1, th2, i, fact)
       \/ eresolve_exact(th1, th2, i)

-----------------------------------------------------------------------------
(* Sort hypotheses. *)

add_shyp(th, s) == Keep([th EXCEPT !.shyps = @ \union {s}, !.sorts = @ \union {s}])

\* Declared weakening: the client asks for the constraints to be dropped.
strip_shyps(th) == Keep([th EXCEPT !.shyps = {}, !.sorts = {}])

-----------------------------------------------------------------------------
Init == thms = {}

\* The rules without premises, but for beta_conversion.
AxiomStep ==
  \/ \E ct \in Admissible, name \in Oracle : admit(ct, name)
  \/ \E ct \in Prop : assume(ct)
  \/ \E ct \in Prop : trivial(ct)
  \/ \E ct \in Term : reflexive(ct)

EqualityStep ==
  \/ \E th \in thms : symmetric(th)
  \/ \E th1, th2 \in thms : transitive(th1, th2)
  \/ \E th1, th2 \in thms : combination(th1, th2)
  \/ \E th \in thms, x \in FreeName : abstraction(x, th)

LogicStep ==
  \/ \E th \in thms, ct \in Prop : implies_intr(ct, th)
  \/ \E th1, th2 \in thms : implies_elim(th1, th2)
  \/ \E th \in thms, x \in FreeName : forall_intr(x, th)
  \/ \E th \in thms, ct \in Prop : forall_elim(ct, th)

ResolutionStep ==
  \/ \E th \in thms, env \in Env : instantiate(env, th)
  \/ \E th1, th2 \in thms : bicompose(th1, th2)
  \/ \E th1, th2 \in thms : subst_premise(th1, th2)

SortStep ==
  \/ \E th \in thms, s \in Sort : add_shyp(th, s)
  \/ \E th \in thms : strip_shyps(th)

\* The rules that are sound wherever the comparisons they make are right:
\* ThmSemantics says which comparisons those are.
CoreNext == AxiomStep \/ EqualityStep \/ LogicStep \/ ResolutionStep \/ SortStep

\* All of ThmKernel.
Next ==
  \/ CoreNext
  \/ \E body, arg \in Term : beta_conversion(body, arg)
  \/ \E th1, th2 \in thms : bicompose_eresolve(th1, th2)

CoreSpec == Init /\ [][CoreNext]_vars
Spec == Init /\ [][Next]_vars
===============================================================================
