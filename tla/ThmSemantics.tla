------------------------------ MODULE ThmSemantics ------------------------------
(***************************************************************************)
(* What the kernel promises: a meaning for terms, the assumptions about    *)
(* the term functions the rules rely on, and the properties of theorems.   *)
(*                                                                         *)
(* TLC evaluates every assumption on the term languages of MCThmKernel;    *)
(* ThmKernelProofs uses them and nothing else about terms.  They are about *)
(* connectives, binders and normalisation; what the rules trust and the    *)
(* code gets wrong is no assumption but a condition on the single step     *)
(* (the last section).                                                     *)
(***************************************************************************)
EXTENDS ThmKernel

CONSTANTS
  Val,             \* interpretations of the free and schematic variables
  Den(_, _),       \* Den(v, t): what t denotes under v
  Variants(_, _)   \* Variants(v, x): the interpretations that differ from v at x only

Holds(v, p) == Den(v, p) = TRUE
AllHold(v, ps) == \A i \in 1..Len(ps) : Holds(v, ps[i])
Valid(p) == \A v \in Val : Holds(v, p)

-----------------------------------------------------------------------------
(* The term language. *)

ASSUME SyntaxAssumption ==
  /\ Prop \subseteq Term
  /\ Admissible \subseteq Prop
  /\ PremList \subseteq Seq(Prop)
  /\ \A p \in Prop :
       /\ Prems(p) \in PremList
       /\ Concl(p) \in Prop
       /\ IsImplies(p) => Antecedent(p) \in Prop /\ Consequent(p) \in Prop
       /\ IsEquals(p) => Lhs(p) \in Term /\ Rhs(p) \in Term
       /\ \A env \in Env : Norm(env, p) \in Prop
  /\ \A t, u \in Term : Equals(Lam(t), Lam(u)) \in Prop => Lam(t) \in Term /\ Lam(u) \in Term

ASSUME ImpliesAssumption ==
  \A v \in Val :
    /\ \A p, q \in Prop : Holds(v, Implies(p, q)) <=> (Holds(v, p) => Holds(v, q))
    /\ \A p \in Prop :
         IsImplies(p) => (Holds(v, p) <=> (Holds(v, Antecedent(p)) => Holds(v, Consequent(p))))

ASSUME EqualsAssumption ==
  \A v \in Val : \A t, u \in Term :
    Equals(t, u) \in Prop => (Holds(v, Equals(t, u)) <=> Den(v, t) = Den(v, u))

\* Equal functions applied to equal arguments, and a vacuous binder round equal bodies.
ASSUME CongruenceAssumption ==
  \A v \in Val :
    /\ \A f, h, t, u \in Term :
         /\ Equals(Apply(f, t), Apply(h, u)) \in Prop
         /\ Den(v, f) = Den(v, h)
         /\ Den(v, t) = Den(v, u)
         => Den(v, Apply(f, t)) = Den(v, Apply(h, u))
    /\ \A t, u \in Term :
         /\ Equals(Lam(t), Lam(u)) \in Prop
         /\ Den(v, t) = Den(v, u)
         => Den(v, Lam(t)) = Den(v, Lam(u))

ASSUME ChainAssumption ==
  \A v \in Val :
    /\ \A p \in Prop : Holds(v, p) <=> (AllHold(v, Prems(p)) => Holds(v, Concl(p)))
    /\ \A ps \in PremList, q \in Prop :
         Holds(v, Chain(ps, q)) <=> (AllHold(v, ps) => Holds(v, q))

\* The side condition of forall_intr is the right one for the hypotheses.
ASSUME FreeInAssumption ==
  \A v \in Val, x \in FreeName :
    /\ Variants(v, x) \subseteq Val
    /\ \A p \in Prop : ~FreeIn(x, p) => \A w \in Variants(v, x) : Den(w, p) = Den(v, p)

-----------------------------------------------------------------------------
(* Indices of schematic variables. *)

MaxIdxAtMost(t, n) == MaxIdx(t) <= n
ListAtMost(ps, n) == \A i \in 1..Len(ps) : MaxIdxAtMost(ps[i], n)

ASSUME MaxIdxAssumption ==
  /\ \A t \in Term : MaxIdx(t) \in Nat
  /\ \A p, q \in Prop : MaxIdx(Implies(p, q)) <= Larger(MaxIdx(p), MaxIdx(q))
  /\ \A p \in Prop :
       /\ ListAtMost(Prems(p), MaxIdx(p))
       /\ MaxIdx(Concl(p)) <= MaxIdx(p)
       /\ IsImplies(p) => MaxIdx(Consequent(p)) <= MaxIdx(p)
       /\ IsEquals(p) => MaxIdx(Lhs(p)) <= MaxIdx(p) /\ MaxIdx(Rhs(p)) <= MaxIdx(p)
       /\ \A x \in FreeName : MaxIdx(ForAll(x, p)) <= MaxIdx(p)
       /\ \A t \in Prop : IsForAll(p) =>
            MaxIdx(SubstBound(t, BodyOf(p))) <= Larger(MaxIdx(p), MaxIdx(t))
  /\ \A t, u \in Term : MaxIdx(Equals(t, u)) <= Larger(MaxIdx(t), MaxIdx(u))
  /\ \A t \in Term : MaxIdx(Lam(t)) <= MaxIdx(t)
  /\ \A t, u \in Term : MaxIdx(Apply(t, u)) <= Larger(MaxIdx(t), MaxIdx(u))
  /\ \A ps \in PremList, q \in Prop :
       \/ MaxIdx(Chain(ps, q)) <= MaxIdx(q)
       \/ \E i \in 1..Len(ps) : MaxIdx(Chain(ps, q)) <= MaxIdx(ps[i])

\* Unification only binds variables to parts of the terms it was given.
ASSUME EnvMaxIdxAssumption ==
  /\ EmptyEnv \in Env
  /\ \A p \in Prop : MaxIdx(Norm(EmptyEnv, p)) <= MaxIdx(p)
  /\ \A env \in Env :
       /\ EnvMaxIdx(env) \in Nat
       /\ \A p, q, r \in Prop :
            env \in Matchers(p, q) \union Unifiers(<<<<p, q>>>>)
              => MaxIdx(Norm(env, r)) <= Larger(MaxIdx(r), Larger(MaxIdx(p), MaxIdx(q)))

-----------------------------------------------------------------------------
(* Properties of theorems. *)

\* Theorem values are well-formed and the client holds a bounded number of them.
TypeOK == thms \subseteq Thm

\* T3 of TRUST.md: the oracle footprint of a theorem names exactly the
\* admissions its derivation rests on, however long the derivation and whatever
\* has become of the intermediate theorems; and it carries every sort hypothesis
\* it inherited (union_oracles, union_shyps and the clones of the unary rules).
ThmFootprint(th) == th.oracles = {u[1] : u \in th.used} /\ th.shyps = th.sorts
FootprintExact == \A th \in thms : ThmFootprint(th)

\* The header of thm.rs: every Thm is a logical consequence.  If the
\* propositions admitted under the names in its footprint are valid, the theorem
\* holds under every interpretation that satisfies its hypotheses.
Entailed(th) == \A v \in Val : (\A h \in th.hyps : Holds(v, h)) => Holds(v, th.prop)
ThmSound(th) == (\A u \in th.used : u[1] \in th.oracles => Valid(u[2])) => Entailed(th)
Sound == \A th \in thms : ThmSound(th)

\* Key decision 5 of thm.rs: the maxidx of a theorem bounds every schematic
\* index of its sequent, so that a variable above it is fresh.
ThmMaxIdx(th) ==
  /\ MaxIdxAtMost(th.prop, th.maxidx)
  /\ \A h \in th.hyps : MaxIdxAtMost(h, th.maxidx)
MaxidxCovers == \A th \in thms : ThmMaxIdx(th)

-----------------------------------------------------------------------------
(***************************************************************************)
(* What the rules trust of terms and do not check.  No assumption above    *)
(* says that it is right, for in the code it is not: alpha_eq identifies   *)
(* ?a with a, mk_all binds both, dest_equals takes every constant whose    *)
(* name ends in .eq, subst_bounds captures below two binders, unifiers     *)
(* drops a pair of distinct variables, norm_term gives up after 20000      *)
(* steps, and conv.rs instantiates by an environment that does not know    *)
(* what it binds to.  The specifications below take just the steps in      *)
(* which nothing of the kind happens: a condition for each use a rule      *)
(* makes of a term function, on the terms of that step.                    *)
(***************************************************************************)

\* Among these terms, alpha_eq identifies only what denotes the same.
SameMeaning(S) == \A t, u \in S : AlphaEq(t, u) => \A v \in Val : Den(v, t) = Den(v, u)

\* The union of the hypotheses drops none for another of another meaning.
FaithfulUnion(th1, th2) == SameMeaning(th1.hyps \union th2.hyps)

\* What dest_equals takes for an equation is one.
FaithfulEquation(th) ==
  \A v \in Val : Holds(v, th.prop) => Den(v, Lhs(th.prop)) = Den(v, Rhs(th.prop))

\* mk_all binds the free variable x and nothing else.
FaithfulBinder(x, p) ==
  \A v \in Val : (\A w \in Variants(v, x) : Holds(w, p)) => Holds(v, ForAll(x, p))

\* subst_bounds gives an instance of what the binder says.
FaithfulInstance(ct, p) ==
  \A v \in Val : Holds(v, p) => Holds(v, SubstBound(ct, BodyOf(p)))

\* The propositions of a theorem that resolution looks at.
Parts(th) ==
  th.hyps \union {th.prop, Concl(th.prop)} \union {Prems(th.prop)[i] : i \in 1..Len(Prems(th.prop))}

\* norm_term is a change of interpretation, and commutes with the premises.
FaithfulNorm(env, ths) ==
  /\ \A v \in Val : \E w \in Val : \A p \in UNION {Parts(th) : th \in ths} :
       Den(v, Norm(env, p)) = Den(w, p)
  /\ \A th \in ths : \A i \in 1..Len(Prems(th.prop)) :
       /\ i \in 1..Len(Prems(Norm(env, th.prop)))
       /\ Prems(Norm(env, th.prop))[i] = Norm(env, Prems(th.prop)[i])
  /\ SameMeaning({Norm(env, h) : h \in UNION {th.hyps : th \in ths}})

\* What unify.rs answers for the conclusion of one theorem and a premise of another.
ResolutionEnvs(c, q) == Env \intersect (Matchers(c, q) \union Unifiers(<<<<c, q>>>>))

\* The premises of th2 are compared with th1 rightly, and the environments that
\* unify one with the conclusion of th1 do.
FaithfulResolution(th1, th2) ==
  \A i \in 1..Len(Prems(th2.prop)) :
    LET c == Concl(th1.prop)
        q == Prems(th2.prop)[i]
    IN /\ SameMeaning({th1.prop, q})
       /\ SameMeaning({c, q})
       /\ \A env \in ResolutionEnvs(c, q) : Norm(env, c) = Norm(env, q)
       /\ \A env \in ResolutionEnvs(c, q) \union {EmptyEnv} : FaithfulNorm(env, {th1, th2})

FaithfulSubst(theq, state) ==
  /\ FaithfulEquation(theq)
  /\ FaithfulUnion(state, theq)
  /\ \A i \in 1..Len(Prems(state.prop)) : SameMeaning({Lhs(theq.prop), Prems(state.prop)[i]})

FaithfulEqualityStep ==
  \/ \E th \in thms : FaithfulEquation(th) /\ symmetric(th)
  \/ \E th1, th2 \in thms :
       /\ FaithfulEquation(th1) /\ FaithfulEquation(th2) /\ FaithfulUnion(th1, th2)
       /\ SameMeaning({Rhs(th1.prop), Lhs(th2.prop)})
       /\ transitive(th1, th2)
  \/ \E th1, th2 \in thms :
       /\ FaithfulEquation(th1) /\ FaithfulEquation(th2) /\ FaithfulUnion(th1, th2)
       /\ combination(th1, th2)
  \/ \E th \in thms, x \in FreeName : FaithfulEquation(th) /\ abstraction(x, th)

FaithfulLogicStep ==
  \/ \E th \in thms, ct \in Prop : SameMeaning(th.hyps \union {ct}) /\ implies_intr(ct, th)
  \/ \E th1, th2 \in thms :
       /\ FaithfulUnion(th1, th2)
       /\ SameMeaning({Antecedent(th1.prop), th2.prop})
       /\ implies_elim(th1, th2)
  \/ \E th \in thms, x \in FreeName : FaithfulBinder(x, th.prop) /\ forall_intr(x, th)
  \/ \E th \in thms, ct \in Prop : FaithfulInstance(ct, th.prop) /\ forall_elim(ct, th)

FaithfulResolutionStep ==
  \/ \E th \in thms, env \in Env : FaithfulNorm(env, {th}) /\ instantiate(env, th)
  \/ \E th1, th2 \in thms : FaithfulResolution(th1, th2) /\ bicompose(th1, th2)
  \/ \E th1, th2 \in thms : FaithfulSubst(th1, th2) /\ subst_premise(th1, th2)

\* The steps of CoreNext in which the terms mean what the rule takes them to.
FaithfulNext ==
  \/ AxiomStep
  \/ FaithfulEqualityStep
  \/ FaithfulLogicStep
  \/ FaithfulResolutionStep
  \/ SortStep

FaithfulSpec == Init /\ [][FaithfulNext]_vars

\* The maxidx of the environment bounds the indices of what it binds to, too.
Covers(env) == \A p \in Prop : MaxIdx(Norm(env, p)) <= Larger(MaxIdx(p), EnvMaxIdx(env))

\* What is discharged, which alpha_eq only compares with a hypothesis, has no
\* index beyond those of the theorem.
CoveredLogicStep ==
  \/ \E th \in thms, ct \in Prop : MaxIdx(ct) <= th.maxidx /\ implies_intr(ct, th)
  \/ \E th1, th2 \in thms : implies_elim(th1, th2)
  \/ \E th \in thms, x \in FreeName : forall_intr(x, th)
  \/ \E th \in thms, ct \in Prop : forall_elim(ct, th)

CoveredResolutionStep ==
  \/ \E th \in thms, env \in Env : Covers(env) /\ instantiate(env, th)
  \/ \E th1, th2 \in thms : bicompose(th1, th2)
  \/ \E th1, th2 \in thms : subst_premise(th1, th2)

\* The steps of CoreNext but for the two that lose track of an index.
CoveredNext ==
  AxiomStep \/ EqualityStep \/ CoveredLogicStep \/ CoveredResolutionStep \/ SortStep

CoveredSpec == Init /\ [][CoveredNext]_vars
===============================================================================
