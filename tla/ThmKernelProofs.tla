---------------------------- MODULE ThmKernelProofs ----------------------------
(***************************************************************************)
(* Three inductions over derivations of any length, by clients that call   *)
(* the rules in any order, for every term language:                        *)
(*                                                                         *)
(*   - with the rules of CoreNext every theorem is a well-formed value     *)
(*     that knows its oracles and its sort hypotheses;                     *)
(*   - with those of FaithfulNext it follows from its hypotheses;          *)
(*   - with those of CoveredNext its maxidx bounds its indices.            *)
(*                                                                         *)
(* The second and third need the first: the oracles of a result are those  *)
(* of its premises, and its parts are propositions.  What FaithfulNext and *)
(* CoveredNext leave out of CoreNext are the steps in which the kernel     *)
(* trusts a term function that is wrong about the terms at hand.           *)
(***************************************************************************)
EXTENDS ThmSemantics, SequenceTheorems, TLAPS

\* A theorem record over the propositions that knows what it rests on.
WellMade(th) == th \in Thm /\ ThmFootprint(th)

AllWellMade == \A th \in thms : WellMade(th)

-----------------------------------------------------------------------------
(* Keep and instances. *)

\* The client's values after a rule are among those before it and the result.
LEMMA KeepAdds ==
  ASSUME NEW th, Keep(th)
  PROVE  thms' \subseteq thms \union {th}
BY DEF Keep

\* The result of a rule whose result is kept is a proposition.
LEMMA KeepProp ==
  ASSUME NEW th, Keep(th)
  PROVE  th.prop \in Prop /\ th.hyps \subseteq Prop
BY DEF Keep

\* The larger of two naturals is a natural that bounds both.
LEMMA LargerBounds ==
  ASSUME NEW m \in Nat, NEW n \in Nat
  PROVE  Larger(m, n) \in Nat /\ m <= Larger(m, n) /\ n <= Larger(m, n)
BY DEF Larger

\* What is known of a theorem value the client holds.
LEMMA WellMadeParts ==
  ASSUME NEW th, WellMade(th)
  PROVE  /\ th.hyps \in SUBSET Prop
         /\ th.prop \in Prop /\ th.prop \in Term
         /\ th.maxidx \in Nat
         /\ MaxIdx(th.prop) \in Nat
         /\ \A h \in th.hyps : MaxIdx(h) \in Nat
<1>1. th.hyps \in SUBSET Prop /\ th.prop \in Prop /\ th.maxidx \in Nat
  BY DEF WellMade, Thm
<1> QED BY <1>1, SyntaxAssumption, MaxIdxAssumption

-----------------------------------------------------------------------------
(* Every theorem is well made. *)

\* A rule that keeps a well-made theorem leaves only well-made theorems.
LEMMA KeepWellMade ==
  ASSUME AllWellMade, NEW th, Keep(th), WellMade(th)
  PROVE  AllWellMade'
<1> \A t \in thms' : WellMade(t)
  BY KeepAdds DEF AllWellMade
<1> QED BY DEF AllWellMade, WellMade, ThmFootprint, Thm

\* Rules without premises.
LEMMA PrimitiveWellMade ==
  ASSUME AllWellMade, NEW H, NEW p, NEW m \in Nat, Keep(Primitive(H, p, m))
  PROVE  AllWellMade'
<1>1. p \in Prop /\ H \in SUBSET Prop BY KeepProp DEF Primitive
<1>2. WellMade(Primitive(H, p, m)) BY <1>1 DEF WellMade, Primitive, Thm, ThmFootprint
<1> QED BY <1>2, KeepWellMade

\* Rules with one premise: footprint and history are passed on.
LEMMA DerivedWellMade ==
  ASSUME NEW th, WellMade(th), NEW H \in SUBSET Prop, NEW p \in Prop, NEW m \in Nat
  PROVE  WellMade(Derived(th, H, p, m))
<1>1. th \in Thm BY DEF WellMade
<1>2. Derived(th, H, p, m) \in Thm BY <1>1 DEF Derived, Thm
<1>3. ThmFootprint(Derived(th, H, p, m)) BY DEF Derived, WellMade, ThmFootprint
<1> QED BY <1>2, <1>3 DEF WellMade

LEMMA KeepDerived ==
  ASSUME AllWellMade, NEW th \in thms, NEW H, NEW p, NEW m \in Nat, Keep(Derived(th, H, p, m))
  PROVE  AllWellMade'
<1>1. p \in Prop /\ H \in SUBSET Prop BY KeepProp DEF Derived
<1>2. WellMade(Derived(th, H, p, m)) BY <1>1, DerivedWellMade DEF AllWellMade
<1> QED BY <1>2, KeepWellMade

\* Rules with two premises: footprints and histories are united.
LEMMA CombinedWellMade ==
  ASSUME NEW th1, WellMade(th1), NEW th2, WellMade(th2), NEW p \in Prop
  PROVE  WellMade(Combined(th1, th2, p))
<1> DEFINE res == Combined(th1, th2, p)
<1>1. th1 \in Thm /\ th2 \in Thm BY DEF WellMade
<1>2. Larger(th1.maxidx, th2.maxidx) \in Nat BY <1>1, LargerBounds DEF Thm
<1>3. HypsUnion(th1.hyps, th2.hyps) \subseteq th1.hyps \union th2.hyps BY DEF HypsUnion
<1>4. res \in Thm BY <1>1, <1>2, <1>3 DEF Combined, Thm
<1>5. ThmFootprint(res) BY DEF Combined, WellMade, ThmFootprint
<1> QED BY <1>4, <1>5 DEF WellMade

LEMMA KeepCombined ==
  ASSUME AllWellMade, NEW th1, WellMade(th1), NEW th2, WellMade(th2), NEW p,
         Keep(Combined(th1, th2, p))
  PROVE  AllWellMade'
<1>1. p \in Prop BY KeepProp DEF Combined
<1> QED BY <1>1, CombinedWellMade, KeepWellMade

\* The instances of a theorem are well made, and rest on what it rests on.
LEMMA InstanceParts ==
  ASSUME NEW th, WellMade(th), NEW env \in Env, NEW m \in Nat,
         NEW inst \in Instances(env, m, th)
  PROVE  /\ WellMade(inst)
         /\ inst.prop = Norm(env, th.prop)
         /\ inst.maxidx = Larger(th.maxidx, m)
         /\ inst.oracles = th.oracles /\ inst.used = th.used
         /\ inst.hyps \subseteq {Norm(env, h) : h \in th.hyps}
         /\ \A h \in th.hyps : HypsContain(inst.hyps, Norm(env, h))
<1> DEFINE S == {Norm(env, h) : h \in th.hyps}
           n == Larger(th.maxidx, m)
<1>1. PICK H \in Deduplicated(S) : inst = Derived(th, H, Norm(env, th.prop), n)
  BY DEF Instances
<1>2. th.prop \in Prop /\ th.hyps \in SUBSET Prop /\ th.maxidx \in Nat BY WellMadeParts
<1>3. n \in Nat BY <1>2, LargerBounds
<1>4. S \subseteq Prop /\ Norm(env, th.prop) \in Prop BY <1>2, SyntaxAssumption
<1>5. H \subseteq S /\ \A s \in S : HypsContain(H, s) BY DEF Deduplicated
<1>6. WellMade(inst)
  <2> HIDE DEF n, S
  <2>1. H \in SUBSET Prop BY <1>4, <1>5
  <2> QED BY <1>1, <1>3, <1>4, <2>1, DerivedWellMade
<1>7. inst.hyps = H BY <1>1 DEF Derived
<1> QED BY <1>1, <1>5, <1>6, <1>7 DEF Derived

\* admit: the new theorem names its own admission.
LEMMA AdmitWellMade ==
  ASSUME AllWellMade, NEW ct \in Admissible, NEW name \in Oracle, admit(ct, name)
  PROVE  AllWellMade'
<1> DEFINE res == [hyps |-> {}, prop |-> ct, maxidx |-> MaxIdx(ct), shyps |-> {},
                   oracles |-> {name}, used |-> {<<name, ct>>}, sorts |-> {}]
<1>1. ct \in Prop /\ MaxIdx(ct) \in Nat BY SyntaxAssumption, MaxIdxAssumption
<1>2. res \in Thm BY <1>1 DEF Thm
<1>3. ThmFootprint(res)
  <2>1. <<name, ct>>[1] = name OBVIOUS
  <2>2. {u[1] : u \in {<<name, ct>>}} = {name} BY <2>1
  <2> QED BY <2>2 DEF ThmFootprint
<1>4. WellMade(res) BY <1>2, <1>3 DEF WellMade
<1>5. Keep(res) BY DEF admit
<1> HIDE DEF res
<1> QED BY <1>4, <1>5, KeepWellMade

LEMMA AxiomWellMade == ASSUME AllWellMade, AxiomStep PROVE AllWellMade'
<1>1. \A ct \in Term : MaxIdx(ct) \in Nat BY MaxIdxAssumption
<1>2. Prop \subseteq Term BY SyntaxAssumption
<1>3. ASSUME NEW ct \in Prop, assume(ct) PROVE AllWellMade'
  BY <1>1, <1>2, <1>3, PrimitiveWellMade DEF assume
<1>4. ASSUME NEW ct \in Prop, trivial(ct) PROVE AllWellMade'
  BY <1>1, <1>2, <1>4, PrimitiveWellMade DEF trivial
<1>5. ASSUME NEW ct \in Term, reflexive(ct) PROVE AllWellMade'
  BY <1>1, <1>5, PrimitiveWellMade DEF reflexive
<1> QED BY <1>3, <1>4, <1>5, AdmitWellMade DEF AxiomStep

LEMMA EqualityWellMade == ASSUME AllWellMade, EqualityStep PROVE AllWellMade'
<1>1. \A th \in thms : WellMade(th) /\ th.maxidx \in Nat BY WellMadeParts DEF AllWellMade
<1>2. ASSUME NEW th \in thms, symmetric(th) PROVE AllWellMade'
  BY <1>1, <1>2, KeepDerived DEF symmetric
<1>3. ASSUME NEW th1 \in thms, NEW th2 \in thms, transitive(th1, th2) PROVE AllWellMade'
  BY <1>1, <1>3, KeepCombined DEF transitive
<1>4. ASSUME NEW th1 \in thms, NEW th2 \in thms, combination(th1, th2) PROVE AllWellMade'
  BY <1>1, <1>4, KeepCombined DEF combination
<1>5. ASSUME NEW th \in thms, NEW x \in FreeName, abstraction(x, th) PROVE AllWellMade'
  BY <1>1, <1>5, KeepDerived DEF abstraction
<1> QED BY <1>2, <1>3, <1>4, <1>5 DEF EqualityStep

LEMMA LogicWellMade == ASSUME AllWellMade, LogicStep PROVE AllWellMade'
<1>1. \A th \in thms : WellMade(th) /\ th.maxidx \in Nat BY WellMadeParts DEF AllWellMade
<1>2. \A ct \in Prop : MaxIdx(ct) \in Nat BY SyntaxAssumption, MaxIdxAssumption
<1>3. ASSUME NEW th \in thms, NEW ct \in Prop, implies_intr(ct, th) PROVE AllWellMade'
  BY <1>1, <1>3, KeepDerived DEF implies_intr
<1>4. ASSUME NEW th1 \in thms, NEW th2 \in thms, implies_elim(th1, th2) PROVE AllWellMade'
  BY <1>1, <1>4, KeepCombined DEF implies_elim
<1>5. ASSUME NEW th \in thms, NEW x \in FreeName, forall_intr(x, th) PROVE AllWellMade'
  BY <1>1, <1>5, KeepDerived DEF forall_intr
<1>6. ASSUME NEW th \in thms, NEW ct \in Prop, forall_elim(ct, th) PROVE AllWellMade'
  <2>1. Larger(th.maxidx, MaxIdx(ct)) \in Nat BY <1>1, <1>2, LargerBounds
  <2> QED BY <1>6, <2>1, KeepDerived DEF forall_elim
<1> QED BY <1>3, <1>4, <1>5, <1>6 DEF LogicStep

\* The composition of two instances.
LEMMA ComposedWellMade ==
  ASSUME AllWellMade, NEW th1 \in thms, NEW th2 \in thms, NEW env \in Env, NEW m \in Nat,
         NEW i1 \in Instances(env, m, th1), NEW i2 \in Instances(env, m, th2),
         NEW ps, NEW i, KeepComposed(i1, i2, ps, i)
  PROVE  AllWellMade'
<1>1. WellMade(i1) /\ WellMade(i2) BY InstanceParts DEF AllWellMade
<1> QED BY <1>1, KeepCombined DEF KeepComposed, Composed

\* The four ways to resolve are three: exactly, by the conclusion as it is, or by
\* an environment that unify.rs finds.
LEMMA BicomposeCases ==
  ASSUME NEW th1, NEW th2, bicompose(th1, th2)
  PROVE  \E i \in 1..Len(Prems(th2.prop)) :
           \/ bicompose_exact(th1, th2, i)
           \/ AlphaEq(Concl(th1.prop), Prems(th2.prop)[i]) /\ Resolve(EmptyEnv, 0, th1, th2, i)
           \/ \E env \in ResolutionEnvs(Concl(th1.prop), Prems(th2.prop)[i]) :
                Resolve(env, Larger(th1.maxidx, th2.maxidx), th1, th2, i)
BY DEF bicompose, bicompose_match, bicompose_concl, bicompose_unify, ResolutionEnvs

LEMMA BicomposeWellMade ==
  ASSUME AllWellMade, NEW th1 \in thms, NEW th2 \in thms, bicompose(th1, th2)
  PROVE  AllWellMade'
<1>1. EmptyEnv \in Env BY EnvMaxIdxAssumption
<1>2. Larger(th1.maxidx, th2.maxidx) \in Nat
  BY WellMadeParts, LargerBounds DEF AllWellMade
<1>3. ASSUME NEW env \in Env, NEW m \in Nat, NEW i, Resolve(env, m, th1, th2, i)
      PROVE  AllWellMade'
  BY <1>3, ComposedWellMade DEF Resolve
<1>4. ASSUME NEW i, bicompose_exact(th1, th2, i) PROVE AllWellMade'
  BY <1>1, <1>4, ComposedWellMade DEF bicompose_exact
<1> QED BY <1>1, <1>2, <1>3, <1>4, BicomposeCases DEF ResolutionEnvs

LEMMA ResolutionWellMade == ASSUME AllWellMade, ResolutionStep PROVE AllWellMade'
<1>1. ASSUME NEW th \in thms, NEW env \in Env, instantiate(env, th) PROVE AllWellMade'
  <2>1. PICK inst \in Instances(env, EnvMaxIdx(env), th) : Keep(inst) BY <1>1 DEF instantiate
  <2>2. EnvMaxIdx(env) \in Nat BY EnvMaxIdxAssumption
  <2>3. WellMade(inst) BY <2>2, InstanceParts DEF AllWellMade
  <2> QED BY <2>1, <2>3, KeepWellMade
<1>2. ASSUME NEW th1 \in thms, NEW th2 \in thms, subst_premise(th1, th2) PROVE AllWellMade'
  BY <1>2, KeepCombined DEF subst_premise, AllWellMade
<1> QED BY <1>1, <1>2, BicomposeWellMade DEF ResolutionStep

\* add_shyp records the constraint where the history records it; strip_shyps,
\* declared weakening, forgets the constraints on both sides.
LEMMA SortWellMade == ASSUME AllWellMade, SortStep PROVE AllWellMade'
<1>1. ASSUME NEW th \in thms, NEW s \in Sort, add_shyp(th, s) PROVE AllWellMade'
  <2> DEFINE res == [th EXCEPT !.shyps = @ \union {s}, !.sorts = @ \union {s}]
  <2>1. th \in Thm /\ ThmFootprint(th) /\ Keep(res)
    BY <1>1 DEF AllWellMade, WellMade, add_shyp
  <2>2. res \in Thm /\ ThmFootprint(res) BY <2>1 DEF Thm, ThmFootprint
  <2> HIDE DEF res
  <2> QED BY <2>1, <2>2, KeepWellMade DEF WellMade
<1>2. ASSUME NEW th \in thms, strip_shyps(th) PROVE AllWellMade'
  <2> DEFINE res == [th EXCEPT !.shyps = {}, !.sorts = {}]
  <2>1. th \in Thm /\ ThmFootprint(th) /\ Keep(res)
    BY <1>2 DEF AllWellMade, WellMade, strip_shyps
  <2>2. res \in Thm /\ ThmFootprint(res) BY <2>1 DEF Thm, ThmFootprint
  <2> HIDE DEF res
  <2> QED BY <2>1, <2>2, KeepWellMade DEF WellMade
<1> QED BY <1>1, <1>2 DEF SortStep

LEMMA NextWellMade == AllWellMade /\ [CoreNext]_vars => AllWellMade'
<1>1. CASE UNCHANGED vars BY <1>1 DEF vars, AllWellMade, WellMade, ThmFootprint, Thm
<1> QED
  BY <1>1, AxiomWellMade, EqualityWellMade, LogicWellMade, ResolutionWellMade, SortWellMade
  DEF CoreNext

-----------------------------------------------------------------------------
(* Lists of premises. *)

\* The elements of a concatenation, by their place in its two parts.
LEMMA ConcatElements ==
  ASSUME NEW S, NEW s \in Seq(S), NEW t \in Seq(S)
  PROVE  /\ s \o t \in Seq(S) /\ Len(s \o t) = Len(s) + Len(t)
         /\ \A j \in 1..Len(s) : (s \o t)[j] = s[j]
         /\ \A j \in 1..Len(t) : (s \o t)[Len(s) + j] = t[j]
<1>1. Len(s) \in Nat /\ Len(t) \in Nat OBVIOUS
<1>2. s \o t \in Seq(S) /\ Len(s \o t) = Len(s) + Len(t) BY ConcatProperties
<1>3. \A j \in 1..(Len(s) + Len(t)) :
        (s \o t)[j] = IF j <= Len(s) THEN s[j] ELSE t[j - Len(s)]
  BY ConcatProperties
<1>4. \A j \in 1..Len(s) : (s \o t)[j] = s[j] BY <1>1, <1>3
<1>5. ASSUME NEW j \in 1..Len(t) PROVE (s \o t)[Len(s) + j] = t[j]
  <2>1. Len(s) + j \in 1..(Len(s) + Len(t)) /\ ~(Len(s) + j <= Len(s))
        /\ (Len(s) + j) - Len(s) = j
    BY <1>1
  <2> QED BY <2>1, <1>3
<1> QED BY <1>2, <1>4, <1>5

\* Every element of the spliced list is one of ps or one of the other
\* elements of qs, and each of these is in it.
LEMMA SpliceElements ==
  ASSUME NEW S, NEW ps \in Seq(S), NEW qs \in Seq(S), NEW i \in 1..Len(qs)
  PROVE  /\ Splice(ps, qs, i) \in Seq(S)
         /\ \A k \in 1..Len(Splice(ps, qs, i)) :
              \/ \E j \in 1..Len(ps) : Splice(ps, qs, i)[k] = ps[j]
              \/ \E j \in 1..Len(qs) : Splice(ps, qs, i)[k] = qs[j]
         /\ \A j \in 1..Len(ps) : \E k \in 1..Len(Splice(ps, qs, i)) : Splice(ps, qs, i)[k] = ps[j]
         /\ \A j \in 1..Len(qs) : j # i => \E k \in 1..Len(Splice(ps, qs, i)) : Splice(ps, qs, i)[k] = qs[j]
<1> DEFINE before == SubSeq(qs, 1, i - 1)
           after == SubSeq(qs, i + 1, Len(qs))
           s == Splice(ps, qs, i)
<1>1. Len(qs) \in Nat /\ Len(ps) \in Nat /\ i \in Nat /\ 1 <= i /\ i <= Len(qs) OBVIOUS
<1>2. before \in Seq(S) /\ Len(before) = i - 1 /\ \A j \in 1..(i - 1) : before[j] = qs[j]
  BY <1>1, SubSeqProperties
<1>3. after \in Seq(S) /\ Len(after) = Len(qs) - i
      /\ \A j \in 1..(Len(qs) - i) : after[j] = qs[i + j]
  BY <1>1, SubSeqProperties
<1> HIDE DEF before, after
<1> DEFINE bp == before \o ps
<1>4. /\ bp \in Seq(S) /\ Len(bp) = Len(before) + Len(ps)
      /\ (\A j \in 1..Len(before) : bp[j] = before[j])
      /\ (\A j \in 1..Len(ps) : bp[Len(before) + j] = ps[j])
  <2>1. /\ bp \in Seq(S) /\ Len(bp) = Len(before) + Len(ps)
        /\ (\A j \in 1..Len(before) : bp[j] = before[j])
    BY <1>2, ConcatElements, Zenon
  <2>2. \A j \in 1..Len(ps) : bp[Len(before) + j] = ps[j] BY <1>2, ConcatElements, SMT
  <2> QED BY <2>1, <2>2
<1>5. s = bp \o after BY DEF Splice, before, after
<1> HIDE DEF bp
<1>6. /\ s \in Seq(S) /\ Len(s) = Len(bp) + Len(after)
      /\ (\A j \in 1..Len(bp) : s[j] = bp[j])
      /\ (\A j \in 1..Len(after) : s[Len(bp) + j] = after[j])
  <2> HIDE DEF s
  <2>1. bp \in Seq(S) /\ after \in Seq(S) BY <1>3, <1>4
  <2>2. /\ bp \o after \in Seq(S) /\ Len(bp \o after) = Len(bp) + Len(after)
        /\ (\A j \in 1..Len(bp) : (bp \o after)[j] = bp[j])
    BY <2>1, ConcatElements, Zenon
  <2>3. \A j \in 1..Len(after) : (bp \o after)[Len(bp) + j] = after[j]
    BY <2>1, ConcatElements, SMT
  <2> QED BY <1>5, <2>2, <2>3, Zenon
<1> HIDE DEF s
<1>7. /\ bp \in Seq(S) /\ Len(bp) = i - 1 + Len(ps)
      /\ (\A j \in 1..(i - 1) : bp[j] = qs[j])
      /\ (\A j \in 1..Len(ps) : bp[i - 1 + j] = ps[j])
  BY <1>2, <1>4
<1>8. ASSUME NEW k \in 1..Len(s)
      PROVE  \/ \E j \in 1..Len(ps) : s[k] = ps[j]
             \/ \E j \in 1..Len(qs) : s[k] = qs[j]
  <2>1. CASE k \in 1..(i - 1)
    <3>1. k \in 1..Len(bp) /\ k \in 1..Len(qs) BY <1>1, <1>7, <2>1
    <3> QED BY <3>1, <2>1, <1>6, <1>7
  <2>2. CASE k \in i..Len(bp)
    <3>1. k - (i - 1) \in 1..Len(ps) /\ k = i - 1 + (k - (i - 1)) BY <1>1, <1>7, <2>2
    <3>2. k \in 1..Len(bp) BY <1>1, <1>7, <2>2
    <3>3. s[k] = ps[k - (i - 1)] BY <3>1, <3>2, <1>6, <1>7
    <3> QED BY <3>1, <3>3
  <2>3. CASE k \in (Len(bp) + 1)..Len(s)
    <3>1. k - Len(bp) \in 1..Len(after) /\ k = Len(bp) + (k - Len(bp))
      BY <1>1, <1>3, <1>6, <1>7, <2>3
    <3>2. s[k] = after[k - Len(bp)] BY <3>1, <1>6
    <3>3. after[k - Len(bp)] = qs[i + (k - Len(bp))] BY <3>1, <1>3
    <3>4. i + (k - Len(bp)) \in 1..Len(qs) BY <3>1, <1>1, <1>3, <1>7
    <3> QED BY <3>2, <3>3, <3>4
  <2> QED BY <1>1, <1>3, <1>6, <1>7, <2>1, <2>2, <2>3
<1>9. ASSUME NEW j \in 1..Len(ps) PROVE \E k \in 1..Len(s) : s[k] = ps[j]
  <2>1. i - 1 + j \in 1..Len(bp) /\ i - 1 + j \in 1..Len(s) BY <1>1, <1>3, <1>6, <1>7
  <2>2. s[i - 1 + j] = ps[j] BY <2>1, <1>6, <1>7
  <2> QED BY <2>1, <2>2
<1>10. ASSUME NEW j \in 1..Len(qs), j # i PROVE \E k \in 1..Len(s) : s[k] = qs[j]
  <2>1. CASE j < i
    <3>1. j \in 1..(i - 1) /\ j \in 1..Len(bp) /\ j \in 1..Len(s)
      BY <1>1, <1>3, <1>6, <1>7, <2>1
    <3> QED BY <3>1, <1>6, <1>7
  <2>2. CASE j > i
    <3>1. j - i \in 1..Len(after) /\ j = i + (j - i) BY <1>1, <1>3, <2>2
    <3>2. Len(bp) + (j - i) \in 1..Len(s) BY <3>1, <1>1, <1>6, <1>7, SMTT(30)
    <3>3. s[Len(bp) + (j - i)] = qs[j] BY <3>1, <1>3, <1>6
    <3> QED BY <3>2, <3>3
  <2> QED BY <1>1, <1>10, <2>1, <2>2
<1> QED BY <1>6, <1>8, <1>9, <1>10 DEF s

\* The premises of a proposition, as a list of propositions.
LEMMA PremsParts ==
  ASSUME NEW p \in Prop
  PROVE  Prems(p) \in PremList /\ Prems(p) \in Seq(Prop) /\ Prems(p) \in Seq(Term)
<1>1. Prems(p) \in PremList /\ Prems(p) \in Seq(Prop) BY SyntaxAssumption
<1>2. Len(Prems(p)) \in Nat /\ DOMAIN Prems(p) = 1..Len(Prems(p)) BY <1>1
<1>3. \A k \in 1..Len(Prems(p)) : Prems(p)[k] \in Term BY <1>1, SyntaxAssumption
<1>4. Prems(p) = [k \in 1..Len(Prems(p)) |-> Prems(p)[k]] BY <1>1, <1>2
<1>5. Prems(p) \in [1..Len(Prems(p)) -> Term] BY <1>3, <1>4
<1>6. Prems(p) \in Seq(Term) BY <1>2, <1>5, SeqDef
<1> QED BY <1>1, <1>6

\* A premise may be replaced by premises that it follows from.
LEMMA ReplacePremise ==
  ASSUME NEW p \in Prop, NEW i \in 1..Len(Prems(p)), NEW ps \in Seq(Term),
         Splice(ps, Prems(p), i) \in PremList,
         NEW v \in Val, Holds(v, p),
         AllHold(v, ps) => Holds(v, Prems(p)[i])
  PROVE  Holds(v, Chain(Splice(ps, Prems(p), i), Concl(p)))
<1> DEFINE s == Splice(ps, Prems(p), i)
           qs == Prems(p)
<1>1. qs \in Seq(Term) BY PremsParts
<1>2. SUFFICES ASSUME AllHold(v, s) PROVE Holds(v, Concl(p))
  BY SyntaxAssumption, ChainAssumption
<1>3. /\ \A j \in 1..Len(ps) : \E k \in 1..Len(s) : s[k] = ps[j]
      /\ \A j \in 1..Len(qs) : j # i => \E k \in 1..Len(s) : s[k] = qs[j]
  BY <1>1, SpliceElements
<1> HIDE DEF s
<1>4. AllHold(v, ps) BY <1>2, <1>3 DEF AllHold
<1>5. AllHold(v, qs) BY <1>2, <1>3, <1>4 DEF AllHold
<1> QED BY <1>5, ChainAssumption

\* ... and the result brings in no schematic index beyond theirs.
LEMMA ReplaceAtMost ==
  ASSUME NEW p \in Prop, NEW i \in 1..Len(Prems(p)), NEW ps \in Seq(Term),
         Splice(ps, Prems(p), i) \in PremList,
         NEW n \in Nat, MaxIdxAtMost(p, n), ListAtMost(ps, n),
         Chain(Splice(ps, Prems(p), i), Concl(p)) \in Prop
  PROVE  MaxIdxAtMost(Chain(Splice(ps, Prems(p), i), Concl(p)), n)
<1> DEFINE s == Splice(ps, Prems(p), i)
           qs == Prems(p)
           c == Chain(s, Concl(p))
<1>1. qs \in Seq(Term) BY PremsParts
<1>2. \A k \in 1..Len(s) :
        \/ \E j \in 1..Len(ps) : s[k] = ps[j]
        \/ \E j \in 1..Len(qs) : s[k] = qs[j]
  BY <1>1, SpliceElements
<1>3. MaxIdx(p) \in Nat /\ MaxIdx(p) <= n BY SyntaxAssumption, MaxIdxAssumption DEF MaxIdxAtMost
<1>4. MaxIdx(c) \in Nat BY SyntaxAssumption, MaxIdxAssumption
<1>5. Concl(p) \in Prop /\ s \in PremList BY SyntaxAssumption
<1>6. \/ MaxIdx(c) <= MaxIdx(Concl(p))
      \/ \E k \in 1..Len(s) : MaxIdx(c) <= MaxIdx(s[k])
  BY <1>5, MaxIdxAssumption
<1>7. ASSUME MaxIdx(c) <= MaxIdx(Concl(p)) PROVE MaxIdxAtMost(c, n)
  <2>1. MaxIdx(Concl(p)) \in Nat /\ MaxIdx(Concl(p)) <= MaxIdx(p)
    BY <1>5, SyntaxAssumption, MaxIdxAssumption
  <2> HIDE DEF c, s
  <2> QED BY <1>3, <1>4, <1>7, <2>1 DEF MaxIdxAtMost
<1>8. ASSUME NEW k \in 1..Len(s), MaxIdx(c) <= MaxIdx(s[k]) PROVE MaxIdxAtMost(c, n)
  <2> HIDE DEF s, c, qs
  <2>1. ASSUME NEW j \in 1..Len(ps), s[k] = ps[j] PROVE MaxIdxAtMost(c, n)
    <3>1. ps[j] \in Term BY <2>1
    <3>2. MaxIdx(ps[j]) \in Nat /\ MaxIdx(ps[j]) <= n
      BY <2>1, <3>1, MaxIdxAssumption DEF ListAtMost, MaxIdxAtMost
    <3> QED BY <1>4, <1>8, <2>1, <3>2 DEF MaxIdxAtMost
  <2>2. ASSUME NEW j \in 1..Len(qs), s[k] = qs[j] PROVE MaxIdxAtMost(c, n)
    <3>1. qs[j] \in Term BY <1>1, <2>2
    <3>2. MaxIdx(qs[j]) \in Nat BY <3>1, MaxIdxAssumption
    <3>3. MaxIdx(qs[j]) <= MaxIdx(p) BY <2>2, MaxIdxAssumption DEF ListAtMost, MaxIdxAtMost, qs
    <3> QED BY <1>3, <1>4, <1>8, <2>2, <3>2, <3>3 DEF MaxIdxAtMost
  <2> QED BY <1>2, <2>1, <2>2
<1> QED BY <1>6, <1>7, <1>8

-----------------------------------------------------------------------------
(* Every theorem follows from its hypotheses. *)

\* A rule that keeps a sound theorem leaves only sound theorems.
LEMMA KeepSound ==
  ASSUME Sound, NEW th, Keep(th), ThmSound(th)
  PROVE  Sound'
<1> \A t \in thms' : ThmSound(t)
  BY KeepAdds DEF Sound
<1> QED BY DEF Sound, ThmSound, Entailed

\* Rules with one premise rest on what their premise rests on.
LEMMA DerivedSound ==
  ASSUME NEW th, ThmSound(th), NEW H, NEW p, NEW m,
         Entailed(th) => Entailed(Derived(th, H, p, m))
  PROVE  ThmSound(Derived(th, H, p, m))
BY DEF ThmSound, Derived

LEMMA KeepDerivedSound ==
  ASSUME Sound, NEW th \in thms, NEW H, NEW p, NEW m, Keep(Derived(th, H, p, m)),
         Entailed(th) => Entailed(Derived(th, H, p, m))
  PROVE  Sound'
<1>1. ThmSound(Derived(th, H, p, m)) BY DerivedSound DEF Sound
<1> QED BY <1>1, KeepSound

\* An interpretation that satisfies a union satisfies both of its parts, when the
\* hypotheses that were dropped mean what those kept for them mean.
LEMMA HypsUnionHolds ==
  ASSUME NEW G, NEW H, SameMeaning(G \union H), NEW v \in Val,
         \A h \in HypsUnion(G, H) : Holds(v, h)
  PROVE  /\ \A h \in G : Holds(v, h)
         /\ \A h \in H : Holds(v, h)
<1>1. \A h \in G : Holds(v, h) BY DEF HypsUnion
<1>2. ASSUME NEW h \in H PROVE Holds(v, h)
  <2>1. CASE HypsContain(G, h)
    <3>1. PICK g \in G : AlphaEq(g, h) BY <2>1 DEF HypsContain
    <3> QED BY <3>1, <1>1 DEF SameMeaning, Holds
  <2>2. CASE ~HypsContain(G, h) BY <2>2 DEF HypsUnion
  <2> QED BY <2>1, <2>2
<1> QED BY <1>1, <1>2

\* Rules with two premises rest on what both rest on.
LEMMA CombinedSound ==
  ASSUME NEW th1, WellMade(th1), ThmSound(th1), NEW th2, WellMade(th2), ThmSound(th2),
         FaithfulUnion(th1, th2), NEW p \in Prop,
         \A v \in Val : Holds(v, th1.prop) /\ Holds(v, th2.prop) => Holds(v, p)
  PROVE  ThmSound(Combined(th1, th2, p))
<1> DEFINE res == Combined(th1, th2, p)
<1> SUFFICES ASSUME \A u \in res.used : u[1] \in res.oracles => Valid(u[2])
             PROVE  Entailed(res)
  BY DEF ThmSound
<1>1. \A u \in th1.used \union th2.used : Valid(u[2])
  BY CombinedWellMade DEF Combined, WellMade, ThmFootprint
<1>2. Entailed(th1) /\ Entailed(th2) BY <1>1 DEF ThmSound
<1> SUFFICES ASSUME NEW v \in Val, \A h \in HypsUnion(th1.hyps, th2.hyps) : Holds(v, h)
             PROVE  Holds(v, p)
  BY DEF Entailed, Combined
<1>3. (\A h \in th1.hyps : Holds(v, h)) /\ (\A h \in th2.hyps : Holds(v, h))
  BY HypsUnionHolds DEF FaithfulUnion
<1> QED BY <1>2, <1>3 DEF Entailed

LEMMA KeepCombinedSound ==
  ASSUME AllWellMade, Sound, NEW th1 \in thms, NEW th2 \in thms, FaithfulUnion(th1, th2),
         NEW p, Keep(Combined(th1, th2, p)),
         p \in Prop => \A v \in Val : Holds(v, th1.prop) /\ Holds(v, th2.prop) => Holds(v, p)
  PROVE  Sound'
<1>1. p \in Prop BY KeepProp DEF Combined
<1>2. ThmSound(Combined(th1, th2, p)) BY <1>1, CombinedSound DEF AllWellMade, Sound
<1> QED BY <1>2, KeepSound

\* admit: the theorem follows from its own admission.
LEMMA AdmitSound ==
  ASSUME Sound, NEW ct \in Admissible, NEW name \in Oracle, admit(ct, name)
  PROVE  Sound'
<1> DEFINE res == [hyps |-> {}, prop |-> ct, maxidx |-> MaxIdx(ct), shyps |-> {},
                   oracles |-> {name}, used |-> {<<name, ct>>}, sorts |-> {}]
<1>1. res.used = {<<name, ct>>} /\ res.oracles = {name} /\ res.prop = ct OBVIOUS
<1>2. (\A u \in res.used : u[1] \in res.oracles => Valid(u[2])) => Valid(ct)
  <2>1. <<name, ct>>[1] = name /\ <<name, ct>>[2] = ct OBVIOUS
  <2>2. <<name, ct>> \in res.used /\ name \in res.oracles BY <1>1
  <2> HIDE DEF res
  <2> QED BY <2>1, <2>2
<1>3. Valid(ct) => Entailed(res) BY <1>1 DEF Valid, Entailed
<1>4. ThmSound(res) BY <1>2, <1>3 DEF ThmSound
<1>5. Keep(res) BY DEF admit
<1> HIDE DEF res
<1> QED BY <1>4, <1>5, KeepSound

\* assume, trivial and reflexive: what they conclude holds by the meaning of the
\* connectives.
LEMMA AxiomSound == ASSUME Sound, AxiomStep PROVE Sound'
<1>1. ASSUME NEW ct \in Prop, assume(ct) PROVE Sound'
  <2>1. ThmSound(Primitive({ct}, ct, MaxIdx(ct))) BY DEF ThmSound, Entailed, Primitive
  <2> QED BY <1>1, <2>1, KeepSound DEF assume
<1>2. ASSUME NEW ct \in Prop, trivial(ct) PROVE Sound'
  <2>1. ThmSound(Primitive({}, Implies(ct, ct), MaxIdx(ct)))
    BY ImpliesAssumption DEF ThmSound, Entailed, Primitive
  <2> QED BY <1>2, <2>1, KeepSound DEF trivial
<1>3. ASSUME NEW ct \in Term, reflexive(ct) PROVE Sound'
  <2> DEFINE res == Primitive({}, Equals(ct, ct), MaxIdx(ct))
  <2>1. Keep(res) BY <1>3 DEF reflexive
  <2>2. Equals(ct, ct) \in Prop BY <2>1, KeepProp DEF Primitive
  <2>3. ThmSound(res) BY <2>2, EqualsAssumption DEF ThmSound, Entailed, Primitive
  <2> QED BY <2>1, <2>3, KeepSound
<1> QED BY <1>1, <1>2, <1>3, AdmitSound DEF AxiomStep

\* symmetric: an equation holds the other way round.
LEMMA SymmetricSound ==
  ASSUME AllWellMade, Sound, NEW th \in thms, FaithfulEquation(th), symmetric(th)
  PROVE  Sound'
<1> DEFINE l == Lhs(th.prop)
           r == Rhs(th.prop)
<1>1. IsEquals(th.prop) /\ Keep(Derived(th, th.hyps, Equals(r, l), th.maxidx)) BY DEF symmetric
<1>2. Equals(r, l) \in Prop BY <1>1, KeepProp DEF Derived
<1>3. l \in Term /\ r \in Term BY <1>1, WellMadeParts, SyntaxAssumption DEF AllWellMade
<1>4. \A v \in Val : Holds(v, th.prop) => Holds(v, Equals(r, l))
  BY <1>2, <1>3, EqualsAssumption DEF FaithfulEquation
<1>5. Entailed(th) => Entailed(Derived(th, th.hyps, Equals(r, l), th.maxidx))
  BY <1>4 DEF Entailed, Derived
<1> QED BY <1>1, <1>5, KeepDerivedSound

\* transitive: the middle terms are variants, and denote the same.
LEMMA TransitiveSound ==
  ASSUME AllWellMade, Sound, NEW th1 \in thms, NEW th2 \in thms,
         FaithfulEquation(th1), FaithfulEquation(th2), FaithfulUnion(th1, th2),
         SameMeaning({Rhs(th1.prop), Lhs(th2.prop)}),
         transitive(th1, th2)
  PROVE  Sound'
<1> DEFINE p == Equals(Lhs(th1.prop), Rhs(th2.prop))
<1>1. /\ IsEquals(th1.prop) /\ IsEquals(th2.prop)
      /\ AlphaEq(Rhs(th1.prop), Lhs(th2.prop))
      /\ Keep(Combined(th1, th2, p))
  BY DEF transitive
<1>2. Lhs(th1.prop) \in Term /\ Rhs(th2.prop) \in Term
  BY <1>1, WellMadeParts, SyntaxAssumption DEF AllWellMade
<1>3. ASSUME p \in Prop, NEW v \in Val, Holds(v, th1.prop), Holds(v, th2.prop) PROVE Holds(v, p)
  <2>1. Den(v, Lhs(th1.prop)) = Den(v, Rhs(th1.prop)) BY <1>3 DEF FaithfulEquation
  <2>2. Den(v, Lhs(th2.prop)) = Den(v, Rhs(th2.prop)) BY <1>3 DEF FaithfulEquation
  <2>3. Den(v, Rhs(th1.prop)) = Den(v, Lhs(th2.prop)) BY <1>1 DEF SameMeaning
  <2> QED BY <2>1, <2>2, <2>3, <1>2, <1>3, EqualsAssumption
<1> QED BY <1>1, <1>3, KeepCombinedSound

\* combination: equal functions of equal arguments are equal.
LEMMA CombinationSound ==
  ASSUME AllWellMade, Sound, NEW th1 \in thms, NEW th2 \in thms,
         FaithfulEquation(th1), FaithfulEquation(th2), FaithfulUnion(th1, th2),
         combination(th1, th2)
  PROVE  Sound'
<1> DEFINE f == Lhs(th1.prop)
           g == Rhs(th1.prop)
           x == Lhs(th2.prop)
           y == Rhs(th2.prop)
           p == Equals(Apply(f, x), Apply(g, y))
<1>1. /\ IsEquals(th1.prop) /\ IsEquals(th2.prop)
      /\ Apply(f, x) \in Term /\ Apply(g, y) \in Term
      /\ Keep(Combined(th1, th2, p))
  BY DEF combination
<1>2. f \in Term /\ g \in Term /\ x \in Term /\ y \in Term
  BY <1>1, WellMadeParts, SyntaxAssumption DEF AllWellMade
<1>3. ASSUME p \in Prop, NEW v \in Val, Holds(v, th1.prop), Holds(v, th2.prop) PROVE Holds(v, p)
  <2>1. Den(v, f) = Den(v, g) /\ Den(v, x) = Den(v, y) BY <1>3 DEF FaithfulEquation
  <2>2. Den(v, Apply(f, x)) = Den(v, Apply(g, y)) BY <1>2, <1>3, <2>1, CongruenceAssumption
  <2> QED BY <1>1, <1>3, <2>2, EqualsAssumption
<1> QED BY <1>1, <1>3, KeepCombinedSound

\* abstraction: a vacuous binder round equal terms gives equal functions.
LEMMA AbstractionSound ==
  ASSUME AllWellMade, Sound, NEW th \in thms, NEW x \in FreeName,
         FaithfulEquation(th), abstraction(x, th)
  PROVE  Sound'
<1> DEFINE l == Lhs(th.prop)
           r == Rhs(th.prop)
           p == Equals(Lam(l), Lam(r))
<1>1. IsEquals(th.prop) /\ Keep(Derived(th, th.hyps, p, th.maxidx)) BY DEF abstraction
<1>2. p \in Prop BY <1>1, KeepProp DEF Derived
<1>3. l \in Term /\ r \in Term BY <1>1, WellMadeParts, SyntaxAssumption DEF AllWellMade
<1>4. Lam(l) \in Term /\ Lam(r) \in Term
  <2> HIDE DEF l, r
  <2> QED BY <1>2, <1>3, SyntaxAssumption
<1>5. ASSUME NEW v \in Val, Holds(v, th.prop) PROVE Holds(v, p)
  <2>1. Den(v, l) = Den(v, r) BY <1>5 DEF FaithfulEquation
  <2>2. Den(v, Lam(l)) = Den(v, Lam(r)) BY <1>2, <1>3, <2>1, CongruenceAssumption
  <2> QED BY <1>2, <1>4, <2>2, EqualsAssumption
<1>6. Entailed(th) => Entailed(Derived(th, th.hyps, p, th.maxidx))
  BY <1>5 DEF Entailed, Derived
<1> QED BY <1>1, <1>6, KeepDerivedSound

LEMMA EqualitySound == ASSUME AllWellMade, Sound, FaithfulEqualityStep PROVE Sound'
BY SymmetricSound, TransitiveSound, CombinationSound, AbstractionSound DEF FaithfulEqualityStep

\* implies_intr: a hypothesis may be discharged, with all its variants.
LEMMA ImpliesIntrSound ==
  ASSUME AllWellMade, Sound, NEW th \in thms, NEW asm \in Prop,
         SameMeaning(th.hyps \union {asm}), implies_intr(asm, th)
  PROVE  Sound'
<1> DEFINE H == HypsRemove(th.hyps, asm)
           p == Implies(asm, th.prop)
<1>1. Keep(Derived(th, H, p, th.maxidx)) BY DEF implies_intr
<1>2. th.prop \in Prop BY WellMadeParts DEF AllWellMade
<1>3. Entailed(th) => Entailed(Derived(th, H, p, th.maxidx))
  <2> SUFFICES ASSUME Entailed(th), NEW v \in Val, \A h \in H : Holds(v, h), Holds(v, asm)
               PROVE  Holds(v, th.prop)
    BY <1>2, ImpliesAssumption DEF Entailed, Derived
  <2>1. ASSUME NEW h \in th.hyps PROVE Holds(v, h)
    <3>1. CASE AlphaEq(h, asm) BY <3>1 DEF SameMeaning, Holds
    <3>2. CASE ~AlphaEq(h, asm) BY <3>2 DEF HypsRemove
    <3> QED BY <3>1, <3>2
  <2> QED BY <2>1 DEF Entailed
<1> QED BY <1>1, <1>3, KeepDerivedSound

\* implies_elim: modus ponens up to variants.
LEMMA ImpliesElimSound ==
  ASSUME AllWellMade, Sound, NEW th1 \in thms, NEW th2 \in thms, FaithfulUnion(th1, th2),
         SameMeaning({Antecedent(th1.prop), th2.prop}), implies_elim(th1, th2)
  PROVE  Sound'
<1> DEFINE p == Consequent(th1.prop)
<1>1. /\ IsImplies(th1.prop) /\ AlphaEq(Antecedent(th1.prop), th2.prop)
      /\ Keep(Combined(th1, th2, p))
  BY DEF implies_elim
<1>2. th1.prop \in Prop BY WellMadeParts DEF AllWellMade
<1>3. ASSUME NEW v \in Val, Holds(v, th1.prop), Holds(v, th2.prop) PROVE Holds(v, p)
  <2>1. Holds(v, Antecedent(th1.prop)) BY <1>1, <1>3 DEF SameMeaning, Holds
  <2> QED BY <1>1, <1>2, <1>3, <2>1, ImpliesAssumption
<1> QED BY <1>1, <1>3, KeepCombinedSound

\* forall_intr: a variable free in no hypothesis may be generalised, for the
\* hypotheses hold under every variant of the interpretation.
LEMMA ForallIntrSound ==
  ASSUME AllWellMade, Sound, NEW th \in thms, NEW x \in FreeName,
         FaithfulBinder(x, th.prop), forall_intr(x, th)
  PROVE  Sound'
<1> DEFINE p == ForAll(x, th.prop)
<1>1. (\A h \in th.hyps : ~FreeIn(x, h)) /\ Keep(Derived(th, th.hyps, p, th.maxidx))
  BY DEF forall_intr
<1>2. th.hyps \in SUBSET Prop BY WellMadeParts DEF AllWellMade
<1>3. Entailed(th) => Entailed(Derived(th, th.hyps, p, th.maxidx))
  <2> SUFFICES ASSUME Entailed(th), NEW v \in Val, \A h \in th.hyps : Holds(v, h),
                      NEW w \in Variants(v, x)
               PROVE  Holds(w, th.prop)
    BY DEF Entailed, Derived, FaithfulBinder
  <2>1. w \in Val /\ \A h \in th.hyps : Den(w, h) = Den(v, h) BY <1>1, <1>2, FreeInAssumption
  <2> QED BY <2>1 DEF Entailed, Holds
<1> QED BY <1>1, <1>3, KeepDerivedSound

\* forall_elim: a universal proposition holds of every instance.
LEMMA ForallElimSound ==
  ASSUME Sound, NEW th \in thms, NEW ct \in Prop, FaithfulInstance(ct, th.prop),
         forall_elim(ct, th)
  PROVE  Sound'
<1> DEFINE res == Derived(th, th.hyps, SubstBound(ct, BodyOf(th.prop)), Larger(th.maxidx, MaxIdx(ct)))
<1>1. Keep(res) BY DEF forall_elim
<1>2. Entailed(th) => Entailed(res) BY DEF Entailed, Derived, FaithfulInstance
<1> QED BY <1>1, <1>2, KeepDerivedSound

LEMMA LogicSound == ASSUME AllWellMade, Sound, FaithfulLogicStep PROVE Sound'
BY ImpliesIntrSound, ImpliesElimSound, ForallIntrSound, ForallElimSound DEF FaithfulLogicStep

\* An instance holds where the theorem does under the interpretation that gives
\* the variables the meaning of their bindings: that one satisfies the hypotheses.
LEMMA InstanceSound ==
  ASSUME NEW ths, NEW th \in ths, WellMade(th), ThmSound(th), NEW env \in Env, NEW m \in Nat,
         FaithfulNorm(env, ths), NEW inst \in Instances(env, m, th)
  PROVE  ThmSound(inst)
<1> DEFINE S == {Norm(env, h) : h \in UNION {t.hyps : t \in ths}}
<1>1. /\ inst.prop = Norm(env, th.prop)
      /\ inst.oracles = th.oracles /\ inst.used = th.used
      /\ inst.hyps \subseteq {Norm(env, h) : h \in th.hyps}
      /\ \A h \in th.hyps : HypsContain(inst.hyps, Norm(env, h))
  BY InstanceParts
<1>2. SameMeaning(S) BY DEF FaithfulNorm
<1>3. \A h \in th.hyps : Norm(env, h) \in S OBVIOUS
<1>4. Entailed(th) => Entailed(inst)
  <2> SUFFICES ASSUME Entailed(th), NEW v \in Val, \A h \in inst.hyps : Holds(v, h)
               PROVE  Holds(v, inst.prop)
    BY DEF Entailed
  <2>1. PICK w \in Val : \A p \in UNION {Parts(t) : t \in ths} : Den(v, Norm(env, p)) = Den(w, p)
    BY DEF FaithfulNorm
  <2>2. \A p \in Parts(th) : Den(v, Norm(env, p)) = Den(w, p) BY <2>1
  <2>3. ASSUME NEW h \in th.hyps PROVE Holds(w, h)
    <3>1. PICK k \in inst.hyps : AlphaEq(k, Norm(env, h)) BY <1>1 DEF HypsContain
    <3>2. k \in S /\ Norm(env, h) \in S BY <1>1, <1>3
    <3>3. Den(v, k) = Den(v, Norm(env, h)) BY <1>2, <3>1, <3>2 DEF SameMeaning
    <3>4. h \in Parts(th) BY DEF Parts
    <3> QED BY <2>2, <3>3, <3>4 DEF Holds
  <2>4. Holds(w, th.prop) BY <2>3 DEF Entailed
  <2>5. th.prop \in Parts(th) BY DEF Parts
  <2> QED BY <1>1, <2>2, <2>4, <2>5 DEF Holds
<1> QED BY <1>1, <1>4 DEF ThmSound

\* What is known of the instances of two theorems that are resolved.
LEMMA InstancesAgree ==
  ASSUME AllWellMade, Sound, NEW th1 \in thms, NEW th2 \in thms,
         NEW env \in Env, NEW m \in Nat, FaithfulNorm(env, {th1, th2}),
         NEW i1 \in Instances(env, m, th1), NEW i2 \in Instances(env, m, th2)
  PROVE  /\ WellMade(i1) /\ ThmSound(i1) /\ i1.prop = Norm(env, th1.prop)
         /\ WellMade(i2) /\ ThmSound(i2) /\ i2.prop = Norm(env, th2.prop)
         /\ FaithfulUnion(i1, i2)
<1>1. WellMade(th1) /\ ThmSound(th1) /\ WellMade(th2) /\ ThmSound(th2)
  BY DEF AllWellMade, Sound
<1>2. /\ WellMade(i1) /\ i1.prop = Norm(env, th1.prop)
      /\ i1.hyps \subseteq {Norm(env, h) : h \in th1.hyps}
  BY <1>1, InstanceParts
<1>3. /\ WellMade(i2) /\ i2.prop = Norm(env, th2.prop)
      /\ i2.hyps \subseteq {Norm(env, h) : h \in th2.hyps}
  BY <1>1, InstanceParts
<1>4. ThmSound(i1)
  <2>1. th1 \in {th1, th2} OBVIOUS
  <2> QED BY <1>1, <2>1, InstanceSound
<1>5. ThmSound(i2)
  <2>1. th2 \in {th1, th2} OBVIOUS
  <2> QED BY <1>1, <2>1, InstanceSound
<1>6. FaithfulUnion(i1, i2)
  <2>1. SameMeaning({Norm(env, h) : h \in UNION {t.hyps : t \in {th1, th2}}}) BY DEF FaithfulNorm
  <2>2. UNION {t.hyps : t \in {th1, th2}} = th1.hyps \union th2.hyps OBVIOUS
  <2>3. i1.hyps \union i2.hyps \subseteq {Norm(env, h) : h \in th1.hyps \union th2.hyps}
    BY <1>2, <1>3
  <2>4. i1.hyps \union i2.hyps \subseteq {Norm(env, h) : h \in UNION {t.hyps : t \in {th1, th2}}}
    BY <2>2, <2>3
  <2> QED BY <2>1, <2>4 DEF SameMeaning, FaithfulUnion
<1> QED BY <1>2, <1>3, <1>4, <1>5, <1>6

\* The composition of two theorems, when the first and the premises that are left
\* give the premise of the second.
LEMMA ComposedSound ==
  ASSUME Sound, NEW th1, WellMade(th1), ThmSound(th1), NEW th2, WellMade(th2), ThmSound(th2),
         FaithfulUnion(th1, th2), NEW i, NEW ps \in Seq(Term), KeepComposed(th1, th2, ps, i),
         \A v \in Val : Holds(v, th1.prop) /\ AllHold(v, ps) => Holds(v, Prems(th2.prop)[i])
  PROVE  Sound'
<1> DEFINE s == Splice(ps, Prems(th2.prop), i)
           p == Chain(s, Concl(th2.prop))
<1>1. i \in 1..Len(Prems(th2.prop)) /\ s \in PremList /\ Keep(Combined(th1, th2, p))
  BY DEF KeepComposed, Composed
<1>2. p \in Prop BY <1>1, KeepProp DEF Combined
<1>3. th2.prop \in Prop BY WellMadeParts
<1>4. ASSUME NEW v \in Val, Holds(v, th1.prop), Holds(v, th2.prop) PROVE Holds(v, p)
  <2>1. AllHold(v, ps) => Holds(v, Prems(th2.prop)[i]) BY <1>4
  <2> HIDE DEF s
  <2> QED BY <1>1, <1>3, <1>4, <2>1, ReplacePremise DEF s
<1>5. ThmSound(Combined(th1, th2, p)) BY <1>2, <1>4, CombinedSound
<1> QED BY <1>1, <1>5, KeepSound

\* The first theorem as a whole is the premise.
LEMMA ExactSound ==
  ASSUME AllWellMade, Sound, NEW th1 \in thms, NEW th2 \in thms,
         NEW i \in 1..Len(Prems(th2.prop)), SameMeaning({th1.prop, Prems(th2.prop)[i]}),
         FaithfulNorm(EmptyEnv, {th1, th2}), bicompose_exact(th1, th2, i)
  PROVE  Sound'
<1> DEFINE q == Prems(th2.prop)[i]
<1>1. EmptyEnv \in Env /\ 0 \in Nat BY EnvMaxIdxAssumption
<1>2. PICK i1 \in Instances(EmptyEnv, 0, th1), i2 \in Instances(EmptyEnv, 0, th2) :
        AlphaEq(th1.prop, q) /\ KeepComposed(i1, i2, <<>>, i)
  BY DEF bicompose_exact
<1>3. /\ WellMade(i1) /\ ThmSound(i1) /\ i1.prop = Norm(EmptyEnv, th1.prop)
      /\ WellMade(i2) /\ ThmSound(i2) /\ i2.prop = Norm(EmptyEnv, th2.prop)
      /\ FaithfulUnion(i1, i2)
  BY <1>1, InstancesAgree
<1>4. Prems(i2.prop)[i] = Norm(EmptyEnv, q) BY <1>3 DEF FaithfulNorm
<1>5. ASSUME NEW v \in Val, Holds(v, i1.prop) PROVE Holds(v, Prems(i2.prop)[i])
  <2>1. PICK w \in Val : \A p \in UNION {Parts(t) : t \in {th1, th2}} :
                           Den(v, Norm(EmptyEnv, p)) = Den(w, p)
    BY DEF FaithfulNorm
  <2>2. th1.prop \in Parts(th1) /\ q \in Parts(th2) BY DEF Parts
  <2>3. Den(w, th1.prop) = Den(w, q) BY <1>2 DEF SameMeaning
  <2> QED BY <1>3, <1>4, <1>5, <2>1, <2>2, <2>3 DEF Holds
<1>6. <<>> \in Seq(Term) OBVIOUS
<1> QED BY <1>2, <1>3, <1>5, <1>6, ComposedSound

\* Resolution by an environment under which the conclusion of the first theorem
\* gives the premise of the second.  Instantiating the conclusion may add premises
\* to it: those of the instance start with the instances of the premises of th1.
LEMMA ResolveSound ==
  ASSUME AllWellMade, Sound, NEW th1 \in thms, NEW th2 \in thms,
         NEW i \in 1..Len(Prems(th2.prop)), NEW env \in Env, NEW m \in Nat,
         FaithfulNorm(env, {th1, th2}),
         \A v \in Val : Den(v, Norm(env, Concl(th1.prop))) = Den(v, Norm(env, Prems(th2.prop)[i])),
         Resolve(env, m, th1, th2, i)
  PROVE  Sound'
<1>1. PICK i1 \in Instances(env, m, th1), i2 \in Instances(env, m, th2) :
        KeepComposed(i1, i2, Prems(i1.prop), i)
  BY DEF Resolve
<1>2. /\ WellMade(i1) /\ ThmSound(i1) /\ i1.prop = Norm(env, th1.prop)
      /\ WellMade(i2) /\ ThmSound(i2) /\ i2.prop = Norm(env, th2.prop)
      /\ FaithfulUnion(i1, i2)
  BY InstancesAgree
<1>3. th1.prop \in Prop /\ i1.prop \in Prop BY <1>2, WellMadeParts DEF AllWellMade
<1>4. Prems(i1.prop) \in Seq(Term) BY <1>3, PremsParts
<1>5. Prems(i2.prop)[i] = Norm(env, Prems(th2.prop)[i]) BY <1>2 DEF FaithfulNorm
<1>6. \A j \in 1..Len(Prems(th1.prop)) :
        j \in 1..Len(Prems(i1.prop)) /\ Prems(i1.prop)[j] = Norm(env, Prems(th1.prop)[j])
  BY <1>2 DEF FaithfulNorm
<1>7. ASSUME NEW v \in Val, Holds(v, i1.prop), AllHold(v, Prems(i1.prop))
      PROVE  Holds(v, Prems(i2.prop)[i])
  <2>1. PICK w \in Val : \A p \in UNION {Parts(t) : t \in {th1, th2}} : Den(v, Norm(env, p)) = Den(w, p)
    BY DEF FaithfulNorm
  <2>2. \A p \in Parts(th1) : Den(v, Norm(env, p)) = Den(w, p) BY <2>1
  <2>3. /\ th1.prop \in Parts(th1) /\ Concl(th1.prop) \in Parts(th1)
        /\ \A j \in 1..Len(Prems(th1.prop)) : Prems(th1.prop)[j] \in Parts(th1)
    BY DEF Parts
  <2>4. Holds(w, th1.prop) BY <1>2, <1>7, <2>2, <2>3 DEF Holds
  <2>5. ASSUME NEW j \in 1..Len(Prems(th1.prop)) PROVE Holds(w, Prems(th1.prop)[j])
    <3>1. Holds(v, Norm(env, Prems(th1.prop)[j])) BY <1>6, <1>7 DEF AllHold
    <3> QED BY <2>2, <2>3, <3>1 DEF Holds
  <2>6. Holds(w, Concl(th1.prop)) BY <1>3, <2>4, <2>5, ChainAssumption DEF AllHold
  <2>7. Holds(v, Norm(env, Concl(th1.prop))) BY <2>2, <2>3, <2>6 DEF Holds
  <2> QED BY <1>5, <2>7 DEF Holds
<1> QED BY <1>1, <1>2, <1>4, <1>7, ComposedSound

\* Variants have instances that denote the same.
LEMMA NormSame ==
  ASSUME NEW env, NEW ths, FaithfulNorm(env, ths),
         NEW p \in UNION {Parts(th) : th \in ths}, NEW q \in UNION {Parts(th) : th \in ths},
         SameMeaning({p, q}), AlphaEq(p, q), NEW v \in Val
  PROVE  Den(v, Norm(env, p)) = Den(v, Norm(env, q))
<1>1. PICK w \in Val : \A r \in UNION {Parts(th) : th \in ths} : Den(v, Norm(env, r)) = Den(w, r)
  BY DEF FaithfulNorm
<1>2. Den(w, p) = Den(w, q) BY DEF SameMeaning
<1> QED BY <1>1, <1>2

\* bicompose: each of its ways to resolve.
LEMMA BicomposeSound ==
  ASSUME AllWellMade, Sound, NEW th1 \in thms, NEW th2 \in thms,
         FaithfulResolution(th1, th2), bicompose(th1, th2)
  PROVE  Sound'
<1>1. PICK i \in 1..Len(Prems(th2.prop)) :
        \/ bicompose_exact(th1, th2, i)
        \/ AlphaEq(Concl(th1.prop), Prems(th2.prop)[i]) /\ Resolve(EmptyEnv, 0, th1, th2, i)
        \/ \E env \in ResolutionEnvs(Concl(th1.prop), Prems(th2.prop)[i]) :
             Resolve(env, Larger(th1.maxidx, th2.maxidx), th1, th2, i)
  BY BicomposeCases
<1> DEFINE c == Concl(th1.prop)
           q == Prems(th2.prop)[i]
<1>2. /\ SameMeaning({th1.prop, q}) /\ SameMeaning({c, q})
      /\ \A env \in ResolutionEnvs(c, q) : Norm(env, c) = Norm(env, q)
      /\ \A env \in ResolutionEnvs(c, q) : FaithfulNorm(env, {th1, th2})
      /\ FaithfulNorm(EmptyEnv, {th1, th2})
  BY DEF FaithfulResolution
<1>3. EmptyEnv \in Env /\ 0 \in Nat BY EnvMaxIdxAssumption
<1>4. CASE bicompose_exact(th1, th2, i) BY <1>2, <1>4, ExactSound
<1>5. CASE AlphaEq(c, q) /\ Resolve(EmptyEnv, 0, th1, th2, i)
  <2>1. c \in Parts(th1) /\ q \in Parts(th2) BY DEF Parts
  <2>2. c \in UNION {Parts(t) : t \in {th1, th2}} /\ q \in UNION {Parts(t) : t \in {th1, th2}}
    BY <2>1
  <2>3. \A v \in Val : Den(v, Norm(EmptyEnv, c)) = Den(v, Norm(EmptyEnv, q))
    <3> HIDE DEF c, q
    <3> QED BY <1>2, <1>5, <2>2, NormSame
  <2> QED BY <1>2, <1>3, <1>5, <2>3, ResolveSound
<1>6. CASE \E env \in ResolutionEnvs(c, q) : Resolve(env, Larger(th1.maxidx, th2.maxidx), th1, th2, i)
  <2>1. PICK env \in ResolutionEnvs(c, q) : Resolve(env, Larger(th1.maxidx, th2.maxidx), th1, th2, i)
    BY <1>6
  <2>2. Larger(th1.maxidx, th2.maxidx) \in Nat BY WellMadeParts, LargerBounds DEF AllWellMade
  <2>3. env \in Env BY DEF ResolutionEnvs
  <2>4. \A v \in Val : Den(v, Norm(env, c)) = Den(v, Norm(env, q)) BY <1>2
  <2> QED BY <1>2, <2>1, <2>2, <2>3, <2>4, ResolveSound
<1> QED BY <1>1, <1>4, <1>5, <1>6

\* subst_premise: a premise may be replaced by an equal one.
LEMMA SubstPremiseSound ==
  ASSUME AllWellMade, Sound, NEW theq \in thms, NEW state \in thms,
         FaithfulSubst(theq, state), subst_premise(theq, state)
  PROVE  Sound'
<1>1. PICK i \in 1..Len(Prems(state.prop)) :
        /\ IsEquals(theq.prop)
        /\ AlphaEq(Lhs(theq.prop), Prems(state.prop)[i])
        /\ Splice(<<Rhs(theq.prop)>>, Prems(state.prop), i) \in PremList
        /\ Keep(Combined(state, theq,
                         Chain(Splice(<<Rhs(theq.prop)>>, Prems(state.prop), i), Concl(state.prop))))
  BY DEF subst_premise
<1> DEFINE r == Rhs(theq.prop)
           p == Chain(Splice(<<r>>, Prems(state.prop), i), Concl(state.prop))
<1>2. state.prop \in Prop /\ r \in Term
  BY <1>1, WellMadeParts, SyntaxAssumption DEF AllWellMade
<1>3. <<r>> \in Seq(Term) /\ Len(<<r>>) = 1 /\ <<r>>[1] = r BY <1>2
<1>4. ASSUME NEW v \in Val, Holds(v, state.prop), Holds(v, theq.prop) PROVE Holds(v, p)
  <2>1. Den(v, Lhs(theq.prop)) = Den(v, r) BY <1>4 DEF FaithfulSubst, FaithfulEquation
  <2>2. Den(v, Lhs(theq.prop)) = Den(v, Prems(state.prop)[i])
    BY <1>1 DEF FaithfulSubst, SameMeaning
  <2>3. AllHold(v, <<r>>) => Holds(v, r) BY <1>3 DEF AllHold
  <2>4. AllHold(v, <<r>>) => Holds(v, Prems(state.prop)[i]) BY <2>1, <2>2, <2>3 DEF Holds
  <2> HIDE DEF r
  <2> QED BY <1>1, <1>2, <1>3, <1>4, <2>4, ReplacePremise DEF r
<1>5. FaithfulUnion(state, theq) BY DEF FaithfulSubst
<1> QED BY <1>1, <1>4, <1>5, KeepCombinedSound

LEMMA ResolutionSound == ASSUME AllWellMade, Sound, FaithfulResolutionStep PROVE Sound'
<1>1. ASSUME NEW th \in thms, NEW env \in Env, FaithfulNorm(env, {th}), instantiate(env, th)
      PROVE  Sound'
  <2>1. PICK inst \in Instances(env, EnvMaxIdx(env), th) : Keep(inst) BY <1>1 DEF instantiate
  <2>2. EnvMaxIdx(env) \in Nat /\ th \in {th} BY EnvMaxIdxAssumption
  <2>3. ThmSound(inst) BY <1>1, <2>2, InstanceSound DEF AllWellMade, Sound
  <2> QED BY <2>1, <2>3, KeepSound
<1> QED BY <1>1, BicomposeSound, SubstPremiseSound DEF FaithfulResolutionStep

LEMMA SortSound == ASSUME AllWellMade, Sound, SortStep PROVE Sound'
<1>1. ASSUME NEW th \in thms, NEW s \in Sort, add_shyp(th, s) PROVE Sound'
  <2> DEFINE res == [th EXCEPT !.shyps = @ \union {s}, !.sorts = @ \union {s}]
  <2>1. th \in Thm /\ ThmSound(th) /\ Keep(res)
    BY <1>1 DEF AllWellMade, WellMade, Sound, add_shyp
  <2>2. res.hyps = th.hyps /\ res.prop = th.prop /\ res.oracles = th.oracles /\ res.used = th.used
    BY <2>1 DEF Thm
  <2> HIDE DEF res
  <2>3. ThmSound(res) BY <2>1, <2>2 DEF ThmSound, Entailed
  <2> QED BY <2>1, <2>3, KeepSound
<1>2. ASSUME NEW th \in thms, strip_shyps(th) PROVE Sound'
  <2> DEFINE res == [th EXCEPT !.shyps = {}, !.sorts = {}]
  <2>1. th \in Thm /\ ThmSound(th) /\ Keep(res)
    BY <1>2 DEF AllWellMade, WellMade, Sound, strip_shyps
  <2>2. res.hyps = th.hyps /\ res.prop = th.prop /\ res.oracles = th.oracles /\ res.used = th.used
    BY <2>1 DEF Thm
  <2> HIDE DEF res
  <2>3. ThmSound(res) BY <2>1, <2>2 DEF ThmSound, Entailed
  <2> QED BY <2>1, <2>3, KeepSound
<1> QED BY <1>1, <1>2 DEF SortStep

\* The conditions only leave steps out.
LEMMA FaithfulIsCore == FaithfulNext => CoreNext
<1>1. FaithfulEqualityStep => EqualityStep BY DEF FaithfulEqualityStep, EqualityStep
<1>2. FaithfulLogicStep => LogicStep BY DEF FaithfulLogicStep, LogicStep
<1>3. FaithfulResolutionStep => ResolutionStep BY DEF FaithfulResolutionStep, ResolutionStep
<1> QED BY <1>1, <1>2, <1>3 DEF FaithfulNext, CoreNext

LEMMA NextSound ==
  AllWellMade /\ Sound /\ [FaithfulNext]_vars => AllWellMade' /\ Sound'
<1> SUFFICES ASSUME AllWellMade, Sound, [FaithfulNext]_vars PROVE AllWellMade' /\ Sound'
  OBVIOUS
<1>1. AllWellMade' BY NextWellMade, FaithfulIsCore
<1>2. ASSUME UNCHANGED vars PROVE Sound'
  <2>1. thms' = thms BY <1>2 DEF vars
  <2>2. \A th \in thms' : ThmSound(th) BY <2>1 DEF Sound
  <2> QED BY <2>2 DEF Sound, ThmSound, Entailed
<1>3. ASSUME FaithfulNext PROVE Sound'
  <2>1. CASE AxiomStep BY <2>1, AxiomSound
  <2>2. CASE FaithfulEqualityStep BY <2>2, EqualitySound
  <2>3. CASE FaithfulLogicStep BY <2>3, LogicSound
  <2>4. CASE FaithfulResolutionStep BY <2>4, ResolutionSound
  <2>5. CASE SortStep BY <2>5, SortSound
  <2> QED BY <1>3, <2>1, <2>2, <2>3, <2>4, <2>5 DEF FaithfulNext
<1> QED BY <1>1, <1>2, <1>3

-----------------------------------------------------------------------------
(* The maxidx of every theorem bounds its indices. *)

\* The larger of two naturals is the least bound of both.
LEMMA LargerLeast ==
  ASSUME NEW m \in Nat, NEW n \in Nat, NEW k \in Nat
  PROVE  /\ m <= k /\ n <= k => Larger(m, n) <= k
         /\ k <= m => k <= Larger(m, n)
         /\ k <= n => k <= Larger(m, n)
BY DEF Larger

\* A rule that keeps a theorem with a right maxidx leaves only such theorems.
LEMMA KeepCovers ==
  ASSUME MaxidxCovers, NEW th, Keep(th), ThmMaxIdx(th)
  PROVE  MaxidxCovers'
<1> \A t \in thms' : ThmMaxIdx(t)
  BY KeepAdds DEF MaxidxCovers
<1> QED BY DEF MaxidxCovers, ThmMaxIdx, MaxIdxAtMost

\* Rules with two premises: each hypothesis is one of theirs.
LEMMA CombinedCovers ==
  ASSUME NEW th1, WellMade(th1), ThmMaxIdx(th1), NEW th2, WellMade(th2), ThmMaxIdx(th2),
         NEW p, MaxIdx(p) <= Larger(th1.maxidx, th2.maxidx)
  PROVE  ThmMaxIdx(Combined(th1, th2, p))
<1>1. th1.maxidx \in Nat /\ th2.maxidx \in Nat BY WellMadeParts
<1>2. ASSUME NEW h \in th1.hyps PROVE MaxIdx(h) <= Larger(th1.maxidx, th2.maxidx)
  BY <1>1, WellMadeParts, LargerLeast DEF ThmMaxIdx, MaxIdxAtMost
<1>3. ASSUME NEW h \in th2.hyps PROVE MaxIdx(h) <= Larger(th1.maxidx, th2.maxidx)
  BY <1>1, WellMadeParts, LargerLeast DEF ThmMaxIdx, MaxIdxAtMost
<1>4. HypsUnion(th1.hyps, th2.hyps) \subseteq th1.hyps \union th2.hyps BY DEF HypsUnion
<1> QED BY <1>2, <1>3, <1>4 DEF Combined, ThmMaxIdx, MaxIdxAtMost

LEMMA KeepCombinedCovers ==
  ASSUME AllWellMade, MaxidxCovers, NEW th1 \in thms, NEW th2 \in thms, NEW p,
         Keep(Combined(th1, th2, p)), MaxIdx(p) <= Larger(th1.maxidx, th2.maxidx)
  PROVE  MaxidxCovers'
<1>1. ThmMaxIdx(Combined(th1, th2, p)) BY CombinedCovers DEF AllWellMade, MaxidxCovers
<1> QED BY <1>1, KeepCovers

LEMMA AxiomCovers == ASSUME MaxidxCovers, AxiomStep PROVE MaxidxCovers'
<1>1. \A ct \in Term : MaxIdx(ct) \in Nat BY MaxIdxAssumption
<1>2. ASSUME NEW ct \in Admissible, NEW name \in Oracle, admit(ct, name) PROVE MaxidxCovers'
  <2> DEFINE res == [hyps |-> {}, prop |-> ct, maxidx |-> MaxIdx(ct), shyps |-> {},
                     oracles |-> {name}, used |-> {<<name, ct>>}, sorts |-> {}]
  <2>1. MaxIdx(ct) \in Nat BY <1>1, SyntaxAssumption
  <2>2. ThmMaxIdx(res) BY <2>1 DEF ThmMaxIdx, MaxIdxAtMost
  <2>3. Keep(res) BY <1>2 DEF admit
  <2> HIDE DEF res
  <2> QED BY <2>2, <2>3, KeepCovers
<1>3. ASSUME NEW ct \in Prop, assume(ct) PROVE MaxidxCovers'
  <2>1. MaxIdx(ct) \in Nat BY <1>1, SyntaxAssumption
  <2>2. ThmMaxIdx(Primitive({ct}, ct, MaxIdx(ct)))
    BY <2>1 DEF Primitive, ThmMaxIdx, MaxIdxAtMost
  <2> QED BY <1>3, <2>2, KeepCovers DEF assume
<1>4. ASSUME NEW ct \in Prop, trivial(ct) PROVE MaxidxCovers'
  <2>1. MaxIdx(Implies(ct, ct)) <= MaxIdx(ct) BY MaxIdxAssumption DEF Larger
  <2>2. ThmMaxIdx(Primitive({}, Implies(ct, ct), MaxIdx(ct)))
    BY <2>1 DEF Primitive, ThmMaxIdx, MaxIdxAtMost
  <2> QED BY <1>4, <2>2, KeepCovers DEF trivial
<1>5. ASSUME NEW ct \in Term, reflexive(ct) PROVE MaxidxCovers'
  <2>1. MaxIdx(Equals(ct, ct)) <= MaxIdx(ct) BY MaxIdxAssumption DEF Larger
  <2>2. ThmMaxIdx(Primitive({}, Equals(ct, ct), MaxIdx(ct)))
    BY <2>1 DEF Primitive, ThmMaxIdx, MaxIdxAtMost
  <2> QED BY <1>5, <2>2, KeepCovers DEF reflexive
<1> QED BY <1>2, <1>3, <1>4, <1>5 DEF AxiomStep

\* The sides of an equation are terms whose indices the theorem bounds.
LEMMA SidesAtMost ==
  ASSUME AllWellMade, MaxidxCovers, NEW th \in thms, IsEquals(th.prop)
  PROVE  /\ Lhs(th.prop) \in Term /\ MaxIdx(Lhs(th.prop)) \in Nat
         /\ MaxIdx(Lhs(th.prop)) <= th.maxidx
         /\ Rhs(th.prop) \in Term /\ MaxIdx(Rhs(th.prop)) \in Nat
         /\ MaxIdx(Rhs(th.prop)) <= th.maxidx
<1>1. /\ th.prop \in Prop /\ th.maxidx \in Nat /\ MaxIdx(th.prop) \in Nat
      /\ MaxIdx(th.prop) <= th.maxidx
  BY WellMadeParts DEF AllWellMade, MaxidxCovers, ThmMaxIdx, MaxIdxAtMost
<1>2. Lhs(th.prop) \in Term /\ Rhs(th.prop) \in Term BY <1>1, SyntaxAssumption
<1>3. MaxIdx(Lhs(th.prop)) <= MaxIdx(th.prop) /\ MaxIdx(Rhs(th.prop)) <= MaxIdx(th.prop)
  BY <1>1, MaxIdxAssumption
<1>4. MaxIdx(Lhs(th.prop)) \in Nat /\ MaxIdx(Rhs(th.prop)) \in Nat BY <1>2, MaxIdxAssumption
<1> QED BY <1>1, <1>2, <1>3, <1>4

\* An equation has no index beyond those of its sides.
LEMMA EqualsAtMost ==
  ASSUME NEW t \in Term, NEW u \in Term, Equals(t, u) \in Prop, NEW n \in Nat,
         MaxIdx(t) <= n, MaxIdx(u) <= n
  PROVE  MaxIdx(Equals(t, u)) <= n
<1>1. MaxIdx(t) \in Nat /\ MaxIdx(u) \in Nat /\ MaxIdx(Equals(t, u)) \in Nat
  BY SyntaxAssumption, MaxIdxAssumption
<1>2. MaxIdx(Equals(t, u)) <= Larger(MaxIdx(t), MaxIdx(u)) BY MaxIdxAssumption
<1> QED BY <1>1, <1>2 DEF Larger

LEMMA EqualityCovers == ASSUME AllWellMade, MaxidxCovers, EqualityStep PROVE MaxidxCovers'
<1>1. \A th \in thms : th.maxidx \in Nat BY WellMadeParts DEF AllWellMade
<1>2. \A th \in thms : ThmMaxIdx(th) BY DEF MaxidxCovers
<1>3. ASSUME NEW th \in thms, symmetric(th) PROVE MaxidxCovers'
  <2> DEFINE p == Equals(Rhs(th.prop), Lhs(th.prop))
  <2>1. IsEquals(th.prop) /\ Keep(Derived(th, th.hyps, p, th.maxidx)) BY <1>3 DEF symmetric
  <2>2. p \in Prop BY <2>1, KeepProp DEF Derived
  <2>3. MaxIdx(p) <= th.maxidx BY <1>1, <2>1, <2>2, SidesAtMost, EqualsAtMost
  <2> HIDE DEF p
  <2>4. ThmMaxIdx(Derived(th, th.hyps, p, th.maxidx))
    BY <1>2, <2>3 DEF Derived, ThmMaxIdx, MaxIdxAtMost
  <2> QED BY <2>1, <2>4, KeepCovers
<1>4. ASSUME NEW th1 \in thms, NEW th2 \in thms, transitive(th1, th2) PROVE MaxidxCovers'
  <2> DEFINE p == Equals(Lhs(th1.prop), Rhs(th2.prop))
             n == Larger(th1.maxidx, th2.maxidx)
  <2>1. IsEquals(th1.prop) /\ IsEquals(th2.prop) /\ Keep(Combined(th1, th2, p))
    BY <1>4 DEF transitive
  <2>2. p \in Prop BY <2>1, KeepProp DEF Combined
  <2>3. n \in Nat BY <1>1, LargerBounds
  <2>4. MaxIdx(Lhs(th1.prop)) <= n /\ MaxIdx(Rhs(th2.prop)) <= n
    BY <1>1, <2>1, SidesAtMost, LargerLeast
  <2>5. MaxIdx(p) <= n
    <3> HIDE DEF n
    <3> QED BY <2>1, <2>2, <2>3, <2>4, SidesAtMost, EqualsAtMost
  <2> QED BY <2>1, <2>5, KeepCombinedCovers
<1>5. ASSUME NEW th1 \in thms, NEW th2 \in thms, combination(th1, th2) PROVE MaxidxCovers'
  <2> DEFINE f == Lhs(th1.prop)
             g == Rhs(th1.prop)
             x == Lhs(th2.prop)
             y == Rhs(th2.prop)
             p == Equals(Apply(f, x), Apply(g, y))
             n == Larger(th1.maxidx, th2.maxidx)
  <2>1. /\ IsEquals(th1.prop) /\ IsEquals(th2.prop)
        /\ Apply(f, x) \in Term /\ Apply(g, y) \in Term
        /\ Keep(Combined(th1, th2, p))
    BY <1>5 DEF combination
  <2>2. p \in Prop BY <2>1, KeepProp DEF Combined
  <2>3. n \in Nat BY <1>1, LargerBounds
  <2>4. MaxIdx(f) <= n /\ MaxIdx(x) <= n /\ MaxIdx(g) <= n /\ MaxIdx(y) <= n
    BY <1>1, <2>1, SidesAtMost, LargerLeast
  <2>5. /\ f \in Term /\ x \in Term /\ g \in Term /\ y \in Term
        /\ MaxIdx(f) \in Nat /\ MaxIdx(x) \in Nat /\ MaxIdx(g) \in Nat /\ MaxIdx(y) \in Nat
    BY <2>1, SidesAtMost
  <2> HIDE DEF f, g, x, y, n
  <2>6. MaxIdx(Apply(f, x)) <= n
    <3>1. MaxIdx(Apply(f, x)) <= Larger(MaxIdx(f), MaxIdx(x)) BY <2>5, MaxIdxAssumption
    <3>2. MaxIdx(Apply(f, x)) \in Nat BY <2>1, MaxIdxAssumption
    <3> QED BY <2>3, <2>4, <2>5, <3>1, <3>2 DEF Larger
  <2>7. MaxIdx(Apply(g, y)) <= n
    <3>1. MaxIdx(Apply(g, y)) <= Larger(MaxIdx(g), MaxIdx(y)) BY <2>5, MaxIdxAssumption
    <3>2. MaxIdx(Apply(g, y)) \in Nat BY <2>1, MaxIdxAssumption
    <3> QED BY <2>3, <2>4, <2>5, <3>1, <3>2 DEF Larger
  <2>8. MaxIdx(p) <= n BY <2>1, <2>2, <2>3, <2>6, <2>7, EqualsAtMost
  <2> QED BY <2>1, <2>8, KeepCombinedCovers DEF n
<1>6. ASSUME NEW th \in thms, NEW x \in FreeName, abstraction(x, th) PROVE MaxidxCovers'
  <2> DEFINE t == Lhs(th.prop)
             u == Rhs(th.prop)
             p == Equals(Lam(t), Lam(u))
  <2>1. IsEquals(th.prop) /\ Keep(Derived(th, th.hyps, p, th.maxidx)) BY <1>6 DEF abstraction
  <2>2. p \in Prop BY <2>1, KeepProp DEF Derived
  <2>3. /\ t \in Term /\ MaxIdx(t) \in Nat /\ MaxIdx(t) <= th.maxidx
        /\ u \in Term /\ MaxIdx(u) \in Nat /\ MaxIdx(u) <= th.maxidx
    BY <2>1, SidesAtMost
  <2> HIDE DEF t, u
  <2>4. Lam(t) \in Term /\ Lam(u) \in Term BY <2>2, <2>3, SyntaxAssumption
  <2>5. MaxIdx(Lam(t)) <= MaxIdx(t) /\ MaxIdx(Lam(u)) <= MaxIdx(u)
        /\ MaxIdx(Lam(t)) \in Nat /\ MaxIdx(Lam(u)) \in Nat
    BY <2>3, <2>4, MaxIdxAssumption
  <2>6. MaxIdx(Lam(t)) <= th.maxidx /\ MaxIdx(Lam(u)) <= th.maxidx BY <1>1, <2>3, <2>5
  <2>7. MaxIdx(p) <= th.maxidx BY <1>1, <2>2, <2>4, <2>6, EqualsAtMost
  <2> HIDE DEF p
  <2>8. ThmMaxIdx(Derived(th, th.hyps, p, th.maxidx))
    BY <1>2, <2>7 DEF Derived, ThmMaxIdx, MaxIdxAtMost
  <2> QED BY <2>1, <2>8, KeepCovers
<1> QED BY <1>3, <1>4, <1>5, <1>6 DEF EqualityStep

LEMMA LogicCovers == ASSUME AllWellMade, MaxidxCovers, CoveredLogicStep PROVE MaxidxCovers'
<1>1. ASSUME NEW th \in thms
      PROVE  /\ th.prop \in Prop /\ th.maxidx \in Nat /\ MaxIdx(th.prop) \in Nat
             /\ MaxIdx(th.prop) <= th.maxidx
             /\ \A h \in th.hyps : MaxIdx(h) \in Nat /\ MaxIdx(h) <= th.maxidx
  BY WellMadeParts DEF AllWellMade, MaxidxCovers, ThmMaxIdx, MaxIdxAtMost
<1>2. \A ct \in Prop : MaxIdx(ct) \in Nat BY SyntaxAssumption, MaxIdxAssumption
<1>3. ASSUME NEW th \in thms, NEW ct \in Prop, MaxIdx(ct) <= th.maxidx, implies_intr(ct, th)
      PROVE  MaxidxCovers'
  <2> DEFINE p == Implies(ct, th.prop)
             H == HypsRemove(th.hyps, ct)
  <2>1. Keep(Derived(th, H, p, th.maxidx)) BY <1>3 DEF implies_intr
  <2>2. p \in Prop BY <2>1, KeepProp DEF Derived
  <2>3. MaxIdx(p) <= Larger(MaxIdx(ct), MaxIdx(th.prop)) BY <1>1, MaxIdxAssumption
  <2>4. Larger(MaxIdx(ct), MaxIdx(th.prop)) <= th.maxidx BY <1>1, <1>2, <1>3, LargerLeast
  <2>5. MaxIdx(p) <= th.maxidx
    <3> Larger(MaxIdx(ct), MaxIdx(th.prop)) \in Nat BY <1>1, <1>2, LargerBounds
    <3> HIDE DEF p
    <3> QED BY <1>1, <1>2, <2>2, <2>3, <2>4
  <2>6. H \subseteq th.hyps BY DEF HypsRemove
  <2> HIDE DEF p, H
  <2>7. ThmMaxIdx(Derived(th, H, p, th.maxidx))
    BY <1>1, <2>5, <2>6 DEF Derived, ThmMaxIdx, MaxIdxAtMost
  <2> QED BY <2>1, <2>7, KeepCovers
<1>4. ASSUME NEW th1 \in thms, NEW th2 \in thms, implies_elim(th1, th2) PROVE MaxidxCovers'
  <2> DEFINE p == Consequent(th1.prop)
  <2>1. IsImplies(th1.prop) /\ Keep(Combined(th1, th2, p)) BY <1>4 DEF implies_elim
  <2>2. p \in Prop BY <2>1, KeepProp DEF Combined
  <2>3. MaxIdx(p) <= MaxIdx(th1.prop) BY <1>1, <2>1, MaxIdxAssumption
  <2> HIDE DEF p
  <2>4. MaxIdx(p) <= th1.maxidx BY <1>1, <1>2, <2>2, <2>3
  <2>5. MaxIdx(p) <= Larger(th1.maxidx, th2.maxidx) BY <1>1, <1>2, <2>2, <2>4, LargerLeast
  <2> QED BY <2>1, <2>5, KeepCombinedCovers
<1>5. ASSUME NEW th \in thms, NEW x \in FreeName, forall_intr(x, th) PROVE MaxidxCovers'
  <2> DEFINE p == ForAll(x, th.prop)
  <2>1. Keep(Derived(th, th.hyps, p, th.maxidx)) BY <1>5 DEF forall_intr
  <2>2. p \in Prop BY <2>1, KeepProp DEF Derived
  <2>3. MaxIdx(p) <= MaxIdx(th.prop) BY <1>1, MaxIdxAssumption
  <2> HIDE DEF p
  <2>4. MaxIdx(p) <= th.maxidx BY <1>1, <1>2, <2>2, <2>3
  <2>5. ThmMaxIdx(Derived(th, th.hyps, p, th.maxidx))
    BY <1>1, <2>4 DEF Derived, ThmMaxIdx, MaxIdxAtMost
  <2> QED BY <2>1, <2>5, KeepCovers
<1>6. ASSUME NEW th \in thms, NEW ct \in Prop, forall_elim(ct, th) PROVE MaxidxCovers'
  <2> DEFINE p == SubstBound(ct, BodyOf(th.prop))
             n == Larger(th.maxidx, MaxIdx(ct))
  <2>1. IsForAll(th.prop) /\ Keep(Derived(th, th.hyps, p, n)) BY <1>6 DEF forall_elim
  <2>2. p \in Prop BY <2>1, KeepProp DEF Derived
  <2>3. MaxIdx(p) <= Larger(MaxIdx(th.prop), MaxIdx(ct)) BY <1>1, <2>1, MaxIdxAssumption
  <2> HIDE DEF p
  <2>4. MaxIdx(p) <= n BY <1>1, <1>2, <2>2, <2>3 DEF Larger
  <2>5. \A h \in th.hyps : MaxIdx(h) <= n BY <1>1, <1>2, LargerLeast
  <2> HIDE DEF n
  <2>6. ThmMaxIdx(Derived(th, th.hyps, p, n)) BY <2>4, <2>5 DEF Derived, ThmMaxIdx, MaxIdxAtMost
  <2> QED BY <2>1, <2>6, KeepCovers
<1> QED BY <1>3, <1>4, <1>5, <1>6 DEF CoveredLogicStep

\* An instance, when the index it is made with bounds what is bound.
LEMMA InstanceCovers ==
  ASSUME NEW th, WellMade(th), ThmMaxIdx(th), NEW env \in Env, NEW m \in Nat,
         \A p \in Prop : MaxIdx(p) <= th.maxidx => MaxIdx(Norm(env, p)) <= Larger(th.maxidx, m),
         NEW inst \in Instances(env, m, th)
  PROVE  WellMade(inst) /\ ThmMaxIdx(inst)
<1>1. /\ WellMade(inst)
      /\ inst.prop = Norm(env, th.prop)
      /\ inst.maxidx = Larger(th.maxidx, m)
      /\ inst.hyps \subseteq {Norm(env, h) : h \in th.hyps}
  BY InstanceParts
<1>2. th.prop \in Prop /\ th.hyps \subseteq Prop BY WellMadeParts
<1> QED BY <1>1, <1>2 DEF ThmMaxIdx, MaxIdxAtMost

\* The composition of two theorems brings in no index but those of the premises.
LEMMA ComposedCovers ==
  ASSUME MaxidxCovers, NEW th1, WellMade(th1), ThmMaxIdx(th1), NEW th2, WellMade(th2),
         ThmMaxIdx(th2), NEW ps \in Seq(Term), ListAtMost(ps, th1.maxidx), NEW i,
         KeepComposed(th1, th2, ps, i)
  PROVE  MaxidxCovers'
<1> DEFINE s == Splice(ps, Prems(th2.prop), i)
           p == Chain(s, Concl(th2.prop))
           n == Larger(th1.maxidx, th2.maxidx)
<1>1. i \in 1..Len(Prems(th2.prop)) /\ s \in PremList /\ Keep(Combined(th1, th2, p))
  BY DEF KeepComposed, Composed
<1>2. p \in Prop BY <1>1, KeepProp DEF Combined
<1>3. th1.maxidx \in Nat /\ th2.maxidx \in Nat /\ th2.prop \in Prop /\ MaxIdx(th2.prop) \in Nat
  BY WellMadeParts
<1>4. n \in Nat BY <1>3, LargerBounds
<1>5. MaxIdxAtMost(th2.prop, n) BY <1>3, LargerLeast DEF ThmMaxIdx, MaxIdxAtMost
<1>6. ListAtMost(ps, n)
  <2>1. \A k \in 1..Len(ps) : MaxIdx(ps[k]) \in Nat /\ MaxIdx(ps[k]) <= th1.maxidx
    BY MaxIdxAssumption DEF ListAtMost, MaxIdxAtMost
  <2> QED BY <1>3, <2>1, LargerLeast DEF ListAtMost, MaxIdxAtMost
<1>7. MaxIdx(p) <= n
  <2> HIDE DEF n
  <2> QED BY <1>1, <1>2, <1>3, <1>4, <1>5, <1>6, ReplaceAtMost DEF MaxIdxAtMost
<1>8. ThmMaxIdx(Combined(th1, th2, p)) BY <1>7, CombinedCovers
<1> QED BY <1>1, <1>8, KeepCovers

\* The premises of a theorem have no index beyond its maxidx.
LEMMA PremsAtMost ==
  ASSUME NEW th, WellMade(th), ThmMaxIdx(th)
  PROVE  /\ Prems(th.prop) \in Seq(Term) /\ ListAtMost(Prems(th.prop), th.maxidx)
         /\ \A i \in 1..Len(Prems(th.prop)) :
              /\ Prems(th.prop)[i] \in Prop
              /\ MaxIdx(Prems(th.prop)[i]) \in Nat /\ MaxIdx(Prems(th.prop)[i]) <= th.maxidx
         /\ Concl(th.prop) \in Prop
         /\ MaxIdx(Concl(th.prop)) \in Nat /\ MaxIdx(Concl(th.prop)) <= th.maxidx
<1>1. th.prop \in Prop /\ th.maxidx \in Nat /\ MaxIdx(th.prop) \in Nat BY WellMadeParts
<1>2. MaxIdx(th.prop) <= th.maxidx BY DEF ThmMaxIdx, MaxIdxAtMost
<1>3. Prems(th.prop) \in Seq(Prop) /\ Prems(th.prop) \in Seq(Term) BY <1>1, PremsParts
<1>4. ASSUME NEW i \in 1..Len(Prems(th.prop))
      PROVE  /\ Prems(th.prop)[i] \in Prop
             /\ MaxIdx(Prems(th.prop)[i]) \in Nat /\ MaxIdx(Prems(th.prop)[i]) <= th.maxidx
  <2>1. Prems(th.prop)[i] \in Prop BY <1>3
  <2>2. MaxIdx(Prems(th.prop)[i]) \in Nat BY <2>1, SyntaxAssumption, MaxIdxAssumption
  <2>3. MaxIdx(Prems(th.prop)[i]) <= MaxIdx(th.prop)
    BY <1>1, MaxIdxAssumption DEF ListAtMost, MaxIdxAtMost
  <2> QED BY <1>1, <1>2, <2>1, <2>2, <2>3
<1>5. /\ Concl(th.prop) \in Prop /\ MaxIdx(Concl(th.prop)) \in Nat
      /\ MaxIdx(Concl(th.prop)) <= MaxIdx(th.prop)
  BY <1>1, SyntaxAssumption, MaxIdxAssumption
<1>6. MaxIdx(Concl(th.prop)) <= th.maxidx BY <1>1, <1>2, <1>5
<1>7. ListAtMost(Prems(th.prop), th.maxidx) BY <1>4 DEF ListAtMost, MaxIdxAtMost
<1> QED BY <1>3, <1>4, <1>5, <1>6, <1>7

\* bicompose: normalising adds no index, and unifying none that is in neither theorem.
LEMMA BicomposeCovers ==
  ASSUME AllWellMade, MaxidxCovers, NEW th1 \in thms, NEW th2 \in thms, bicompose(th1, th2)
  PROVE  MaxidxCovers'
<1> DEFINE k == Larger(th1.maxidx, th2.maxidx)
<1>1. WellMade(th1) /\ ThmMaxIdx(th1) /\ WellMade(th2) /\ ThmMaxIdx(th2)
  BY DEF AllWellMade, MaxidxCovers
<1>2. th1.maxidx \in Nat /\ th2.maxidx \in Nat BY <1>1, WellMadeParts
<1>3. k \in Nat /\ th1.maxidx <= k /\ th2.maxidx <= k BY <1>2, LargerBounds
<1>4. PICK i \in 1..Len(Prems(th2.prop)) :
        \/ bicompose_exact(th1, th2, i)
        \/ AlphaEq(Concl(th1.prop), Prems(th2.prop)[i]) /\ Resolve(EmptyEnv, 0, th1, th2, i)
        \/ \E env \in ResolutionEnvs(Concl(th1.prop), Prems(th2.prop)[i]) :
             Resolve(env, k, th1, th2, i)
  BY BicomposeCases
<1> HIDE DEF k
<1>5. EmptyEnv \in Env /\ 0 \in Nat BY EnvMaxIdxAssumption
<1>6. ASSUME NEW th \in {th1, th2}, NEW inst \in Instances(EmptyEnv, 0, th)
      PROVE  WellMade(inst) /\ ThmMaxIdx(inst)
  <2>1. WellMade(th) /\ ThmMaxIdx(th) /\ th.maxidx \in Nat BY <1>1, <1>2
  <2>2. ASSUME NEW p \in Prop, MaxIdx(p) <= th.maxidx
        PROVE  MaxIdx(Norm(EmptyEnv, p)) <= Larger(th.maxidx, 0)
    <3>1. MaxIdx(Norm(EmptyEnv, p)) <= MaxIdx(p) BY EnvMaxIdxAssumption
    <3>2. MaxIdx(Norm(EmptyEnv, p)) \in Nat /\ MaxIdx(p) \in Nat
      BY <1>5, SyntaxAssumption, MaxIdxAssumption
    <3> QED BY <2>1, <2>2, <3>1, <3>2 DEF Larger
  <2> QED BY <1>5, <2>1, <2>2, InstanceCovers
<1>7. CASE bicompose_exact(th1, th2, i)
  <2>1. PICK i1 \in Instances(EmptyEnv, 0, th1), i2 \in Instances(EmptyEnv, 0, th2) :
          KeepComposed(i1, i2, <<>>, i)
    BY <1>7 DEF bicompose_exact
  <2>2. WellMade(i1) /\ ThmMaxIdx(i1) /\ WellMade(i2) /\ ThmMaxIdx(i2) BY <1>6
  <2>3. <<>> \in Seq(Term) /\ ListAtMost(<<>>, i1.maxidx) BY DEF ListAtMost
  <2> QED BY <2>1, <2>2, <2>3, ComposedCovers
<1>8. CASE Resolve(EmptyEnv, 0, th1, th2, i)
  <2>1. PICK i1 \in Instances(EmptyEnv, 0, th1), i2 \in Instances(EmptyEnv, 0, th2) :
          KeepComposed(i1, i2, Prems(i1.prop), i)
    BY <1>8 DEF Resolve
  <2>2. WellMade(i1) /\ ThmMaxIdx(i1) /\ WellMade(i2) /\ ThmMaxIdx(i2) BY <1>6
  <2> QED BY <2>1, <2>2, PremsAtMost, ComposedCovers
<1>9. ASSUME NEW env \in ResolutionEnvs(Concl(th1.prop), Prems(th2.prop)[i]),
             Resolve(env, k, th1, th2, i)
      PROVE  MaxidxCovers'
  <2> DEFINE c == Concl(th1.prop)
             q == Prems(th2.prop)[i]
  <2>1. env \in Env /\ env \in Matchers(c, q) \union Unifiers(<<<<c, q>>>>) BY DEF ResolutionEnvs
  <2>2. /\ c \in Prop /\ MaxIdx(c) \in Nat /\ MaxIdx(c) <= th1.maxidx
        /\ q \in Prop /\ MaxIdx(q) \in Nat /\ MaxIdx(q) <= th2.maxidx
    BY <1>1, PremsAtMost
  <2>3. ASSUME NEW th \in {th1, th2}, NEW p \in Prop, MaxIdx(p) <= th.maxidx
        PROVE  MaxIdx(Norm(env, p)) <= Larger(th.maxidx, k)
    <3>1. MaxIdx(Norm(env, p)) <= Larger(MaxIdx(p), Larger(MaxIdx(c), MaxIdx(q)))
      BY <2>1, <2>2, EnvMaxIdxAssumption
    <3>2. MaxIdx(Norm(env, p)) \in Nat /\ MaxIdx(p) \in Nat
      BY <2>1, SyntaxAssumption, MaxIdxAssumption
    <3> HIDE DEF c, q
    <3>3. Larger(MaxIdx(c), MaxIdx(q)) \in Nat /\ Larger(MaxIdx(c), MaxIdx(q)) <= k
      BY <1>2, <1>3, <2>2 DEF Larger
    <3>4. th.maxidx \in Nat BY <1>2
    <3> QED BY <1>3, <2>3, <3>1, <3>2, <3>3, <3>4 DEF Larger
  <2>4. PICK i1 \in Instances(env, k, th1), i2 \in Instances(env, k, th2) :
          KeepComposed(i1, i2, Prems(i1.prop), i)
    BY <1>9 DEF Resolve
  <2>5. WellMade(i1) /\ ThmMaxIdx(i1) BY <1>1, <1>3, <2>1, <2>3, InstanceCovers
  <2>6. WellMade(i2) /\ ThmMaxIdx(i2) BY <1>1, <1>3, <2>1, <2>3, InstanceCovers
  <2> QED BY <2>4, <2>5, <2>6, PremsAtMost, ComposedCovers
<1> QED BY <1>4, <1>7, <1>8, <1>9

LEMMA SubstPremiseCovers ==
  ASSUME AllWellMade, MaxidxCovers, NEW theq \in thms, NEW state \in thms,
         subst_premise(theq, state)
  PROVE  MaxidxCovers'
<1>1. PICK i \in 1..Len(Prems(state.prop)) :
        /\ IsEquals(theq.prop)
        /\ Splice(<<Rhs(theq.prop)>>, Prems(state.prop), i) \in PremList
        /\ Keep(Combined(state, theq,
                         Chain(Splice(<<Rhs(theq.prop)>>, Prems(state.prop), i), Concl(state.prop))))
  BY DEF subst_premise
<1> DEFINE r == Rhs(theq.prop)
           p == Chain(Splice(<<r>>, Prems(state.prop), i), Concl(state.prop))
           n == Larger(state.maxidx, theq.maxidx)
<1>2. p \in Prop BY <1>1, KeepProp DEF Combined
<1>3. /\ WellMade(state) /\ ThmMaxIdx(state) /\ state.prop \in Prop
      /\ MaxIdx(state.prop) \in Nat /\ state.maxidx \in Nat /\ theq.maxidx \in Nat
  BY WellMadeParts DEF AllWellMade, MaxidxCovers
<1>4. r \in Term /\ MaxIdx(r) \in Nat /\ MaxIdx(r) <= theq.maxidx BY <1>1, SidesAtMost
<1>5. n \in Nat BY <1>3, LargerBounds
<1>6. MaxIdxAtMost(state.prop, n) BY <1>3, LargerLeast DEF ThmMaxIdx, MaxIdxAtMost
<1>7. MaxIdx(r) <= n BY <1>3, <1>4, LargerLeast
<1> HIDE DEF n, r
<1>8. <<r>> \in Seq(Term) /\ ListAtMost(<<r>>, n) BY <1>4, <1>7 DEF ListAtMost, MaxIdxAtMost
<1>9. MaxIdx(p) <= n
  BY <1>1, <1>2, <1>3, <1>5, <1>6, <1>8, ReplaceAtMost DEF MaxIdxAtMost, r
<1> QED BY <1>1, <1>9, KeepCombinedCovers DEF n, r

LEMMA ResolutionCovers ==
  ASSUME AllWellMade, MaxidxCovers, CoveredResolutionStep PROVE MaxidxCovers'
<1>1. ASSUME NEW th \in thms, NEW env \in Env, Covers(env), instantiate(env, th)
      PROVE  MaxidxCovers'
  <2> DEFINE m == EnvMaxIdx(env)
  <2>1. PICK inst \in Instances(env, m, th) : Keep(inst) BY <1>1 DEF instantiate
  <2>2. WellMade(th) /\ ThmMaxIdx(th) /\ th.maxidx \in Nat
    BY WellMadeParts DEF AllWellMade, MaxidxCovers
  <2>3. m \in Nat BY EnvMaxIdxAssumption
  <2>4. ASSUME NEW p \in Prop, MaxIdx(p) <= th.maxidx
        PROVE  MaxIdx(Norm(env, p)) <= Larger(th.maxidx, m)
    <3>1. MaxIdx(Norm(env, p)) <= Larger(MaxIdx(p), m) BY <1>1 DEF Covers
    <3>2. MaxIdx(Norm(env, p)) \in Nat /\ MaxIdx(p) \in Nat
      BY SyntaxAssumption, MaxIdxAssumption
    <3> HIDE DEF m
    <3> QED BY <2>2, <2>3, <2>4, <3>1, <3>2 DEF Larger
  <2>5. ThmMaxIdx(inst) BY <2>2, <2>3, <2>4, InstanceCovers
  <2> QED BY <2>1, <2>5, KeepCovers
<1> QED BY <1>1, BicomposeCovers, SubstPremiseCovers DEF CoveredResolutionStep

LEMMA SortCovers == ASSUME AllWellMade, MaxidxCovers, SortStep PROVE MaxidxCovers'
<1>1. ASSUME NEW th \in thms, NEW s \in Sort, add_shyp(th, s) PROVE MaxidxCovers'
  <2> DEFINE res == [th EXCEPT !.shyps = @ \union {s}, !.sorts = @ \union {s}]
  <2>1. th \in Thm /\ ThmMaxIdx(th) /\ Keep(res)
    BY <1>1 DEF AllWellMade, WellMade, MaxidxCovers, add_shyp
  <2>2. res.hyps = th.hyps /\ res.prop = th.prop /\ res.maxidx = th.maxidx BY <2>1 DEF Thm
  <2> HIDE DEF res
  <2>3. ThmMaxIdx(res) BY <2>1, <2>2 DEF ThmMaxIdx
  <2> QED BY <2>1, <2>3, KeepCovers
<1>2. ASSUME NEW th \in thms, strip_shyps(th) PROVE MaxidxCovers'
  <2> DEFINE res == [th EXCEPT !.shyps = {}, !.sorts = {}]
  <2>1. th \in Thm /\ ThmMaxIdx(th) /\ Keep(res)
    BY <1>2 DEF AllWellMade, WellMade, MaxidxCovers, strip_shyps
  <2>2. res.hyps = th.hyps /\ res.prop = th.prop /\ res.maxidx = th.maxidx BY <2>1 DEF Thm
  <2> HIDE DEF res
  <2>3. ThmMaxIdx(res) BY <2>1, <2>2 DEF ThmMaxIdx
  <2> QED BY <2>1, <2>3, KeepCovers
<1> QED BY <1>1, <1>2 DEF SortStep

\* The conditions only leave steps out.
LEMMA CoveredIsCore == CoveredNext => CoreNext
<1>1. CoveredLogicStep => LogicStep BY DEF CoveredLogicStep, LogicStep
<1>2. CoveredResolutionStep => ResolutionStep BY DEF CoveredResolutionStep, ResolutionStep
<1> QED BY <1>1, <1>2 DEF CoveredNext, CoreNext

LEMMA NextCovers ==
  AllWellMade /\ MaxidxCovers /\ [CoveredNext]_vars => AllWellMade' /\ MaxidxCovers'
<1> SUFFICES ASSUME AllWellMade, MaxidxCovers, [CoveredNext]_vars
             PROVE  AllWellMade' /\ MaxidxCovers'
  OBVIOUS
<1>1. AllWellMade' BY NextWellMade, CoveredIsCore
<1>2. ASSUME UNCHANGED vars PROVE MaxidxCovers'
  <2>1. thms' = thms BY <1>2 DEF vars
  <2>2. \A th \in thms' : ThmMaxIdx(th) BY <2>1 DEF MaxidxCovers
  <2> QED BY <2>2 DEF MaxidxCovers, ThmMaxIdx, MaxIdxAtMost
<1>3. ASSUME CoveredNext PROVE MaxidxCovers'
  <2>1. CASE AxiomStep BY <2>1, AxiomCovers
  <2>2. CASE EqualityStep BY <2>2, EqualityCovers
  <2>3. CASE CoveredLogicStep BY <2>3, LogicCovers
  <2>4. CASE CoveredResolutionStep BY <2>4, ResolutionCovers
  <2>5. CASE SortStep BY <2>5, SortCovers
  <2> QED BY <1>3, <2>1, <2>2, <2>3, <2>4, <2>5 DEF CoveredNext
<1> QED BY <1>1, <1>2, <1>3

-----------------------------------------------------------------------------
(* The theorems. *)

\* The client starts with no theorem at all.
LEMMA InitHolds == Init => AllWellMade /\ Sound /\ MaxidxCovers
BY DEF Init, AllWellMade, Sound, MaxidxCovers

\* Whatever the rules of CoreNext are called with, the client holds well-formed
\* theorem values only: propositions over propositions.
THEOREM TypeCorrect == CoreSpec => []TypeOK
<1>1. AllWellMade => TypeOK BY DEF AllWellMade, WellMade, TypeOK
<1> QED BY <1>1, InitHolds, NextWellMade, PTL DEF CoreSpec

\* Whatever the rules of CoreNext are called with, the oracles of a theorem name
\* exactly the admissions it was derived from, and it carries every sort hypothesis
\* it inherited: union_oracles and union_shyps lose nothing in a derivation of any
\* length.
THEOREM FootprintCorrect == CoreSpec => []FootprintExact
<1>1. AllWellMade => FootprintExact BY DEF AllWellMade, WellMade, FootprintExact
<1> QED BY <1>1, InitHolds, NextWellMade, PTL DEF CoreSpec

\* In a derivation of any length in which the comparisons, binders, bindings and
\* unifiers a rule relies on are right about the terms of the step, what is derived
\* follows from its hypotheses once the propositions admitted under the oracles it
\* names are valid: hypotheses are only discharged, united, generalised over and
\* resolved in ways that keep the meaning.
THEOREM Soundness == FaithfulSpec => []Sound
BY InitHolds, NextSound, PTL DEF FaithfulSpec

\* In a derivation of any length that neither discharges a variant with a larger
\* index than the theorem's nor instantiates by an environment that does not know
\* the indices it binds to, the maxidx of a theorem bounds every index of its
\* proposition and its hypotheses.
THEOREM MaxidxCorrect == CoveredSpec => []MaxidxCovers
BY InitHolds, NextCovers, PTL DEF CoveredSpec
===============================================================================
