-------------------------------- MODULE Metis --------------------------------
(***************************************************************************)
(* tools/metis.rs and tools/reconstruct.rs: the resolution prover, and the *)
(* replay of a proof an external prover found.                             *)
(*                                                                         *)
(* A term is the chain of its premises and what it concludes: an atom, a   *)
(* name of its own, ("False"), ("conj", A, B), ("disj", A, B),             *)
(* ("equals", A, B) for A == B or ("eq", A, B) for A = B.  There are no    *)
(* variables to instantiate: two terms unify when they are equal.  A       *)
(* clause is a theorem; its identity is its place in the list.  Among      *)
(* queued clauses of equal weight any may be picked: the order is that of  *)
(* a binary heap.                                                          *)
(***************************************************************************)
EXTENDS Integers, Sequences, FiniteSets, SequencesExt

CONSTANTS
  Problems,         \* records: the premises, a sequence of terms, the goal, and the
                    \* proofs of it that come from outside, sequences of steps
  Literals,         \* the terms clauses are made of, with the terms in them
  depth(_),         \* how deep a term is
  max_prover_steps, \* 10000 in the code: inferences tried before giving up
  max_clauses       \* 5000 in the code: clauses held before giving up

VARIABLES
  problem,          \* the problem being worked on
  clauses,          \* all clauses, by identity
  active,           \* the identities of the clauses picked, in order
  passive,          \* the identities queued
  steps,            \* inferences tried
  script,           \* the proof replayed
  at,               \* the steps of it that are done
  proven,           \* the named theorems: records of name and theorem, the later first
  metis,            \* "idle", "proving", "refuted", "replaying", "reconstructing",
                    \* "given up" or "returned"
  returned          \* the theorem returned, or none

metisVars == <<problem, clauses, active, passive, steps, script, at, proven, metis, returned>>

Literal(head) == [prems |-> <<>>, concl |-> head]
False == Literal(<<"False">>)
Imp(a, b) == [prems |-> <<a>> \o b.prems, concl |-> b.concl]
is_imp(t) == t.prems # <<>>
antecedent(t) == Head(t.prems)
consequent(t) == [prems |-> Tail(t.prems), concl |-> t.concl]
is_equation(t) == ~is_imp(t) /\ t.concl[1] = "equals"
is_equality(t) == ~is_imp(t) /\ t.concl[1] \in {"equals", "eq"}   \* or one of HOL's
Thm(hyps, prop) == [hyps |-> hyps, prop |-> prop]
Nothing == <<>>
Elems(s) == {s[i] : i \in DOMAIN s}
First(ids) == CHOOSE i \in ids : \A j \in ids : i <= j
Nth(ids, n) == {i \in ids : Cardinality({j \in ids : j < i}) = n - 1}

premises(th) == th.prop.prems
conclusion(th) == Literal(th.prop.concl)
Chain(prems, concl) == [prems |-> prems, concl |-> concl.concl]

\* The terms a term is made of: the parts of a chain and the rest of it, or the two sides
\* of a connective.
Components(t) ==
  IF is_imp(t) THEN Elems(t.prems) \union {Literal(t.concl), consequent(t)}
  ELSE IF t.concl[1] \in {"conj", "disj", "equals", "eq"} THEN {t.concl[2], t.concl[3]} ELSE {}

\* Terms are finite, and with a term there are the terms it is made of.
ASSUME LiteralsAssumption ==
  /\ False \in Literals
  /\ \A t \in Literals :
       /\ t = [prems |-> t.prems, concl |-> t.concl] /\ t.prems \in Seq(Literals)
       /\ Components(t) \subseteq Literals
       /\ depth(t) \in Nat /\ \A p \in Components(t) : depth(p) < depth(t)

\* Goals can be negated, and so can the conclusion of a goal.
ASSUME ProblemsAssumption ==
  \A pb \in Problems :
    /\ pb.premises \in Seq(Literals) /\ pb.goal \in Literals /\ Imp(pb.goal, False) \in Literals
    /\ is_imp(pb.goal) => Imp(consequent(pb.goal), False) \in Literals
    /\ pb.proofs \subseteq Seq([name : Nat, rule : STRING, uses : Seq(Nat)])

ASSUME LimitsAssumption == max_prover_steps \in Nat /\ max_clauses \in Nat

-----------------------------------------------------------------------------
(* The kernel's rules on such theorems; no theorem stands for a failure. *)

assume(t) == Thm({t}, t)
implies_elim(major, minor) ==
  IF is_imp(major.prop) /\ antecedent(major.prop) = minor.prop
  THEN {Thm(major.hyps \union minor.hyps, consequent(major.prop))} ELSE {}
implies_intr(t, th) == IF t \in th.hyps THEN {Thm(th.hyps \ {t}, Imp(t, th.prop))} ELSE {}
\* The premises of the first theorem are forgotten.
bicompose_forgetful(th1, th2, i) ==
  IF i <= Len(premises(th2)) /\ conclusion(th1) = premises(th2)[i]
  THEN {Thm(th1.hyps \union th2.hyps, Chain(RemoveAt(premises(th2), i), conclusion(th2)))}
  ELSE {}

bicompose(th1, th2, i) ==
  IF i <= Len(premises(th2)) /\ conclusion(th1) = premises(th2)[i]
  THEN {Thm(th1.hyps \union th2.hyps,
            Chain(SubSeq(premises(th2), 1, i - 1) \o premises(th1)
                    \o SubSeq(premises(th2), i + 1, Len(premises(th2))), conclusion(th2)))}
  ELSE {}
subst_premise(eq, th, i) ==
  IF is_equation(eq.prop) /\ i <= Len(premises(th)) /\ eq.prop.concl[2] = premises(th)[i]
  THEN {Thm(eq.hyps \union th.hyps,
            Chain([premises(th) EXCEPT ![i] = eq.prop.concl[3]], conclusion(th)))}
  ELSE {}

-----------------------------------------------------------------------------
(* Clauses. *)

\* Symbols of a term: the name of each connective and its two applications count 3.
symbols[t \in Literals] ==
  LET head == IF Len(t.concl) = 1 THEN 1 ELSE 3 + symbols[t.concl[2]] + symbols[t.concl[3]]
      upto[k \in 0..Len(t.prems)] == IF k = 0 THEN head ELSE upto[k - 1] + 3 + symbols[t.prems[k]]
  IN upto[Len(t.prems)]
count_symbols(t) == symbols[t]
compute_weight(th) ==
  LET upto[k \in 0..Len(premises(th))] ==
        IF k = 0 THEN count_symbols(conclusion(th))
        ELSE upto[k - 1] + count_symbols(premises(th)[k]) + 10
  IN upto[Len(premises(th))]
IsContradiction(th) == th.prop = False
is_trivial_clause(th) == conclusion(th) \in Elems(premises(th))

\* Two clauses with the same premises, in any order, and conclusion are one.
SameSignature(th1, th2) ==
  /\ conclusion(th1) = conclusion(th2)
  /\ Len(premises(th1)) = Len(premises(th2))
  /\ \A p \in Elems(premises(th1)) :
       Cardinality({i \in DOMAIN premises(th1) : premises(th1)[i] = p})
         = Cardinality({i \in DOMAIN premises(th2) : premises(th2)[i] = p})

\* A prover: its clauses, queue and count.
add_clause(pr, th) ==
  IF \E i \in DOMAIN pr.clauses : SameSignature(pr.clauses[i], th) THEN pr
  ELSE [clauses |-> Append(pr.clauses, th), passive |-> pr.passive \union {Len(pr.clauses) + 1},
        steps |-> pr.steps]
AddAll(pr, ths) ==
  LET after[k \in 0..Len(ths)] == IF k = 0 THEN pr ELSE add_clause(after[k - 1], ths[k])
  IN after[Len(ths)]
AddNontrivial(pr, results) ==
  LET kept == {th \in results : ~is_trivial_clause(th)}
  IN IF kept = {} THEN pr ELSE add_clause(pr, CHOOSE th \in kept : TRUE)

\* The clauses of a formula: of a premise that is an implication, with nothing but
\* False to conclude, its own parts; else the premises with each conjunct.
to_cnf(t) ==
  LET nested == {i \in DOMAIN t.prems : is_imp(t.prems[i])}
      Inner(k) == t.prems[CHOOSE i \in Nth(nested, k) : TRUE]
  IN IF t.concl = False.concl /\ nested # {}
     THEN [k \in 1..(2 * Cardinality(nested)) |->
             IF k % 2 = 1 THEN <<antecedent(Inner((k + 1) \div 2))>>
             ELSE <<consequent(Inner(k \div 2)), False>>]
     ELSE IF t.concl[1] = "conj" THEN <<Append(t.prems, t.concl[2]), Append(t.prems, t.concl[3])>>
     ELSE <<Append(t.prems, Literal(t.concl))>>

\* The literals before the last one are the premises; what the last one concludes is concluded.
ChainOf(lits) == [prems |-> Front(lits) \o Last(lits).prems, concl |-> Last(lits).concl]
clause_to_thm(lits) == assume(ChainOf(lits))
negated_clauses(goal) ==
  LET cnf == to_cnf(Imp(goal, False)) IN [i \in DOMAIN cnf |-> clause_to_thm(cnf[i])]

-----------------------------------------------------------------------------
(* Inferences.  Each is counted before it is tried, and the one that goes  *)
(* beyond the limit ends the call it is part of.                           *)

Tried(pr) == [pr EXCEPT !.steps = @ + 1]
Exhausted(pr) == pr.steps > max_prover_steps

\* Both are names, and then the same one, or both are applications.
is_name(t) == ~is_imp(t) /\ Len(t.concl) = 1
structural_match(t, u) == IF is_name(t) THEN t = u ELSE ~is_name(u)

\* The leading premises equal to a are eliminated, and a is put in front again.
EliminateStep(th, a) ==
  IF th.prop = a THEN assume(a)
  ELSE IF implies_elim(th, assume(a)) = {} THEN th
  ELSE CHOOSE r \in implies_elim(th, assume(a)) : TRUE
EliminateFront(th, a, n) ==
  LET after[k \in 0..n] == IF k = 0 THEN th ELSE EliminateStep(after[k - 1], a)
  IN after[n]
factor(th, i) ==
  implies_intr(premises(th)[i], EliminateFront(th, premises(th)[i], Len(premises(th))))

\* The pairs of places, in the order of the two loops.
Pairs(n) == {p \in (1..n) \X (1..n) : p[1] < p[2]}
NthPair(n, k) ==
  {p \in Pairs(n) :
     Cardinality({q \in Pairs(n) : q[1] < p[1] \/ (q[1] = p[1] /\ q[2] < p[2])}) = k - 1}

\* An inference: the rule, the clauses and where in its call it comes.  In paramodulation
\* the equation is looked for among the premises, and a theorem with premises is not itself
\* an equation: nothing is ever derived.
Attempt(rule, c1, c2, k) == [rule |-> rule, left |-> c1, right |-> c2, nth |-> k]
Inferred(a) ==
  LET th1 == clauses[a.left]
      th2 == clauses[a.right]
  IN CASE a.rule = "resolution" ->
            IF structural_match(conclusion(th1), premises(th2)[a.nth])
            THEN bicompose(th1, th2, a.nth) ELSE {}
       [] a.rule = "paramodulation" ->
            IF is_equality(premises(th1)[a.nth])
            THEN UNION {subst_premise(th1, th2, j) : j \in DOMAIN premises(th2)} ELSE {}
       [] OTHER ->
            UNION {factor(th1, p[1]) : p \in {q \in NthPair(Len(premises(th1)), a.nth) :
                                                premises(th1)[q[1]] = premises(th1)[q[2]]}}

\* One call: its inferences one after the other.
Infer(pr, a) ==
  IF Exhausted(Tried(pr)) THEN Tried(pr) ELSE AddNontrivial(Tried(pr), Inferred(a))
TryAll(pr, attempts) ==
  LET after[k \in 0..Len(attempts)] ==
        IF k = 0 THEN pr
        ELSE IF k > 1 /\ Exhausted(after[k - 1]) THEN after[k - 1]
        ELSE Infer(after[k - 1], attempts[k])
  IN after[Len(attempts)]

try_all_resolutions(pr, c1, c2) ==
  TryAll(pr, [i \in 1..Len(premises(clauses[c2])) |-> Attempt("resolution", c1, c2, i)])
try_all_paramodulations(pr, c1, c2) ==
  TryAll(pr, [i \in 1..Len(premises(clauses[c1])) |-> Attempt("paramodulation", c1, c2, i)])
try_factor(pr, c) ==
  LET n == Len(premises(clauses[c]))
  IN TryAll(pr, [k \in 1..((n * (n - 1)) \div 2) |-> Attempt("factoring", c, c, k)])

\* Everything the given clause is tried with, but itself.
TryBoth(pr, given, id) ==
  IF id = given THEN pr
  ELSE try_all_paramodulations(
         try_all_paramodulations(
           try_all_resolutions(try_all_resolutions(pr, given, id), id, given), given, id), id, given)
InferWith(given, pr) ==
  LET others == Append(active, given)
      after[k \in 0..Len(others)] == IF k = 0 THEN pr ELSE TryBoth(after[k - 1], given, others[k])
  IN try_factor(after[Len(others)], given)

-----------------------------------------------------------------------------
(* A refutation is turned into a theorem: the negated goal is discharged,  *)
(* or the first of its clauses that was used, or nothing.                  *)

discharge(th, goal) ==
  LET negated == negated_clauses(goal)
      candidates == <<Imp(goal, False)>> \o [i \in DOMAIN negated |-> negated[i].prop]
      used == {i \in DOMAIN candidates : candidates[i] \in th.hyps}
  IN IF used = {} THEN th ELSE CHOOSE r \in implies_intr(candidates[First(used)], th) : TRUE

Prover == [clauses |-> clauses, passive |-> passive, steps |-> steps]
NewProver == [clauses |-> <<>>, passive |-> {}, steps |-> 0]
Becomes(pr) == clauses' = pr.clauses /\ passive' = pr.passive /\ steps' = pr.steps

Contradictions == {i \in DOMAIN clauses : IsContradiction(clauses[i])}
PremiseThms(pb) == [i \in DOMAIN pb.premises |-> Thm({}, pb.premises[i])]

MetisInit ==
  /\ problem = [premises |-> <<>>, goal |-> False, proofs |-> {}]
  /\ clauses = <<>> /\ active = <<>> /\ passive = {} /\ steps = 0
  /\ script = <<>> /\ at = 0 /\ proven = <<>> /\ metis = "idle" /\ returned = Nothing

\* prove, up to the loop, after add_premises.
StartProving(pb) ==
  /\ \E pr \in {AddAll(NewProver, PremiseThms(pb) \o negated_clauses(pb.goal))} : Becomes(pr)
  /\ metis' = "proving"

prove(pb) ==
  /\ problem' = pb
  /\ StartProving(pb)
  /\ UNCHANGED <<active, script, at, proven, returned>>

\* The provers' answer is not used: if it is that the goal is a theorem, metis proves it.
sledgehammer_prove_lcf(pb) == prove(pb)

\* With steps, which are not looked at, the negated goal is one clause.
reconstruct_atp_proof(pb, sc) ==
  /\ problem' = pb
  /\ IF sc = <<>> THEN StartProving(pb)
     ELSE /\ \E pr \in {AddAll(NewProver, Append(PremiseThms(pb), assume(Imp(pb.goal, False))))} : Becomes(pr)
          /\ metis' = "proving"
  /\ UNCHANGED <<active, script, at, proven, returned>>

\* What the queue may give next.
Lightest(ids) == {i \in ids : \A j \in ids : compute_weight(clauses[i]) <= compute_weight(clauses[j])}

\* One turn of the loop.
given_clause(given) ==
  /\ metis = "proving" /\ steps < max_prover_steps /\ Contradictions = {}
  /\ given \in Lightest(passive)
  /\ \E pr \in {InferWith(given, Tried([Prover EXCEPT !.passive = @ \ {given}]))} :
       /\ Becomes(pr)
       /\ metis' = IF \E i \in DOMAIN pr.clauses : IsContradiction(pr.clauses[i]) THEN "refuted"
                   ELSE IF Len(pr.clauses) > max_clauses THEN "given up"
                   ELSE "proving"
  /\ active' = Append(active, given)
  /\ UNCHANGED <<problem, script, at, proven, returned>>

\* The loop ends: a contradiction was there before, the queue is empty, or the
\* limit is reached.
end_loop ==
  /\ metis = "proving"
  /\ steps >= max_prover_steps \/ Contradictions # {} \/ passive = {}
  /\ metis' = IF steps < max_prover_steps /\ Contradictions # {} THEN "refuted" ELSE "given up"
  /\ UNCHANGED <<problem, clauses, active, passive, steps, script, at, proven, returned>>

extract_proof ==
  /\ metis = "refuted"
  /\ returned' = discharge(clauses[First(Contradictions)], problem.goal)
  /\ metis' = "returned"
  /\ UNCHANGED <<problem, clauses, active, passive, steps, script, at, proven>>

-----------------------------------------------------------------------------
(* A proof from outside: steps of name, rule and the names used.           *)

NamedPremises(pb) == [i \in DOMAIN pb.premises |-> [name |-> i, thm |-> Thm({}, pb.premises[i])]]
Known(name) == {i \in DOMAIN proven : proven[i].name = name}
\* The n-th of the theorems a step uses that are known, if there are as many.
Used(step, n) ==
  LET known == {i \in DOMAIN step.uses : Known(step.uses[i]) # {}}
  IN {proven[First(Known(step.uses[i]))].thm : i \in Nth(known, n)}

\* The first that can be derived, at the places in turn.
FirstOf(results) ==
  LET some == {i \in DOMAIN results : results[i] # {}}
  IN IF some = {} THEN {} ELSE results[First(some)]

resolution(th1, th2) ==
  FirstOf([i \in DOMAIN premises(th2) |-> bicompose(th1, th2, i)]
            \o [i \in DOMAIN premises(th1) |-> bicompose(th2, th1, i)])

\* The clause is composed with itself, at every premise but the first.
factoring(th) == FirstOf([j \in 1..(Len(premises(th)) - 1) |-> bicompose(th, th, j + 1)])

paramodulation(eq, target) ==
  IF \E t \in Elems(premises(eq)) \union {conclusion(eq)} : is_equality(t)
  THEN FirstOf([i \in DOMAIN premises(target) |-> subst_premise(eq, target, i)]) ELSE {}

\* The rules that are not replayed are taken to give their first theorem again.
replay_rule(rule, firsts, seconds) ==
  CASE rule = "resolution" /\ seconds # {} ->
         UNION {resolution(th1, th2) : th1 \in firsts, th2 \in seconds}
    [] rule = "paramodulation" /\ seconds # {} ->
         UNION {paramodulation(th1, th2) : th1 \in firsts, th2 \in seconds}
    [] rule = "factoring" -> UNION {factoring(th) : th \in firsts}
    [] OTHER -> firsts

reconstruct_rule(rule, firsts, seconds) ==
  CASE rule = "resolution" /\ seconds # {} ->
         UNION {implies_elim(th1, th2) : th1 \in firsts, th2 \in seconds}
    [] rule = "paramodulation" /\ seconds # {} ->
         UNION {subst_premise(th1, th2, 1) : th1 \in firsts, th2 \in seconds}
    [] OTHER -> firsts

\* Of the last theorem: its conclusion is the goal, or a premise of it is.
MatchGoal(th, goal) ==
  IF conclusion(th) = goal \/ goal \in Elems(premises(th)) THEN {th} ELSE {}

\* Either reconstruction starts from the premises.
StartSteps(pb, sc, how) ==
  /\ metis' = how /\ script' = sc /\ at' = 0 /\ proven' = NamedPremises(pb)

\* Without steps the prover is asked.
reconstruct_from_atp(pb, sc) ==
  /\ problem' = pb
  /\ IF sc = <<>> THEN StartProving(pb) /\ UNCHANGED <<script, at, proven>>
     ELSE StartSteps(pb, sc, "replaying") /\ UNCHANGED <<clauses, passive, steps>>
  /\ UNCHANGED <<active, returned>>

NextStep == script[at + 1]
Replayed == replay_rule(NextStep.rule, Used(NextStep, 1), Used(NextStep, 2))
Reconstructed == reconstruct_rule(NextStep.rule, Used(NextStep, 1), Used(NextStep, 2))
Take(results) ==
  /\ \E th \in results : proven' = <<[name |-> NextStep.name, thm |-> th]>> \o proven
  /\ at' = at + 1
  /\ UNCHANGED <<metis, script>>

replay_step ==
  /\ metis = "replaying" /\ at < Len(script)
  /\ IF Replayed = {} THEN StartSteps(problem, script, "reconstructing")
     ELSE Take(Replayed)
  /\ UNCHANGED <<problem, clauses, active, passive, steps, returned>>

replay_ends ==
  /\ metis = "replaying" /\ at = Len(script)
  /\ IF MatchGoal(proven[1].thm, problem.goal) = {}
     THEN StartSteps(problem, script, "reconstructing") /\ UNCHANGED returned
     ELSE /\ metis' = "returned" /\ returned' = proven[1].thm
          /\ UNCHANGED <<script, at, proven>>
  /\ UNCHANGED <<problem, clauses, active, passive, steps>>

reconstruct_step ==
  /\ metis = "reconstructing" /\ at < Len(script)
  /\ IF Reconstructed = {} THEN metis' = "given up" /\ UNCHANGED <<script, at, proven>>
     ELSE Take(Reconstructed)
  /\ UNCHANGED <<problem, clauses, active, passive, steps, returned>>

\* Whatever the last step gave is returned.
reconstruct_ends ==
  /\ metis = "reconstructing" /\ at = Len(script)
  /\ metis' = "returned" /\ returned' = proven[1].thm
  /\ UNCHANGED <<problem, clauses, active, passive, steps, script, at, proven>>

MetisNext ==
  \/ metis = "idle" /\ \E pb \in Problems : prove(pb) \/ sledgehammer_prove_lcf(pb)
                         \/ \E sc \in pb.proofs : reconstruct_from_atp(pb, sc) \/ reconstruct_atp_proof(pb, sc)
  \/ metis = "proving" /\ \E given \in passive : given_clause(given)
  \/ end_loop \/ extract_proof
  \/ replay_step \/ replay_ends \/ reconstruct_step \/ reconstruct_ends

MetisSpec == MetisInit /\ [][MetisNext]_metisVars

-----------------------------------------------------------------------------
(* What terms say, given the atoms that are true. *)

Atoms == {t.concl[1] : t \in {u \in Literals : Len(u.concl) = 1}} \ {"False"}
Valuations == SUBSET Atoms

\* The valuations a term is true for.
true_for[t \in Literals] ==
  IF is_imp(t)
  THEN {val \in Valuations :
          (\A i \in DOMAIN t.prems : val \in true_for[t.prems[i]]) => val \in true_for[Literal(t.concl)]}
  ELSE CASE t.concl[1] = "conj" -> true_for[t.concl[2]] \intersect true_for[t.concl[3]]
         [] t.concl[1] = "disj" -> true_for[t.concl[2]] \union true_for[t.concl[3]]
         [] t.concl[1] \in {"equals", "eq"} ->
              {val \in Valuations : val \in true_for[t.concl[2]] <=> val \in true_for[t.concl[3]]}
         [] t.concl[1] = "False" -> {}
         [] OTHER -> {val \in Valuations : t.concl[1] \in val}

Holds(t, val) ==
  (\A i \in DOMAIN t.prems : val \in true_for[t.prems[i]]) => val \in true_for[Literal(t.concl)]
ThmTrue(th, val) == (\A h \in th.hyps : Holds(h, val)) => Holds(th.prop, val)
Models == {val \in Valuations : \A i \in DOMAIN problem.premises : Holds(problem.premises[i], val)}

\* Every clause, every step of a replayed proof and every theorem returned follows from the
\* premises; and when the negated goal is refuted, so does the goal.
FoundIsEntailed ==
  \A val \in Models :
    /\ \A i \in DOMAIN clauses : ThmTrue(clauses[i], val)
    /\ \A i \in DOMAIN proven : ThmTrue(proven[i].thm, val)
    /\ metis = "returned" => ThmTrue(returned, val)
    /\ metis = "refuted" => Holds(problem.goal, val)
===============================================================================
