-------------------------------- MODULE Method --------------------------------
(***************************************************************************)
(* The tactics and the search methods of isar/method.rs, on closed rule    *)
(* statements.                                                             *)
(*                                                                         *)
(* The kernel's rules, as the methods use them, core/tactic.rs and the     *)
(* simplifier come first.  A statement is a sequence of premises and a     *)
(* conclusion, the premises statements themselves, and a theorem derives   *)
(* one from a set of hypotheses.  Without variables, unifying and matching *)
(* are equality.  A tactic takes a state to the sequence of the states it  *)
(* may become; none means it failed.  Subgoals count from 1 here and from  *)
(* 0 in the code.                                                          *)
(*                                                                         *)
(* A search method takes a state and facts to the states it may become.  E *)
(* is what a method reads of its thread: the database, the simplifier kept *)
(* for the thread, and what is left of three allowances: tired, when       *)
(* automatic search has reached its limit; spent, when the search budget   *)
(* is used up; expired, when the deadline is past.  They are taken to      *)
(* stand still while one lemma is checked.                                 *)
(***************************************************************************)
EXTENDS Sequences, SequencesExt, FiniteSets, Naturals, TLC

CONSTANTS CoinductNames, InductNames    \* the names these methods look for

Rule(prems, c) == [prems |-> prems, concl |-> c]
Fact(c) == Rule(<<>>, c)
Equation(p, q) == <<"eq", p, q>>

\* elim (history) marks what elimination resolution had a hand in: it solves a
\* premise by a fact whose hypotheses it does not keep.
Thm(hyps, prop, oracles) == [hyps |-> hyps, prop |-> prop, oracles |-> oracles, elim |-> FALSE]
Prems(thm) == thm.prop.prems
NPrems(thm) == Len(Prems(thm))
Closed(thm) == Prems(thm) = <<>>
FirstClosed(thms) == SelectSeq(thms, Closed)

assume(p) == Thm({p}, p, {})
admit(p) == Thm({}, p, {"admitted"})
trivial(p) == Thm({}, Rule(<<p>>, p.concl), {})
implies_intr(p, thm) ==
    [thm EXCEPT !.hyps = @ \ {p}, !.prop.prems = <<p>> \o @]

\* Mutant: the hypotheses of the reason are forgotten.
replace_unsupported(thm, st, i, ps) ==
    [st EXCEPT !.oracles = @ \cup thm.oracles, !.elim = @ \/ thm.elim,
               !.prop.prems = SubSeq(@, 1, i - 1) \o ps \o SubSeq(@, i + 1, Len(@))]

\* The i-th premise of st replaced by the premises ps, for a reason given by thm.
replace(thm, st, i, ps) ==
    [st EXCEPT !.hyps = @ \cup thm.hyps, !.oracles = @ \cup thm.oracles, !.elim = @ \/ thm.elim,
               !.prop.prems = SubSeq(@, 1, i - 1) \o ps \o SubSeq(@, i + 1, Len(@))]

\* The functions below give the sequence of the theorems made: one, or none.
bicompose(match, thm, st, i) ==
    IF i > NPrems(st) THEN <<>>
    ELSE IF ~match /\ thm.prop = Prems(st)[i] THEN <<replace(thm, st, i, <<>>)>>
    ELSE IF Fact(thm.prop.concl) = Prems(st)[i] THEN <<replace(thm, st, i, Prems(thm))>>
    ELSE <<>>

\* The first premise of the rule is found among the hypotheses of the state,
\* their premises and the facts.
Majors(st, facts) ==
    st.hyps \cup UNION {ToSet(h.prems) : h \in st.hyps} \cup {facts[j].prop : j \in DOMAIN facts}

bicompose_eresolve(thm, st, i, facts) ==
    IF i > NPrems(st) \/ Prems(thm) = <<>> THEN <<>>
    ELSE IF Fact(thm.prop.concl) = Prems(st)[i] /\ Prems(thm)[1] \in Majors(st, facts)
    THEN <<[replace(thm, st, i, Tail(Prems(thm))) EXCEPT !.elim = TRUE]>>
    ELSE <<>>

subst_premise(eq, st, i) ==
    IF Prems(eq) = <<>> /\ eq.prop.concl[1] = "eq" /\ eq.prop.concl[2] = Prems(st)[i]
    THEN <<replace(eq, st, i, <<eq.prop.concl[3]>>)>> ELSE <<>>

symmetric(thm) ==
    IF Prems(thm) = <<>> /\ thm.prop.concl[1] = "eq"
    THEN [thm EXCEPT !.prop = Fact(Equation(thm.prop.concl[3], thm.prop.concl[2]))] ELSE thm
-----------------------------------------------------------------------------
\* Tactics and the simplifier.
assume_tac(st) ==
    IF ~Closed(st) /\ Prems(st)[1] \in st.hyps
    THEN bicompose(FALSE, assume(Prems(st)[1]), st, 1) ELSE <<>>

FlatMap(f(_), s) == FoldLeft(LAMBDA acc, x : acc \o f(x), <<>>, s)

resolve_tac(rules, st) == FlatMap(LAMBDA r : bicompose(FALSE, r, st, 1), rules)
eresolve_tac(rules, st) == FlatMap(LAMBDA r : bicompose(TRUE, r, st, 1), rules)

\* make_elim resolves a rule with a fixed proposition V, which the conclusion of
\* no rule is: it gives nothing, and the rules are used as they are.
dresolve_tac(rules, st) == eresolve_tac(rules, st)

\* A rewrite rule is an equation; one with premises is never used, since no
\* condition is ever proved.
from_thm(thm) ==
    IF thm.prop.concl[1] # "eq" THEN <<>>
    ELSE <<[lhs |-> thm.prop.concl[2], rhs |-> thm.prop.concl[3], cond |-> Prems(thm), thm |-> thm]>>
rules_of(thms) == FlatMap(from_thm, thms)

\* rewrite_deep rewrites a term at its root or not at all: the rewriting of
\* subterms starts from rewritings of subterms only, and never begins.  The
\* first rule that applies decides, and nothing happens if it changes nothing.
applies(r, p) == r.lhs = p /\ r.cond = <<>>
rewrite_deep(rules, p) ==
    LET able == SelectSeq(rules, LAMBDA r : applies(r, p))
    IN  IF able = <<>> \/ Head(able).rhs = p THEN <<>> ELSE <<Head(able)>>

\* simp_tac, on subgoal i.
rewrite_premise(rules, st, i) ==
    LET found == rewrite_deep(rules, Prems(st)[i])
    IN  IF found = <<>> THEN <<>> ELSE subst_premise(Head(found).thm, st, i)

\* The first premise that can be rewritten is, again and again.
RECURSIVE simp_rounds(_, _, _)
simp_rounds(rules, st, n) ==
    LET able == {i \in DOMAIN Prems(st) : rewrite_premise(rules, st, i) # <<>>}
    IN  IF n = 0 \/ able = {} THEN st
        ELSE simp_rounds(rules, rewrite_premise(rules, st, CHOOSE i \in able : \A j \in able : i <= j)[1], n - 1)
-----------------------------------------------------------------------------
\* Truth under a set of true atoms, for the properties.
RECURSIVE Holds(_, _)
Holds(p, true) ==
    (\A i \in DOMAIN p.prems : Holds(p.prems[i], true)) =>
        IF p.concl[1] = "eq" THEN Holds(p.concl[2], true) = Holds(p.concl[3], true)
        ELSE p.concl \in true

RECURSIVE AtomsOf(_)
AtomsOf(p) ==
    UNION {AtomsOf(q) : q \in ToSet(p.prems)} \cup
        IF p.concl[1] = "eq" THEN AtomsOf(p.concl[2]) \cup AtomsOf(p.concl[3]) ELSE {p.concl}
Atoms(thm) == AtomsOf(thm.prop) \cup UNION {AtomsOf(h) : h \in thm.hyps}

Entailed(thm, atoms) ==
    \A true \in SUBSET atoms : (\A h \in thm.hyps : Holds(h, true)) => Holds(thm.prop, true)
-----------------------------------------------------------------------------
\* The search methods.


First(s) == IF s = <<>> THEN <<>> ELSE <<Head(s)>>
AnyClosed(states) == FirstClosed(states) # <<>>
Fewer(states, n) == SelectSeq(states, LAMBDA r : NPrems(r) < n)
Resolved(rules, st) == FlatMap(LAMBDA r : bicompose(TRUE, r, st, 1), rules)
Eliminated(rules, st, facts) == FlatMap(LAMBDA r : bicompose_eresolve(r, st, 1, facts), rules)

\* Introduction rules are filed under their conclusion, elimination rules under
\* their first premise; both are looked up by the subgoal.
intro_net(rules, st) == SelectSeq(rules, LAMBDA r : Fact(r.prop.concl) = Prems(st)[1])
elim_net(rules, st) == SelectSeq(rules, LAMBDA r : ~Closed(r) /\ Prems(r)[1] = Prems(st)[1])

\* One round takes the first way that closes the state or brings it forward.
safe_step(E, st, facts) ==
    LET n == NPrems(st)
        intros == intro_net(E.db.rules["safe_intro"], st)
        elims == elim_net(E.db.rules["safe_elim"], st)
        ways == Fewer(Resolved(intros, st), n) \o Fewer(Eliminated(elims, st, facts), n + 3)
                \o Fewer(resolve_tac(intros, st), n) \o Fewer(eresolve_tac(elims, st), n + 3)
    IN  First(ways)

RECURSIVE safe_rounds(_, _, _, _)
safe_rounds(E, st, facts, n) ==
    LET next == IF Closed(st) \/ n = 0 THEN <<>> ELSE safe_step(E, st, facts)
    IN  IF next = <<>> THEN st ELSE safe_rounds(E, next[1], facts, n - 1)
apply_safe_rules(E, st, facts) == safe_rounds(E, st, facts, 8)

\* The unsafe rules, for the methods that search in steps.
unsafe(E, kind, safe) == SelectSeq(E.db.rules[kind], LAMBDA r : ~Contains(E.db.rules[safe], r))
unsafe_steps(E, st, facts) ==
    Resolved(intro_net(unsafe(E, "intro", "safe_intro"), st), st)
        \o Eliminated(elim_net(unsafe(E, "elim", "safe_elim"), st), st, facts)

\* step: safe rules, then an unsafe one, as deep as it takes to close the state.
RECURSIVE step_from(_, _, _, _)
step_from(E, st, depth, facts) ==
    LET safe == apply_safe_rules(E, st, facts)
        solved == FlatMap(LAMBDA r : FirstClosed(step_from(E, r, depth - 1, facts)),
                          unsafe_steps(E, safe, facts))
    IN  IF Closed(safe) \/ depth = 0 \/ solved = <<>> THEN <<safe>> ELSE First(solved)
step_exec(E, st, facts) == step_from(E, st, 11, facts)
-----------------------------------------------------------------------------
\* auto: depth-first over the states resolution leads to, until one is closed.
rules_or_all(net, all) == IF net = <<>> THEN all ELSE net
branch_limit(depth) == IF depth > 6 THEN 3 ELSE IF depth > 3 THEN 8 ELSE 25

\* The states resolution finds, of which the near ones count as branches, and
\* those that must have fewer subgoals.
Upto(s, n) == SubSeq(s, 1, IF Len(s) < n THEN Len(s) ELSE n)
found_from(E, st) ==
    resolve_tac(rules_or_all(intro_net(E.db.rules["intro"], st), E.db.rules["intro"]), st)
        \o eresolve_tac(rules_or_all(elim_net(E.db.rules["elim"], st), E.db.rules["elim"]), st)
reduced_from(E, st) == dresolve_tac(E.db.rules["intro"], st)
branches(E, st, depth) ==
    Upto(Fewer(found_from(E, st), NPrems(st) + 5), branch_limit(depth))
        \o Fewer(reduced_from(E, st), NPrems(st))
closings(E, st) == FirstClosed(assume_tac(st) \o found_from(E, st) \o reduced_from(E, st))

\* At the start of the search every theorem is tried as well, the first thirty.
openings(E, st) ==
    Fewer(resolve_tac(Upto(E.db.all, 30), st), NPrems(st) + 3)

At(states, depth) == [i \in DOMAIN states |-> [state |-> states[i], depth |-> depth]]

\* A state that was closed on the way is the answer; otherwise the stack goes on.
RECURSIVE auto_stack(_, _, _)
auto_stack(E, stack, facts) ==
    IF stack = <<>> THEN <<>>
    ELSE LET top == Head(stack)
             st == apply_safe_rules(E, top.state, facts)
             skip == top.depth > 8 \/ (E.spent /\ top.depth > 1) \/ E.expired
             more == branches(E, st, top.depth) \o assume_tac(st)
         IN  IF skip THEN auto_stack(E, Tail(stack), facts)
             ELSE IF Closed(st) THEN <<st>>
             ELSE IF closings(E, st) # <<>> THEN First(closings(E, st))
             ELSE auto_stack(E, At(more, top.depth + 1) \o Tail(stack), facts)

auto_exec(E, st, facts) ==
    LET cur == apply_safe_rules(E, st, facts)
        closed == closings(E, cur) \o FirstClosed(openings(E, cur))
        found == auto_stack(E, At(branches(E, cur, 0), 1) \o At(openings(E, cur), 2)
                                   \o At(assume_tac(cur), 1), facts)
    IN  IF E.tired \/ E.expired \/ Closed(st) THEN <<st>>
        ELSE IF Closed(cur) THEN <<cur>>
        ELSE IF closed # <<>> THEN First(closed)
        ELSE IF found # <<>> THEN found ELSE <<st>>
-----------------------------------------------------------------------------
\* blast: every closed state the introduction and elimination rules lead to.
RECURSIVE term_size(_)
term_size(p) ==
    FoldLeft(LAMBDA n, q : n + 3 + term_size(q),
             IF p.concl[1] = "eq" THEN 3 + term_size(p.concl[2]) + term_size(p.concl[3]) ELSE 1, p.prems)

RECURSIVE blast_from(_, _, _)
blast_from(E, st, depth) ==
    LET n == NPrems(st)
        size(s) == term_size(Prems(s)[1])
        intro == SelectSeq(resolve_tac(E.db.rules["intro"], st),
                           LAMBDA r : Closed(r) \/ (NPrems(r) <= n + 3 /\ size(r) <= 3 * size(st)))
        elims == eresolve_tac(E.db.rules["elim"], st)
        follow(r) == IF Closed(r) THEN <<r>> ELSE FirstClosed(blast_from(E, r, depth + 1))
        solved == FirstClosed(assume_tac(st)) \o FlatMap(follow, intro)
                  \o (IF depth < 15 THEN FlatMap(follow, Fewer(elims, n + 4)) ELSE FirstClosed(elims))
                  \o (IF depth < 12 THEN FlatMap(follow, Fewer(elims, n)) ELSE FirstClosed(elims))
    IN  IF depth > 15 \/ Closed(st) \/ solved = <<>> THEN <<st>> ELSE solved
blast_exec(E, st) == IF E.tired THEN <<st>> ELSE blast_from(E, st, 0)
-----------------------------------------------------------------------------
\* fast: deeper and deeper, each subgoal a search of its own that starts by
\* assuming what it is to prove; the fact it gives solves the subgoal.
RECURSIVE dfs_search(_, _, _, _)
dfs_search(E, st, bound, facts) ==
    LET safe == apply_safe_rules(E, st, facts)
        \* The subgoals of s, first to last, as long as each is solved.
        subgoals(s) ==
            LET one(acc, k) ==
                    IF acc.state = <<>> \/ Closed(acc.state[1]) THEN acc
                    ELSE LET goal == assume(Prems(acc.state[1])[1])
                             found == dfs_search(E, goal, bound - 1, acc.facts)
                             by == IF found # <<>> THEN found
                                   ELSE First(FirstClosed(auto_exec(E, goal, acc.facts)))
                         IN  IF by = <<>> THEN [acc EXCEPT !.state = <<>>]
                             ELSE [state |-> bicompose(FALSE, by[1], acc.state[1], 1),
                                   facts |-> Append(acc.facts, by[1])]
                limit == IF NPrems(s) < 20 THEN NPrems(s) ELSE 20
                done == FoldLeft(one, [state |-> <<s>>, facts |-> facts], [k \in 1 .. limit |-> k])
            IN  IF done.state = <<>> THEN <<>> ELSE FirstClosed(done.state)
    IN  IF Closed(safe) THEN <<safe>>
        ELSE IF bound = 0 THEN <<>>
        ELSE First(FlatMap(subgoals, unsafe_steps(E, safe, facts)))

fast_exec(E, st, facts) ==
    LET found == FlatMap(LAMBDA bound : dfs_search(E, st, bound, facts), <<0, 1, 2, 3, 4, 5, 6, 7>>)
    IN  IF found # <<>> THEN First(found) ELSE auto_exec(E, st, facts)

\* best: fewest subgoals first; what it leaves goes to step.
RECURSIVE best_search(_, _, _, _, _)
best_search(E, work, best, facts, n) ==
    LET before(i, j) == \/ NPrems(work[i].state) < NPrems(work[j].state)
                        \/ /\ NPrems(work[i].state) = NPrems(work[j].state)
                           /\ work[i].depth < work[j].depth \/ (work[i].depth = work[j].depth /\ i <= j)
        at == CHOOSE i \in DOMAIN work : \A j \in DOMAIN work : before(i, j)
        cur == work[at]
        better == IF NPrems(cur.state) < NPrems(best) THEN cur.state ELSE best
        next == IF cur.depth > 10 THEN <<>>
                ELSE At(unsafe_steps(E, cur.state, facts), cur.depth + 1)
    IN  IF work = <<>> \/ n = 0 THEN step_exec(E, best, facts)
        ELSE IF Closed(cur.state) THEN <<cur.state>>
        ELSE best_search(E, RemoveAt(work, at) \o next, better, facts, n - 1)
best_exec(E, st, facts) ==
    LET safe == apply_safe_rules(E, st, facts)
    IN  IF Closed(safe) THEN <<safe>>
        ELSE best_search(E, At(<<safe>>, 0), st, facts, 500)

\* depth n: the first closed state within n unsafe steps, or else step.
RECURSIVE depth_search(_, _, _, _)
depth_search(E, st, bound, facts) ==
    LET safe == apply_safe_rules(E, st, facts)
    IN  IF Closed(safe) THEN <<safe>>
        ELSE IF bound \notin 1 .. 20 THEN <<>>
        ELSE First(FlatMap(LAMBDA r : depth_search(E, r, bound - 1, facts), unsafe_steps(E, safe, facts)))
depth_exec(E, st, bound, facts) ==
    LET found == depth_search(E, st, bound, facts)
    IN  IF found # <<>> THEN found ELSE step_exec(E, apply_safe_rules(E, st, facts), facts)
-----------------------------------------------------------------------------
\* tools/meson.rs: the facts contradict each other, as clauses, when one states
\* what another presupposes.  The state is then assumed anew, which closes none
\* of its subgoals.
contradict(facts) ==
    \E i, j \in DOMAIN facts : Contains(Prems(facts[i]), Fact(facts[j].prop.concl))
meson_tac(st, facts) == IF contradict(facts) THEN <<assume(st.prop)>> ELSE <<st>>

\* coinduct: a rule that closes the state at once, or auto.
coinduct_exec(E, st, facts) ==
    LET cur == apply_safe_rules(E, st, facts)
        rules == SetToSeq({E.db.by_name[n] : n \in CoinductNames \cap DOMAIN E.db.by_name})
        closed == FirstClosed(resolve_tac(Upto(rules, 10), cur))
    IN  IF Closed(cur) THEN <<cur>>
        ELSE IF closed # <<>> THEN First(closed) ELSE auto_exec(E, cur, facts)

\* The results of the first way that closes the state, or of the last.
FirstToClose(ways) ==
    LET closing == SelectSeq(ways, AnyClosed) IN IF closing # <<>> THEN Head(closing) ELSE Last(ways)

simp_db(E, st) == <<simp_rounds(rules_of(E.db.rules["simp"]), st, 30)>>
try_exec(E, st, facts) ==
    LET safe == apply_safe_rules(E, st, facts)
    IN  IF Closed(safe) THEN <<safe>>
        ELSE FirstToClose(<<simp_db(E, st), auto_exec(E, st, facts), blast_exec(E, st),
                            fast_exec(E, st, facts), best_exec(E, st, facts), auto_exec(E, st, facts)>>)
================================================================================
