------------------------------ MODULE ProofScript ------------------------------
(***************************************************************************)
(* The proof scripts isar/method.rs runs: `by` and the methods after it,   *)
(* `using`, `unfolding`, `apply` and `proof`.  A method is a tuple that    *)
(* starts with its kind; parsing is left out, except where its result is   *)
(* not what the text says.  Methods may call each other up to a depth that *)
(* is counted per thread, and a bracket left open makes the reader of rule *)
(* names panic: the result is then Panic, with the depth it leaves behind. *)
(*                                                                         *)
(* The interpreter of structured proofs in isar/proof_state.rs.  It walks  *)
(* the commands of a script once; a command it cannot carry out is passed  *)
(* over.  What `show` derives becomes the result whatever it states, and   *)
(* `let` binds a name nothing reads, as braces count a depth nothing reads.*)
(* Variables are left out: fixing one quantifies the result, no more.      *)
(***************************************************************************)
EXTENDS Method

CONSTANT MaxMethodDepth     \* 200 in the code

Panic(depth) == <<[panic |-> depth]>>
Panicked(rs) == rs # <<>> /\ "panic" \in DOMAIN rs[1]
Else(rs, other) == IF rs = <<>> THEN other ELSE rs

\* A rule as a method names it, with the attributes after the name.
Ref(n, attrs, of, then) == [name |-> n, attrs |-> attrs, of |-> of, then |-> then]
Plain(n) == Ref(n, <<>>, <<>>, <<>>)
named(E, names) == FlatMap(LAMBDA n : IF n \in DOMAIN E.db.by_name THEN <<E.db.by_name[n]>> ELSE <<>>, names)

\* The database first, then the index of the file.
resolve_theorem_name(E, n) ==
    IF n \in DOMAIN E.db.by_name THEN <<E.db.by_name[n]>>
    ELSE IF n \in DOMAIN E.index THEN <<E.index[n]>> ELSE <<>>

\* What an attribute rewrites becomes a hypothesis: nothing is derived.
Swapped(rules) == [i \in DOMAIN rules |-> [rules[i] EXCEPT !.lhs = rules[i].rhs, !.rhs = rules[i].lhs]]
rewritten(thm, rules) ==
    LET found == rewrite_deep(rules, thm.prop) IN IF found = <<>> THEN thm ELSE assume(Head(found).rhs)
apply_attributes(E, thm, attrs) ==
    FoldLeft(LAMBDA t, a :
                CASE a[1] = "symmetric" -> symmetric(t)
                  [] a[1] = "simplified" -> rewritten(t, rules_of(E.db.rules["simp"]))
                  [] a[1] = "folded" -> rewritten(t, rules_of(resolve_theorem_name(E, a[2])))
                  [] a[1] = "unfolded" -> rewritten(t, Swapped(rules_of(resolve_theorem_name(E, a[2]))))
                  [] a[1] = "rule_format" -> IF Closed(t) THEN t ELSE assume(t.prop)
                  [] OTHER -> t,
             thm, attrs)

\* OF discharges the first premise with a theorem, or with itself for "_".
compose_first(E, thm, n) ==
    LET with == IF Closed(thm) THEN <<>>
                ELSE IF n = "_" THEN bicompose(FALSE, assume(Prems(thm)[1]), thm, 1)
                ELSE FlatMap(LAMBDA t : bicompose(TRUE, t, thm, 1), named(E, <<n>>))
    IN  IF with = <<>> THEN thm ELSE with[1]
apply_of(E, thm, args) == FoldLeft(LAMBDA t, n : compose_first(E, t, n), thm, args)
apply_then(E, thm, args) == apply_of(E, thm, SelectSeq(args, LAMBDA n : n # "_"))
\* The rule a method names, if it is found.
rule_of(E, ref) ==
    FlatMap(LAMBDA t : <<apply_then(E, apply_of(E, apply_attributes(E, t, ref.attrs), ref.of), ref.then)>>,
            resolve_theorem_name(E, ref.name))
-----------------------------------------------------------------------------
\* The facts close subgoals, the first that fits each time, whole statements
\* before conclusions.
RECURSIVE by_facts(_, _, _)
by_facts(st, facts, ways) ==
    LET next == Fewer(FlatMap(LAMBDA way : FlatMap(LAMBDA f : bicompose(way, f, st, 1), facts), ways), NPrems(st))
    IN  IF next = <<>> THEN st ELSE by_facts(next[1], facts, ways)
solve_by_assumption(st, facts) == FirstClosed(<<by_facts(st, facts, <<FALSE, TRUE>>)>>)
closed_by_assumption(states, facts) ==
    FlatMap(LAMBDA r : IF Closed(r) THEN <<>> ELSE solve_by_assumption(r, facts), states)

\* simp: a list of rules to add or to leave out replaces the rules of the database.
Modifiers(only, add, del) == [only |-> only, add |-> add, del |-> del]
NoModifiers == Modifiers(FALSE, <<>>, <<>>)
exec_simp(E, mods, st) ==
    LET base == IF mods = NoModifiers THEN E.db.rules["simp"] ELSE <<>>
        thms == SelectSeq(base \o named(E, mods.add), LAMBDA t : ~Contains(named(E, mods.del), t))
    IN  IF E.expired THEN <<>> ELSE <<simp_rounds(rules_of(thms), st, 30)>>
exec_simp_all(E, st) ==
    LET end == simp_rounds(rules_of(E.db.rules["simp"]), st, 20)
    IN  IF Closed(end) THEN <<end>> ELSE <<st>>

\* Every premise is rewritten once.  Folding turns the sides of a rule around
\* and keeps its theorem, which then does not fit: nothing is folded.
apply_unfold(thms, st, fold) ==
    LET rules == IF fold THEN Swapped(rules_of(thms)) ELSE rules_of(thms)
        once(s, i) == LET r == rewrite_premise(rules, s, i) IN IF r = <<>> THEN s ELSE r[1]
    IN  <<FoldLeft(once, st, [i \in DOMAIN Prems(st) |-> i])>>
apply_insert(thms, st) ==
    <<FoldLeft(LAMBDA s, t : Else(bicompose(TRUE, t, s, 1), <<s>>)[1], st, thms)>>

exec_intro_elim(E, names, st) ==
    LET pass(tac(_, _), ns, states) ==
            Else(FlatMap(LAMBDA s : tac(named(E, ns), s), states), states)
    IN  IF names.intro \o names.elim \o names.dest = <<>> THEN <<>>
        ELSE pass(dresolve_tac, names.dest,
                  pass(eresolve_tac, names.elim, pass(resolve_tac, names.intro, <<st>>)))

\* subst: an equation of the database rewrites the first subgoal, or every
\* subgoal, one at a time; without a name, a fact that is one.
apply_substitution(E, eq, st, in_asm, facts) ==
    LET rewrite(i) == rewrite_premise(rules_of(<<eq>>), st, i)
    IN  IF in_asm THEN FlatMap(rewrite, [i \in DOMAIN Prems(st) |-> i])
        ELSE Else(IF Closed(st) THEN <<>> ELSE rewrite(1), FirstClosed(auto_exec(E, st, facts)))
exec_subst(E, n, in_asm, st, facts) ==
    LET eqs == SelectSeq(facts, LAMBDA f : f.prop.concl[1] = "eq" /\ Closed(f))
        ways == FlatMap(LAMBDA f : <<f, symmetric(f)>>, eqs)
        tried == SelectSeq([i \in DOMAIN ways |-> apply_substitution(E, ways[i], st, in_asm, facts)],
                           LAMBDA rs : rs # <<>>)
    IN  IF n # "" THEN FlatMap(LAMBDA t : apply_substitution(E, t, st, in_asm, facts), named(E, <<n>>))
        ELSE IF tried # <<>> THEN tried[1] ELSE <<>>

\* The subgoals of an induction count as solved when the first is an atom,
\* since assuming it leaves nothing to prove; a compound one never is, since
\* what its proof states is its conclusion only.
solve_subgoals(st) == IF Prems(st)[1] = Fact(Prems(st)[1].concl) THEN <<st>> ELSE <<>>
exec_induct(E, rule, st, facts) ==
    LET safe == apply_safe_rules(E, st, facts)
        auto == auto_exec(E, st, facts)
        rules == Else(named(E, rule), SetToSeq({E.db.by_name[n] : n \in InductNames \cap DOMAIN E.db.by_name}))
        solve(r) == IF Closed(r) THEN <<r>> ELSE IF NPrems(r) <= 10 THEN solve_subgoals(r) ELSE <<>>
        solved == FlatMap(solve, resolve_tac(Upto(rules, 8), st))
    IN  IF Closed(safe) THEN <<safe>>
        ELSE IF AnyClosed(auto) \/ solved = <<>> THEN auto ELSE First(solved)
-----------------------------------------------------------------------------
\* Inside an alternative or a REPEAT a method is read by its name alone, and one
\* that is not on the list is auto.
parse_single_method(k) ==
    IF k \in {"blast", "fast", "best", "simp", "assumption", "this", "skip", "fail", "try", "step",
              "coinduct", "meson"} THEN k ELSE "auto"

\* The methods that call no other method.
execute(E, k, st, facts) ==
    CASE k = "simp" -> simp_db(E, st)
      [] k = "assumption" -> assume_tac(st)
      [] k \in {"this", "skip", "fail"} -> <<>>
      [] k = "blast" -> blast_exec(E, st)
      [] k = "fast" -> fast_exec(E, st, facts)
      [] k = "best" -> best_exec(E, st, facts)
      [] k = "step" -> step_exec(E, st, facts)
      [] k = "try" -> try_exec(E, st, facts)
      [] k = "coinduct" -> coinduct_exec(E, st, facts)
      [] k = "meson" -> meson_tac(st, facts)
      [] OTHER -> auto_exec(E, st, facts)

\* First alternative if it closes the state; REPEAT while subgoals go away.
or_else(E, a, b, st, facts) ==
    LET first == FirstClosed(execute(E, parse_single_method(a), st, facts))
    IN  Else(first, execute(E, parse_single_method(b), st, facts))
RECURSIVE repeat(_, _, _, _, _)
repeat(E, k, st, facts, n) ==
    LET next == Fewer(execute(E, parse_single_method(k), st, facts), NPrems(st))
    IN  IF n = 0 \/ next = <<>> \/ Closed(st) THEN <<st>> ELSE repeat(E, k, next[1], facts, n - 1)

simp_kept(E, st) == <<simp_rounds(E.simp, st, 30)>>
auto_or_blast(E, st, facts) ==
    FirstToClose(<<auto_exec(E, st, facts), blast_exec(E, st), simp_kept(E, st)>>)
\* auto with rules: each is tried once, then they count as facts.
auto_with(E, names, st, facts) ==
    LET thms == FlatMap(LAMBDA n : resolve_theorem_name(E, n), names)
        cur == FoldLeft(LAMBDA s, t : Else(resolve_tac(<<t>>, s), <<s>>)[1], st, thms)
        with == auto_exec(E, cur, facts \o thms)
    IN  IF thms # <<>> /\ AnyClosed(<<cur>>) THEN <<cur>>
        ELSE IF thms # <<>> /\ AnyClosed(with) THEN with
        ELSE auto_or_blast(E, st, facts)

simp_method(E, mods, st, facts) ==
    LET rs == exec_simp(E, mods, st)
    IN  IF AnyClosed(rs) THEN rs
        ELSE Else(closed_by_assumption(rs, facts),
                  Else(rs, FirstToClose(<<blast_exec(E, st), auto_exec(E, st, facts)>>)))

iprover(E, names, st, facts) ==
    LET rs == exec_intro_elim(E, names, st)
    IN  IF AnyClosed(rs) THEN rs
        ELSE Else(closed_by_assumption(rs, facts),
                  Else(rs, FirstToClose(<<blast_exec(E, st), auto_exec(E, st, facts)>>)))

\* rule: as an introduction or else as an elimination rule, and auto on what is
\* left; what auto closes is added at the end.
rule_method(E, ref, st, facts) ==
    LET thm == rule_of(E, ref)
        intro == resolve_tac(thm, st)
        rs == Else(intro, eresolve_tac(thm, st))
        more == FlatMap(LAMBDA r : IF Closed(r) THEN <<>> ELSE FirstClosed(auto_exec(E, r, facts)), rs)
    IN  IF AnyClosed(intro) THEN intro ELSE Else(rs \o more, auto_exec(E, st, facts))
-----------------------------------------------------------------------------
\* A method that still has the word `by` in front of it, as it has after
\* `using` and in the later lines of a script, is no method; alternatives are
\* then read as auto, and a list in brackets as itself, over and over.
prefixed(E, m, st, facts) ==
    CASE m[1] = "or" -> or_else(E, "auto", "auto", st, facts)
      [] m[1] \in {"and", "bracketed"} -> <<st>>
      [] OTHER -> <<>>

RECURSIVE exec_single_method(_, _, _, _)

\* The method on every state; a panic ends it.
AllOf(E, m, states, facts) ==
    LET rs == [i \in DOMAIN states |-> exec_single_method(E, m, states[i], facts)]
        bad == SelectSeq(rs, Panicked)
    IN  IF bad # <<>> THEN bad[1] ELSE FlattenSeq(rs)

\* proof and apply, on one line.
exec_proof_script(E, m, st, facts) ==
    LET inner == m[2]
        rule == IF inner[1] = "rule" THEN named(E, <<inner[2].name>>) ELSE <<>>
    IN  CASE m[1] = "apply" -> exec_single_method(E, inner, st, facts)
          [] inner[1] = "induct" -> exec_induct(E, inner[2], st, facts)
          [] inner[1] \in {"-", "cases", "safe"} -> auto_exec(E, st, facts)
          [] rule # <<>> -> resolve_tac(rule, st)
          [] OTHER -> exec_single_method(E, inner, st, facts)

\* With facts of the database; `assms` names none that were not there.
using(E, m, st, facts) ==
    LET more == facts \o named(E, m[2])
    IN  CASE m[3][1] = "none" -> auto_exec(E, st, more)
          [] m[3][1] \in {"proof", "apply"} -> exec_proof_script(E, m[3], st, more)
          [] OTHER -> prefixed(E, m[3][2], st, more)

\* A name is looked up in several spellings, of which names here have one; with
\* no theorem the state stays.
exec_unfold(E, names, st) == apply_unfold(named(E, names), st, FALSE)
unfolding(E, m, st, facts) ==
    LET unfolded == exec_unfold(E, m[2], st)
    IN  Else(FlatMap(LAMBDA r : prefixed(E, m[3][2], r, facts), unfolded), unfolded)

\* The methods that take theorems give nothing when no name is found.
eliminate(E, ref, st) == eresolve_tac(rule_of(E, ref), st)
unfold_or_fold(E, names, fold, st) ==
    LET thms == named(E, names) IN IF thms = <<>> THEN <<>> ELSE apply_unfold(thms, st, fold)
insert(E, names, st) == LET thms == named(E, names) IN IF thms = <<>> THEN <<>> ELSE apply_insert(thms, st)

exec_single_method_inner(E, m, st, facts) ==
    LET k == m[1]
    IN  CASE k = "REPEAT" -> repeat(E, m[2], st, facts, 20)
          [] k = "or" -> or_else(E, m[2], m[3], st, facts)
          [] k = "and" -> FoldLeft(LAMBDA states, sub :
                                      IF Panicked(states) THEN states
                                      ELSE AllOf(E, sub, states, facts),
                                   <<st>>, m[2])
          \* A comma inside brackets splits nothing: the method calls itself
          \* until it may not go deeper, and leaves the state as it was.
          [] k = "bracketed" -> <<st>>
          [] k = "unclosed" -> Panic(E.depth)
          [] k = "auto" -> auto_with(E, m[2], st, facts)
          [] k = "simp" -> simp_method(E, m[2], st, facts)
          [] k = "simp_all" -> FirstToClose(<<exec_simp_all(E, st), auto_exec(E, st, facts)>>)
          [] k = "blast" -> FirstToClose(<<blast_exec(E, st), auto_exec(E, st, facts), simp_kept(E, st)>>)
          [] k = "iprover" -> iprover(E, m[2], st, facts)
          [] k = "meson" -> FirstToClose(<<meson_tac(st, facts), auto_exec(E, st, facts)>>)
          [] k = "fastforce" -> blast_exec(E, st)
          [] k = "safe" -> LET safe == apply_safe_rules(E, st, facts)
                           IN  IF Closed(safe) THEN <<safe>> ELSE auto_exec(E, st, facts)
          [] k = "depth" -> depth_exec(E, st, m[2], facts)
          [] k = "fact" -> resolve_tac(named(E, <<m[2]>>), st)
          [] k = "rule" -> rule_method(E, m[2], st, facts)
          [] k \in {"erule", "drule", "frule"} -> eliminate(E, m[2], st)
          [] k = "subst" -> exec_subst(E, m[2], m[3], st, facts)
          [] k \in {"unfold", "fold"} -> unfold_or_fold(E, m[2], k = "fold", st)
          [] k = "insert" -> insert(E, m[2], st)
          [] k = "induct" -> exec_induct(E, m[2], st, facts)
          [] k = "intro:" -> exec_intro_elim(E, m[2], st)
          [] k \in {"proof", "apply"} -> exec_proof_script(E, m, st, facts)
          [] k = "using" -> using(E, m, st, facts)
          [] k = "unfolding" -> unfolding(E, m, st, facts)
          [] k \in {"force", "clarify", "clarsimp", "assumption", "this", "fast", "best", "step",
                    "coinduct", "try"} -> execute(E, k, st, facts)
          [] OTHER -> <<>>

exec_single_method(E, m, st, facts) ==
    IF E.depth + 1 > MaxMethodDepth THEN <<st>>
    ELSE exec_single_method_inner([E EXCEPT !.depth = @ + 1], m, st, facts)
-----------------------------------------------------------------------------
\* The methods of `by` one after the other; where one gives nothing, automatic
\* search takes its place.  Only the first state of the end is looked at, and
\* the facts and automatic search are the last resort.
auto_and_blast(E, states, facts) ==
    FlatMap(LAMBDA s : auto_exec(E, s, facts) \o blast_exec(E, s), states)

by_step(E, states, m, facts) ==
    LET next == AllOf(E, m, states, facts)
        found == auto_and_blast(E, states, facts)
    IN  IF next # <<>> THEN [rs |-> next, over |-> Panicked(next)]
        ELSE IF E.expired THEN [rs |-> <<>>, over |-> TRUE]
        ELSE IF AnyClosed(found) THEN [rs |-> First(FirstClosed(found)), over |-> TRUE]
        ELSE [rs |-> found, over |-> FALSE]

last_resort(E, st, facts) ==
    LET cur == by_facts(st, facts, <<TRUE>>)
    IN  IF Closed(st) THEN <<st>>
        ELSE Else(solve_by_assumption(st, facts),
                  IF E.expired THEN <<>> ELSE First(FirstClosed(<<cur>> \o auto_and_blast(E, <<cur>>, facts))))

by(E, ms, st, facts) ==
    LET end == FoldLeft(LAMBDA acc, m : IF acc.over THEN acc ELSE by_step(E, acc.rs, m, facts),
                        [rs |-> <<st>>, over |-> FALSE], ms)
    IN  IF end.over THEN end.rs ELSE last_resort(E, end.rs[1], facts)

\* using and unfolding: each state that is left gets the same last resort.
after_facts(E, m, st, facts) ==
    LET rs == exec_single_method(E, m, st, facts)
    IN  IF Panicked(rs) THEN rs
        ELSE First(FirstClosed(rs) \o
                   FlatMap(LAMBDA r : solve_by_assumption(r, facts)
                                      \o FirstClosed(auto_and_blast(E, <<r>>, facts)), rs))

\* proof and apply: the methods on later lines keep their `by`.
by_lines(E, m, st, facts) ==
    LET rs == exec_single_method(E, <<m[1], m[2]>>, st, facts)
        line(acc, b) ==
            LET next == FlatMap(LAMBDA s : IF Closed(s) THEN <<s>> ELSE prefixed(E, b, s, facts), acc.rs)
            IN  IF acc.over \/ next = <<>> THEN [acc EXCEPT !.over = TRUE] ELSE [acc EXCEPT !.rs = next]
    IN  IF Panicked(rs) THEN rs
        ELSE First(FirstClosed(FoldLeft(line, [rs |-> rs, over |-> FALSE], m[3]).rs))

\* The theorem a script gives, if it closes the state.
exec_proof(E, script, st, facts) ==
    CASE script[1] = "by" -> by(E, script[2], st, facts)
      [] script[1] \in {"using", "unfolding"} -> after_facts(E, script, st, facts)
      [] script[1] \in {"proof", "apply"} -> by_lines(E, script, st, facts)
      [] OTHER -> First(FirstClosed(auto_and_blast(E, <<st>>, facts) \o simp_db(E, st)))
-----------------------------------------------------------------------------
(* The structured proofs of isar/proof_state.rs. *)


new(goal) ==
    [phase |-> "ready", goal |-> goal, facts |-> <<>>, chained |-> <<>>, subgoals |-> <<>>,
     current |-> 1, shown |-> <<>>, panic |-> <<>>]
begin_proof(s) == IF s.phase = "ready" THEN [new(s.goal) EXCEPT !.phase = "proving"] ELSE s

\* Before `proof` the state keeps nothing.
Keep(s, changed) == IF s.phase = "proving" THEN changed ELSE s
set_subgoals(s, states) == Keep(s, [s EXCEPT !.subgoals = states, !.current = 1])
add_facts(s, thms) == Keep(s, [s EXCEPT !.facts = @ \o thms])
chain(s, thms) == Keep(s, IF thms = <<>> THEN s ELSE [s EXCEPT !.chained = <<Last(thms)>>])
get_current_goal(s) == IF s.current \in DOMAIN s.subgoals THEN s.subgoals[s.current] ELSE s.goal
set_current_goal(s, thm) ==
    Keep(s, IF s.current \in DOMAIN s.subgoals THEN [s EXCEPT !.subgoals[s.current] = thm] ELSE s)

\* ?case and ?thesis stand for the subgoal, when there is one.
resolve_case_stmt(s, p) ==
    IF p.concl = <<"?thesis">> /\ s.current \in DOMAIN s.subgoals THEN s.subgoals[s.current].prop ELSE p

\* have and show: the chained fact is used up even if the proof fails.
prove(E, s, p, script, premises) ==
    exec_proof(E, script, assume(p), premises \o s.facts \o s.chained)
Unchained(s) == [s EXCEPT !.chained = <<>>]
After(s, rs, done) ==
    IF Panicked(rs) THEN [s EXCEPT !.panic = rs] ELSE IF rs = <<>> THEN Unchained(s) ELSE done
have(E, s, p, script, premises) ==
    LET rs == prove(E, s, p, script, premises)
    IN  After(s, rs, add_facts(chain(Unchained(s), rs), rs))
show(E, s, p, script, premises) ==
    LET rs == prove(E, s, resolve_case_stmt(s, p), script, premises)
    IN  After(s, rs, Keep(Unchained(s), [Unchained(s) EXCEPT !.shown = rs]))

\* case and next drop every fact; next moves on to the next subgoal, if any.
case_(s, i) ==
    Keep(s, [s EXCEPT !.current = IF i \in DOMAIN s.subgoals THEN i ELSE @, !.facts = <<>>, !.chained = <<>>])
next(s) == case_(s, s.current + 1)

\* finally and ultimately try to close the current goal.
closing(s, rs) ==
    IF Panicked(rs) THEN [s EXCEPT !.panic = rs]
    ELSE IF AnyClosed(rs) THEN set_current_goal(s, FirstClosed(rs)[1]) ELSE s

proof(E, s, m, premises) ==
    LET begun == begin_proof(s)
        states == exec_single_method(E, m, get_current_goal(begun), premises)
    IN  IF m[1] # "induct" \/ states = <<>> THEN begun ELSE set_subgoals(begun, states)

\* What is obtained is assumed, and its proof is run on the current goal.
obtain(E, s, p, m, premises) ==
    LET more == add_facts(s, <<assume(p)>>)
    IN  closing(more, exec_single_method(E, m, get_current_goal(more), premises))

command(E, s, c, premises) ==
    CASE c[1] = "proof" -> proof(E, s, c[2], premises)
      [] c[1] = "assume" -> add_facts(s, <<assume(c[2])>>)
      [] c[1] = "have" -> have(E, s, c[2], c[3], premises)
      [] c[1] = "show" -> show(E, s, c[2], c[3], premises)
      [] c[1] = "case" -> case_(s, c[2])
      [] c[1] = "next" -> next(s)
      [] c[1] = "obtain" -> obtain(E, s, c[2], c[3], premises)
      [] c[1] \in {"from", "also"} -> chain(s, named(E, c[2]))
      [] c[1] \in {"with", "note", "using"} -> add_facts(s, named(E, c[2]))
      [] c[1] = "finally" ->
            closing(chain(s, named(E, c[2])),
                    exec_single_method(E, <<"auto", <<>>>>, get_current_goal(s), <<>>))
      [] c[1] = "ultimately" ->
            closing(s, exec_proof(E, <<"by", <<<<"auto", <<>>>>>>>>, get_current_goal(s), s.facts))
      [] OTHER -> s

\* The result, without the facts it was derived from, as far as they are among
\* its hypotheses.
qed(s) ==
    LET base == IF s.phase = "ready" THEN FirstClosed(<<s.goal>>)
                ELSE IF s.shown # <<>> THEN s.shown
                ELSE IF s.subgoals = <<>> THEN FirstClosed(<<s.goal>>)
                ELSE IF \A i \in DOMAIN s.subgoals : Closed(s.subgoals[i]) THEN First(s.subgoals) ELSE <<>>
        local(thm) == SelectSeq(s.facts, LAMBDA f : f.prop \in thm.hyps)
        discharge(thm) ==
            IF s.phase = "ready" THEN thm
            ELSE FoldLeft(LAMBDA t, f : implies_intr(f.prop, t), thm, Reverse(local(thm)))
    IN  IF base = <<>> THEN <<>> ELSE <<discharge(base[1])>>

\* A script is its commands up to the first qed or done.
interpret_proof_script(E, commands, goal, premises) ==
    LET end == FoldLeft(LAMBDA s, c : IF s.panic # <<>> THEN s ELSE command(E, s, c, premises),
                        new(goal), commands)
    IN  IF end.panic # <<>> THEN end.panic ELSE qed(end)
=============================================================================
