------------------------------- MODULE VerifyLemma ------------------------------
(***************************************************************************)
(* Checking one lemma in isar/method.rs: verify_lemma tries one way after  *)
(* another, and accepts the lemma as an axiom when all of them fail.  What *)
(* a check reads of its thread (VerifyFile) stands for a database, an      *)
(* index of names, rewrite rules and allowances.                           *)
(***************************************************************************)
EXTENDS VerifyFile, ProofScript

CONSTANTS
    Core,           \* the [simp] theorems of the core theories
    schematic(_),   \* the statements of the rules that are added
    Builtins        \* bound: the names of those that are there

Db == INSTANCE TheoremDb WITH builtin <- schematic
-----------------------------------------------------------------------------
Parsed(n, stmt, attrs, script) ==
    Db!Lemma(n, assume(stmt), attrs, {}) @@ [stmt |-> stmt, script |-> script]

\* The database of a file has the core simp rules on top; the global one has
\* the added rules only, here.
database ==
    [d \in 1 .. Global |->
        IF d = Global THEN Db!add_builtins(Db!new)
        ELSE LET db == Db!add_builtins(Db!from_lemmas(Files[d])) IN [db EXCEPT !.rules["simp"] = @ \o Core]]
index == [f \in 1 .. Len(Files) |-> Db!from_lemmas(Files[f]).def_index]

Environment(t) ==
    [db |-> database[t.db], index |-> IF t.index = 0 THEN <<>> ELSE index[t.index],
     simp |-> rules_of(database[t.simp].rules["simp"]),
     tired |-> t.short = "limit", spent |-> t.budget = "spent" \/ t.short = "budget",
     expired |-> t.short = "deadline", depth |-> t.depth]
-----------------------------------------------------------------------------
\* The ways of verify_lemma: each gives one result, none, or a panic.
Proved(rs) == IF rs = <<>> \/ Panicked(rs) THEN rs ELSE <<[thm |-> rs[1], proved |-> TRUE]>>
AxiomAccepted(thm) == <<[thm |-> thm, proved |-> FALSE]>>
\* Mutant: it counts as a proof whatever is left open.
IfClosed_any(rs) == Proved(rs)
\* Where resolution is taken as it is, it counts as a proof when it closed the goal.
IfClosed(rs) == IF rs = <<>> THEN <<>> ELSE <<[thm |-> rs[1], proved |-> Closed(rs[1])]>>
\* The premises of the lemma, put back in front of what was proved without them.
restore(rs, prems) ==
    IF rs = <<>> \/ Panicked(rs) THEN rs
    ELSE <<FoldLeft(LAMBDA t, p : implies_intr(p, t), rs[1], Reverse(prems))>>

Bare == {<<"simp", NoModifiers>>, <<"auto", <<>>>>, <<"blast">>, <<"fast">>, <<"force">>,
         <<"iprover", [intro |-> <<>>, elim |-> <<>>, dest |-> <<>>]>>}
OneMethod(script, m) == script = <<"by", <<m>>>>
SingleRule(script) ==
    script[1] = "by" /\ Len(script[2]) = 1 /\ script[2][1][1] = "rule"
        /\ script[2][1][2] = Plain(script[2][1][2].name)
Structured(script) == Len(script) = 4

\* A rule added under the lemma's name takes its place, whatever the lemma says.
builtin_instead(E, lem) ==
    IF lem.name \in DOMAIN E.db.by_name /\ E.db.by_name[lem.name].prop.concl[1] = "schematic"
    THEN AxiomAccepted(admit(E.db.by_name[lem.name].prop)) ELSE <<>>
trusted(E, lem) ==
    IF lem.script[1] \notin {"none", "blank"} THEN <<>>
    ELSE AxiomAccepted(Else(named(E, <<lem.name>>), <<admit(lem.stmt)>>)[1])
anonymous(lem) ==
    IF lem.name = "" /\ SingleRule(lem.script)
          /\ lem.script[2][1][2].name \in {"list.induct", "list.exhaust", "list.case"}
    THEN AxiomAccepted(admit(lem.stmt)) ELSE <<>>
single_rule(E, lem, goal) ==
    IF SingleRule(lem.script)
    THEN IfClosed(resolve_tac(resolve_theorem_name(E, lem.script[2][1][2].name), goal)) ELSE <<>>

\* Each name of a list resolves the goal, where it can.
resolved_by(E, names, goal) ==
    FoldLeft(LAMBDA st, t : Else(bicompose(FALSE, t, st, 1), <<st>>)[1], goal,
             FlatMap(LAMBDA n : resolve_theorem_name(E, n), names))
unfolding_first(E, lem, goal, premises) ==
    IF lem.script[1] = "unfolding" /\ lem.script[3][1] = "by"
    THEN Proved(exec_proof(E, <<"other">>, resolved_by(E, lem.script[2], goal), premises)) ELSE <<>>
simp_added(E, lem, goal) ==
    LET m == lem.script[2][1]
        end == resolved_by(E, m[2].add, goal)
    IN  IF lem.script[1] = "by" /\ m[1] = "simp" /\ OneMethod(lem.script, m)
              /\ m[2] = Modifiers(FALSE, m[2].add, <<>>) /\ m[2].add # <<>> /\ end # goal
        THEN IfClosed(<<end>>) ELSE <<>>
auto_intro(E, lem, goal, premises) ==
    LET m == lem.script[2][1]
        resolved == resolve_tac(resolve_theorem_name(E, m[2][1]), goal)
    IN  IF lem.script[1] = "by" /\ m[1] = "auto" /\ OneMethod(lem.script, m) /\ Len(m[2]) = 1
        THEN Else(IfClosed(resolved), Proved(exec_proof(E, <<"other">>, goal, premises))) ELSE <<>>

\* A lemma with premises is tried as its conclusion first.
bare_conclusion(E, lem, premises) ==
    IF lem.stmt.prems = <<>> THEN <<>>
    ELSE Proved(restore(exec_proof(E, lem.script, trivial(Fact(lem.stmt.concl)), premises), lem.stmt.prems))
using_assms(E, lem, premises) ==
    LET rule == lem.script[3][2]
        resolved == resolve_tac(resolve_theorem_name(E, rule[2].name), trivial(Fact(lem.stmt.concl)))
        closed == FirstClosed(<<by_facts(resolved[1], premises, <<FALSE>>)>>)
    IN  IF lem.stmt.prems = <<>> \/ lem.script[1] # "using" \/ lem.script[2] # <<"assms">>
              \/ rule[1] # "rule" \/ resolved = <<>>
        THEN <<>> ELSE Proved(restore(closed, lem.stmt.prems))

\* The last resort.  A ground statement has no variable to generalize.
generalize_thm(lem) == admit(lem.stmt)

verify_lemma(E, lem) ==
    LET goal == assume(lem.stmt)
        premises == [i \in DOMAIN lem.stmt.prems |-> assume(lem.stmt.prems[i])]
        run == exec_proof(E, lem.script, goal, premises)
        direct == IF \E m \in Bare : OneMethod(lem.script, m) THEN Proved(run) ELSE <<>>
        isar == IF ~Structured(lem.script) THEN <<>>
                ELSE Proved(interpret_proof_script(E, lem.script[4], goal, premises))
        \* Only here is a panic caught.
        caught == IF Panicked(run) THEN <<>> ELSE Proved(run)
        ways == Else(builtin_instead(E, lem),
                Else(trusted(E, lem),
                Else(direct,
                Else(anonymous(lem),
                Else(isar,
                Else(single_rule(E, lem, goal),
                Else(unfolding_first(E, lem, goal, premises),
                Else(simp_added(E, lem, goal),
                Else(auto_intro(E, lem, goal, premises),
                Else(bare_conclusion(E, lem, premises),
                Else(using_assms(E, lem, premises), caught)))))))))))
    IN  IF ways = <<>>
        THEN [result |-> AxiomAccepted(generalize_thm(lem)),
              depth |-> IF Panicked(run) THEN run[1].panic ELSE E.depth]
        ELSE [result |-> ways, depth |-> IF Panicked(ways) THEN ways[1].panic ELSE E.depth]

\* What the caller has of it: a theorem, and how it was marked; or nothing.
outcome(done) ==
    IF done.result = <<>> THEN [kind |-> "none", depth |-> done.depth]
    ELSE IF Panicked(done.result) THEN [kind |-> "panic", depth |-> done.depth]
    ELSE [kind |-> "some", depth |-> done.depth] @@ done.result[1]

\* The table is what verify_lemma gives.
ASSUME TableAssumption ==
    \A lem \in DOMAIN verdict : \A t \in DOMAIN verdict[lem] :
        verdict[lem][t] = outcome(verify_lemma(Environment(t), lem))
-----------------------------------------------------------------------------
\* A lemma counted as proved has no open goal: the theorem is the lemma, with
\* some of its premises and no others, unless a structured proof stated another.
ProvedIsTheLemma ==
    last # <<>> /\ last.proved =>
        \/ Structured(last.lem.script)
        \/ /\ last.thm.prop.concl = last.lem.stmt.concl
           /\ ToSet(Prems(last.thm)) \subseteq ToSet(last.lem.stmt.prems)

\* Whatever a method did, the theorem follows from its hypotheses, if it was
\* not admitted and elimination had no part in it.
ResultsAreEntailed ==
    last # <<>> /\ last.thm.oracles = {} /\ ~last.thm.elim => Entailed(last.thm, Atoms(last.thm))

\* isar/method.rs:50: counted as proved is what a real proof path closed.  A
\* proof of a lemma does not rest on the lemma.
ProvedWithoutItself ==
    last # <<>> /\ last.proved => last.lem.stmt \notin last.thm.hyps
=================================================================================
