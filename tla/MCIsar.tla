-------------------------------- MODULE MCIsar --------------------------------
(***************************************************************************)
(* Two statements, A and A ==> A; one name; proofs of two blocks.          *)
(***************************************************************************)
EXTENDS IsarSystem, SequencesExt

MCName == {"n"}
MCStmt == {<<"A">>, <<"A", "A">>}

\* What a method may derive for the innermost goal of p: the goal itself from
\* its own hypotheses and from the facts, if they give every subgoal.
Derived(p) ==
    LET i == Isar!find_goal(p)
        goal == p[i].goal
        facts == {t \in Isar!collect_premises(p) : t.prems = <<>>}
        proves == {t.concl : t \in facts}
    IN  IF i = 0 \/ ~(\A j \in DOMAIN goal.thm.prems : Last(goal.thm.prems[j]) \in proves)
          THEN {}
          ELSE {[hyps |-> goal.thm.hyps \cup UNION {t.hyps : t \in facts},
                 prems |-> <<>>, concl |-> goal.thm.concl]}

MCMethods(p) ==
    [method : {"assumption", "skip", "rule"}, result : {Isar!NoThm}]
        \cup [method : {"rule"}, result : Derived(p)]
=============================================================================
