------------------------------ MODULE IsarProof ------------------------------
(***************************************************************************)
(* The Isar proof state machine of isar/proof.rs: a stack of proof nodes,  *)
(* the outermost first, each with a mode, chained facts, a goal and a      *)
(* local context (isar/proof_context.rs).                                  *)
(*                                                                         *)
(* A command is an operator from a stack to the stack it leaves and to     *)
(* whether it returned: a failed assertion panics, and what the command    *)
(* did before stays done.  A statement is a chain of atoms <<p, .., c>>    *)
(* for p ==> .. ==> c.  What a proof method or a rule makes of a goal is   *)
(* the caller's choice among what the kernel could have derived.           *)
(***************************************************************************)
EXTENDS Integers, SequencesExt

Kind == {"lemma", "have", "show"}
Mode == {"Forward", "Chain", "Backward"}

NoGoal == [kind |-> "none", stmt |-> <<>>]
NoStmt == <<>>
NoThm == [hyps |-> {}, prems |-> <<>>, concl |-> "none"]
NoFacts == <<>>
-----------------------------------------------------------------------------
\* The kernel rules the state machine calls itself.
assume(s) == [hyps |-> {s}, prems |-> [i \in 1..(Len(s) - 1) |-> <<s[i]>>], concl |-> Last(s)]
trivial(s) == [assume(s) EXCEPT !.hyps = {}, !.prems = <<s>> \o @]

Goal_init(kind, s) ==
    [kind |-> kind, stmt |-> s, using |-> <<>>, thm |-> assume(s), refines |-> NoStmt]

-----------------------------------------------------------------------------
\* A node's local context is left out: fixes, assumptions, notes and the
\* calculation so far are put there, and nothing of it is read back.
ProofNode == [facts |-> NoFacts, mode |-> "Forward", goal |-> NoGoal]

init == <<ProofNode>>

level(p) == Len(p)
top(p) == Last(p)
mode(p) == top(p).mode

Returned(p) == [p |-> p, ok |-> TRUE]
Panicked(p) == [p |-> p, ok |-> FALSE]

\* One call after another, unless the first panicked.
Then(r, Call(_)) == IF r.ok THEN Call(r.p) ELSE r

enter(p, m) == [p EXCEPT ![Len(p)].mode = m]
set_facts(p, thms) == [p EXCEPT ![Len(p)].facts = thms]
reset_facts(p) == [p EXCEPT ![Len(p)].facts = NoFacts]
set_goal(p, g) == [p EXCEPT ![Len(p)].goal = g]
reset_goal(p) == set_goal(p, NoGoal)
the_facts(p) == top(p).facts

open_block(p) == Append(p, ProofNode)

close_block(p) == IF Len(p) <= 1 THEN Panicked(p) ELSE Returned(Front(p))
close_to(p, l) == IF Len(p) > l THEN SubSeq(p, 1, l) ELSE p

\* A command that is illegal in the modes ms.
Unless(p, ms, r) == IF mode(p) \in ms THEN Panicked(p) ELSE r
InForward(p, r) == Unless(p, {"Backward"}, r)
InBackward(p, r) == Unless(p, {"Forward", "Chain"}, r)

\* Mutant: facts may be chained to a goal that is being proved.
chain_anywhere(p) == Returned(enter(p, "Chain"))

chain(p) == InForward(p, Returned(enter(p, "Chain")))

\* The position of the innermost goal, 0 if there is none.
find_goal(p) ==
    LET with == {i \in DOMAIN p : p[i].goal # NoGoal}
    IN  IF with = {} THEN 0 ELSE CHOOSE i \in with : \A j \in with : j <= i

set_goal_thm(p, i, thm) == [p EXCEPT ![i].goal.thm = thm]
-----------------------------------------------------------------------------
\* Context commands.
fix(p) == InForward(p, Returned(reset_facts(p)))
assume_props(p) == InForward(p, Returned(reset_facts(p)))
note(p) == InForward(p, Returned(p))
let_bind(p) == Then(note(p), LAMBDA q : Returned(reset_facts(q)))
obtain(p) == Then(fix(p), assume_props)

\* The facts are set before the mode is looked at.
from(p, thms) == chain(set_facts(p, thms))
then_chain(p) == chain(set_facts(p, the_facts(p)))

using(p, thms) ==
    LET i == find_goal(p)
    IN  Returned(IF i = 0 THEN p ELSE [p EXCEPT ![i].goal.using = @ \o thms])

with(p, thms) == Then(from(p, thms), LAMBDA q : using(q, the_facts(p)))
-----------------------------------------------------------------------------
\* Blocks.
proof(p) == InBackward(p, Returned(open_block(p)))

\* The proved goal refines its parent's, whether or not the statements agree.
Refined(p, proved) ==
    IF proved # NoGoal /\ proved.refines # NoStmt
      THEN set_goal_thm(p, Len(p), trivial(proved.refines))
      ELSE p

qed(p) ==
    InForward(p,
        IF Len(p) <= 2 THEN Panicked(p)
        ELSE IF top(Front(p)).goal = NoGoal THEN Panicked(Front(p))
        ELSE Returned(Refined(Front(p), top(p).goal)))

next(p) == InForward(p, Then(close_block(p), LAMBDA q : Returned(open_block(q))))
open_brace(p) == InForward(p, Returned(open_block(p)))
close_brace(p) == InForward(p, IF top(p).goal # NoGoal THEN Panicked(p) ELSE close_block(p))

\* Goals.
State(p, goal) == InForward(p, Returned(enter(set_goal(open_block(p), goal), "Backward")))
lemma(p, s) == State(p, Goal_init("lemma", s)) \* theorem too, but for the kind
have(p, s) == State(p, Goal_init("have", s))
show(p, s) ==
    LET i == find_goal(p)
    IN  State(p, [Goal_init("show", s) EXCEPT !.refines = IF i = 0 THEN NoStmt ELSE p[i].goal.stmt])
-----------------------------------------------------------------------------
\* Methods.  Built-in ones first; any other leaves `result`, a theorem without
\* premises, or NoThm if it fails.
quick_method(goal, method) ==
    IF method = "assumption" /\ goal.stmt \notin goal.thm.hyps
      THEN goal.thm
      ELSE trivial(goal.stmt)

apply(p, method, result) ==
    InBackward(p,
        LET i == find_goal(p)
        IN  Returned(IF i = 0 THEN p
                     ELSE IF method \in {"assumption", "skip"}
                       THEN set_goal_thm(p, i, quick_method(p[i].goal, method))
                     ELSE IF result # NoThm THEN set_goal_thm(p, i, result)
                     ELSE p))

collect_premises(p) == UNION {Range(p[i].facts) : i \in DOMAIN p}

by(p, method, result) ==
    Then(Then(apply(p, method, result), close_block),
         LAMBDA q : Returned(reset_goal(enter(q, "Forward"))))

sorry(p) == by(p, "skip", NoThm)

\* Every block but the lemma's is closed; its goal stays for extract_theorem.
done(p) == Returned(enter(close_to(p, 2), "Forward"))

\* induct, cases: a rule from the database refines the goal, or it is closed.
by_rule(p, refined) ==
    InBackward(p,
        LET i == find_goal(p)
        IN  Returned(IF i = 0 THEN p
                     ELSE set_goal_thm(p, i, IF refined = NoThm THEN trivial(p[i].goal.stmt)
                                             ELSE refined)))

defer(p) == Unless(p, {"Chain"}, Returned(p))
-----------------------------------------------------------------------------
\* Calculations.  The chain lives in the context; what is taken out of it at
\* the end is the node's facts, which were taken just before.
update_calculation(p) == reset_facts(p)

also(p) == InForward(p, Returned(update_calculation(p)))
take_calculation(p) == the_facts(p)
finally(p) ==
    InForward(p, LET q == update_calculation(p) IN chain(set_facts(q, take_calculation(q))))
-----------------------------------------------------------------------------
\* Leaving.
\* Mutant: the statement itself is handed out as proved.
extract_unproved(p) ==
    LET i == find_goal(p)
    IN  IF i = 0 THEN NoThm ELSE [assume(p[i].goal.stmt) EXCEPT !.hyps = {}]

extract_theorem(p) == LET i == find_goal(p) IN IF i = 0 THEN NoThm ELSE trivial(p[i].goal.stmt)
extracted_name(p) == p[find_goal(p)].goal.kind

return_to_theory(p) == reset_goal(enter(close_to(p, 1), "Forward"))
=============================================================================
