------------------------------- MODULE Linarith -------------------------------
(***************************************************************************)
(* isar/linarith.rs: the arith method.  The first subgoal is the goal, the *)
(* later ones are taken for its premises; premises and negated goal become *)
(* constraints, one variable after another is eliminated from them, and a  *)
(* contradiction among what is left says that the goal is entailed.  Then  *)
(* a theorem is built with the rules of the library, or with the goal as   *)
(* its own hypothesis.                                                     *)
(*                                                                         *)
(* A term is a tuple: ("num", n), ("var", x), ("Suc", t), ("plus", t, u),  *)
(* ("minus", t, u), or another one, which is not linear; a statement is    *)
(* ("eq", t, u), ("less", t, u), ("less_eq", t, u), ("not_eq", t, u),      *)
(* ("not_less", t, u) or another one.  An expression or constraint has a   *)
(* coefficient, possibly 0, for every variable; constraints are a set, as  *)
(* neither order nor copies matter.                                        *)
(***************************************************************************)
EXTENDS Integers, Sequences, SequencesExt

CONSTANTS
  ArithVars,      \* the variables, in the order of their names
  Terms,          \* the terms arith meets, with the terms they are made of
  height(_),      \* how high a term is
  Library,        \* the rules without premises the theorem database has
  ArithGoals,     \* the proof states arith is called on: sequences of statements
  max_steps,      \* eliminations before the solver gives up
  Largest         \* numbers up to it are tried for the variables

VARIABLES
  subgoals,       \* the state arith was called on
  constraints,    \* the constraints left
  to_eliminate,   \* the variables still to be eliminated
  step_count,     \* eliminations done
  arith,          \* "idle", "eliminating", "entailed", "fallback", "closed"
  theorem         \* the theorem returned, when closed

arithVars == <<subgoals, constraints, to_eliminate, step_count, arith, theorem>>

Names == {ArithVars[i] : i \in DOMAIN ArithVars}
NoTheorem == [hyps |-> {}, subgoals |-> <<>>]
Elements(s) == {s[i] : i \in DOMAIN s}

Parts(t) ==
  CASE t[1] = "Suc" -> {t[2]}
    [] t[1] \in {"plus", "minus", "times"} -> {t[2], t[3]}
    [] OTHER -> {}

ASSUME VarsAssumption ==
  ArithVars \in Seq(STRING) /\ \A i, j \in DOMAIN ArithVars : ArithVars[i] = ArithVars[j] => i = j

\* Terms are finite trees, with numbers and variables for leaves.
ASSUME TermsAssumption ==
  \A t \in Terms :
    /\ height(t) \in Nat /\ \A p \in Parts(t) : p \in Terms /\ height(p) < height(t)
    /\ t[1] = "num" => t[2] \in Nat
    /\ t[1] = "var" => t[2] \in Names

ASSUME GoalsAssumption == ArithGoals \subseteq Seq(STRING \X Terms \X Terms)
ASSUME LargestAssumption == Largest \in Nat

-----------------------------------------------------------------------------
(* Linear expressions. *)

LinExpr(k, coeffs) == [constant |-> k, coeffs |-> coeffs]
constant(k) == LinExpr(k, [x \in Names |-> 0])
var(x) == LinExpr(0, [y \in Names |-> IF y = x THEN 1 ELSE 0])
add(a, b) == LinExpr(a.constant + b.constant, [x \in Names |-> a.coeffs[x] + b.coeffs[x]])
scale(a, k) == LinExpr(a.constant * k, [x \in Names |-> a.coeffs[x] * k])
sub(a, b) == add(a, scale(b, -1))

\* A function of terms is defined by recursion over them.
linear[t \in Terms] ==
  CASE t[1] \in {"num", "var"} -> TRUE
    [] t[1] = "Suc" -> linear[t[2]]
    [] t[1] \in {"plus", "minus"} -> linear[t[2]] /\ linear[t[3]]
    [] OTHER -> FALSE
IsLinear(t) == linear[t]

\* Of a term that is not linear there is no expression: what is here is not used.
expression[t \in Terms] ==
  CASE t[1] = "num" -> constant(t[2])
    [] t[1] = "var" -> var(t[2])
    [] t[1] = "Suc" -> add(expression[t[2]], constant(1))
    [] t[1] = "plus" -> add(expression[t[2]], expression[t[3]])
    [] t[1] = "minus" -> sub(expression[t[2]], expression[t[3]])
    [] OTHER -> constant(0)
term_to_lin_expr(t) == expression[t]

Relations == {"eq", "less", "less_eq"}
IsAtom(s) == s[1] \in Relations /\ IsLinear(s[2]) /\ IsLinear(s[3])
term_to_atom(s) == [rel |-> s[1], lhs |-> term_to_lin_expr(s[2]), rhs |-> term_to_lin_expr(s[3])]

-----------------------------------------------------------------------------
(* Constraints: expr <= 0, or expr < 0 when strict. *)

Constraint(e, count) == [e |-> e, is_strict |-> count > 0, strict_count |-> count]
le_zero(e) == Constraint(e, 0)
lt_zero(e) == Constraint(e, 1)
succ(e) == add(e, constant(1))

atom_to_constraints(at) ==
  CASE at.rel = "eq" -> <<le_zero(sub(at.lhs, at.rhs)), le_zero(sub(at.rhs, at.lhs))>>
    [] at.rel = "less" -> <<le_zero(sub(succ(at.lhs), at.rhs))>>
    [] at.rel = "less_eq" -> <<le_zero(sub(at.lhs, at.rhs))>>

\* The order of the negation turned into a strict one.
negate_goal_strict(at, typ) ==
  IF at.rel = "less" THEN <<le_zero(sub(succ(at.rhs), at.lhs))>>
  ELSE <<le_zero(sub(succ(at.rhs), at.lhs)), le_zero(sub(succ(at.lhs), at.rhs))>>

\* Of an equation both strict orders are required at once.
negate_goal(at, typ) ==
  CASE at.rel = "eq" -> <<le_zero(sub(succ(at.lhs), at.rhs)), le_zero(sub(succ(at.rhs), at.lhs))>>
    [] at.rel = "less" -> <<le_zero(sub(at.rhs, at.lhs))>>
    [] at.rel = "less_eq" /\ typ = "Nat" -> <<le_zero(sub(succ(at.rhs), at.lhs))>>
    [] at.rel = "less_eq" /\ typ = "Int" -> <<lt_zero(sub(at.lhs, at.rhs))>>

coefficient(c, x) == c.e.coeffs[x]

Mentions(cs, x) == \E c \in Elements(cs) : coefficient(c, x) # 0

\* The variables in the order in which they turn up, and by name in each statement,
\* whose constraints all mention the same ones.
FirstMention(css, x) ==
  CHOOSE i \in DOMAIN css : Mentions(css[i], x) /\ \A j \in 1..(i - 1) : ~Mentions(css[j], x)
Rank(x) == CHOOSE i \in DOMAIN ArithVars : ArithVars[i] = x
TurnsUpBefore(css, x, y) ==
  \/ FirstMention(css, x) < FirstMention(css, y)
  \/ FirstMention(css, x) = FirstMention(css, y) /\ Rank(x) < Rank(y)
collect_variables(css) ==
  {vs \in SetToSeqs({x \in Names : \E i \in DOMAIN css : Mentions(css[i], x)}) :
     \A i, j \in DOMAIN vs : i < j => TurnsUpBefore(css, vs[i], vs[j])}

\* The factors swapped.
combine_bounds_swapped(lower, upper, x) ==
  Constraint(add(scale(lower.e, -coefficient(lower, x)), scale(upper.e, coefficient(upper, x))),
             lower.strict_count + upper.strict_count)

combine_bounds(lower, upper, x) ==
  Constraint(add(scale(lower.e, coefficient(upper, x)), scale(upper.e, -coefficient(lower, x))),
             lower.strict_count + upper.strict_count)

eliminate_var(cs, x) ==
  LET uppers == {c \in cs : coefficient(c, x) > 0}
      lowers == {c \in cs : coefficient(c, x) < 0}
  IN {c \in cs : coefficient(c, x) = 0}
       \union {combine_bounds(lower, upper, x) : lower \in lowers, upper \in uppers}

HasNoVars(c) == \A x \in Names : coefficient(c, x) = 0
is_pair_contradiction(c, d) ==
  /\ HasNoVars(c) /\ HasNoVars(d)
  /\ c.is_strict /\ ~d.is_strict
  /\ c.e.constant = -d.e.constant /\ c.e.constant >= 0

is_contradiction(cs) ==
  \/ \E c \in cs : HasNoVars(c) /\ (c.e.constant > 0 \/ (c.is_strict /\ c.e.constant >= 0))
  \/ \E c, d \in cs : is_pair_contradiction(c, d)

-----------------------------------------------------------------------------
(* The theorem.  Against a state of statements without variables a rule    *)
(* with premises never lowers the number of subgoals, so transitivity and  *)
(* monotonicity give nothing and the rules without premises remain.        *)

ClosedBy(rule, s) ==
  CASE rule = "refl" -> s[1] = "eq" /\ s[2] = s[3]
    [] rule = "le_refl" -> s[1] = "less_eq" /\ s[2] = s[3]
    [] rule = "Suc_not_Zero" -> s[1] = "not_eq" /\ s[2][1] = "Suc" /\ s[3] = <<"num", 0>>
    [] rule = "Zero_not_Suc" -> s[1] = "not_eq" /\ s[2] = <<"num", 0>> /\ s[3][1] = "Suc"
    [] rule = "zero_less_Suc" -> s[1] = "less" /\ s[2] = <<"num", 0>> /\ s[3][1] = "Suc"
    [] rule = "not_less0" -> s[1] = "not_less" /\ s[3] = <<"num", 0>>
    [] OTHER -> FALSE

\* The database reads add_left_cancel and add_right_cancel, whose statements are equations
\* of an equation of sums, as sums: as no subgoal is one, they close none.
rule_names ==
  SelectSeq(<<"refl", "le_refl", "Suc_not_Zero", "Zero_not_Suc", "zero_less_Suc", "not_less0", "add_left_cancel",
              "add_right_cancel">>, LAMBDA r : r \in Library)

\* The subgoals are counted before they are tried: after one is closed the next is skipped.
TryRule(st, rule) ==
  FoldLeft(LAMBDA left, i : IF i <= Len(left) /\ ClosedBy(rule, left[i]) THEN RemoveAt(left, i) ELSE left,
           st, [i \in 1..Len(st) |-> i])

try_resolution_proof(st) == FoldLeft(TryRule, st, rule_names)

\* A term is rebuilt of an expression without negative coefficients.
Rebuildable(e) == (\A x \in Names : e.coeffs[x] >= 0) /\ (e.constant >= 0 \/ \E x \in Names : e.coeffs[x] # 0)

\* A theorem without premises closes the first subgoal if it is that statement, and the
\* others are assumed.
discharge_premises(proved, st) ==
  IF proved = st[1] THEN {[hyps |-> {st[i] : i \in 2..Len(st)}, subgoals |-> <<>>]} ELSE {}

try_direct_entailment(st) == IF Len(st) = 1 THEN {[hyps |-> {st[1]}, subgoals |-> <<>>]} ELSE {}

\* For an equation of equal sides the theorem is that the equation equals itself, which no
\* subgoal is.
prove_entailment(st) ==
  LET goal == term_to_atom(st[1]) IN
  IF goal.rel = "eq" /\ goal.lhs = goal.rhs
  THEN IF Rebuildable(goal.lhs) THEN discharge_premises(<<"equals", st[1], st[1]>>, st) ELSE {}
  ELSE IF Len(st) = 1 THEN try_direct_entailment(st)
  ELSE IF try_resolution_proof(st) = <<>> THEN {NoTheorem} ELSE {}

-----------------------------------------------------------------------------
ArithInit ==
  /\ subgoals = <<>> /\ constraints = {} /\ to_eliminate = <<>> /\ step_count = 0
  /\ arith = "idle" /\ theorem = NoTheorem

\* One list of constraints for each premise; what is no atom gives none.
PremiseConstraints(st) ==
  [i \in 1..(Len(st) - 1) |->
     IF IsAtom(st[i + 1]) THEN atom_to_constraints(term_to_atom(st[i + 1])) ELSE <<>>]

\* arith_tac up to check_entailment; the subgoals it is called on are of either type,
\* and are taken to be of type nat.
arith_tac(st) ==
  /\ subgoals' = st
  /\ IF st = <<>> THEN arith' = "closed" /\ UNCHANGED <<constraints, to_eliminate>>
     ELSE IF ~IsAtom(st[1]) THEN arith' = "fallback" /\ UNCHANGED <<constraints, to_eliminate>>
     ELSE \E css \in {Append(PremiseConstraints(st), negate_goal(term_to_atom(st[1]), "Nat"))} :
             /\ constraints' = UNION {Elements(css[i]) : i \in DOMAIN css}
             /\ to_eliminate' \in collect_variables(css)
             /\ arith' = "eliminating"
  /\ UNCHANGED <<step_count, theorem>>

eliminate ==
  /\ arith = "eliminating" /\ to_eliminate # <<>> /\ step_count < max_steps
  /\ constraints' = eliminate_var(constraints, Head(to_eliminate))
  /\ to_eliminate' = Tail(to_eliminate)
  /\ step_count' = step_count + 1
  /\ UNCHANGED <<subgoals, arith, theorem>>

give_up ==
  /\ arith = "eliminating" /\ to_eliminate # <<>> /\ step_count >= max_steps
  /\ arith' = "fallback"
  /\ UNCHANGED <<subgoals, constraints, to_eliminate, step_count, theorem>>

check_entailment ==
  /\ arith = "eliminating" /\ to_eliminate = <<>>
  /\ arith' = IF is_contradiction(constraints) THEN "entailed" ELSE "fallback"
  /\ UNCHANGED <<subgoals, constraints, to_eliminate, step_count, theorem>>

\* What solve does when the goal is entailed; the fallback is auto, then blast.
solve ==
  /\ arith = "entailed"
  /\ \/ \E th \in prove_entailment(subgoals) : arith' = "closed" /\ theorem' = th
     \/ prove_entailment(subgoals) = {} /\ arith' = "fallback" /\ UNCHANGED theorem
  /\ UNCHANGED <<subgoals, constraints, to_eliminate, step_count>>

ArithNext ==
  \/ arith = "idle" /\ \E st \in ArithGoals : arith_tac(st)
  \/ eliminate \/ give_up \/ check_entailment \/ solve

ArithSpec == ArithInit /\ [][ArithNext]_arithVars
-----------------------------------------------------------------------------
(* What the statements say of numbers. *)

value[t \in Terms] ==
  [val \in [Names -> Nat] |->
     CASE t[1] = "num" -> t[2]
       [] t[1] = "var" -> val[t[2]]
       [] t[1] = "Suc" -> value[t[2]][val] + 1
       [] t[1] = "plus" -> value[t[2]][val] + value[t[3]][val]
       [] t[1] = "minus" -> IF value[t[2]][val] > value[t[3]][val]
                            THEN value[t[2]][val] - value[t[3]][val] ELSE 0
       [] t[1] = "times" -> value[t[2]][val] * value[t[3]][val]
       [] OTHER -> 0]
Value(t, val) == value[t][val]

subtracts[t \in Terms] == t[1] = "minus" \/ \E p \in Parts(t) : subtracts[p]
HasMinus(t) == subtracts[t]

Says(s, val) ==
  LET a == Value(s[2], val)
      b == Value(s[3], val)
  IN CASE s[1] = "eq" -> a = b [] s[1] = "less" -> a < b [] s[1] = "less_eq" -> a <= b

\* The sum of what a function gives for the first n numbers.
total[n \in 0..Len(ArithVars)] ==
  [f \in [1..Len(ArithVars) -> Int] |-> IF n = 0 THEN 0 ELSE total[n - 1][f] + f[n]]
SumOf(c, val) ==
  c.e.constant + total[Len(ArithVars)][[n \in 1..Len(ArithVars) |-> coefficient(c, ArithVars[n]) * val[ArithVars[n]]]]
Meets(val, cs) == \A c \in cs : IF c.is_strict THEN SumOf(c, val) < 0 ELSE SumOf(c, val) <= 0

\* Where the bounds on x are, when its coefficients are units.
Bounds(cs, x, val) ==
  {0} \union {-coefficient(c, x) * SumOf(c, [val EXCEPT ![x] = 0]) : c \in {c \in cs : coefficient(c, x) # 0}}

\* An elimination loses no integer solution, and when the coefficients of the variable are
\* units, it adds none either: what is left can be met just when some value of the
\* variable, with the same values of the others, meets what there was.
EliminationIsExact ==
  [][eliminate =>
       LET x == Head(to_eliminate)
           units == \A c \in constraints : coefficient(c, x) \in {-1, 0, 1}
       IN \A val \in [Names -> -Largest..Largest] :
            /\ \A k \in -Largest..Largest :
                 Meets([val EXCEPT ![x] = k], constraints) => Meets(val, constraints')
            /\ units /\ Meets(val, constraints') =>
                 \E k \in Bounds(constraints, x, val) : Meets([val EXCEPT ![x] = k], constraints)
    ]_arithVars

\* When arith says that a goal is entailed, an order without subtraction, then it holds for
\* all natural numbers that meet the later subgoals; and when it answers with a theorem,
\* the hypotheses of that, the goal itself if it is the only one, hold for all numbers.
EntailedGoalsHold ==
  (/\ arith \in {"entailed", "closed"} /\ subgoals # <<>> /\ subgoals[1][1] # "eq"
   /\ \A i \in DOMAIN subgoals : IsAtom(subgoals[i]) => ~HasMinus(subgoals[i][2]) /\ ~HasMinus(subgoals[i][3])) =>
  \A val \in [Names -> 0..Largest] :
    /\ (\A i \in 2..Len(subgoals) : IsAtom(subgoals[i]) => Says(subgoals[i], val)) => Says(subgoals[1], val)
    /\ \A h \in theorem.hyps : Says(h, val)
=============================================================================
