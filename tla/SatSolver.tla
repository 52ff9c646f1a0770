------------------------------ MODULE SatSolver ------------------------------
(***************************************************************************)
(* tools/metis.rs: the solver, one pass of unit propagation at a time.  A  *)
(* literal is a variable's number or its negative.                         *)
(*                                                                         *)
(* Two parts of the solver's state that nothing reads are left out: the    *)
(* reason of an assignment, and the trail, which lists the variables that  *)
(* are assigned.  Of a clause that is learned again and again the copies   *)
(* between the first and the last are left out: the first decides which    *)
(* conflict is found, the last which value is assigned.                    *)
(***************************************************************************)
EXTENDS Integers, Sequences, FiniteSets, FiniteSetsExt

CONSTANT ClauseLists   \* lists of clauses given to the solver

\* The number 0 is no literal.
ASSUME ClauseListsAssumption == ClauseLists \subseteq Seq(Seq(Int \ {0}))

VARIABLES
  clauses_given,  \* the clauses it was given
  clauses_held,   \* those and the ones learned
  assignments,    \* of each variable: "none", "true" or "false"
  levels,         \* of each variable: the level of its assignment
  decision_level,
  conflict,       \* the clause found false
  sat             \* "idle", "propagate", "conflict", "decide", "satisfiable", "unsatisfiable"

satVars == <<clauses_given, clauses_held, assignments, levels, decision_level, conflict, sat>>

-----------------------------------------------------------------------------
(* A clause, under the assignments there are. *)

var_of(l) == IF l > 0 THEN l ELSE -l
value_of(l) == IF l > 0 THEN "true" ELSE "false"
Satisfied(c) == \E j \in DOMAIN c : assignments[var_of(c[j])] = value_of(c[j])

\* The places of its literals without a value: a literal written twice counts twice.
Unassigned(c) == {j \in DOMAIN c : assignments[var_of(c[j])] = "none"}

IsUnit(c) == ~Satisfied(c) /\ \E j \in Unassigned(c) : Unassigned(c) = {j}
IsFalse_unread(c) == ~Satisfied(c) /\ ~\E j \in Unassigned(c) : Unassigned(c) = {j}
IsFalse(c) == ~Satisfied(c) /\ Unassigned(c) = {}

NumVars(cs) == Max({0} \union UNION {{var_of(cs[i][j]) : j \in DOMAIN cs[i]} : i \in DOMAIN cs})
all_assigned == \A v \in DOMAIN assignments : assignments[v] # "none"

-----------------------------------------------------------------------------

SatInit ==
  /\ clauses_given = <<>> /\ clauses_held = <<>>
  /\ assignments = <<>> /\ levels = <<>> /\ decision_level = 0
  /\ conflict = <<>> /\ sat = "idle"

\* A new solver, a clause added at a time, and solve.
solve_clauses(cs) ==
  /\ sat = "idle"
  /\ clauses_given' = cs /\ clauses_held' = cs
  /\ assignments' = [v \in 1..NumVars(cs) |-> "none"]
  /\ levels' = [v \in 1..NumVars(cs) |-> 0]
  /\ sat' = "propagate"
  /\ UNCHANGED <<decision_level, conflict>>

\* One pass over the clauses, against the assignments there are before it: the first
\* clause that is false ends it.
find_conflict ==
  /\ \E i \in DOMAIN clauses_held :
       /\ IsFalse(clauses_held[i]) /\ \A k \in 1..(i - 1) : ~IsFalse(clauses_held[k])
       /\ conflict' = clauses_held[i]
  /\ sat' = "conflict"
  /\ UNCHANGED <<assignments, levels>>

\* The literal left of each unit clause, and the last clause to leave one of v.
Pending ==
  [i \in {i \in DOMAIN clauses_held : IsUnit(clauses_held[i])} |->
     clauses_held[i][CHOOSE j \in Unassigned(clauses_held[i]) : TRUE]]
LastFor(pending, v) == Max({i \in DOMAIN pending : var_of(pending[i]) = v})

\* With no clause false, every clause with one literal left has it assigned, a later one
\* over an earlier one.
assign_units ==
  /\ \A i \in DOMAIN clauses_held : ~IsFalse(clauses_held[i])
  /\ \E pending \in {Pending} :
       LET assigned == {var_of(pending[i]) : i \in DOMAIN pending}
       IN /\ assigned # {}
          /\ assignments' = [v \in DOMAIN assignments |->
                               IF v \in assigned THEN value_of(pending[LastFor(pending, v)]) ELSE assignments[v]]
          /\ levels' = [v \in DOMAIN levels |-> IF v \in assigned THEN decision_level ELSE levels[v]]
  /\ UNCHANGED <<sat, conflict>>

\* Nothing more follows.
end_of_propagation ==
  /\ \A i \in DOMAIN clauses_held : ~IsFalse(clauses_held[i])
  /\ \A i \in DOMAIN clauses_held : ~IsUnit(clauses_held[i])
  /\ sat' = IF all_assigned THEN "satisfiable" ELSE "decide"
  /\ UNCHANGED <<assignments, levels, conflict>>

unit_propagate ==
  /\ sat = "propagate"
  /\ find_conflict \/ assign_units \/ end_of_propagation
  /\ UNCHANGED <<clauses_given, clauses_held, decision_level>>

\* The first variable without a value is given one.
decide_as(value) ==
  /\ sat = "decide"
  /\ \E v \in DOMAIN assignments :
       /\ assignments[v] = "none" /\ \A w \in 1..(v - 1) : assignments[w] # "none"
       /\ assignments' = [assignments EXCEPT ![v] = value]
       /\ levels' = [levels EXCEPT ![v] = decision_level + 1]
  /\ decision_level' = decision_level + 1
  /\ sat' = "propagate"
  /\ UNCHANGED <<clauses_given, clauses_held, conflict>>

decide_false == decide_as("false")
decide == decide_as("true")

\* The second highest of the levels of the conflict, level 0 left out.
compute_backtrack_level ==
  LET ls == {levels[var_of(conflict[j])] : j \in DOMAIN conflict} \ {0}
      below == {k \in ls : \E m \in ls : m > k}
  IN IF below = {} THEN 0 ELSE Max(below)

\* The clause comes last; of several copies there were, it is the last that goes.
Learn(cs, c) ==
  LET copies == {i \in DOMAIN cs : cs[i] = c}
  IN Append(IF \E i, k \in copies : i # k THEN [i \in 1..(Len(cs) - 1) |-> IF i < Max(copies) THEN cs[i] ELSE cs[i + 1]]
            ELSE cs, c)

\* The conflict clause itself is what is learned.
learn_and_backtrack ==
  /\ sat = "conflict" /\ decision_level > 0
  /\ clauses_held' = Learn(clauses_held, conflict)
  /\ decision_level' = compute_backtrack_level
  /\ LET gone == {v \in DOMAIN levels : levels[v] > compute_backtrack_level}
     IN /\ assignments' = [v \in DOMAIN assignments |-> IF v \in gone THEN "none" ELSE assignments[v]]
        /\ levels' = [v \in DOMAIN levels |-> IF v \in gone THEN 0 ELSE levels[v]]
  /\ conflict' = <<>>
  /\ sat' = "propagate"
  /\ UNCHANGED clauses_given

refuted ==
  /\ sat = "conflict" /\ decision_level = 0
  /\ sat' = "unsatisfiable"
  /\ UNCHANGED <<clauses_given, clauses_held, assignments, levels, decision_level, conflict>>

dpll == unit_propagate \/ decide \/ learn_and_backtrack \/ refuted

SatNext == (\E cs \in ClauseLists : solve_clauses(cs)) \/ dpll

SatSpec == SatInit /\ [][SatNext]_satVars

-----------------------------------------------------------------------------
(* The answers. *)

LitTrue(l, val) == IF l > 0 THEN l \in val ELSE -l \notin val
ClausesTrue(cs, val) == \A i \in DOMAIN cs : \E j \in DOMAIN cs[i] : LitTrue(cs[i][j], val)
SolverModel == {v \in DOMAIN assignments : assignments[v] = "true"}

\* An answer is about the clauses the solver was given, whatever it guessed, learned and
\* took back: an assignment that makes all of them true, or none does.
AnswersAreRight ==
  /\ sat = "satisfiable" => ClausesTrue(clauses_given, SolverModel)
  /\ sat = "unsatisfiable" => ~\E val \in SUBSET DOMAIN assignments : ClausesTrue(clauses_given, val)
=============================================================================
