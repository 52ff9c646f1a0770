------------------------------- MODULE Clausify -------------------------------
(***************************************************************************)
(* tools/metis.rs: the two ways of making clauses of a formula, for the    *)
(* solver.                                                                 *)
(*                                                                         *)
(* A formula is a tuple: ("imp", A, B), ("conj", A, B), ("disj", A, B),    *)
(* ("not", A), ("app", f, x), ("Ex", P) for "some x has P x", or an atom,  *)
(* a name of its own; the implication of HOL is the atom "implies" applied *)
(* to A and to B.                                                          *)
(***************************************************************************)
EXTENDS SatSolver

CONSTANTS
  Formulas,       \* records: a formula and how clauses are made of it
  FormulaTerms,   \* the formulas, what skolemize makes of them, and their parts
  size(_)         \* of a formula: that of a part is less

Connectives == {"imp", "conj", "disj", "app", "not", "Ex"}
Subterms(t) == {t[i] : i \in 2..Len(t)}

\* Formulas are finite, and the set has the parts of its members.
ASSUME FormulasAssumption ==
  /\ \A t \in FormulaTerms :
       /\ \/ Len(t) = 1 /\ t = <<t[1]>> /\ t[1] \notin Connectives
          \/ Len(t) = 2 /\ t = <<t[1], t[2]>> /\ t[1] \in {"not", "Ex"}
          \/ Len(t) = 3 /\ t = <<t[1], t[2], t[3]>> /\ t[1] \in {"imp", "conj", "disj", "app"}
       /\ size(t) \in Nat /\ \A u \in Subterms(t) : size(u) < size(t)
  /\ UNION {Subterms(t) : t \in FormulaTerms} \subseteq FormulaTerms
  /\ {f.term : f \in Formulas} \subseteq FormulaTerms

VARIABLE formula    \* what is solved, if not just clauses: a member of Formulas

clausifyVars == <<formula, satVars>>

-----------------------------------------------------------------------------
(* Skolem constants, counted from left to right, whatever the polarity.    *)

SkolemNames == <<"sko0", "sko1", "sko2">>

\* By how much a formula moves the counter on.
quantifiers[t \in FormulaTerms] ==
  CASE Len(t) = 1 -> 0
    [] t[1] = "Ex" -> 1
    [] t[1] = "not" -> quantifiers[t[2]]
    [] OTHER -> quantifiers[t[2]] + quantifiers[t[3]]

\* A formula, with the counter as it stands before it.
skolemize_rec[p \in FormulaTerms \X Nat] ==
  LET t == p[1]
      counter == p[2]
  IN CASE Len(t) = 1 -> t
       [] t[1] = "Ex" -> <<"app", t[2], <<SkolemNames[counter + 1]>>>>
       [] t[1] = "not" -> <<"not", skolemize_rec[<<t[2], counter>>]>>
       [] OTHER -> <<t[1], skolemize_rec[<<t[2], counter>>],
                     skolemize_rec[<<t[3], counter + quantifiers[t[2]]>>]>>
skolemize(t) == skolemize_rec[<<t, 0>>]

-----------------------------------------------------------------------------
(* Clauses under way.  names lists the terms that are variables, each at   *)
(* the place that is its number.                                           *)

Named(cs, names) == [clauses |-> cs, names |-> names]
States == [clauses : Seq(Seq(Int \ {0})), names : Seq(FormulaTerms)]

IsIn(t, names) == \E i \in DOMAIN names : names[i] = t
AtomId(t, names) == IF IsIn(t, names) THEN CHOOSE i \in DOMAIN names : names[i] = t ELSE Len(names) + 1
WithAtom(t, names) == IF IsIn(t, names) THEN names ELSE Append(names, t)

-----------------------------------------------------------------------------
(* Clauses by polarity. *)

lit(id, polarity) == IF polarity THEN id ELSE -id

\* Each clause of a with each of b.
merge_cnf_clauses(a, b) ==
  IF a = <<>> THEN b ELSE IF b = <<>> THEN a
  ELSE [k \in 1..(Len(a) * Len(b)) |-> a[((k - 1) \div Len(b)) + 1] \o b[((k - 1) % Len(b)) + 1]]

\* The clauses of the parts are put side by side, but those of a true disjunction or a
\* false conjunction are merged; a negation is an atom.
term_to_cnf_clauses[p \in FormulaTerms \X Seq(FormulaTerms) \X BOOLEAN] ==
  LET t == p[1]
      polarity == p[3]
  IN IF t[1] \notin {"imp", "conj", "disj"}
     THEN Named(<<<<lit(AtomId(t, p[2]), polarity)>>>>, WithAtom(t, p[2]))
     ELSE LET a == term_to_cnf_clauses[<<t[2], p[2], IF t[1] = "imp" THEN ~polarity ELSE polarity>>]
              b == term_to_cnf_clauses[<<t[3], a.names, polarity>>]
              merged == t[1] = (IF polarity THEN "disj" ELSE "conj")
          IN Named(IF merged THEN merge_cnf_clauses(a.clauses, b.clauses) ELSE a.clauses \o b.clauses, b.names)

hol_to_cnf(t) == term_to_cnf_clauses[<<skolemize(t), <<>>, TRUE>>].clauses

-----------------------------------------------------------------------------
(* Clauses with a variable for every part of the formula.                  *)

Defining_sign_slip(connective, v, va, vb) ==
  CASE connective = "imp" -> <<<<-v, -va, vb>>, <<va, v>>, <<vb, v>>>>
    [] connective = "disj" -> <<<<-v, va, vb>>, <<-va, v>>, <<-vb, v>>>>
    [] connective = "not" -> <<<<-v, -va>>, <<v, va>>>>
    [] OTHER -> <<<<-v, va>>, <<-v, vb>>, <<-va, -vb, v>>>>

\* That v is the connective of va and vb; an application is taken for a conjunction.
Defining(connective, v, va, vb) ==
  CASE connective = "imp" -> <<<<-v, -va, vb>>, <<va, v>>, <<-vb, v>>>>
    [] connective = "disj" -> <<<<-v, va, vb>>, <<-va, v>>, <<-vb, v>>>>
    [] connective = "not" -> <<<<-v, -va>>, <<v, va>>>>
    [] OTHER -> <<<<-v, va>>, <<-v, vb>>, <<-va, -vb, v>>>>

\* The parts first, whether they were met before or not: their clauses are then made again.
tseitin_rec[p \in FormulaTerms \X States] ==
  LET t == p[1]
  IN IF Len(t) = 1 THEN Named(p[2].clauses, WithAtom(t, p[2].names))
     ELSE LET a == tseitin_rec[<<t[2], p[2]>>]
              b == IF Len(t) = 2 THEN a ELSE tseitin_rec[<<t[3], a>>]
              Var(u) == AtomId(u, b.names)
          IN Named(b.clauses \o Defining(t[1], Var(t), Var(t[2]), Var(t[Len(t)])), WithAtom(t, b.names))

tseitin_transform(t) ==
  LET root == skolemize(t)
      all == tseitin_rec[<<root, Named(<<>>, <<>>)>>]
  IN Append(all.clauses, <<AtomId(root, all.names)>>)

-----------------------------------------------------------------------------
(* A call of the solver, for a formula or for clauses. *)

ClausifyInit == formula = [term |-> <<"none">>, how |-> "given"] /\ SatInit

solve_formula(f) ==
  /\ sat = "idle"
  /\ \E cs \in {IF f.how = "tseitin" THEN tseitin_transform(f.term) ELSE hol_to_cnf(f.term)} : solve_clauses(cs)
  /\ formula' = f

ClausifyNext ==
  \/ \E f \in Formulas : solve_formula(f)
  \/ SatNext /\ UNCHANGED formula

ClausifySpec == ClausifyInit /\ [][ClausifyNext]_clausifyVars

-----------------------------------------------------------------------------
(* What formulas say, given the atoms that are true. *)

FormulaAtoms == {t[1] : t \in {u \in FormulaTerms : Len(u) = 1}}
Interpretations == SUBSET FormulaAtoms

\* The interpretations that make a formula true.
models[t \in FormulaTerms] ==
  CASE Len(t) = 1 -> {val \in Interpretations : t[1] \in val}
    [] t[1] = "not" -> Interpretations \ models[t[2]]
    [] t[1] = "conj" -> models[t[2]] \intersect models[t[3]]
    [] t[1] = "disj" -> models[t[2]] \union models[t[3]]
    [] t[1] = "imp" -> (Interpretations \ models[t[2]]) \union models[t[3]]
    [] OTHER -> {}

\* Formulas made of atoms and the connectives the transformation knows.
plain[t \in FormulaTerms] ==
  \/ Len(t) = 1
  \/ t[1] \in {"imp", "conj", "disj", "not"} /\ \A u \in Subterms(t) : plain[u]

\* An answer about the clauses that were made of a plain formula, with a variable for each
\* of its parts, is an answer about the formula.
FormulaAnswersAreRight ==
  (sat \in {"satisfiable", "unsatisfiable"} /\ formula.how = "tseitin" /\ plain[formula.term]) =>
    (sat = "satisfiable" <=> models[formula.term] # {})
=============================================================================
