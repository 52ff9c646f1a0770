------------------------------- MODULE MCProvers -------------------------------
(***************************************************************************)
(* Instance for TLC: one call of arith, of the resolution prover or of the *)
(* solver.                                                                 *)
(***************************************************************************)
EXTENDS Linarith, Metis, Clausify

vars == <<arithVars, metisVars, clausifyVars>>

Init == ArithInit /\ MetisInit /\ ClausifyInit

Next ==
  \/ metis = "idle" /\ sat = "idle" /\ ArithNext /\ UNCHANGED <<metisVars, clausifyVars>>
  \/ arith = "idle" /\ sat = "idle" /\ MetisNext /\ UNCHANGED <<arithVars, clausifyVars>>
  \/ arith = "idle" /\ metis = "idle" /\ ClausifyNext /\ UNCHANGED <<arithVars, metisVars>>

\* A call of the solver is never left in the middle.
Spec == Init /\ [][Next]_vars /\ WF_satVars(dpll /\ UNCHANGED <<arithVars, metisVars, formula>>)

-----------------------------------------------------------------------------
(* The solver. *)

Answered == sat \in {"satisfiable", "unsatisfiable"}

\* At most one literal of each clause is negative, and each literal is written once.
AllButOnePositive(cs) ==
  \A i \in DOMAIN cs : \A j, k \in DOMAIN cs[i] : j # k => cs[i][j] # cs[i][k] /\ (cs[i][j] > 0 \/ cs[i][k] > 0)

\* A decision is always for TRUE: on clauses with at most one negative literal the solver
\* answers.
DefiniteClausesAreSolved == (sat = "propagate" /\ AllButOnePositive(clauses_given)) ~> Answered

\* The solver answers.
SolveReturns == (sat = "propagate") ~> Answered

-----------------------------------------------------------------------------
(* Inputs. *)

MCArithVars == <<"x", "y", "z">>
X == <<"var", "x">> Y == <<"var", "y">> Z == <<"var", "z">>
Num(n) == <<"num", n>>
Suc(t) == <<"Suc", t>>
Plus(t, u) == <<"plus", t, u>>
Relate(rels, ts, us) == {<<r, t, u>> : r \in rels, t \in ts, u \in us}
Small == Relate({"less", "less_eq"}, {X, Y, Z, Num(0)}, {X, Y, Z})
           \union Relate({"eq", "less_eq"}, {X, Suc(Y)}, {Y, Plus(X, Y), Num(1)})
Goals == Small \union Relate(Relations, {X, Plus(X, X), Suc(X), Plus(X, Z)}, {Y, Suc(Y), Plus(Y, Z), Num(2)})
           \union {<<"less_eq", Plus(<<"minus", X, Y>>, Y), X>>, <<"eq", Suc(X), Suc(X)>>,
                   <<"less", Num(0), Suc(X)>>, <<"less_eq", <<"times", X, Y>>, X>>, <<"holds", X, Y>>}
MCArithGoals ==
  {<<>>} \union {<<g>> : g \in Goals} \union {<<g, p>> : g \in Goals, p \in Small}
    \union {<<g, p, q>> : g \in Relate({"less", "less_eq"}, {X, Suc(X), Plus(X, X)}, {Z, Plus(Y, Z)}), p \in Small, q \in Relate({"less_eq"}, {X, Y, Z}, {X, Y, Z})}
    \union {<<<<"less", Num(0), Suc(X)>>, <<"less_eq", X, X>>, <<"less", Num(0), Suc(Y)>>>>,
            <<<<"less_eq", X, X>>, <<"less", Num(0), Suc(Y)>>>>,
            <<<<"less_eq", X, X>>, <<"less_eq", X, X>>>>, <<<<"less", X, Y>>, <<"holds", X, Y>>>>,
            <<<<"less", Num(0), Suc(X)>>, <<"not_eq", Suc(Y), Num(0)>>, <<"not_eq", Num(0), Suc(X)>>>>,
            <<<<"less_eq", X, X>>, <<"not_less", Y, Num(0)>>>>}

RECURSIVE MCheight(_), TermsIn(_)
MCheight(t) == IF Parts(t) = {} THEN 0 ELSE 1 + Max({MCheight(p) : p \in Parts(t)})
TermsIn(t) == {t} \union UNION {TermsIn(p) : p \in Parts(t)}
MCTerms == UNION {UNION {TermsIn(g[i][2]) \union TermsIn(g[i][3]) : i \in DOMAIN g} : g \in MCArithGoals}

Pt == Literal(<<"P">>) Qt == Literal(<<"Q">>) Rt == Literal(<<"R">>)
PQ == Imp(Pt, Qt) QR == Imp(Qt, Rt) PPQ == Imp(Pt, Imp(Pt, Qt)) PQR == Imp(Pt, Imp(Qt, Rt))
Conj(a, b) == Literal(<<"conj", a, b>>)
Disj(a, b) == Literal(<<"disj", a, b>>)
Equals(a, b) == Literal(<<"equals", a, b>>)
HolEq(a, b) == Literal(<<"eq", a, b>>)
MCPremises == {Pt, Qt, PQ, QR, PPQ, PQR, Imp(Pt, False), Imp(PQ, Qt), Equals(Pt, Qt), Imp(Equals(Pt, Qt), Rt),
               HolEq(Pt, Qt), Conj(Pt, Qt), Imp(Qt, Imp(Pt, Imp(Pt, Rt)))}
MCGoals == {Pt, Qt, Rt, PQ, PQR, Imp(PQ, Rt), Conj(Pt, Qt), Disj(Pt, Qt), Imp(Pt, Conj(Pt, Qt)), False}
Step(name, rule, uses) == [name |-> name, rule |-> rule, uses |-> uses]
MCProofs ==
  {<<Step(4, r, <<1, 2>>), Step(5, s, u)>> : r \in {"resolution", "paramodulation", "factoring", "cnf"},
     s \in {"resolution", "paramodulation", "axiom"}, u \in {<<3, 4>>, <<4, 3>>, <<9, 4>>, <<9>>}}
Problem(ps, g, proofs) == [premises |-> ps, goal |-> g, proofs |-> proofs]
MCProblems ==
  {Problem(<<p>>, g, {}) : p \in MCPremises, g \in MCGoals}
    \union {Problem(<<p, q, QR>>, g, {}) : p \in MCPremises, q \in MCPremises, g \in MCGoals}
    \union {Problem(<<p, q, Pt>>, Rt, MCProofs) : p \in {PQ, QR, PPQ, Imp(Equals(Pt, Qt), Rt)},
                                                 q \in {Pt, Qt, QR, PQ, Equals(Pt, Qt), HolEq(Pt, Qt)}}
    \union {Problem(<<p, QR, Pt>>, g, {<<Step(4, "resolution", <<1, 2>>)>>}) : p \in {PQ, PPQ}, g \in {PQR, Imp(PQ, Rt)}}
    \union {Problem(<<>>, g, {<<>>}) : g \in MCGoals}

RECURSIVE MCdepth(_), TermsOf(_)
MCdepth(t) == IF Components(t) = {} THEN 0 ELSE 1 + Max({MCdepth(p) : p \in Components(t)})
TermsOf(t) == {t} \union UNION {TermsOf(p) : p \in Components(t)}
Negated(g) == {Imp(g, False)} \union (IF is_imp(g) THEN {Imp(consequent(g), False)} ELSE {})
MCLiterals == UNION {TermsOf(t) : t \in MCPremises \union UNION {{g} \union Negated(g) : g \in MCGoals}}

P == <<"P">> Q == <<"Q">>
Not(a) == <<"not", a>>
HolImp(a, b) == <<"app", <<"app", <<"implies">>, a>>, b>>
Formulas0 == {P, Q, Not(P), <<"Ex", P>>}
Instances == {<<"app", P, <<SkolemNames[i]>>>> : i \in DOMAIN SkolemNames}
Connected(fs, gs) == {<<c, f, g>> : c \in {"imp", "conj", "disj"}, f \in fs, g \in gs}
OneMore(fs) == fs \union Connected(fs, fs) \union {HolImp(P, Q), <<"app", P, Q>>}
Compounds(fs) == fs \union Connected(fs, {P, Not(Q), Not(<<"imp", P, Q>>)}) \union {Not(f) : f \in fs}
MCFormulas == {[term |-> f, how |-> h] : f \in Compounds(OneMore(Formulas0)), h \in {"tseitin", "polarity"}}

RECURSIVE MCsize(_), PartsOf(_)
MCsize(t) == IF Len(t) = 1 THEN 0 ELSE 1 + Max({MCsize(u) : u \in Subterms(t)})
PartsOf(t) == {t} \union UNION {PartsOf(u) : u \in Subterms(t)}
MCFormulaTerms == UNION {PartsOf(t) : t \in Compounds(OneMore(Formulas0 \union Instances))}

MCClauses == {<<l>> : l \in {1, -1, 2, -2, 3, -3}} \union {<<1, 2>>, <<-1, 2>>, <<-1, -2>>, <<1, -2>>, <<2, 3>>, <<-2, 3>>, <<-2, -3>>,
              <<1, 2, 3>>, <<-1, -2, 3>>, <<-1, 2, -3>>, <<1, 1>>, <<-1, -1>>, <<1, -1>>, <<>>}
MCClauseLists == {<<>>} \union UNION {[1..n -> MCClauses] : n \in 1..2}
                    \union [1..3 -> {<<1, 2>>, <<-1, 2>>, <<-1, -2>>, <<1, -2>>, <<-2, 3>>, <<-1, -2, 3>>, <<-2, -3>>, <<1, 1>>}]

\* Satisfiable, by making 1 false.
MCUnsolved == {<<<<-1, 2>>, <<-1, -2>>>>}
===============================================================================
