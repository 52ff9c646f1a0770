------------------------------ MODULE MCThmKernel ------------------------------
(***************************************************************************)
(* The kernel over the terms of PureTerm: propositional variables a and b, *)
(* one schematic variable ?x1, implications, equations, the false          *)
(* proposition !!a. a and functions with a vacuous binder, interpreted     *)
(* over the truth values.                                                  *)
(***************************************************************************)
EXTENDS ThmSemantics, Unify

a == Free("a")
b == Free("b")
x1 == Var("x", 1)
falsum == App(PureAll, Abs(Bound(0)))   \* mk_all("a", a)
Fa == Abs(a)

-----------------------------------------------------------------------------
(* The universe of the passing run.  It is closed under instantiation. *)

MCEnv == {empty_env, x1 :> b}

MCProp ==
  {a, b, x1, falsum, mk_implies(a, a), mk_implies(a, b),
   mk_implies(x1, mk_implies(a, b)), mk_implies(b, mk_implies(a, b)),
   mk_equals(a, b), mk_equals(b, a), mk_equals(a, a), mk_equals(Fa, Fa),
   mk_equals(App(Fa, a), App(Fa, a))}

MCTerm == MCProp \union {Fa, App(Fa, a)}

\* Lists of at most two premises.
MCPremList == {<<>>} \union {<<p>> : p \in MCProp} \union {<<p, q>> : p, q \in MCProp}

MCFreeName == {"a", "b"}
MCAdmissible == {mk_implies(x1, mk_implies(a, b))}

\* The environment starts with the maxidx of the theorems, which bounds the pairs'.
PairsMaxIdx(pairs) ==
  Max({0} \union UNION {{compute_maxidx(pairs[i][1]), compute_maxidx(pairs[i][2])} : i \in DOMAIN pairs})
MCUnifiers(pairs) ==
  LET w == unifiers(PairsMaxIdx(pairs), pairs) IN IF w.status = "some" THEN {w.env} ELSE {}
MCMatchers(p, q) ==
  LET w == matchers(PairsMaxIdx(<<<<p, q>>>>), p, q) IN IF w.status = "some" THEN {w.env} ELSE {}
MCSubstBound(t, body) == subst_bounds(<<t>>, body)
MCForAll(x, p) == mk_all(x, p)
MCChain(ps, q) == mk_chain(ps, q)
MCEnvMaxIdx(env) == Max({0} \union {v[3] : v \in DOMAIN env})

-----------------------------------------------------------------------------
(* The standard model: propositions are truth values, abstractions are     *)
(* functions on them.                                                      *)

MCVal == [{a, b, x1} -> BOOLEAN]

RECURSIVE DenIn(_, _, _)
DenIn(v, stack, t) ==
  CASE is_implies(t) -> DenIn(v, stack, antecedent(t)) => DenIn(v, stack, consequent(t))
    [] is_equals(t) -> DenIn(v, stack, lhs(t)) = DenIn(v, stack, rhs(t))
    [] is_all(t) -> \A d \in BOOLEAN : DenIn(v, <<d>> \o stack, all_body(t))
    [] is_abs(t) -> [d \in BOOLEAN |-> DenIn(v, <<d>> \o stack, t[2])]
    [] Kind(t) = "Bound" -> stack[t[2] + 1]
    [] Kind(t) \in {"Free", "Var"} -> v[t]
    [] OTHER -> DenIn(v, stack, t[2])[DenIn(v, stack, t[3])]

MCDen(v, t) == DenIn(v, <<>>, t)
MCVariants(v, x) == {[v EXCEPT ![Free(x)] = d] : d \in BOOLEAN}

-----------------------------------------------------------------------------
(* In the universe of the passing run terms mean what the rules take them  *)
(* to mean, so that FaithfulSpec and CoveredSpec have every behaviour of   *)
(* CoreSpec there.                                                         *)

MCHolds(v, p) == MCDen(v, p) = TRUE

ASSUME UniverseIsFaithful ==
  /\ \A t, u \in MCTerm : alpha_eq(t, u) => t = u
  /\ \A p \in MCProp, v \in MCVal :
       /\ is_equals(p) => (MCHolds(v, p) => MCDen(v, lhs(p)) = MCDen(v, rhs(p)))
       /\ \A x \in MCFreeName :
            (\A w \in MCVariants(v, x) : MCHolds(w, p)) => MCHolds(v, MCForAll(x, p))
       /\ \A t \in MCProp : is_all(p) /\ MCHolds(v, p) => MCHolds(v, MCSubstBound(t, all_body(p)))
  /\ \A env \in MCEnv :
       /\ \A v \in MCVal : \E w \in MCVal : \A p \in MCProp :
            MCDen(v, norm_term(env, p)) = MCDen(w, p)
       /\ \A p \in MCProp :
            /\ IsPrefix([i \in DOMAIN prems(p) |-> norm_term(env, prems(p)[i])],
                        prems(norm_term(env, p)))
            /\ compute_maxidx(norm_term(env, p)) <= Max({compute_maxidx(p), MCEnvMaxIdx(env)})
       /\ \A p, q \in MCProp : env \in MCMatchers(p, q) \union MCUnifiers(<<<<p, q>>>>) =>
            norm_term(env, p) = norm_term(env, q)

===============================================================================
