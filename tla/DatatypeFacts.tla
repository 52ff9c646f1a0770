---------------------------- MODULE DatatypeFacts ----------------------------
(***************************************************************************)
(* The facts of a datatype, and what they say of it.                       *)
(*                                                                         *)
(* First the propositions the datatype packages write down: a small term   *)
(* language (core/term.rs, core/logic.rs and hol/hologic.rs, as the        *)
(* packages use it) and its evaluation in the free datatype of the         *)
(* declaration, cut off at a depth.  A declaration d is                    *)
(* [name, params, ctors], ctors a sequence of [c, args], args a sequence   *)
(* of [sel, ty].  The type ty of an argument is "'a", "nat", "T" (the      *)
(* datatype itself), "'a T" (the same, applied to its parameter) or        *)
(* "T list" (recursive only under another type).                           *)
(*                                                                         *)
(* Then the facts: the constructor rules CtrSugar assumes as theorems      *)
(* (hol/ctr_sugar.rs), as generate_lemmas and as generate_all_theorems     *)
(* state them, then the least fixed point                                  *)
(* rules of BnfLfp::generate_lemmas (hol/bnf_lfp.rs) - induction, the fold *)
(* and rec equations, map, set, rel and pred - each in the order in which  *)
(* they are added.  A lemma is [name, attrs, prop].  The rules of a        *)
(* greatest fixed point are generated only when the caller asks for a      *)
(* codatatype, which the loader never does.                                *)
(***************************************************************************)
EXTENDS Naturals, Sequences, SequencesExt, FiniteSets

CONSTANT
  Depth        \* values of the datatype are built with at most so many layers

-----------------------------------------------------------------------------
(* A term or a formula: k is its kind, <<n, i>> the name it carries, s the *)
(* sort of a variable, a its subterms.                                     *)
Node(k, n, i, s, a) == [k |-> k, n |-> n, i |-> i, s |-> s, a |-> a]

Free(n, i, s)  == Node("var", n, i, s, <<>>)
Var(n, i, s)   == Node("var", "?" \o n, i, s, <<>>)     \* never bound by mk_all
Const(n)       == Node("const", n, 0, "", <<>>)
app(f, args)   == Node("app", "", 0, "", <<f>> \o args)
Ctor(j, args)  == Node("ctor", "", j, "", args)
Defined(n, i, args) == Node("defined", n, i, "", args)  \* case_T, sel, size_T, fold_T ...

mk_equals(l, r)  == Node("eq", "", 0, "", <<l, r>>)
mk_implies(p, q) == Node("imp", "", 0, "", <<p, q>>)
mk_all(n, i, s, p) == Node("all", n, i, s, <<p>>)
conj(p, q)       == Node("and", "", 0, "", <<p, q>>)
disj(p, q)       == Node("or", "", 0, "", <<p, q>>)
holds(p)         == Node("holds", "", 0, "", <<p>>)     \* a term of type prop as a formula
True             == Const("True")
False            == Const("False")

(* P1 ==> ... ==> Pn ==> q, and !!x1 ... xn. p.                            *)
Implies(ps, q)   == FoldRight(mk_implies, ps, q)
ForAll(vs, p)    == FoldRight(LAMBDA v, q: mk_all(v.n, v.i, v.s, q), vs, p)

RECURSIVE FreeIn(_)
FreeIn(t) ==
  CASE t.k = "var" -> {<<t.n, t.i, t.s>>}
    [] t.k = "all" -> {v \in FreeIn(t.a[1]) : <<v[1], v[2]>> # <<t.n, t.i>>}
    [] OTHER       -> UNION {FreeIn(t.a[j]) : j \in DOMAIN t.a}

-----------------------------------------------------------------------------
(* Values: a constructor or a symbol applied to values.                    *)
Val(c, i, args)  == [c |-> <<c, i>>, args |-> args]
Boolean(b)       == IF b THEN Val("True", 0, <<>>) ELSE Val("False", 0, <<>>)
Number(n)        == Val("num", 0, [j \in 1..n |-> Val("one", 0, <<>>)])
Atoms            == {Val("atom", i, <<>>) : i \in 1..2}
(* A written-out function gives one of its arguments, or the same always.  *)
Applied(f, args) ==
  CASE f.c = <<"fn", 0>> -> f.args[1]
    [] f.c[1] = "fn" /\ f.c[2] > 0 -> args[f.c[2]]
    [] OTHER -> [f EXCEPT !.args = @ \o args]

IsRec(ty) == ty \in {"T", "'a T"}

(* The values of an argument of type ty, when those of T are vs.           *)
Members(ty, vs) ==
  CASE ty \in {"'a", "nat"} -> Atoms
    [] IsRec(ty)            -> vs
    [] ty = "T list"        -> {Val("list", 0, <<v>>) : v \in vs} \cup {Val("list", 0, <<>>)}

RECURSIVE Tuples(_)
Tuples(sets) ==
  IF sets = <<>> THEN {<<>>}
  ELSE {<<x>> \o xs : x \in Head(sets), xs \in Tuples(Tail(sets))}

RECURSIVE ValuesTo(_, _)
ValuesTo(d, n) ==
  IF n = 0 THEN {}
  ELSE LET vs == ValuesTo(d, n - 1)
       IN  UNION {{Val("ctor", j, args) :
                     args \in Tuples([k \in DOMAIN d.ctors[j].args |->
                                        Members(d.ctors[j].args[k].ty, vs)])} :
                  j \in DOMAIN d.ctors}

(* What a variable of sort s ranges over: predicates are those that hold   *)
(* everywhere, nowhere, of one value or of all but one.                    *)
Universe(d, s) ==
  CASE s \in {"'a", "nat", "T", "'a T", "T list"} -> Members(s, ValuesTo(d, Depth))
    [] s = "fun"  -> {Val("g", i, <<>>) : i \in 1..2}
    [] s = "prop" -> {Boolean(TRUE), Boolean(FALSE)}
    [] s = "pred" -> {Val("always", 0, <<>>), Val("never", 0, <<>>)}
                       \cup {Val(o, 0, <<v>>) : o \in {"only", "except"}, v \in ValuesTo(d, Depth)}
    [] s = "pred'a" -> {Val("always", 0, <<>>), Val("never", 0, <<>>)}
                       \cup {Val("only", 0, <<v>>) : v \in Atoms}
    [] s = "rel"  -> {Val("equal", 0, <<>>), Val("never", 0, <<>>)}
    [] s = "undefined" -> {Val("undefined", 0, <<>>)}

Satisfies(p, v) ==
  CASE p.c[1] = "always" -> TRUE
    [] p.c[1] = "never"  -> FALSE
    [] p.c[1] = "only"   -> v = p.args[1]
    [] p.c[1] = "except" -> v # p.args[1]
    [] OTHER -> Applied(p, <<v>>) = Boolean(TRUE)

-----------------------------------------------------------------------------
(* The constants the packages introduce, as their documentation has them.  *)
Types(d, v) == [k \in DOMAIN v.args |-> d.ctors[v.c[2]].args[k].ty]
Names(d, v) == [k \in DOMAIN v.args |-> d.ctors[v.c[2]].args[k].sel]
IsCtor(v)   == v.c[1] = "ctor"

(* A map of a function over the elements of a value: "id", "comp" or the   *)
(* value of a function variable.                                           *)
ToElement(f, v) == CASE f.c[1] = "id"   -> v
                     [] f.c[1] = "comp" -> Applied(f.args[1], <<Applied(f.args[2], <<v>>)>>)
                     [] OTHER           -> Applied(f, <<v>>)

RECURSIVE SizeOf(_, _), FoldOf(_, _, _), RecOf(_, _, _), MapOf(_, _, _), Elements(_, _), Related(_, _, _, _)
SizeOf(d, v) ==
  1 + FoldSeq(+, 0, [k \in DOMAIN v.args |-> IF Types(d, v)[k] = "T" THEN SizeOf(d, v.args[k]) ELSE 0])

Under(Op(_), ty, v) ==
  IF IsRec(ty) THEN Op(v)
  ELSE IF ty = "T list" THEN Val("list", 0, [k \in DOMAIN v.args |-> Op(v.args[k])])
  ELSE v

FoldOf(d, fs, v) ==
  IF ~IsCtor(v) THEN Val("ill-typed", 0, <<v>>)
  ELSE Applied(fs[v.c[2]],
               [k \in DOMAIN v.args |-> Under(LAMBDA u: FoldOf(d, fs, u), Types(d, v)[k], v.args[k])])

RecOf(d, fs, v) ==
  IF ~IsCtor(v) THEN Val("ill-typed", 0, <<v>>)
  ELSE Applied(fs[v.c[2]], FlattenSeq(
         [k \in DOMAIN v.args |->
            LET u == Under(LAMBDA w: RecOf(d, fs, w), Types(d, v)[k], v.args[k])
            IN  IF Types(d, v)[k] \in {"'a", "nat"} THEN <<v.args[k]>> ELSE <<v.args[k], u>>]))

MapOf(d, f, v) ==
  IF ~IsCtor(v) THEN Val("ill-typed", 0, <<v>>)
  ELSE [v EXCEPT !.args =
          [k \in DOMAIN v.args |->
             IF Types(d, v)[k] = "'a" THEN ToElement(f, v.args[k])
             ELSE Under(LAMBDA u: MapOf(d, f, u), Types(d, v)[k], v.args[k])]]

Elements(d, v) ==
  UNION {IF Types(d, v)[k] = "'a" THEN {v.args[k]}
         ELSE IF IsRec(Types(d, v)[k]) THEN Elements(d, v.args[k])
         ELSE IF Types(d, v)[k] = "T list" THEN UNION {Elements(d, u) : u \in Range(v.args[k].args)}
         ELSE {} : k \in DOMAIN v.args}

Related(d, r, v, u) ==
  /\ v.c = u.c
  /\ \A k \in DOMAIN v.args :
       CASE Types(d, v)[k] = "'a" -> r.c[1] = "equal" /\ v.args[k] = u.args[k]
         [] IsRec(Types(d, v)[k]) -> Related(d, r, v.args[k], u.args[k])
         [] Types(d, v)[k] = "T list" ->
              /\ Len(v.args[k].args) = Len(u.args[k].args)
              /\ \A j \in DOMAIN v.args[k].args : Related(d, r, v.args[k].args[j], u.args[k].args[j])
         [] OTHER -> v.args[k] = u.args[k]

Interpreted(d, n, i, as) ==
  LET v == Last(as)
      fs == Front(as)
  IN  CASE n = "case" -> Applied(fs[v.c[2]], v.args)
        [] n = "is"   -> Boolean(v.c[2] = i)
        [] n = "size_T" -> Number(SizeOf(d, v))
        [] n = "size"   -> Number(0)
        [] n = "plus" -> Number(Len(as[1].args) + Len(as[2].args))
        [] n = "one"  -> Number(1)
        [] n = "fold" -> FoldOf(d, fs, v)
        [] n = "rec"  -> RecOf(d, fs, v)
        [] n = "map"  -> MapOf(d, IF fs = <<>> THEN Val("id", 0, <<>>) ELSE fs[1], v)
        [] n = "id"   -> Val("id", 0, <<>>)
        [] n = "comp" -> Val("comp", 0, as)
        [] n = "set"  -> Val("set", 0, SetToSeq(Elements(d, v)))
        [] n = "{}"   -> Val("set", 0, <<>>)
        [] n = "rel"  -> Boolean(Related(d, as[1], as[2], as[3]))
        [] n = "pred" -> Boolean(\A e \in Elements(d, v) : Satisfies(as[1], e))
        [] n = "fn"   -> Val("fn", i, as)
        [] \E k \in DOMAIN v.args : Names(d, v)[k] = <<n, i>> ->                        \* a selector
             v.args[CHOOSE k \in DOMAIN v.args : Names(d, v)[k] = <<n, i>>]
        [] OTHER      -> Val("undefined", 0, <<>>)

RECURSIVE Value(_, _, _), Holds(_, _, _)
Value(d, t, env) ==
  LET as == [j \in DOMAIN t.a |-> Value(d, t.a[j], env)]
  IN  CASE t.k = "var"     -> env[<<t.n, t.i>>]
        [] t.k = "const"   -> Val(t.n, 0, <<>>)
        [] t.k = "app"     -> Applied(as[1], Tail(as))
        [] t.k = "ctor"    -> Val("ctor", t.i, as)
        [] t.k = "defined" -> Interpreted(d, t.n, t.i, as)

Holds(d, p, env) ==
  CASE p.k = "eq"  -> Value(d, p.a[1], env) = Value(d, p.a[2], env)
    [] p.k = "imp" -> Holds(d, p.a[1], env) => Holds(d, p.a[2], env)
    [] p.k = "and" -> Holds(d, p.a[1], env) /\ Holds(d, p.a[2], env)
    [] p.k = "or"  -> Holds(d, p.a[1], env) \/ Holds(d, p.a[2], env)
    [] p.k = "all" -> \A v \in Universe(d, p.s) : Holds(d, p.a[1], (<<p.n, p.i>> :> v) @@ env)
    [] p.k = "holds" /\ p.a[1].k = "app" /\ p.a[1].a[1].s \in {"pred", "pred'a"} ->
         Satisfies(Value(d, p.a[1].a[1], env), Value(d, p.a[1].a[2], env))
    [] p.k = "holds" /\ p.a[1].k = "app" -> Value(d, p.a[1].a[1], env) = Boolean(TRUE)
    [] OTHER -> Value(d, p.a[1], env) = Boolean(TRUE)

(* A proposition says of d what it says for every value of its free and    *)
(* its schematic variables.                                                *)
IsTrueOf(d, p) ==
  LET vs == FreeIn(p)
      RECURSIVE From(_, _)
      From(left, env) ==
        IF left = {} THEN Holds(d, p, env)
        ELSE LET v == CHOOSE w \in left : TRUE
             IN  \A x \in Universe(d, v[3]) : From(left \ {v}, (<<v[1], v[2]>> :> x) @@ env)
  IN  From(vs, <<>>)

-----------------------------------------------------------------------------
(* The facts, as the packages generate them.                               *)

Fact(name, attrs, prop) == [name |-> name, attrs |-> attrs, prop |-> prop]
SimpFact(name, prop)    == Fact(name, {"simp", "ctr_sugar"}, prop)

(* Selectors without a name are numbered per constructor.                  *)
from_datatype(def) ==
  [def EXCEPT !.ctors = [j \in DOMAIN def.ctors |->
     [def.ctors[j] EXCEPT !.args = [k \in DOMAIN def.ctors[j].args |->
        IF def.ctors[j].args[k].sel = "" THEN [sel |-> <<"sel_T", k>>, ty |-> def.ctors[j].args[k].ty]
        ELSE [sel |-> <<def.ctors[j].args[k].sel, 0>>, ty |-> def.ctors[j].args[k].ty]]]]]

Ctors(d)        == DOMAIN d.ctors
Slots(d, j)     == DOMAIN d.ctors[j].args
ty(d, j, k)     == d.ctors[j].args[k].ty
Frees(x, d, j)  == [k \in Slots(d, j) |-> Free(x, k, ty(d, j, k))]
Branches(f, d)  == [j \in Ctors(d) |-> Free(f, j, "fun")]
x0              == Free("x", 0, "T")
InEveryCtor(d, F(_)) == FlattenSeq([j \in Ctors(d) |-> F(j)])

(* C x1 ... xn = C y1 ... yn ==> x1 = y1 & ... & xn = yn                   *)
mk_inject_axioms(d) ==
  [j \in Ctors(d) |->
     LET xs == Frees("x", d, j)
         ys == Frees("y", d, j)
         eqs == [k \in Slots(d, j) |-> mk_equals(xs[k], ys[k])]
     IN  IF eqs = <<>> THEN mk_equals(Ctor(j, <<>>), Ctor(j, <<>>))
         ELSE mk_implies(mk_equals(Ctor(j, xs), Ctor(j, ys)), FoldRight(conj, Front(eqs), Last(eqs)))]

\* Mutant: the pairs start one constructor too early.
mk_distinct_axioms_early(d) ==
  InEveryCtor(d, LAMBDA i:
    [n \in 1..(Len(d.ctors) - i) |->
       mk_implies(mk_equals(Ctor(i, Frees("x", d, i)), Ctor(i + n - 1, Frees("y", d, i + n - 1))), holds(False))])
mk_distinct_axioms(d) ==
  InEveryCtor(d, LAMBDA i:
    [n \in 1..(Len(d.ctors) - i) |->
       mk_implies(mk_equals(Ctor(i, Frees("x", d, i)), Ctor(i + n, Frees("y", d, i + n))), holds(False))])

(* The premises quantify x1 ... xn by name, and mention them as schematic  *)
(* variables.                                                              *)
mk_exhaustion_axiom(d) ==
  LET P(t) == holds(app(Var("P", 0, "pred"), <<t>>))
      case(j) == ForAll(Frees("x", d, j), P(Ctor(j, [k \in Slots(d, j) |-> Var("x", k, ty(d, j, k))])))
  IN  mk_all("P", 0, "pred", Implies([j \in Ctors(d) |-> case(j)], P(x0)))

case_of(f, d, x) == Defined("case", 0, Branches(f, d) \o <<x>>)

derive_case_thms(d) ==
  [j \in Ctors(d) |-> mk_equals(case_of("f", d, Ctor(j, Frees("x", d, j))), app(Free("f", j, "fun"), Frees("x", d, j)))]
derive_collapses(d) == [j \in Ctors(d) |-> mk_equals(derive_case_thms(d)[j].a[2], derive_case_thms(d)[j].a[1])]

is(i, t)  == Defined("is", i, <<t>>)
sel(d, j, k, t) == Defined(d.ctors[j].args[k].sel[1], d.ctors[j].args[k].sel[2], <<t>>)

(* For every two constructors, whether the first made the second.          *)
derive_disc_thms(d) ==
  InEveryCtor(d, LAMBDA i:
    [j \in Ctors(d) |-> mk_equals(is(i, Ctor(j, Frees("x", d, j))), IF i = j THEN True ELSE False)])
derive_sel_thms(d) ==
  InEveryCtor(d, LAMBDA j: [k \in Slots(d, j) |-> mk_equals(sel(d, j, k, Ctor(j, Frees("x", d, j))), Free("x", k, ty(d, j, k)))])

(* is_C x and sel x by cases of x: a constructor without arguments takes   *)
(* the value itself, the others a function of their arguments.             *)
Always(d, j, t) == IF Slots(d, j) = {} THEN t ELSE Defined("fn", 0, <<t>>)
mk_selector_lambda(k) == Defined("fn", k, <<>>)
cases(d, Branch(_), t) == Defined("case", 0, [j \in Ctors(d) |-> Branch(j)] \o <<t>>)
derive_disc_defs(d) ==
  [i \in Ctors(d) |-> mk_equals(is(i, x0), cases(d, LAMBDA j: Always(d, j, IF i = j THEN True ELSE False), x0))]
(* What a selector gives elsewhere is a variable called undefined.         *)
derive_sel_defs(d) ==
  InEveryCtor(d, LAMBDA i:
    [k \in Slots(d, i) |->
       mk_equals(sel(d, i, k, x0),
                 cases(d, LAMBDA j: IF i = j THEN mk_selector_lambda(k)
                                    ELSE Always(d, j, Free("undefined", 0, "undefined")), x0))])

Each(name, props) == [j \in DOMAIN props |-> SimpFact(name, props[j])]

generate_case_lemmas(d) == Each("case", derive_case_thms(d))
generate_sel_lemmas(d)  == Each("sel", derive_sel_thms(d))

generate_disc_lemmas(d) ==
  InEveryCtor(d, LAMBDA i:
    <<SimpFact("disc", mk_equals(is(i, Ctor(i, Frees("x", d, i))), True))>>
      \o [n \in 1..(Len(d.ctors) - 1) |->
            LET j == IF n < i THEN n ELSE n + 1
            IN  SimpFact("disc", mk_equals(is(i, Ctor(j, Frees("y", d, j))), False))])

AllOfThem(op(_, _), ps) == FoldRight(op, Front(ps), Last(ps))

(* (!!x1 .. xn. x = C x1 .. xn ==> f1 x1 .. xn) & ...: neither side of the *)
(* split rule, P (case_T f1 ... fn x), is there.                           *)
derive_split(d) ==
  AllOfThem(conj, [j \in Ctors(d) |->
    ForAll(Frees("x", d, j),
           mk_implies(mk_equals(x0, Ctor(j, Frees("x", d, j))),
                      holds(IF Slots(d, j) = {} THEN Free("f", j, "prop")
                            ELSE app(Free("f", j, "prop"), Frees("x", d, j)))))])
generate_split_lemma(d) == Fact("split", {"split", "ctr_sugar"}, derive_split(d))

(* The hypothesis of a branch speaks of x, which nothing binds, and not of *)
(* the constructor.                                                        *)
generate_cong_lemma(d) ==
  LET M(n) == Free(n, 0, "T")
      hyp(j) == ForAll(Frees("x", d, j),
                  mk_implies(mk_equals(x0, M("M'")),
                             mk_equals(app(Free("f", j, "fun"), Frees("x", d, j)),
                                       app(Free("f'", j, "fun"), Frees("x", d, j)))))
  IN  Fact("case_cong", {"cong", "ctr_sugar"},
        Implies(<<mk_equals(M("M"), M("M'"))>> \o [j \in Ctors(d) |-> hyp(j)],
                mk_equals(case_of("f", d, M("M")), case_of("f'", d, M("M'")))))

(* Here it speaks of M, and nothing binds the arguments.                   *)
derive_case_cong(d) ==
  LET M(n) == Free(n, 0, "T")
      hyp(j) == mk_implies(mk_equals(M("M"), M("M'")),
                           mk_equals(app(Free("f", j, "fun"), Frees("x", d, j)),
                                     app(Free("f'", j, "fun"), Frees("x", d, j))))
  IN  Implies(<<mk_equals(M("M"), M("M'"))>> \o [j \in Ctors(d) |-> hyp(j)],
              mk_equals(case_of("f", d, M("M")), case_of("f'", d, M("M'"))))

(* The arguments of the constructors are not quantified.                   *)
generate_nchotomy_lemma(d) ==
  Fact("nchotomy", {"elim", "ctr_sugar"},
    mk_all("x", 0, "T",
      AllOfThem(disj, [j \in Ctors(d) |-> mk_equals(x0, Ctor(j, Frees("x", d, j)))])))

(* size_T (C x1 .. xn) = 1 + size x1 + ...: size_T where the type of the   *)
(* argument is written as the bare name of the datatype.                   *)
generate_size_lemmas(d) ==
  [j \in Ctors(d) |->
     LET size(k) == Defined(IF ty(d, j, k) = "T" THEN "size_T" ELSE "size", 0,
                            <<Free("x", k, ty(d, j, k))>>)
     IN  SimpFact("size", mk_equals(
           Defined("size_T", 0, <<Ctor(j, Frees("x", d, j))>>),
           FoldLeft(LAMBDA rhs, s: Defined("plus", 0, <<rhs, s>>), Defined("one", 0, <<>>),
                    [k \in Slots(d, j) |-> size(k)])))]

generate_lemmas(d) ==
  Each("inject", mk_inject_axioms(d)) \o Each("distinct", mk_distinct_axioms(d))
    \o <<Fact("exhaust", {"elim", "ctr_sugar"}, mk_exhaustion_axiom(d))>>
    \o generate_case_lemmas(d) \o generate_disc_lemmas(d) \o generate_sel_lemmas(d)
    \o <<generate_split_lemma(d), generate_cong_lemma(d), generate_nchotomy_lemma(d)>>
    \o generate_size_lemmas(d)

(* The theorems of a datatype, each as its proposition.                    *)
generate_all_theorems(d) ==
  [exhaust |-> mk_exhaustion_axiom(d), injects |-> mk_inject_axioms(d), distincts |-> mk_distinct_axioms(d),
   case_thms |-> derive_case_thms(d), case_cong |-> derive_case_cong(d), split |-> derive_split(d),
   disc_defs |-> derive_disc_defs(d), disc_thms |-> derive_disc_thms(d),
   sel_defs |-> derive_sel_defs(d), sel_thms |-> derive_sel_thms(d), collapses |-> derive_collapses(d)]

(* As lemmas: the definitions and the collapses are not among them, every  *)
(* discriminator lemma is the first of those theorems, whatever its name   *)
(* says, and nchotomy is the rule of exhaustion.                           *)
ctr_sugar_lemmas(d) ==
  LET thms == generate_all_theorems(d)
      discs == [n \in DOMAIN thms.disc_thms |-> thms.disc_thms[1]]
      elim(name) == <<Fact(name, {"elim", "ctr_sugar"}, thms.exhaust)>>
  IN  elim("exhaust") \o Each("inject", thms.injects) \o Each("distinct", thms.distincts)
        \o Each("case", thms.case_thms)
        \o <<Fact("case_cong", {"cong", "ctr_sugar"}, thms.case_cong), Fact("split", {"split", "ctr_sugar"}, thms.split)>>
        \o Each("disc", discs) \o Each("sel", thms.sel_thms) \o elim("nchotomy")
-----------------------------------------------------------------------------
\* The rules of the least fixed point.
(* The name of the datatype occurs as a word of the argument's type.       *)
is_recursive_arg(t) == t \in {"T", "'a T", "T list"}

mk_var(n, d, j, k) == Var("a", n + k, ty(d, j, k))
Args(n, d, j)      == [k \in Slots(d, j) |-> mk_var(n, d, j, k)]

(* Quantifying over schematic variables: mk_all binds the free variable of *)
(* the name, which does not occur.                                         *)
ForAllNamed(vs, p) == FoldRight(LAMBDA v, q: mk_all("#", 0, "'a", q), vs, p)

(* !!P x. (P a ==> P (C a)) ==> ... ==> P x, with P, x and every a         *)
(* schematic: no quantifier of the rule binds one of them.                 *)
prove_fp_induct(d) ==
  LET P(t) == holds(app(Var("P", 0, "pred"), <<t>>))
      prem(j) ==
        LET as  == Args(10 * j, d, j)
            rec == SelectSeq(as, LAMBDA a: is_recursive_arg(a.s))
            hyps == [k \in DOMAIN rec |-> P(rec[k])]
        IN  ForAllNamed(as, Implies(hyps, P(Ctor(j, as))))
  IN  ForAllNamed(<<1, 2>>, Implies([j \in Ctors(d) |-> prem(j)], P(Var("x", 1, "T"))))

(* fold_T f1 .. fn (C a) = f a', a' being a with fold_T f1 .. fn applied   *)
(* to the recursive arguments.                                             *)
prove_ctor_fold(d) ==
  [j \in Ctors(d) |->
     LET as == Args(100, d, j)
         fold(t) == Defined("fold", 0, Branches("f", d) \o <<t>>)
         mapped == [k \in Slots(d, j) |-> IF is_recursive_arg(ty(d, j, k)) THEN fold(as[k]) ELSE as[k]]
     IN  Fact("fold", {"simp", "bnf_lfp"},
           ForAll(Branches("f", d),
             ForAllNamed(as, mk_equals(fold(Ctor(j, as)), app(Free("f", j, "fun"), mapped)))))]

(* As fold, the recursive arguments being passed themselves as well.       *)
prove_ctor_rec(d) ==
  [j \in Ctors(d) |->
     LET as == Args(200, d, j)
         rec(t) == Defined("rec", 0, Branches("f", d) \o <<t>>)
         args == FlattenSeq([k \in Slots(d, j) |->
                   IF is_recursive_arg(ty(d, j, k)) THEN <<as[k], rec(as[k])>> ELSE <<as[k]>>])
     IN  Fact("rec", {"simp", "bnf_lfp"},
           ForAll(Branches("f", d),
             ForAllNamed(as, mk_equals(rec(Ctor(j, as)), app(Free("f", j, "fun"), args)))))]

prove_map_ctor(d, j) ==
  LET as == Args(500, d, j)
      fs == IF d.params = <<>> THEN <<>> ELSE <<Free("f", 0, "fun")>>
      map(t) == Defined("map", 0, fs \o <<t>>)
      mapped(k) == CASE is_recursive_arg(ty(d, j, k)) -> map(as[k])
                     [] ty(d, j, k) \in Range(d.params) -> app(fs[1], <<as[k]>>)
                     [] OTHER -> as[k]
  IN  ForAll(fs, ForAllNamed(as, mk_equals(map(Ctor(j, as)), Ctor(j, [k \in Slots(d, j) |-> mapped(k)]))))

(* map_T (%x. x) = (%x. x) and                                             *)
(* map_T (%x. g (f x)) = (%x. map_T g (map_T f x)), read at every x.       *)
map_of(f, t) == Defined("map", 0, <<f, t>>)
prove_map_id(d) == mk_equals(map_of(Defined("id", 0, <<>>), x0), x0)
prove_map_comp(d) ==
  LET f == Free("f", 0, "fun")
      g == Free("g", 0, "fun")
  IN  ForAll(<<g, f>>, mk_equals(map_of(Defined("comp", 0, <<g, f>>), x0), map_of(g, map_of(f, x0))))

prove_map_equations(d) ==
  [j \in Ctors(d) |-> Fact("map", {"simp", "bnf"}, prove_map_ctor(d, j))]
    \o IF d.params = <<>> THEN <<>>
       ELSE <<Fact("map_id", {"simp", "bnf"}, prove_map_id(d)),
              Fact("map_comp", {"simp", "bnf"}, prove_map_comp(d))>>

(* Whatever the constructor, the set of its elements is said to be empty.  *)
prove_set_equations(d) ==
  [j \in Ctors(d) |->
     Fact("set", {"simp", "bnf"},
       ForAllNamed(Args(600, d, j),
         mk_equals(Defined("set", 0, <<Ctor(j, Args(600, d, j))>>), Defined("{}", 0, <<Const("{}")>>))))]

prove_rel(d) ==
  Fact("rel", {"bnf"},
    mk_equals(Defined("rel", 0, <<Var("R", 0, "rel"), Var("x", 1, "T"), Var("y", 2, "T")>>), True))

(* The cases, which compare x#0, are joined by "and"; the left hand side   *)
(* speaks of x#1.                                                          *)
prove_pred(d) ==
  LET P == Var("P", 0, "pred'a")
      x(i) == Var("x", i, "T")
      case(j) ==
        LET as == Args(700, d, j)
            elts == SelectSeq(as, LAMBDA a: a.s \in Range(d.params))
        IN  FoldRight(conj, [k \in DOMAIN elts |-> holds(app(P, <<elts[k]>>))],
                      mk_equals(x(0), Ctor(j, as)))
      iff(p, q) == conj(mk_implies(p, q), mk_implies(q, p))
  IN  Fact("pred", {"bnf"},
        iff(holds(Defined("pred", 0, <<P, x(1)>>)), AllOfThem(conj, [j \in Ctors(d) |-> case(j)])))

generate_bnf_rules(d) ==
  <<Fact("fp_induct", {"induct", "bnf_lfp"}, prove_fp_induct(d))>>
    \o prove_ctor_fold(d) \o prove_ctor_rec(d) \o prove_map_equations(d)
    \o prove_set_equations(d) \o <<prove_rel(d), prove_pred(d)>>
=============================================================================
