------------------------------ MODULE DeclParser ------------------------------
(***************************************************************************)
(* Reading the declarations of a theory file (hol/hol_loader.rs), each     *)
(* kind in a scan of its own over all the lines, and the theorems assumed  *)
(* for them: those of hol_loader.rs itself, whose propositions are all     *)
(* True, of hol/function.rs, hol/inductive.rs, hol/axclass.rs and          *)
(* hol/locale.rs.  In a datatype's line a token is also a type variable, a *)
(* bracketed argument [selector, type] or one whose type is quoted.        *)
(***************************************************************************)
EXTENDS LemmaParser

CONSTANT Depth          \* of the values the packages' facts are evaluated in
Packages == INSTANCE DatatypeFacts

TyVar(a)      == Token("tyvar", <<a>>)
Arg(s, t)     == Token("arg", <<s, t>>)             \* (s: t), or "t" when s is empty
ArgQuoted(s, t) == Token("quoted-arg", <<s, t>>)    \* (s: "t")
Typed(c, t)   == Token("typed", <<c, t>>)           \* "c::t"
Options       == Token("options", <<>>)             \* of `datatype(`, to the `) ` that ends them

Theorem(words, attrs, prop) == ParsedLemma(<<words, 1>>, attrs, prop, <<>>)
var(n)        == Tree("var", n, <<>>)
Implies(ps, q) == FoldRight(LAMBDA p, r: make_binary("imp", p, r), ps, q)
RECURSIVE strip_imp_prems(_)
strip_imp_prems(t) == IF t.k = "imp" THEN <<t.a[1]>> \o strip_imp_prems(t.a[2]) ELSE <<>>

-----------------------------------------------------------------------------
(* datatype 'a T = C | D (s: 'a) "'a T".  The line after the header belongs *)
(* to the declaration unless a keyword stops it, and so do the lines that  *)
(* a bar connects.                                                         *)
DatatypeEnds == {"where", "for", "begin", "lemma", "theorem", "datatype", "fun", "primrec", "definition", "and"}
RECURSIVE combine(_, _, _)
combine(L, p, toks) ==
  IF p > Len(L) THEN [toks |-> toks, p |-> p]
  ELSE IF blank(L[p]) THEN combine(L, p + 1, toks)
  ELSE IF starts(L[p], DatatypeEnds) THEN [toks |-> toks, p |-> p]
  ELSE LET more == toks \o L[p].toks
           bar(l) == l # <<>> /\ Head(l) = Word("|")
       IN  IF Last(L[p].toks) # Word("|") /\ p < Len(L) /\ ~bar(L[p + 1].toks)
           THEN [toks |-> more, p |-> p + 1] ELSE combine(L, p + 1, more)

(* A bracketed argument whose type is quoted ends at the closing quote, and *)
(* again, with nothing in it, at the closing bracket.                      *)
parse_dt_one_constructor(part) ==
  [c |-> part[1].v[1],
   args |-> FlattenSeq([j \in 1..(Len(part) - 1) |->
     LET t == part[j + 1]
     IN  CASE t.k = "arg"        -> <<[sel |-> t.v[1], ty |-> t.v[2]]>>
           [] t.k = "quoted-arg" -> <<[sel |-> t.v[1], ty |-> t.v[2]], [sel |-> "", ty |-> ""]>>
           [] t.k \in {"word", "tyvar"} -> <<[sel |-> "", ty |-> t.v[1]]>>
           [] OTHER              -> <<[sel |-> "", ty |-> "STRING"]>>])]

(* The options of `datatype(` are skipped; if nothing follows them on the  *)
(* line, the declaration is not read.                                      *)
after_dt(l) ==
  IF ~starts(l, {"datatype("}) THEN Tail(l.toks)
  ELSE IF Len(l.toks) > 2 /\ l.toks[2] = Options THEN From(l.toks, 3) ELSE <<>>

parse_one_datatype(L, p) ==
  LET got == combine(L, p + 1, after_dt(L[p]))
      params == IF got.toks # <<>> /\ got.toks[1].k = "tyvar" THEN <<got.toks[1].v[1]>> ELSE <<>>
      rest == From(got.toks, Len(params) + 1)
      e == IndexOf(rest, Word("="))
      parts == SplitBy(From(rest, e + 1), Word("|"))
  IN  [ok |-> after_dt(L[p]) # <<>> /\ e <= Len(rest), p |-> got.p,
       def |-> [name |-> Text(SubSeq(rest, 1, e - 1)), params |-> params,
                ctors |-> [n \in DOMAIN parts |-> parse_dt_one_constructor(parts[n])]]]

co(def, kw) == IF kw = "codatatype" THEN [def EXCEPT !.name = <<"co_" \o Head(@)>>] ELSE def

(* Types in the old way: constructors without their arguments, the type    *)
(* named in the first of them.                                             *)
parse_old_rep_datatype(l) ==
  LET parts == SelectSeq(Tail(l.toks), LAMBDA t: t.k \in {"word", "typed"})
  IN  [name |-> <<Last(parts[1].v)>>, params |-> <<>>,
       ctors |-> [n \in DOMAIN parts |-> [c |-> parts[n].v[1], args |-> <<>>]]]

(* A line with a comment, a cartouche or the word `subsection` is taken    *)
(* for no declaration at all.                                              *)
is_false_positive(l) == \E t \in Range(l.toks) : Range(t.v) \cap {"subsection", "\\<open>", "(*", "*)"} # {}
is_datatype(l) == (heads(l, {"datatype", "codatatype"}) \/ starts(l, {"datatype("})) /\ ~is_false_positive(l)

RECURSIVE parse_datatypes(_, _), parse_mutual_datatypes(_, _, _)
parse_mutual_datatypes(L, p, kw) ==
  LET one == parse_one_datatype(L, p)
      after == IF one.ok THEN one.p
               ELSE NextLine(L, p + 1, LAMBDA l: starts(l, {"and", "datatype", "lemma", "theorem", "begin", "end"}))
      defs == IF one.ok THEN <<co(one.def, kw)>> ELSE <<>>
  IN  IF after <= Len(L) /\ heads(L[after], {"and"}) /\ (one.ok \/ heads(L[p], {"and"}))
      THEN defs \o parse_mutual_datatypes(L, after, kw)
      ELSE defs \o parse_datatypes(L, IF one.ok \/ heads(L[p], {"and"}) THEN after ELSE p + 1)

parse_datatypes(L, p) ==
  IF p > Len(L) THEN <<>>
  ELSE CASE is_datatype(L[p]) -> parse_mutual_datatypes(L, p, first(L[p].toks))
         [] heads(L[p], {"old_rep_datatype", "rep_datatype"}) /\ ~is_false_positive(L[p]) ->
              <<parse_old_rep_datatype(L[p])>> \o parse_datatypes(L, p + 2)
         [] OTHER -> parse_datatypes(L, p + 1)

True == const("True")
WithArgs(def) == {n \in DOMAIN def.ctors : def.ctors[n].args # <<>>}
Rule(def, rule, attrs) == Theorem(Append(def.name, rule), attrs, True)

If(c, thm) == IF c THEN <<thm>> ELSE <<>>
ConstructorRules(def) ==
  If(def.ctors # <<>>, Rule(def, "induct", {"induct"})) \o If(WithArgs(def) # {}, Rule(def, "inject", {"simp"}))
    \o If(Len(def.ctors) >= 2, Rule(def, "distinct", {"simp"}))
CaseRules(def) == <<Rule(def, "exhaust", {"elim"})>> \o If(def.ctors # <<>>, Rule(def, "case", {"simp"}))
generate_datatype_lemmas(def) == ConstructorRules(def) \o CaseRules(def)

generate_bnf_lemmas(def) ==
  LET n == Len(def.ctors)
  IN  (IF n > 0 THEN <<Rule(def, "map", {"simp", "bnf"})>> ELSE <<>>)
        \o [j \in 1..(Len(def.params) * n) |-> Rule(def, "set_", {"simp", "bnf"})]
        \o (IF n > 0 THEN <<Rule(def, "rel", {"bnf"})>> ELSE <<>>) \o <<Rule(def, "pred", {"bnf"})>>

(* What ctor_sugar.rs and bnf_lfp.rs assume for a declaration.             *)
facts(def) ==
  LET d == Packages!from_datatype(def)
  IN  Packages!generate_lemmas(d) \o Packages!generate_bnf_rules(d)
recorded(def, fs) == [n \in DOMAIN fs |-> Theorem(Append(def.name, fs[n].name), fs[n].attrs, fs[n].prop)]
ctr_sugar(L) ==
  LET defs == parse_datatypes(L, 1)
      lemmas(def) == recorded(def, Packages!ctr_sugar_lemmas(Packages!from_datatype(def)))
  IN  FlattenSeq([n \in DOMAIN defs |-> lemmas(defs[n])])
datatype_lemmas(def) == generate_datatype_lemmas(def) \o generate_bnf_lemmas(def) \o recorded(def, facts(def))

-----------------------------------------------------------------------------
(* primrec f :: "type" where "l = r" | a: "l = r".  A `where` that ends    *)
(* the header line is not seen, and the lines up to the next declaration   *)
(* are then part of the header.                                            *)
PrimrecEnds == {"lemma", "theorem", "datatype", "primrec", "fun", "definition"}
parse_primrec_equations(toks) ==
  LET parts == SplitBy(toks, Word("|"))
      equation(part) ==
        LET labelled == Len(part) >= 3 /\ part[2] = Colon /\ part[3].k = "quoted"
            ts == IF labelled THEN part[3].v ELSE part[1].v
            e == IndexOf(ts, "=")
        IN  IF (labelled \/ part[1].k = "quoted") /\ e <= Len(ts)
            THEN <<[label |-> IF labelled THEN <<part[1].v[1]>> ELSE <<>>,
                    lhs |-> SubSeq(ts, 1, e - 1), rhs |-> From(ts, e + 1)]>>
            ELSE <<>>
  IN  FlattenSeq([n \in DOMAIN parts |-> equation(parts[n])])

parse_one_primrec(L, p) ==
  LET header == Tail(L[p].toks)
      w == IndexOf(header, Word("where"))
      inline == w < Len(header)
      stop == NextLine(L, p + 1, LAMBDA l: starts(l, PrimrecEnds \cup {"where"}))
      found == stop <= Len(L) /\ starts(L[stop], {"where"})
      own == IF inline THEN From(header, w + 1) ELSE IF found THEN Tail(L[stop].toks) ELSE <<>>
      body == IF inline THEN p + 1 ELSE IF found THEN stop + 1 ELSE stop
      end == NextLine(L, body, LAMBDA l: blank(l) \/ starts(l, PrimrecEnds))
      labelled(l) == \E j \in 1..(Len(l) - 1) : l[j] = Colon /\ l[j + 1].k = "quoted"
      read_line(l) == IF l[1] # Word("|") \/ labelled(l) THEN parse_primrec_equations(l) ELSE <<>>
  IN  [ok |-> Word("::") \in Range(header), p |-> IF end <= Len(L) /\ blank(L[end]) THEN end + 1 ELSE end,
       def |-> [name |-> header[1].v[1],
                equations |-> parse_primrec_equations(own)
                                \o FlattenSeq([j \in 1..(end - body) |-> read_line(L[body + j - 1].toks)])]]

RECURSIVE parse_primrecs(_, _)
parse_primrecs(L, p) ==
  IF p > Len(L) THEN <<>>
  ELSE LET one == parse_one_primrec(L, p)
       IN  IF heads(L[p], {"primrec", "fun", "function"}) /\ one.ok
           THEN <<one.def>> \o parse_primrecs(L, one.p) ELSE parse_primrecs(L, p + 1)

RECURSIVE leaves(_)
leaves(t) == IF t.k = "free" THEN <<t.n>> ELSE FlattenSeq([n \in DOMAIN t.a |-> leaves(t.a[n])])
collect_free_vars(t) == FoldLeft(LAMBDA acc, n: IF n \in Range(acc) THEN acc ELSE Append(acc, n), <<>>, leaves(t))

P(t) == apply(var("?P"), t)
(* The hypotheses of a premise are about all the variables of the left     *)
(* hand side, the function's own name included.                            *)
make_induct_premise(lhs, recursive) ==
  LET vars == IF recursive THEN collect_free_vars(lhs) ELSE <<>>
  IN  Implies([n \in DOMAIN vars |-> P(free(vars[n]))], P(lhs))

(* The theorems of a function, from its equations as they were read.       *)
function_lemmas(def, trms, lhss) ==
  LET recursive(n) == def.name \in Range(def.equations[n].rhs)
      label(n) == IF def.equations[n].label = <<>> THEN <<def.name, "simps">> ELSE def.equations[n].label
      simps(n) == IF trms[n].ok THEN <<Theorem(label(n), {"simp", "fun_simp"}, trms[n].term)>> ELSE <<>>
      premise(n) == make_induct_premise(TermOr(lhss[n], True), recursive(n))
      case(n) == Implies(strip_imp_prems(TermOr(trms[n], True)), var("?Q"))
  IN  FlattenSeq([n \in DOMAIN trms |-> simps(n)])
        \o (IF \E n \in DOMAIN trms : recursive(n)
            THEN <<Theorem(<<def.name, "induct">>, {"induct"},
                           Implies([n \in DOMAIN lhss |-> premise(n)], P(var("?args"))))>> ELSE <<>>)
        \o (IF Len(def.equations) > 1
            THEN <<Theorem(<<def.name, "cases">>, {"elim", "cases"},
                           Implies(<<var("?P")>> \o [n \in DOMAIN trms |-> case(n)], var("?Q")))>> ELSE <<>>)
fundef_to_lemmas(def) ==
  LET eq == def.equations
  IN  function_lemmas(def, [n \in DOMAIN eq |-> parse_term(eq[n].lhs \o <<"=">> \o eq[n].rhs)],
                      [n \in DOMAIN eq |-> parse_term(eq[n].lhs)])

-----------------------------------------------------------------------------
(* inductive P where i: "A" | j: "B".  The rules are split at every bar,   *)
(* quoted or not.                                                          *)
InductiveEnds == {"lemma", "theorem", "inductive", "coinductive", "fun", "primrec", "definition"}
Unquoted(toks) ==
  FlattenSeq([n \in DOMAIN toks |->
    LET pieces == SplitBy(toks[n].v, "|")
    IN  IF toks[n].k # "quoted" THEN <<toks[n]>>
        ELSE FlattenSeq([m \in DOMAIN pieces |-> (IF m = 1 THEN <<>> ELSE <<Word("|")>>) \o <<Quoted(pieces[m])>>])])

(* What follows the quoted rule is a string applied to it.                 *)
RuleText(toks) == IF Len(toks) <= 1 THEN Text(toks) ELSE Text(<<toks[1]>>) \o <<"STRING">>
rule_text(body) ==
  IF body # <<>> /\ body[1].k = "quoted" THEN body[1].v \o (IF Len(body) > 1 THEN <<"STRING">> ELSE <<>>) ELSE RuleText(body)
parse_rule(name, part, c) ==
  [name |-> IF c <= Len(part) THEN Text(SubSeq(part, 1, c - 1)) ELSE <<name, "I">>,
   prop |-> read(rule_text(From(part, IF c <= Len(part) THEN c + 1 ELSE 1)))]
parse_rules(name, parts) ==
  SelectSeq([n \in DOMAIN parts |-> parse_rule(name, parts[n], IndexOf(parts[n], Colon))], LAMBDA r: r.prop.ok)

(* Where the rules begin below the header, and where they end.             *)
rules_start(L, q) == IF q <= Len(L) /\ starts(L[q], {"where"}) THEN q + 1 ELSE q
rules_end(L, start) == NextLine(L, start, LAMBDA l: ~l.dent /\ heads(l, InductiveEnds))
rules_below(L, q, start, end) ==
  [toks |-> (IF q < start THEN Tail(L[q].toks) ELSE <<>>) \o FlattenSeq(Nonblank(L, start, end)), p |-> end]
rules_at(L, p, header, w, q) ==
  IF w < Len(header) THEN [toks |-> From(header, w + 1), p |-> p + 1]
  ELSE rules_below(L, q, rules_start(L, q), rules_end(L, rules_start(L, q)))
inductive_def(l, name, got) ==
  [p |-> got.p, def |-> [name |-> name, is_coind |-> starts(l, {"coinductive"}),
                         intros |-> parse_rules(name, SplitBy(Unquoted(got.toks), Word("|")))]]
parse_one_inductive(L, p) ==
  LET header == Tail(L[p].toks)
  IN  inductive_def(L[p], header[1].v[1],
                    rules_at(L, p, header, IndexOf(header, Word("where")), NextLine(L, p + 1, LAMBDA l: ~blank(l))))

(* The parser reads the predicate as a free variable, and the rules are    *)
(* searched for a constant of its name: no occurrence is found, and every  *)
(* premise of the induction rule is the bare constant.                     *)
inductive_to_lemmas(def) ==
  LET n == Len(def.intros)
      pred_x == apply(const(def.name), var("?x"))
      kind == IF def.is_coind THEN "coinduct" ELSE "induct"
      case(j) == Implies(strip_imp_prems(def.intros[j].prop.term), const("?Q"))
  IN  IF n = 0 THEN <<>>
      ELSE [j \in 1..n |-> Theorem(def.intros[j].name, {kind \o "_intro"}, def.intros[j].prop.term)]
             \o <<Theorem(<<def.name, kind>>, {kind},
                          IF def.is_coind THEN pred_x
                          ELSE quant("!!", abs("?x", Implies([j \in 1..n |-> const(def.name)], pred_x)))),
                  Theorem(<<def.name, "elim">>, {"elim", "cases"},
                          Implies(<<pred_x>> \o [j \in 1..n |-> case(j)], var("?Q")))>>

RECURSIVE parse_inductives(_, _)
RecordInductive(L, one) == inductive_to_lemmas(one.def) \o parse_inductives(L, one.p)
parse_inductives(L, p) ==
  IF p > Len(L) THEN <<>>
  ELSE IF heads(L[p], {"inductive", "coinductive"}) THEN RecordInductive(L, parse_one_inductive(L, p))
  ELSE parse_inductives(L, p + 1)

-----------------------------------------------------------------------------
(* class k = j + fixes f :: "type" assumes h: "A" and i: "B" begin.  With  *)
(* a `fixes` behind it the scan for `assumes` is stopped by `begin` only;  *)
(* the assumptions of the header line itself are not read.                 *)
ClassStarts == {"assumes", "begin", "{"}
ClassEnds   == {"begin", "{", "fixes", "subclass", "class", "lemma", "theorem", "instance", "subsection"}
\* Mutant: the assumptions after the first are passed over.
Named_first(l) == starts(l, {"assumes"}) /\ Colon \in Range(l.toks)
Named(l)    == starts(l, {"assumes", "and"}) /\ Colon \in Range(l.toks)

parse_class_assumes_line(l) ==
  LET rest == Tail(l.toks)
      c == IndexOf(rest, Colon)
      na == parse_name_attrs(SubSeq(rest, 1, c - 1))
      after == From(rest, c + 1)
  IN  [name |-> na.name, attrs |-> na.attrs,
       prop |-> convert_syntax(FlattenSeq([n \in DOMAIN after |->
                  IF after[n].k = "quoted" THEN after[n].v ELSE IF n = 2 THEN <<"STRING">> ELSE <<>>]))]

parse_one_class(L, p) ==
  LET fixes == NextLine(L, p + 1, LAMBDA l: starts(l, ClassStarts \cup {"fixes", "lemma", "class"}))
      begun == Word("fixes") \in Range(L[p].toks) \/ (fixes <= Len(L) /\ starts(L[fixes], {"fixes"}))
      q == IF begun THEN NextLine(L, p + 1, LAMBDA l: starts(l, ClassStarts)) ELSE fixes
      end == IF q <= Len(L) /\ starts(L[q], {"assumes"}) THEN NextLine(L, q + 1, LAMBDA l: starts(l, ClassEnds)) ELSE q
      lines == SelectSeq([j \in 1..(end - q) |-> L[q + j - 1]], Named)
  IN  [p |-> end, def |-> [name |-> L[p].toks[2].v[1],
                           assumes |-> SelectSeq([j \in DOMAIN lines |-> parse_class_assumes_line(lines[j])],
                                                 LAMBDA a: a.name # <<>>)]]

(* Every assumption becomes a theorem, under its own name and under that   *)
(* of the class.                                                           *)
class_lemmas(def, props) ==
  LET as == def.assumes
      read_ones == SelectSeq([n \in DOMAIN as |-> [name |-> as[n].name, prop |-> props[n]]], LAMBDA a: a.prop.ok)
  IN  [n \in DOMAIN as |-> Theorem(as[n].name, as[n].attrs, TermOr(props[n], const("STRING")))]
        \o [n \in DOMAIN read_ones |-> Theorem(<<def.name>> \o read_ones[n].name, {"locale"}, read_ones[n].prop.term)]
        \o (IF as = <<>> THEN <<>>
            ELSE <<Theorem(<<def.name, "intro">>, {"intro", "locale_intro"},
                           Implies([n \in DOMAIN read_ones |-> read_ones[n].prop.term], const("locale")))>>)
        \o <<Theorem(<<def.name, "class_def">>, {"class_def"}, const("class.def"))>>
generate_class_lemmas(def) == class_lemmas(def, [n \in DOMAIN def.assumes |-> parse_term(def.assumes[n].prop)])

RECURSIVE parse_classes(_, _)
parse_classes(L, p) ==
  IF p > Len(L) THEN <<>>
  ELSE LET one == parse_one_class(L, p)
       IN  IF heads(L[p], {"class"}) THEN <<one.def>> \o parse_classes(L, one.p) ELSE parse_classes(L, p + 1)

-----------------------------------------------------------------------------
EachOf(defs, F(_)) == FlattenSeq([n \in DOMAIN defs |-> F(defs[n])])
declared(L) ==
  EachOf(parse_datatypes(L, 1), datatype_lemmas) \o EachOf(parse_primrecs(L, 1), fundef_to_lemmas)
    \o EachOf(parse_classes(L, 1), generate_class_lemmas) \o parse_inductives(L, 1)
=============================================================================
