----------------------------- MODULE TermParser -----------------------------
(***************************************************************************)
(* Reading the text of a statement (isar/term_parser.rs): a recursive      *)
(* descent over the tokens of isar/token.rs.  A term is a node [k, n, a]:  *)
(* "free", "const" and "abs" carry a name n, the other kinds are the       *)
(* connectives and "app".  A parse is [ok, term, p], p the position it     *)
(* leaves, also when it fails; what is left of a text is not looked at.    *)
(***************************************************************************)
EXTENDS Naturals, Sequences, SequencesExt, FiniteSets

Tree(k, n, a) == [k |-> k, n |-> n, a |-> a]
free(n)       == Tree("free", n, <<>>)
const(n)      == Tree("const", n, <<>>)
make_binary(k, l, r) == Tree(k, "", <<l, r>>)
not_(t)       == Tree("not", "", <<t>>)
apply(f, x)   == Tree("app", "", <<f, x>>)
abs(x, t)     == Tree("abs", x, <<t>>)      \* the body keeps its free x
quant(q, t)   == Tree(q, "", <<t>>)
list(ts)      == Tree("list", "", ts)
set(ts)       == Tree("set", "", ts)

(* Operators whose right operand is everything that follows, and those of  *)
(* an operator section; "image" is the backquote.                         *)
Greedy   == {"&", "|", "@", "<", "image", "#", "\\<in>", "\\<notin>", "\\<le>", "\\<ge>", "\\<subseteq>", "\\<inter>",
             "\\<union>", "+", "-"}
Sections == (Greedy \ {"image", "-"}) \cup {"=", "~=", ">"}
Symbols  == Greedy \cup {"==>", "-->", "~", "=", "==", "~=", ">", "(", ")", ".", "!!", "!", "?", "%", "::", ":", "[|", ";",
                         "|]", ",", "[", "]", "{", "}", "=>"}
Keywords == {"ALL", "EX", "if", "then", "else", "let", "in", "case", "of", "where", "for", "and", "by", "proof", "class",
             "begin", "end", "definition"}
Literals == {"0", "1", "STRING"}       \* "STRING": a quotation inside the text
At(ts, p)   == IF p \in DOMAIN ts THEN ts[p] ELSE "EOF"
\* EX1, THE and SOME are no keywords of token.rs, so the cases for them are never met.
is_id(w)    == w \notin Symbols \cup Keywords \cup Literals \cup {"EOF"}
(* Tokens at which a skipped type annotation ends.                         *)
TypeEnds == {")", "]", "|]", ",", ".", "==", "==>", "-->", "&", "|"}

Done(t, p) == [ok |-> TRUE, term |-> t, p |-> p]
Failed(p)  == [ok |-> FALSE, term |-> const("dummy"), p |-> p]
TermOr(r, t) == IF r.ok THEN r.term ELSE t
(* The position after a token that need not be there.                      *)
Past(ts, p, w) == IF At(ts, p) = w THEN p + 1 ELSE p
FirstFrom(ts, p, stops) ==
  CHOOSE q \in p..(p + Len(ts)) :
    /\ q > Len(ts) \/ ts[q] \in stops
    /\ \A r \in p..(q - 1) : ts[r] \notin stops

(* The variables bound at p, with their types where those may be there.    *)
RECURSIVE binders(_, _, _, _)
binders(ts, p, vars, typed) ==
  IF ~is_id(At(ts, p)) THEN [vars |-> vars, p |-> p]
  ELSE binders(ts, IF typed /\ At(ts, p + 1) = "::" THEN FirstFrom(ts, p + 2, TypeEnds) ELSE p + 1, Append(vars, ts[p]), typed)

RECURSIVE parse_trm(_, _, _), parse_atom(_, _), parse_tail(_, _, _, _), parse_quant(_, _, _),
          parse_prems(_, _, _), parse_list(_, _, _, _), parse_arms(_, _, _)

(* A node around what was read, if it was.                                 *)
Around(Op(_), r) == IF r.ok THEN Done(Op(r.term), r.p) ELSE r
(* A binary operator with its right operand; if there is none, the left    *)
(* one alone.                                                              *)
With(k, head, rhs) == Done(IF rhs.ok THEN make_binary(k, head, rhs.term) ELSE head, rhs.p)
Quantifier(w) == CASE w \in {"ALL", "!"} -> "ALL" [] w \in {"EX", "?"} -> "EX" [] OTHER -> "!!"

(* A call of parse_trm inside another one begins at a later token, so its  *)
(* MAX_PARSE_DEPTH = 200 is met only by texts of 200 tokens and more; the  *)
(* cap, and the failures it makes of such texts, are left out.             *)
parse_trm(ts, p, stop) ==
  LET w == At(ts, p)
  IN  CASE w \in {"ALL", "!", "EX", "?", "!!"} -> parse_quant(ts, p + 1, Quantifier(w))
        [] w \in {"%", "{"} ->
             \* a set in front of a term is a comprehension; an empty one or one that is listed fails
             LET bound == binders(ts, p + 1, <<>>, w = "{")
                 dot == IF w = "{" THEN Past(ts, bound.p, "|") ELSE bound.p
                 body == Around(LAMBDA b: FoldRight(abs, bound.vars, b), parse_trm(ts, Past(ts, dot, "."), FALSE))
             IN  IF w = "%" \/ ~body.ok THEN body ELSE Done(quant("Collect", body.term), Past(ts, body.p, "}"))
        [] w = "[|" ->
             LET prems == parse_prems(ts, p + 1, <<>>)
                 concl == parse_trm(ts, prems.p + 1, FALSE)
             IN  IF At(ts, prems.p) \in {"==>", "-->"}
                 THEN Done(FoldRight(LAMBDA a, b: make_binary("imp", a, b), prems.term, concl.term), concl.p)
                 ELSE IF prems.term = <<>> THEN Done(const("True"), prems.p)
                 ELSE Done(FoldLeft(LAMBDA a, b: make_binary("&", a, b), Head(prems.term), Tail(prems.term)), prems.p)
        [] w \in {"~", "-"} ->
             LET body == parse_trm(ts, p + 1, FALSE)
                 arg == IF body.ok THEN body.term ELSE const("True")
             IN  Done(IF w = "~" THEN not_(arg) ELSE quant("uminus", arg), body.p)
        [] OTHER ->
             LET head == parse_atom(ts, p)
             IN  IF head.ok THEN parse_tail(ts, head.p, head.term, stop) ELSE head

parse_prems(ts, p, prems) ==
  LET t == parse_trm(ts, p, FALSE)
      ps == IF t.ok THEN Append(prems, t.term) ELSE prems
  IN  CASE At(ts, t.p) = "|]" -> [term |-> ps, p |-> t.p + 1]
        [] At(ts, t.p) = ";"  -> parse_prems(ts, t.p + 1, ps)
        [] OTHER              -> [term |-> ps, p |-> t.p]

(* x, y, z up to the closing bracket, which may be missing.                *)
parse_list(ts, p, close, elems) ==
  LET t == parse_trm(ts, p, FALSE)
  IN  IF ~t.ok THEN t
      ELSE IF At(ts, t.p) = "," THEN parse_list(ts, t.p + 1, close, Append(elems, t.term))
      ELSE Done(Append(elems, t.term), Past(ts, t.p, close))

parse_arms(ts, p, head) ==
  LET pat == parse_trm(ts, p, FALSE)
      body == parse_trm(ts, pat.p + 1, FALSE)
      more == apply(head, abs("_", body.term))
  IN  IF ~pat.ok THEN pat
      ELSE IF At(ts, pat.p) # "=>" THEN Done(head, pat.p)
      ELSE IF ~body.ok THEN body
      ELSE IF At(ts, body.p) = "|" THEN parse_arms(ts, body.p + 1, more) ELSE Done(more, body.p)

(* An argument in brackets, or a section (op) or (op x).                   *)
section(ts, p) ==
  LET arg == parse_trm(ts, p + 1, FALSE)
  IN  IF At(ts, p + 1) = ")" THEN Done(free(ts[p]), p + 2)
      ELSE [ok |-> arg.ok, term |-> apply(free(ts[p]), arg.term), p |-> IF arg.ok THEN Past(ts, arg.p, ")") ELSE arg.p]

parse_atom(ts, p) ==
  LET w == At(ts, p)
      inner == parse_trm(ts, p + 1, FALSE)
  IN  CASE is_id(w)       -> Done(free(w), p + 1)
        [] w \in Literals -> Done(const(w), p + 1)
        [] w = "(" -> IF At(ts, p + 1) \in Sections THEN section(ts, p + 1)
                      ELSE IF inner.ok THEN Done(inner.term, inner.p + 1) ELSE inner
        [] w = "[" -> IF At(ts, p + 1) = "]" THEN Done(list(<<>>), p + 2) ELSE Around(list, parse_list(ts, p + 1, "]", <<>>))
        [] w = "if" ->
             LET yes == parse_trm(ts, inner.p + 1, FALSE)
                 no == parse_trm(ts, yes.p + 1, FALSE)
             IN  IF ~inner.ok THEN inner
                 ELSE IF At(ts, inner.p) # "then" THEN Failed(inner.p)
                 ELSE IF ~yes.ok THEN yes
                 ELSE IF At(ts, yes.p) # "else" THEN Failed(yes.p)
                 ELSE Around(LAMBDA t: Tree("if", "", <<inner.term, yes.term, t>>), no)
        [] w = "let" ->   \* the definition is read, and dropped
             LET def == parse_trm(ts, Past(ts, p + 2, "="), FALSE)
             IN  IF ~is_id(At(ts, p + 1)) THEN Failed(p + 1)
                 ELSE IF def.ok THEN parse_trm(ts, Past(ts, def.p, "in"), FALSE) ELSE def
        [] w = "case" ->
             IF ~inner.ok THEN inner ELSE IF At(ts, inner.p) # "of" THEN Failed(inner.p)
             ELSE parse_arms(ts, inner.p + 1, quant("case", inner.term))
        [] OTHER -> Failed(p)

(* A set as an argument: {}, {..u}, {l..u}, {x. P}, {x, y}.                *)
Dots(ts, p) == IF At(ts, p) = "." /\ At(ts, p + 1) \in {".", "<"}
               THEN (IF At(ts, p + 1) = "." THEN Past(ts, p + 2, "<") ELSE p + 2) ELSE 0
braces(ts, p) ==
  LET lower == parse_trm(ts, p, FALSE)
      body == parse_trm(ts, lower.p + 1, FALSE)
      upto(q, from) ==
        LET upper == parse_trm(ts, q, FALSE)
        IN  IF At(ts, q) = "}" THEN Done(Tree("range", "", from), q + 1)
            ELSE IF upper.ok THEN Done(Tree("range", "", Append(from, upper.term)), Past(ts, upper.p, "}")) ELSE upper
  IN  IF At(ts, p) = "}" THEN Done(set(<<>>), p + 1)
      ELSE IF Dots(ts, p) # 0 THEN upto(Dots(ts, p), <<>>)
      ELSE IF ~lower.ok THEN lower
      ELSE IF Dots(ts, lower.p) # 0 THEN upto(Dots(ts, lower.p), <<lower.term>>)
      ELSE IF At(ts, lower.p) \notin {".", "|"} THEN Around(set, parse_list(ts, p, "}", <<>>))
      ELSE IF body.ok THEN Done(quant("Collect", abs("_", body.term)), Past(ts, body.p, "}")) ELSE body

(* What follows a head.                                                    *)
parse_tail(ts, p, head, stop) ==
  LET w == At(ts, p)
      rhs == parse_trm(ts, p + 1, FALSE)
      applied(arg) == IF arg.ok THEN parse_tail(ts, arg.p, apply(head, arg.term), stop) ELSE arg
  IN  CASE w \in {"==>", "-->"} -> IF stop THEN Done(head, p) ELSE With("imp", head, rhs)
        [] w = "(" ->
             \* after an argument the text up to the next closing bracket is skipped too
             LET op == section(ts, p + 1)
                 close == FirstFrom(ts, IF rhs.ok THEN Past(ts, rhs.p, ")") ELSE rhs.p, {")"})
             IN  IF At(ts, p + 1) \in Sections
                 THEN parse_tail(ts, IF op.ok THEN op.p ELSE Past(ts, op.p, ")"), apply(head, op.term), stop)
                 ELSE parse_tail(ts, Past(ts, close, ")"), IF rhs.ok THEN apply(head, rhs.term) ELSE head, stop)
        [] w = "[" -> IF At(ts, p + 1) = "]" THEN applied(Done(list(<<>>), p + 2))
                      ELSE applied(Around(list, parse_list(ts, p + 1, "]", <<>>)))
        [] w = "{" -> applied(braces(ts, p + 1))
        [] w = "::" -> parse_tail(ts, FirstFrom(ts, p + 1, TypeEnds), head, stop)
        [] w \in Greedy -> With(w, head, rhs)
        [] w = "~" -> Done(not_(head), p)
        [] w = "~=" -> Done(IF rhs.ok THEN not_(make_binary("eq", head, rhs.term)) ELSE head, rhs.p)
        [] w = "=" ->
             LET r == parse_trm(ts, p + 1, TRUE)
             IN  parse_tail(ts, r.p, IF r.ok THEN make_binary("eq", head, r.term) ELSE head, stop)
        [] is_id(w) \/ w \in Literals ->
             IF w \notin {"APPEND", "IFF"} THEN applied(parse_atom(ts, p))
             ELSE IF rhs.ok THEN With(IF w = "IFF" THEN "eq" ELSE "@", head, rhs) ELSE rhs
        [] OTHER -> Done(head, p)

(* The variables of a quantifier become the names of abstractions around a *)
(* body in which they stay free; the set they are taken from is dropped.   *)
parse_quant(ts, p, q) ==
  LET bound == binders(ts, p, <<>>, TRUE)
      from == IF At(ts, bound.p) \in {":", "\\<in>"} THEN parse_trm(ts, bound.p + 1, FALSE).p ELSE bound.p
  IN  Around(LAMBDA b: quant(q, FoldRight(abs, bound.vars, b)), parse_trm(ts, Past(ts, from, "."), FALSE))

\* Mutant: the statement is read as the right hand side of an equation is.
parse_term_stop(ts) == parse_trm(ts, 1, TRUE)
parse_term(ts) == parse_trm(ts, 1, FALSE)
=============================================================================
