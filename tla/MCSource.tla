------------------------------- MODULE MCSource -------------------------------
(***************************************************************************)
(* Instance for TLC: the forms an item has in the HOL theories.            *)
(***************************************************************************)
EXTENDS SourceFile

W(w)      == Word(w)
Words(ws) == [n \in DOMAIN ws |-> Word(ws[n])]
Out(toks) == Line(FALSE, toks)
In(toks)  == Line(TRUE, toks)
Lem(n, k, attrs, stmt, proof) ==
  [name |-> <<<<n>>, k>>, attrs |-> attrs, prop |-> stmt, proof |-> proof, alias_for |-> <<>>]
Item(kind, form, lines, says) == [kind |-> kind, key |-> first(lines[1].toks), form |-> form, lines |-> lines, says |-> says]

A == <<"A">>
B == <<"B">>
by_m  == Words(<<"by", "m">>)
apply_m == Words(<<"apply", "m">>)

one_line == Item("lemma", "one line", <<Out(<<W("lemma"), W("a"), Colon, Quoted(A)>>), In(by_m)>>,
                 <<Lem("a", 1, {}, A, <<by_m>>)>>)
several == Item("lemma", "several",
  <<Out(<<W("lemma"), Locale("k"), W("b"), Attrs(<<"simp">>), Colon, Quoted(<<"A", "\\<Longrightarrow>", "B">>), Quoted(B)>>),
    In(Words(<<"by", "(m">>)), In(Words(<<"n)">>))>>,
  LET proof == <<Words(<<"by", "(m">>), Words(<<"n)">>)>>
  IN  <<Lem("b", 1, {"simp"}, <<"A", "==>", "B">>, proof), Lem("b", 2, {"simp"}, B, proof)>>)
structured == Item("lemma", "structured",
  <<Out(<<W("theorem"), W("c"), Colon>>), In(<<W("fixes"), W("x")>>),
    In(<<W("assumes"), Quoted(A), W("and"), W("h"), Colon, Quoted(B)>>),
    In(<<W("shows"), Quoted(<<"f", "x">>), W("and"), W("d"), Colon, Quoted(A)>>), In(apply_m), In(Words(<<"done">>))>>,
  LET proof == <<apply_m, Words(<<"done">>)>>
  IN  <<Lem("c", 1, {}, <<"A", "==>", "B", "==>", "f", "x">>, proof), Lem("d", 1, {}, <<"A", "==>", "B", "==>", "A">>, proof)>>)
over_lines == Item("lemma", "quote over lines",
  <<Out(<<W("lemma"), W("e"), Colon, Opened(<<"A", "==>">>)>>), In(<<Inner(B)>>), In(<<Closed(<<"==>", "A">>)>>),
    Out(Words(<<"proof">>)), In(Words(<<"show", "m">>)), Out(Words(<<"qed">>))>>,
  <<Lem("e", 1, {}, <<"A", "==>", "B", "==>", "A">>, <<Words(<<"proof">>), Words(<<"show", "m">>), Words(<<"qed">>)>>)>>)
below == Item("lemma", "attributes below",
  <<Out(Words(<<"lemma", "f">>)), In(<<Attrs(<<"intro">>), Colon, Quoted(A)>>), In(apply_m), In(Words(<<"done">>))>>,
  <<Lem("f", 1, {"intro"}, A, <<apply_m, Words(<<"done">>)>>)>>)
sorry == Item("lemma", "sorry", <<Out(<<W("lemma"), W("g"), Colon, Quoted(A)>>), In(Words(<<"sorry">>))>>, <<Lem("g", 1, {}, A, <<>>)>>)
lemmas == Item("lemma", "lemmas", <<Out(<<W("lemmas"), Attrs(<<"simp">>), W("h"), W("="), W("a"), W("b")>>)>>,
  <<[Lem("h", 1, {"simp"}, A, <<>>) EXCEPT !.alias_for = <<"a", "b">>]>>)

(* Forms of which something is lost: the proof after `apply`, after        *)
(* `using` and on the header line; a premise after `if`; and `sorry` below *)
(* a statement, which is read as one more statement.                       *)
applied == Item("lemma", "apply", <<Out(<<W("lemma"), W("i"), Colon, Quoted(A)>>), In(apply_m), In(Words(<<"done">>))>>,
  <<Lem("i", 1, {}, A, <<apply_m, Words(<<"done">>)>>)>>)
with_using == Item("lemma", "using", <<Out(<<W("lemma"), W("j"), Colon, Quoted(A)>>), In(Words(<<"using", "a">>)), In(by_m)>>,
  <<Lem("j", 1, {}, A, <<Words(<<"using", "a">>), by_m>>)>>)
with_if == Item("lemma", "if", <<Out(<<W("lemma"), W("l"), Colon, Quoted(A), W("if"), Quoted(B), W("by"), W("m")>>)>>,
  <<Lem("l", 1, {}, <<"B", "==>", "A">>, <<by_m>>)>>)
sorry_below == Item("lemma", "sorry below", <<Out(<<W("lemma"), W("n"), Colon>>), In(<<Quoted(A)>>), In(Words(<<"sorry">>))>>,
  <<Lem("n", 1, {}, A, <<>>)>>)

Con(c, args) == [c |-> c, args |-> args]
Slot(s, t)   == [sel |-> s, ty |-> t]
Def(params, ctors) == [name |-> <<"T">>, params |-> params, ctors |-> ctors]
Datatype(form, lines, def) == Item("datatype", form, lines, <<def>>)
bar == W("|")

datatype == Datatype("datatype",
  <<Out(<<W("datatype"), TyVar("'a"), W("T"), W("="), W("C"), bar, W("D"), Arg("s", "'a"), Arg("", "'a T")>>)>>,
  Def(<<"'a">>, <<Con("C", <<>>), Con("D", <<Slot("s", "'a"), Slot("", "'a T")>>)>>))
tree == Datatype("datatype over lines",
  <<Out(Words(<<"datatype", "T", "=">>)), In(Words(<<"C", "nat">>)), Out(Words(<<"|", "D", "T", "T">>))>>,
  Def(<<>>, <<Con("C", <<Slot("", "nat")>>), Con("D", <<Slot("", "T"), Slot("", "T")>>)>>))
nested == Datatype("datatype over lines",
  <<Out(<<W("datatype"), TyVar("'a"), W("T"), W("=")>>), In(<<W("C"), TyVar("'a"), bar>>), In(<<W("D"), Arg("", "T list")>>)>>,
  Def(<<"'a">>, <<Con("C", <<Slot("", "'a")>>), Con("D", <<Slot("", "T list")>>)>>))
options == Datatype("datatype",
  <<Out(<<Word("datatype("), Options, TyVar("'a"), W("T"), W("="), W("C"), bar, W("D"), TyVar("'a")>>)>>,
  Def(<<"'a">>, <<Con("C", <<>>), Con("D", <<Slot("", "'a")>>)>>))
mutual == Item("datatype", "datatype",
  <<Out(Words(<<"datatype", "U", "=", "C", "|", "D">>)), Out(<<W("and"), W("V"), W("="), W("E"), TyVar("'a")>>)>>,
  <<[Def(<<>>, <<Con("C", <<>>), Con("D", <<>>)>>) EXCEPT !.name = <<"U">>],
    [Def(<<>>, <<Con("E", <<Slot("", "'a")>>)>>) EXCEPT !.name = <<"V">>]>>)
(* A selector with a quoted type, and a datatype in the old form, lose     *)
(* their shape; a datatype with a comment on its line is not read.         *)
commented == Datatype("comment",
  <<Out(<<W("datatype"), W("T"), W("="), W("C"), bar, W("D"), W("(*"), W("*)")>>)>>, Def(<<>>, <<Con("C", <<>>), Con("D", <<>>)>>))
quoted_arg == Datatype("quoted argument",
  <<Out(<<W("datatype"), TyVar("'a"), W("T"), W("="), W("C"), bar, W("D"), TyVar("'a"), ArgQuoted("s", "'a T")>>)>>,
  Def(<<"'a">>, <<Con("C", <<>>), Con("D", <<Slot("", "'a"), Slot("s", "'a T")>>)>>))
old_rep == Datatype("old", <<Out(<<W("old_rep_datatype"), Typed("C", "T"), W("D")>>), In(by_m)>>,
  Def(<<>>, <<Con("C", <<>>), Con("D", <<Slot("", "T")>>)>>))

eq1 == <<"f", "C", "=", "A">>
eq2 == <<"f", "x", "=", "g", "f", "C">>
primrec == Item("primrec", "where below",
  <<Out(<<W("primrec"), W("f"), W("::"), Quoted(<<"T">>)>>), Out(<<W("where"), Quoted(eq1)>>), In(<<bar, W("q"), Colon, Quoted(eq2)>>)>>,
  <<[Lem("f", 1, {"simp", "fun_simp"}, eq1, <<>>) EXCEPT !.name = <<<<"f", "simps">>, 1>>],
    Lem("q", 1, {"simp", "fun_simp"}, eq2, <<>>)>>)
where_last == Item("primrec", "where last",
  <<Out(<<W("fun"), W("f"), W("::"), Quoted(<<"T">>), W("where")>>), In(<<Quoted(eq1), bar>>), In(<<Quoted(eq2)>>)>>,
  <<[Lem("f", 1, {"simp", "fun_simp"}, eq1, <<>>) EXCEPT !.name = <<<<"f", "simps">>, 1>>]>>)
inductive == Item("inductive", "inductive",
  <<Out(Words(<<"inductive", "P", "where">>)), In(<<W("i"), Colon, Quoted(<<"P", "x">>)>>),
    Out(<<bar, W("j"), Colon, Quoted(<<"P", "y", "\\<Longrightarrow>", "P", "x">>)>>)>>,
  <<Lem("i", 1, {"induct_intro"}, <<"P", "x">>, <<>>), Lem("j", 1, {"induct_intro"}, <<"P", "y", "==>", "P", "x">>, <<>>)>>)
class == Item("class", "class",
  <<Out(Words(<<"class", "k", "=", "j", "+">>)), In(<<W("fixes"), W("f"), W("::"), Quoted(<<"T">>)>>),
    In(<<W("assumes"), W("h"), Colon, Quoted(A)>>), In(<<W("and"), W("i"), Attrs(<<"simp">>), Colon, Quoted(B)>>),
    Out(Words(<<"begin">>)), Out(Words(<<"end">>))>>,
  <<Lem("h", 1, {}, A, <<>>), Lem("i", 1, {"simp"}, B, <<>>)>>)
(* Without a `begin` the scan of a class goes on into the items below.     *)
open_class == Item("class", "class without begin",
  <<Out(Words(<<"class", "l", "=", "k", "+">>)), In(<<W("fixes"), W("f"), W("::"), Quoted(<<"T">>)>>)>>, <<>>)

MCItems == {one_line, several, structured, over_lines, below, sorry, lemmas, applied, with_using, with_if, sorry_below,
            datatype, tree, nested, options, mutual, quoted_arg, old_rep, commented, primrec, where_last, inductive, class, open_class}
MCTokens == {"A", "x", "==>", "=", "(", ")", "[", "]", ","}
=============================================================================
