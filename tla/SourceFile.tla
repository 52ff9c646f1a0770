------------------------------ MODULE SourceFile ------------------------------
(***************************************************************************)
(* A theory file as its author means it, and as the theorem database reads *)
(* it (hol/hol_loader.rs, parse_lemmas_with_loc).  The author writes items *)
(* one after the other, each a lemma or a declaration in one of the forms  *)
(* Isabelle has for it, with an empty line after it or not, or types the   *)
(* text of a single statement.  The database reads the file, or the        *)
(* constructor rules of its datatypes are read from it by themselves.      *)
(*                                                                         *)
(* An item is [kind, key, form, lines, says]: key is its first word, says  *)
(* the theorems it states, as ParsedLemma records whose prop is the text.  *)
(***************************************************************************)
EXTENDS DeclParser

CONSTANTS
  Items,        \* the items that can be written
  Tokens,       \* the tokens that can be typed
  MaxItems,     \* bound on the items of a file
  MaxTokens     \* bound on the length of a typed statement

VARIABLES
  items,        \* the items written, each [item, gap]
  text,         \* the statement typed
  db,           \* <<>>, or <<the theorems read>>
  reader        \* what read them: "database", "ctr_sugar" or nothing yet
vars == <<items, text, db, reader>>

Gap == <<Line(FALSE, <<>>)>>
(* What stands in the file.                                                *)
file ==
  IF text # <<>> THEN <<Line(FALSE, <<Word("lemma"), Word("t"), Colon, Quoted(text)>>)>>
  ELSE FlattenSeq([n \in DOMAIN items |-> items[n].item.lines \o (IF items[n].gap THEN Gap ELSE <<>>)])

Init == items = <<>> /\ text = <<>> /\ db = <<>> /\ reader = ""

(* A file declares a type once.                                            *)
types(item) == IF item.kind = "datatype" THEN {def.name : def \in Range(item.says)} ELSE {}
write(item, gap) ==
  /\ db = <<>> /\ text = <<>> /\ Len(items) < MaxItems
  /\ \A n \in DOMAIN items : types(items[n].item) \cap types(item) = {}
  /\ items' = Append(items, [item |-> item, gap |-> gap])
  /\ UNCHANGED <<text, db, reader>>

type_token(t) ==
  /\ db = <<>> /\ items = <<>> /\ Len(text) < MaxTokens
  /\ text' = Append(text, t)
  /\ UNCHANGED <<items, db, reader>>

(* The declarations of all kinds come before the lemmas.                   *)
parse_lemmas_with_loc(L) == declared(L) \o scan(L, 1)

load ==
  /\ db = <<>> /\ (items # <<>> \/ text # <<>>)
  /\ db' = <<parse_lemmas_with_loc(file)>> /\ reader' = "database"
  /\ UNCHANGED <<items, text>>

(* hol/ctr_sugar.rs reads the datatypes of the same text.                  *)
generate_ctr_sugar_lemmas ==
  /\ db = <<>> /\ items # <<>>
  /\ db' = <<ctr_sugar(file)>> /\ reader' = "ctr_sugar"
  /\ UNCHANGED <<items, text>>

Next ==
  \/ \E item \in Items, gap \in BOOLEAN : write(item, gap)
  \/ \E t \in Tokens : type_token(t)
  \/ load
  \/ generate_ctr_sugar_lemmas
Spec == Init /\ [][Next]_vars

-----------------------------------------------------------------------------
(* The grammar of statements, with Isabelle's priorities: ==> weakest and  *)
(* to the right, then |, &, ~, = and application.  The readings of a text  *)
(* at a priority.                                                          *)
RECURSIVE Bind(_, _), Readings(_, _), Elements(_)
Bind(x, t) ==
  IF t = free(x) THEN Tree("bound", x, <<>>)
  ELSE IF t.k = "abs" /\ t.n = x THEN t
  ELSE [t EXCEPT !.a = [n \in DOMAIN t.a |-> Bind(x, t.a[n])]]
Before(ts, n) == SubSeq(ts, 1, n - 1)
Pairs(ls, rs, Op(_, _)) == {Op(l, r) : l \in ls, r \in rs}
Signs(ts, w) == {n \in 2..(Len(ts) - 1) : ts[n] = w}
ToTheRight(ts, w, k, p) ==
  UNION {Pairs(Readings(Before(ts, n), p + 1), Readings(From(ts, n + 1), p), LAMBDA l, r: make_binary(k, l, r)) :
           n \in Signs(ts, w)}
Readings(ts, p) ==
  IF ts = <<>> THEN {}
  ELSE CASE p = 0 -> ToTheRight(ts, "==>", "imp", 0) \cup Readings(ts, 1)
              \cup (IF Len(ts) > 3 /\ ts[1] = "!!" /\ is_id(ts[2]) /\ ts[3] = "."
                    THEN {quant("!!", abs(ts[2], Bind(ts[2], b))) : b \in Readings(From(ts, 4), 0)} ELSE {})
         [] p = 1 -> ToTheRight(ts, "|", "|", 1) \cup Readings(ts, 2)
         [] p = 2 -> ToTheRight(ts, "&", "&", 2) \cup Readings(ts, 3)
         [] p = 3 -> (IF ts[1] = "~" THEN {not_(b) : b \in Readings(Tail(ts), 3)} ELSE {}) \cup Readings(ts, 4)
         [] p = 4 -> UNION {Pairs(Readings(Before(ts, n), 4), Readings(From(ts, n + 1), 5),
                                  LAMBDA l, r: make_binary("eq", l, r)) : n \in Signs(ts, "=")} \cup Readings(ts, 5)
         [] p = 5 -> UNION {Pairs(Readings(Before(ts, n), 5), Readings(From(ts, n), 6), apply) : n \in 2..Len(ts)}
                       \cup Readings(ts, 6)
         [] OTHER -> IF Len(ts) = 1 /\ is_id(ts[1]) THEN {free(ts[1])}
                     ELSE IF Len(ts) > 2 /\ ts[1] = "(" /\ Last(ts) = ")" THEN Readings(Tail(Front(ts)), 0)
                     ELSE IF Len(ts) > 1 /\ ts[1] = "[" /\ Last(ts) = "]" THEN {list(es) : es \in Elements(Tail(Front(ts)))}
                     ELSE {}
Elements(ts) ==
  IF ts = <<>> THEN {<<>>}
  ELSE {<<t>> : t \in Readings(ts, 0)}
         \cup UNION {{<<t>> \o es : t \in Readings(Before(ts, n), 0), es \in Elements(From(ts, n + 1))} : n \in Signs(ts, ",")}
meaning(ts) == CHOOSE t \in Readings(ts, 0) : TRUE

(* A statement was read as it is meant.                                    *)
ReadAsMeant == db = <<>> \/ text = <<>> \/ \A t \in Readings(text, 0) : Len(db[1]) = 1 /\ db[1][1].prop = t

Occurs(ws) == Range(text) \cap ws # {}
ArgumentsUnbracketed == \A n \in 2..Len(text) : text[n] = "(" => text[n - 1] \in Symbols \ {")", "]"}

(* Statements of ==>, applications, lists and one equation, in which a     *)
(* bracket opens at the start or after an operator, are read as meant:     *)
(* outside it `f (x) ==> A` loses everything after the bracket, &, |, ~    *)
(* and a second = take in the implication they stand in, and a quantifier  *)
(* binds nothing.                                                          *)
TextAsWritten ==
  (~Occurs({"&", "|", "~", "!!"}) /\ ArgumentsUnbracketed /\ Cardinality({n \in DOMAIN text : text[n] = "="}) <= 1)
    => ReadAsMeant

-----------------------------------------------------------------------------
(* The items whose last lines the scans tell from what follows them: the   *)
(* proof after `by` goes on to an empty line or a keyword, a datatype and  *)
(* the rules of an inductive predicate take in the next line but for some  *)
(* keywords, and so do the equations of a function.                        *)
PlainForms == {"one line", "several", "structured", "quote over lines", "attributes below", "sorry", "lemmas",
               "datatype", "datatype over lines", "where below", "inductive", "class"}
EndedBy(item, gap, next) ==
  CASE item.form \in {"one line", "several", "quote over lines"} -> gap \/ next \in ByEnds
    [] item.form \in {"datatype", "datatype over lines"} -> next \in DatatypeEnds
    [] item.form = "inductive" -> next \in InductiveEnds
    [] item.form = "where below" -> gap \/ next \in PrimrecEnds
    [] OTHER -> TRUE
WellSeparated ==
  \A n \in DOMAIN items :
    /\ items[n].item.form \in PlainForms
    /\ n < Len(items) => EndedBy(items[n].item, items[n].gap, items[n + 1].item.key)

(* What the items of a kind state, in the order of the file.               *)
Said(kind) ==
  LET says(n) == IF items[n].item.kind = kind THEN items[n].item.says ELSE <<>>
  IN  FlattenSeq([n \in DOMAIN items |-> says(n)])
Meant(lem) == [lem EXCEPT !.prop = IF lem.alias_for = <<>> THEN meaning(lem.prop) ELSE const("True")]
Loaded == reader = "database" /\ items # <<>>

(* In a file whose items the scans can tell apart, the database has the    *)
(* lemmas of the file, one by one: their names, attributes, statements     *)
(* with the assumptions in front, and their whole proofs.                  *)
LemmasAsWritten ==
  (Loaded /\ WellSeparated) =>
    LET said == Said("lemma")
        n == Len(db[1]) - Len(said)
    IN  n >= 0 /\ From(db[1], n + 1) = [j \in DOMAIN said |-> Meant(said[j])] /\ n = Len(declared(file))

(* In such a file every equation, introduction rule and class assumption   *)
(* is there as it is written, and the names of the datatypes are those for *)
(* which facts are assumed.                                                *)
DeclarationsAsWritten ==
  (Loaded /\ WellSeparated) =>
    /\ \A kind \in {"primrec", "inductive", "class"} : \A j \in DOMAIN Said(kind) : Contains(db[1], Meant(Said(kind)[j]))
    /\ parse_datatypes(file, 1) = Said("datatype")

(* Facts of the packages that hold of the free datatype, whatever is       *)
(* recorded next to them.                                                  *)
CoreFacts == {"inject", "distinct", "case", "disc", "sel", "size"}
PlainFacts == {"fold", "rec", "map", "map_id", "map_comp"}
Nested(def) == \E n \in DOMAIN def.ctors : \E j \in DOMAIN def.ctors[n].args : def.ctors[n].args[j].ty = "T list"
Claims(def) == CoreFacts \cup IF Nested(def) THEN {} ELSE PlainFacts
Declared == UNION {Range(x.says) : x \in {y \in Items : y.kind = "datatype"}}
Stated(def) == facts(def) \o Packages!ctr_sugar_lemmas(Packages!from_datatype(def))
Truths == [def \in Declared |->
             {f.prop : f \in {g \in Range(Stated(def)) : g.name \in Claims(def)
                                                         /\ Packages!IsTrueOf(Packages!from_datatype(def), g.prop)}}]

(* The theorems of a datatype no lemma records.  Two constructors whose     *)
(* arguments have no selectors get the same names for them, and then the   *)
(* definitions contradict each other.                                      *)
SelectorsDiffer(d) ==
  LET named(j) == {d.ctors[j].args[k].sel : k \in DOMAIN d.ctors[j].args}
  IN  \A i, j \in DOMAIN d.ctors : i # j => named(i) \cap named(j) = {}
Definitions(def) ==
  LET d == Packages!from_datatype(def)
      thms == Packages!generate_all_theorems(d)
  IN  thms.disc_defs \o thms.disc_thms \o thms.collapses \o IF SelectorsDiffer(d) THEN thms.sel_defs ELSE <<>>
DefinitionsHold == [def \in Declared |-> \A p \in Range(Definitions(def)) : Packages!IsTrueOf(Packages!from_datatype(def), p)]

(* The constructor rules and the recursion equations recorded for the      *)
(* datatypes of such a file hold of the datatypes that are written there,  *)
(* and so do the definitions of its discriminators by cases, and those of  *)
(* its selectors where the constructors share none.                        *)
CoreFactsHold ==
  (reader # "" /\ items # <<>> /\ WellSeparated) =>
    \A def \in Range(Said("datatype")) :
      /\ \A e \in Range(db[1]) :
           (Front(e.name[1]) = def.name /\ Last(e.name[1]) \in Claims(def) /\ e.prop # True) => e.prop \in Truths[def]
      /\ reader = "ctr_sugar" => DefinitionsHold[def]
=============================================================================
