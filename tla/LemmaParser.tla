----------------------------- MODULE LemmaParser -----------------------------
(***************************************************************************)
(* Reading the lemmas of a theory file line by line (hol/hol_loader.rs,    *)
(* parse_lemmas_with_loc and what it calls).  A line is [dent, toks], dent *)
(* when it is indented.  A token is a word, a quoted statement, the part   *)
(* of one that is opened, continued or closed on the line, a bracketed     *)
(* list of attributes or a locale prefix; v is its text.                   *)
(***************************************************************************)
EXTENDS TermParser

Token(k, v) == [k |-> k, v |-> v]
Word(w)     == Token("word", <<w>>)
Quoted(ts)  == Token("quoted", ts)
Opened(ts)  == Token("opened", ts)
Inner(ts)   == Token("inner", ts)
Closed(ts)  == Token("closed", ts)
Attrs(as)   == Token("attrs", as)
Locale(c)   == Token("locale", <<c>>)
Colon       == Word(":")
Line(dent, toks) == [dent |-> dent, toks |-> toks]

first(toks)     == IF toks # <<>> /\ toks[1].k = "word" THEN toks[1].v[1] ELSE ""
starts(l, ws)   == first(l.toks) \in ws
(* A keyword that is looked for with the space after it.                   *)
heads(l, ws)    == starts(l, ws) /\ Len(l.toks) > 1
blank(l)        == l.toks = <<>>
HasQuote(toks)  == \E j \in DOMAIN toks : toks[j].k \in {"quoted", "opened", "closed"}
Text(toks)      == FlattenSeq([j \in DOMAIN toks |-> IF toks[j].k = "word" THEN toks[j].v ELSE <<"STRING">>])
From(s, p)      == SubSeq(s, p, Len(s))
IndexOf(s, t)   == CHOOSE j \in 1..(Len(s) + 1) : (j = Len(s) + 1 \/ s[j] = t) /\ \A h \in 1..(j - 1) : s[h] # t
(* The first line from p on that is such, or the end of the file.          *)
NextLine(L, p, Such(_)) ==
  CHOOSE q \in p..(Len(L) + 1) : (q = Len(L) + 1 \/ Such(L[q])) /\ \A r \in p..(q - 1) : ~Such(L[r])
SplitBy(s, t) ==
  SelectSeq(FoldLeft(LAMBDA acc, x: IF x = t THEN Append(acc, <<>>)
                                    ELSE Append(Front(acc), Append(Last(acc), x)), <<<<>>>>, s),
            LAMBDA part: part # <<>>)

Ascii == [w \in {"\\<Longrightarrow>", "\\<longrightarrow>", "\\<longleftrightarrow>", "\\<and>", "\\<or>", "\\<not>"} |->
            CASE w = "\\<Longrightarrow>" -> "==>" [] w = "\\<longrightarrow>" -> "-->"
              [] w = "\\<longleftrightarrow>" -> "=" [] w = "\\<and>" -> "&" [] w = "\\<or>" -> "|" [] OTHER -> "~"]
convert_syntax(ts) == [j \in DOMAIN ts |-> IF ts[j] \in DOMAIN Ascii THEN Ascii[ts[j]] ELSE ts[j]]
read(ts) == parse_term(convert_syntax(ts))

(* A name is the words before the colon, or the statement of a nameless    *)
(* lemma; the statements after the first are numbered.                     *)
ParsedLemma(name, attrs, prop, alias_for) ==
  [name |-> name, attrs |-> attrs, prop |-> prop, proof |-> <<>>, alias_for |-> alias_for]
Nth(name, stmt, n) == IF name = <<>> THEN <<<<"[anon]">> \o stmt, n>> ELSE <<name, n>>

-----------------------------------------------------------------------------
strip_locale_prefix(toks) == IF toks # <<>> /\ toks[1].k = "locale" THEN Tail(toks) ELSE toks

split_name_statement(toks) ==
  IF toks # <<>> /\ toks[1].k \in {"quoted", "opened"} THEN [ok |-> TRUE, name |-> <<>>, stmt |-> toks]
  ELSE LET c == IndexOf(toks, Colon)
       IN  [ok |-> c <= Len(toks), name |-> SubSeq(toks, 1, c - 1), stmt |-> From(toks, c + 1)]

parse_name_attrs(toks) ==
  LET a == CHOOSE j \in 1..(Len(toks) + 1) :
             (j = Len(toks) + 1 \/ toks[j].k = "attrs") /\ \A h \in 1..(j - 1) : toks[h].k # "attrs"
  IN  [name |-> Text(SubSeq(toks, 1, a - 1)), attrs |-> IF a <= Len(toks) THEN Range(toks[a].v) ELSE {}]

(* The statements quoted one after the other on the header line; those     *)
(* that cannot be read are passed over.                                    *)
QuotedFront(toks) ==
  CHOOSE n \in 0..Len(toks) : /\ \A j \in 1..n : toks[j].k = "quoted"
                              /\ n = Len(toks) \/ toks[n + 1].k # "quoted"
one_lemma(na, stmt, j, r) == IF r.ok THEN <<ParsedLemma(Nth(na.name, stmt, j), na.attrs, r.term, <<>>)>> ELSE <<>>
read_one_line(split, na) ==
  IF ~split.ok THEN <<>>
  ELSE FlattenSeq([j \in 1..QuotedFront(split.stmt) |-> one_lemma(na, split.stmt[j].v, j, read(split.stmt[j].v))])
parse_one_line(L, p) ==
  LET split == split_name_statement(strip_locale_prefix(Tail(L[p].toks)))
  IN  read_one_line(split, parse_name_attrs(split.name))

(* The lines of a proof.  A `by` goes on to the next empty line or, at the *)
(* margin, the next of some keywords; only the first `apply` is kept.      *)
ByEnds == {"lemma", "theorem", "by", "qed", "done", "next", "definition", "primrec", "fun", "datatype",
           "inductive", "class"}
Texts(L, p, q) == [j \in 1..(q - p) |-> L[p + j - 1].toks]
(* Mutant: an empty line does not end a `by`.                               *)
by_end_keyword(L, p) ==
  NextLine(L, p + 1, LAMBDA l: starts(l, {"--", "(*", "text"}) \/ (~blank(l) /\ ~l.dent /\ starts(l, ByEnds)))
by_end(L, p) ==
  NextLine(L, p + 1, LAMBDA l: blank(l) \/ starts(l, {"--", "(*", "text"}) \/ (~l.dent /\ starts(l, ByEnds)))
MaxProofLines == 400    \* after its first, of a `proof` that no `qed` ends
capture_proof(L, p) ==
  LET qed == CHOOSE q \in p..Len(L) :
               LET depth(r) == Cardinality({s \in p..r : starts(L[s], {"proof"})})
                                 - Cardinality({s \in p..r : starts(L[s], {"qed"})})
               IN  /\ q = Len(L) \/ depth(q) = 0 \/ q - p = MaxProofLines
                   /\ q - p <= MaxProofLines /\ \A r \in p..(q - 1) : depth(r) # 0
  IN  IF p > Len(L) THEN [proof |-> <<>>, p |-> p]
      ELSE CASE starts(L[p], {"by"})    -> [proof |-> Texts(L, p, by_end(L, p)), p |-> by_end(L, p) - 1]
             [] starts(L[p], {"apply"}) -> [proof |-> Texts(L, p, p + 1), p |-> p]
             [] starts(L[p], {"proof"}) -> [proof |-> Texts(L, p, qed + 1), p |-> qed]
             [] OTHER                   -> [proof |-> <<>>, p |-> p]

-----------------------------------------------------------------------------
(* The lines of a statement up to its proof, which is read as well.        *)
Lemmas    == {"lemma", "theorem"}
ProofCmds == {"by", "proof", "apply", "done", "unfolding", "using", "qed", ".", "induction", "cases", "induct"}
Nonblank(L, p, q) == SelectSeq(Texts(L, p, q), LAMBDA l: l # <<>>)
collect_block_lines(L, p) ==
  LET q == NextLine(L, p, LAMBDA l: heads(l, Lemmas) \/ starts(l, ProofCmds))
      After(r) == [lines |-> Nonblank(L, p, q), proof |-> Nonblank(L, q, r), p |-> r]
      other == NextLine(L, q, LAMBDA l: ~blank(l) /\ ~starts(l, {"apply"}))
      open(r) == Cardinality({s \in q..r : starts(L[s], {"proof"})}) - Cardinality({s \in q..r : starts(L[s], {"qed"})})
      closed == CHOOSE r \in q..Len(L) :
                  /\ r = Len(L) \/ open(r) = 0 \/ heads(L[r + 1], Lemmas)
                  /\ \A s \in q..(r - 1) : open(s) # 0 /\ ~heads(L[s + 1], Lemmas)
  IN  IF q > Len(L) THEN After(q)
      ELSE CASE heads(L[q], Lemmas) -> After(q)
             [] starts(L[q], {"apply"}) ->
                  After(IF other <= Len(L) /\ starts(L[other], {"done"}) THEN other + 1 ELSE other)
             [] starts(L[q], {"proof"}) -> After(closed + 1)
             [] OTHER -> After(q + 1)

(* The bare words and the quoted statements of an assumption, after its    *)
(* name; what is quoted over several lines is not found.                   *)
QuoteAt(toks) == CHOOSE j \in 1..(Len(toks) + 1) :
                   (j = Len(toks) + 1 \/ HasQuote(<<toks[j]>>)) /\ \A h \in 1..(j - 1) : ~HasQuote(<<toks[h]>>)
NamedPart(toks) == IndexOf(toks, Colon) < QuoteAt(toks) /\ QuoteAt(toks) <= Len(toks)
extract_clauses(toks) ==
  FlattenSeq([n \in DOMAIN SplitBy(toks, Word("and")) |->
    LET part == SplitBy(toks, Word("and"))[n]
        after == IF NamedPart(part) THEN From(part, IndexOf(part, Colon) + 1) ELSE part
        seen == SelectSeq(after, LAMBDA t: t.k \in {"word", "quoted"})
    IN  [j \in DOMAIN seen |-> seen[j].v]])

(* A conclusion that is neither quoted nor named is its text, the part of  *)
(* a quotation included.                                                   *)
extract_shows_clauses(toks) ==
  LET parts == SplitBy(toks, Word("and"))
      parse_named_or_bare(part) ==
        LET after == From(part, IndexOf(part, Colon) + 1)
        IN  IF NamedPart(part) THEN
              IF after[1].k = "quoted" THEN <<[name |-> Text(SubSeq(part, 1, IndexOf(part, Colon) - 1)), stmt |-> after[1].v]>>
              ELSE <<>>
            ELSE <<[name |-> <<>>, stmt |-> IF part[1].k = "quoted" THEN part[1].v ELSE Text(part)]>>
  IN  FlattenSeq([n \in DOMAIN parts |-> parse_named_or_bare(parts[n])])

(* The statements of a block without assumes and shows.                    *)
merge_multiline_quotes(block) ==
  LET read_line(acc, l) ==
        CASE first(l) \in {"assumes", "shows", "fixes"} -> acc
          [] acc.buf # <<>> /\ l[1].k = "closed" -> [buf |-> <<>>, out |-> Append(acc.out, acc.buf \o l[1].v)]
          [] acc.buf # <<>> -> [acc EXCEPT !.buf = @ \o l[1].v]
          [] l[1].k = "quoted" -> [acc EXCEPT !.out = Append(@, l[1].v)]
          [] l[1].k = "opened" -> [acc EXCEPT !.buf = l[1].v]
          [] ~HasQuote(l) -> [acc EXCEPT !.out = Append(@, Text(l))]
          [] OTHER -> acc
  IN  FoldLeft(read_line, [buf |-> <<>>, out |-> <<>>], block).out

extract_assumes_shows(block) ==
  LET read_line(acc, l) ==
        LET rest == Tail(l)
            s == IndexOf(rest, Word("shows"))
            assumed == extract_clauses(SubSeq(rest, 1, s - 1))
            shown == extract_shows_clauses(From(rest, s + 1))
        IN  CASE first(l) = "assumes" ->
                   [sec |-> IF shown # <<>> THEN "shows" ELSE "assumes",
                    assumes |-> acc.assumes \o assumed, shows |-> acc.shows \o shown]
              [] first(l) = "shows" -> [acc EXCEPT !.sec = "shows", !.shows = @ \o extract_shows_clauses(rest)]
              [] first(l) = "and" /\ acc.sec = "assumes" -> [acc EXCEPT !.assumes = @ \o extract_clauses(rest)]
              [] first(l) = "and" /\ acc.sec = "shows" -> [acc EXCEPT !.shows = @ \o extract_shows_clauses(rest)]
              [] OTHER -> acc
      got == FoldLeft(read_line, [sec |-> "", assumes |-> <<>>, shows |-> <<>>], block)
      others == SelectSeq(block, LAMBDA l: first(l) \notin {"assumes", "shows", "and", "fixes"})
      bare(stmts) == [j \in DOMAIN stmts |-> [name |-> <<>>, stmt |-> stmts[j]]]
  IN  CASE got.shows # <<>> -> got
        [] got.assumes = <<>> -> [got EXCEPT !.shows = bare(merge_multiline_quotes(block))]
        [] others # <<>> -> [got EXCEPT !.shows = bare(<<Text(FlattenSeq(others))>>)]
        [] OTHER -> got

(* Assumptions that cannot be read are passed over; a conclusion that      *)
(* cannot loses the lemma.                                                 *)
structured_lemmas(shows, premises, concls, na) ==
  LET rule(n) == FoldRight(LAMBDA r, q: make_binary("imp", r.term, q), premises, concls[n].term)
      name(n) == IF shows[n].name # <<>> THEN <<shows[n].name, 1>> ELSE Nth(na.name, shows[n].stmt, n)
  IN  IF \E n \in DOMAIN shows : ~concls[n].ok THEN <<>>
      ELSE [n \in DOMAIN shows |-> ParsedLemma(name(n), na.attrs, rule(n), <<>>)]
assumed_and_shown(as, na) ==
  structured_lemmas(as.shows, SelectSeq([j \in DOMAIN as.assumes |-> read(as.assumes[j])], LAMBDA r: r.ok),
                    [n \in DOMAIN as.shows |-> read(as.shows[n].stmt)], na)
parse_structured_stmt(block, na) == assumed_and_shown(extract_assumes_shows(block), na)

parse_block(split, got) ==
  [lemmas |-> parse_structured_stmt((IF split.stmt = <<>> THEN <<>> ELSE <<split.stmt>>) \o got.lines,
                                    parse_name_attrs(split.name)),
   proof |-> got.proof, p |-> got.p]
(* A header without a colon is joined with the lines after it up to one    *)
(* that has it.                                                            *)
parse_multi_line(L, p) ==
  LET rest == strip_locale_prefix(Tail(L[p].toks))
      own == split_name_statement(rest)
      c == NextLine(L, p + 1, LAMBDA l: heads(l, Lemmas) \/ Colon \in Range(l.toks))
      joins == c <= Len(L) /\ ~heads(L[c], Lemmas)
      split == IF own.ok THEN own ELSE split_name_statement(rest \o FlattenSeq(Texts(L, p + 1, c + 1)))
  IN  IF own.ok \/ joins THEN parse_block(split, collect_block_lines(L, IF own.ok THEN p + 1 ELSE c + 1))
      ELSE [lemmas |-> <<>>, proof |-> <<>>, p |-> p + 1]

(* lemmas [attrs] a = b c and d = e: what has no name is passed over.      *)
parse_lemmas_cmd(l) ==
  LET rest == Tail(l.toks)
      attrs == IF rest[1].k = "attrs" THEN Range(rest[1].v) ELSE {}
      parts == SplitBy(IF rest[1].k = "attrs" THEN Tail(rest) ELSE rest, Word("and"))
      named == SelectSeq(parts, LAMBDA s: IndexOf(s, Word("=")) \in 2..Len(s))
  IN  [n \in DOMAIN named |->
         LET e == IndexOf(named[n], Word("="))
         IN  ParsedLemma(<<Text(SubSeq(named[n], 1, e - 1)), 1>>, attrs, const("True"), Text(From(named[n], e + 1)))]

WithProof(lemmas, proof) == [n \in DOMAIN lemmas |-> IF proof = <<>> THEN lemmas[n] ELSE [lemmas[n] EXCEPT !.proof = proof]]

Parsed(L, p, one) == IF one # <<>> THEN [lemmas |-> one, proof |-> <<>>, p |-> p + 1] ELSE parse_multi_line(L, p)

RECURSIVE scan(_, _)
Record(L, p, got) ==
  LET after == capture_proof(L, got.p)
  IN  IF got.lemmas = <<>> THEN scan(L, p + 1)
      ELSE WithProof(WithProof(got.lemmas, got.proof), after.proof) \o scan(L, after.p)
scan(L, p) ==
  IF p > Len(L) THEN <<>>
  ELSE IF heads(L[p], {"lemmas"}) THEN parse_lemmas_cmd(L[p]) \o scan(L, p + 1)
  ELSE IF ~heads(L[p], Lemmas) THEN scan(L, p + 1)
  ELSE Record(L, p, Parsed(L, p, parse_one_line(L, p)))
=============================================================================
