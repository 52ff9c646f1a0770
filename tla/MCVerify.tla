-------------------------------- MODULE MCVerify --------------------------------
\* Three atoms; files whose lemmas are facts, implications, nested implications
\* and equations, and whose scripts go through every way of verify_lemma and
\* every method.  One file has scripts that panic, caught and not.
EXTENDS VerifyLemma

A == <<"A">> B == <<"B">> C == <<"C">>
AB == Rule(<<Fact(A)>>, B)
BC == Rule(<<Fact(B)>>, C)
AC == Rule(<<Fact(A)>>, C)
CA == Rule(<<Fact(C)>>, A)
ABC == Rule(<<Fact(A), Fact(B)>>, C)
ABthenC == Rule(<<AB, Fact(A)>>, C)
Same(p, q) == Fact(Equation(Fact(p), Fact(q)))

By(m) == <<"by", <<m>>>>
RuleOf(n) == <<"rule", Plain(n)>>
Auto == <<"auto", <<>>>>
Simp == <<"simp", NoModifiers>>
None == <<"none">>
\* The interpreter walks the lines of the script, the first of which is the
\* command `proof` itself.
Isar(m, commands) == <<"proof", m, <<>>, <<<<"proof", m>>>> \o commands>>
Unclosed == <<"unclosed">>

\* Facts and implications, with rules of every kind; bare methods.
MCFile1 == <<
    Parsed("ab", AB, {"intro!"}, None),
    Parsed("bc", BC, {"intro"}, By(<<"blast">>)),
    Parsed("ac", AC, {}, <<"by", <<RuleOf("bc"), <<"fast">>>>>>),
    Parsed("abe", AB, {"elim"}, By(<<"best">>)),
    Parsed("abc", ABC, {"elim!"}, By(Simp)),
    Parsed("c", ABthenC, {}, By(<<"step">>)),
    Parsed("c2", ABthenC, {}, <<"using", <<"assms">>, <<"by", RuleOf("bc")>>>>),
    Parsed("ca", CA, {}, By(<<"rule", Ref("ac", <<>>, <<"abe">>, <<"ab">>)>>)),
    Parsed("cb", AB, {}, By(RuleOf("ca"))),
    Parsed("", Fact(B), {}, By(RuleOf("list.induct")))>>

\* Equations: rewriting, folding, unfolding, substitution.
MCFile2 == <<
    Parsed("e", Same(A, B), {"simp"}, <<"blank">>),
    Parsed("x", AC, {}, By(<<"simp", Modifiers(FALSE, <<"e", "b">>, <<>>)>>)),
    Parsed("y", AB, {"intro"}, <<"unfolding", <<"e">>, <<"by", Auto>>>>),
    Parsed("z", BC, {"simp"}, By(<<"subst", "e", FALSE>>)),
    Parsed("b", Fact(A), {}, <<"by", <<<<"unfold", <<"e">>>>, <<"fold", <<"e">>>>>>>>),
    Parsed("w", AB, {}, By(<<"rule", Ref("e", <<<<"symmetric">>, <<"simplified">>>>, <<"_">>, <<>>)>>)),
    Parsed("v", AC, {}, By(<<"subst", "", TRUE>>)),
    Parsed("u", ABC, {}, <<"using", <<"z", "e">>, None>>)>>

\* Structured proofs, and the methods that search.
MCFile3 == <<
    Parsed("s", AB, {}, Isar(<<"-">>, <<<<"assume", Fact(A)>>, <<"show", Fact(B), By(Auto)>>>>)),
    Parsed("t", ABthenC, {}, Isar(<<"induct", <<"s">>>>,
        <<<<"case", 1>>, <<"have", Fact(A), By(RuleOf("s"))>>,
          <<"next">>, <<"show", Fact(<<"?thesis">>), By(<<"try">>)>>>>)),
    Parsed("i", BC, {}, By(<<"induct", <<"t">>>>)),
    Parsed("o", AC, {}, By(<<"or", "best", "coinduct">>)),
    Parsed("d", AB, {}, <<"by", <<<<"depth", 2>>, <<"REPEAT", "simp">>, <<"safe">>>>>>),
    Parsed("m", AB, {}, By(<<"auto", <<"s">>>>)),
    Parsed("p", ABC, {}, <<"apply", <<"iprover", [intro |-> <<"o">>, elim |-> <<"s">>, dest |-> <<>>]>>,
        <<<<"or", "auto", "auto">>>>>>),
    Parsed("q", Fact(A), {}, Isar(<<"-">>,
        <<<<"assume", Fact(C)>>, <<"obtain", Fact(B), <<"meson">>>>, <<"note", <<"s">>>>, <<"from", <<"s">>>>,
          <<"finally", <<"s">>>>, <<"ultimately">>>>))>>

\* A bracket left open: caught for a fact, not for a lemma with premises.
MCFile4 == <<
    Parsed("subst", AB, {}, By(Auto)),
    Parsed("k", Fact(A), {}, By(Unclosed)),
    Parsed("l", BC, {"simp"}, By(<<"and", <<<<"insert", <<"k">>>>, <<"erule", Plain("l")>>>>>>)),
    Parsed("j", AB, {}, By(Unclosed)),
    Parsed("h", AC, {}, <<"other">>)>>

\* Rules with attributes, the plain methods, and facts that are named.
MCFile5 == <<
    Parsed("f", Same(B, C), {}, <<"by", <<<<"simp_all">>, <<"fastforce">>, <<"bracketed">>>>>>),
    Parsed("g", BC, {"elim"}, <<"by", <<<<"fact", "n">>, <<"intro:", [intro |-> <<"n">>, elim |-> <<"g">>, dest |-> <<"n">>]>>>>>>),
    Parsed("n", AB, {"simp", "intro"}, <<"proof", RuleOf("g"), <<>>>>),
    Parsed("r", AC, {}, By(<<"rule", Ref("g", <<<<"rule_format">>, <<"unfolded", "f">>>>, <<"n">>, <<"_", "n">>)>>)),
    Parsed("h", BC, {}, By(<<"drule", Ref("f", <<<<"folded", "f">>>>, <<>>, <<>>)>>)),
    Parsed("a", AC, {}, <<"using", <<"n", "g">>, <<"apply", <<"force">>, <<>>>>>>),
    Parsed("v", ABC, {}, <<"unfolding", <<"f">>, <<"by", <<"or", "try", "meson">>>>>>),
    Parsed("x", ABthenC, {}, By(<<"simp", Modifiers(TRUE, <<"f">>, <<"f">>)>>)),
    Parsed("y", AB, {}, By(<<"frule", Plain("n")>>)),
    Parsed("z", AB, {}, Isar(<<"-">>, <<<<"with", <<"n">>>>, <<"also", <<"g">>>>, <<"have", BC, By(<<"this">>)>>,
                                      <<"show", BC, By(<<"assumption">>)>>>>))>>

\* One lemma, a fact, closed by a method of its own.
MCFactFiles == <<<<Parsed("f", Same(B, C), {}, By(<<"blast">>))>>>>

MCFiles == <<MCFile1, MCFile2, MCFile3, MCFile4, MCFile5>>
MCCore == <<assume(Same(B, C))>>
MCAlone == {Parsed("g", AB, {}, By(Auto))}
MCNoneAlone == {}
MCschematic(n) == assume(Fact(<<"schematic", n>>))
MCBuiltins == {"refl", "subst", "mp"}
\* A lemma of a file is checked with the file's database and names in force.
MCThreads(lem) ==
    {t \in Threads : \/ t.db = t.index /\ Contains(Files[t.db], lem)
                     \/ lem \in Alone /\ t.short = "all"}
MCverdict ==
    LET lemmas == Alone \cup UNION {ToSet(Files[f]) : f \in DOMAIN Files}
    IN  [lem \in lemmas |-> [t \in MCThreads(lem) |-> outcome(verify_lemma(Environment(t), lem))]]
MCDepths == 0 .. MaxMethodDepth
MCInductNames == {"nat_induct"}
MCCoinductNames == {"gfp_induct"}
=============================================================================
