-------------------------------- MODULE MCBuild --------------------------------
\* Three theories and one import that is not found; headers with none, one and
\* two imports, a repeated one, and cycles through one, two and three theories.
EXTENDS BuildSystem

MCbuiltin(n) == <<"builtin", n>>
\* Rules of every kind; "refl" is also a theorem of the files.
MCBuiltins == {"refl", "subst", "mp", "sym", "trans", "add_0", "nat.induct"}
MCNames == <<"A", "B", "C">>
MCHeaders == {<<>>, <<"A">>, <<"B">>, <<"C", "X">>, <<"B", "A">>, <<"B", "B">>}

Read(l, t, e) == [kind |-> "read", lemmas |-> l, theorems |-> t, errors |-> e, syntax |-> FALSE]
Died(k) == [kind |-> k, lemmas |-> 0, theorems |-> 0, errors |-> 0, syntax |-> FALSE]
MCOutcomes == {Read(1, 1, 0), Read(1, 2, 1), Died("panic"), Died("unreadable")}

\* No lemma, a lemma two theories share, an alias for it, and both at once.
MCContents(t) ==
    LET a == Lemma("a", <<t, "a">>, {"intro!"}, {}) refl == Lemma("refl", <<t, "refl">>, {}, {"equation"})
        x == parse_lemmas_cmd("x", <<"a", "refl">>, {"simp"})
    IN  {<<>>, <<a>>, <<x, refl>>, <<a, a, x>>}
=============================================================================
