------------------------------- MODULE TheoremDb -------------------------------
(***************************************************************************)
(* HolTheoremDb of hol/hol_loader.rs, as a value: the theorems parsed, the *)
(* first of each name, and the rule sets the methods search.  It is filled *)
(* file by file (extend) or from one list (from_lemmas), which classify a  *)
(* lemma by different rules, and completed with rules of its own.  A       *)
(* theorem is named by where it was stated; a `lemmas` command stands for  *)
(* theorems that exist, and is parsed with a placeholder for a theorem.    *)
(***************************************************************************)
EXTENDS Integers, Sequences, SequencesExt, TLC

CONSTANTS
    builtin(_),     \* the rules add_builtins states, by name
    Builtins        \* bound: the names of those that are there

RuleSet == {"intro", "safe_intro", "elim", "safe_elim", "simp"}
Placeholder == <<"True">>

Empty == [n \in {} |-> Placeholder]
new == [all |-> <<>>, by_name |-> Empty, def_index |-> Empty, rules |-> [r \in RuleSet |-> <<>>]]

\* A lemma: its attributes, what its statement looks like and, for a `lemmas`
\* command, the names it stands for.
IsLemma(lem) ==
    lem \in [name : STRING, theorem : {lem.theorem}, attrs : SUBSET STRING, shape : SUBSET STRING,
             alias_for : Seq(STRING)]
Lemma(n, thm, attrs, shape) ==
    [name |-> n, theorem |-> thm, attrs |-> attrs, shape |-> shape, alias_for |-> <<>>]
parse_lemmas_cmd(n, targets, attrs) ==
    [name |-> n, theorem |-> Placeholder, attrs |-> attrs, shape |-> {}, alias_for |-> targets]
-----------------------------------------------------------------------------
\* isar/attrib.rs: attributes first, then the look of the lemma.
classify_from_attrs(attrs) ==
    UNION {CASE a = "simp" -> {"simp"}
             [] a = "intro" -> {"intro"}
             [] a = "intro!" -> {"intro", "safe_intro"}
             [] a = "elim" -> {"elim"}
             [] a = "elim!" -> {"elim", "safe_elim"}
             [] a = "iff" -> {"intro", "safe_intro", "elim", "safe_elim", "simp"}
             [] a \in {"dest", "induct", "split", "cong"} -> {a}
             [] OTHER -> {} : a \in attrs}

classify_with_fallback(lem) ==
    LET explicit == {"intro", "intro!", "intro?", "elim", "elim!", "iff", "dest"}
    IN  classify_from_attrs(lem.attrs) \cup
        IF lem.attrs \cap explicit # {} THEN {}
        ELSE UNION {CASE s = "induct_name" -> {"induct"}
                      [] s = "simps_name" -> {"simp"}
                      [] s = "equation" -> {"intro", "safe_intro"}
                      [] OTHER -> {} : s \in lem.shape}

\* A lemma nothing classifies is an introduction rule.
compute_db_categories(lem) ==
    LET cats == classify_with_fallback(lem) IN IF cats = {} THEN {"intro"} ELSE cats

\* from_lemmas looks for the words in the attributes, and at the statement
\* when an attribute does not say whether the rule is safe.
classify_intro_safe(lem) ==
    "intro!" \in lem.attrs \/ ("intro" \notin lem.attrs /\ "safe_concl" \in lem.shape)
classify_elim_safe(lem) ==
    "elim!" \in lem.attrs \/ ("elim" \notin lem.attrs /\ "safe_prem" \in lem.shape)

Mentions(attrs) ==
    (IF attrs \cap {"intro", "intro!", "intro?"} # {} THEN {"intro"} ELSE {}) \cup
    (IF attrs \cap {"elim", "elim!"} # {} THEN {"elim"} ELSE {}) \cup
    (IF attrs \cap {"simp", "iff"} # {} THEN {"simp"} ELSE {})

categories_whole(lem) ==
    LET sets == Mentions(lem.attrs)
    IN  sets \cup (IF "intro" \in sets /\ classify_intro_safe(lem) THEN {"safe_intro"} ELSE {})
             \cup (IF "elim" \in sets /\ classify_elim_safe(lem) THEN {"safe_elim"} ELSE {})
-----------------------------------------------------------------------------
\* An index with the lemmas of a list: it keeps what it has under a name, and
\* the first lemma of the list under a new one.  The empty name is none.
Names_of(lemmas) == {lemmas[i].name : i \in DOMAIN lemmas} \ {""}
First(lemmas, n) == lemmas[Min({i \in DOMAIN lemmas : lemmas[i].name = n})].theorem
filed(map, lemmas) ==
    [n \in DOMAIN map \cup Names_of(lemmas) |-> IF n \in DOMAIN map THEN map[n] ELSE First(lemmas, n)]

\* The rule sets with what the lemmas of a list bring.
Theorems(lemmas) == [i \in DOMAIN lemmas |-> lemmas[i].theorem]
sorted_in(rules, lemmas, cats(_)) ==
    LET into(r) == LET in(lem) == r \in cats(lem) IN SelectSeq(lemmas, in)
    IN  [r \in RuleSet |-> rules[r] \o Theorems(into(r))]
rules_extended(rules, lemmas) == sorted_in(rules, lemmas, compute_db_categories)
rules_whole(lemmas) == sorted_in(new.rules, lemmas, categories_whole)

add(db, lemmas, rules) ==
    [all |-> db.all \o Theorems(lemmas), by_name |-> filed(db.by_name, lemmas),
     def_index |-> filed(db.def_index, lemmas), rules |-> rules]

\* The first n lists one after another.
Joined(lists, n) == LET upto[i \in 0..n] == IF i = 0 THEN <<>> ELSE upto[i - 1] \o lists[i] IN upto[n]

\* A `lemmas` command stands for the theorem of its first target that is found.
Targets(db, lem) == {k \in DOMAIN lem.alias_for : lem.alias_for[k] \in DOMAIN db.by_name}
resolved(db, lem) ==
    IF Targets(db, lem) = {} THEN <<>>
    ELSE <<[lem EXCEPT !.theorem = db.by_name[lem.alias_for[Min(Targets(db, lem))]]]>>
rules_aliased(rules, aliases) ==
    LET mentioned(lem) == Mentions(lem.attrs) IN sorted_in(rules, aliases, mentioned)

KeyRules == {"sym", "trans", "refl", "arg_cong", "fun_cong", "iffD1", "iffD2"}
keep_key_rules(rules, lemmas) ==
    LET kept(simps, lem) == IF lem.name \in KeyRules /\ ~Contains(simps, lem.theorem)
                            THEN Append(simps, lem.theorem) ELSE simps
    IN  [rules EXCEPT !["simp"] = FoldLeft(kept, @, lemmas)]

\* The commands resolve in turn, and each files its name unless it is there:
\* all of them are, so that none of them changes what the next one finds.
resolve_aliases(db, lemmas) ==
    LET aliases == Joined([i \in DOMAIN lemmas |-> resolved(db, lemmas[i])], Len(lemmas))
    IN  [all |-> db.all \o Theorems(aliases), by_name |-> filed(db.by_name, aliases),
         def_index |-> db.def_index,
         rules |-> keep_key_rules(rules_aliased(db.rules, aliases), lemmas)]

from_lemmas(lemmas) == resolve_aliases(add(new, lemmas, rules_whole(lemmas)), lemmas)

\* Mutant: the names of a file replace those of the files before it.
extend_latest(db, lemmas) ==
    LET grown == resolve_aliases(add(db, lemmas, rules_extended(db.rules, lemmas)), lemmas)
    IN  [grown EXCEPT !.by_name = from_lemmas(lemmas).by_name @@ @]

extend(db, lemmas) == resolve_aliases(add(db, lemmas, rules_extended(db.rules, lemmas)), lemmas)

-----------------------------------------------------------------------------
\* The rules that are added to every database, in their order: each under its
\* name and in rule sets of its own.  One that overrides takes the place of the
\* theorem parsed under the name, the others only fill a gap.
Fills(n, R)     == [name |-> n, overrides |-> FALSE, into |-> R]
Overrides(n, R) == [name |-> n, overrides |-> TRUE, into |-> R]

LogicRules ==
    <<Fills("refl", {"simp"}), Overrides("subst", {"elim"}), Fills("mp", {"intro", "elim"}),
      Fills("impI", {"intro"}), Fills("True_or_False", {}), Fills("notE", {"elim"}),
      Overrides("contrapos_nn", {"elim"}), Overrides("contrapos_pn", {"elim"})>>

EqualityRules ==
    <<Overrides("sym", {"simp"}), Fills("trans", {}), Fills("iffI", {"intro"}), Overrides("not_sym", {}),
      Overrides("False_neq_True", {"elim"}), Overrides("disjE", {"elim"}), Fills("Pure.refl", {}),
      Fills("eq_commute", {"simp"}), Overrides("ssubst", {"elim"}), Fills("arg_cong", {}), Fills("fun_cong", {})>>

ArithmeticRules ==
    <<Fills("add_0_right", {"simp"}), Fills("add_Suc_right", {"simp"}), Fills("add_0", {"simp"}),
      Fills("mult_0_right", {"simp"}), Fills("mult_Suc_right", {"simp"}), Fills("add_commute", {"simp"}),
      Fills("add_assoc", {"simp"}), Fills("less_irrefl", {"simp"}), Fills("le_refl", {"simp"}),
      Fills("less_trans", {}), Fills("le_trans", {}), Fills("not_less0", {}), Fills("zero_less_Suc", {})>>

NatRules ==
    <<Fills("Suc_not_Zero", {"simp"}), Fills("Zero_not_Suc", {"simp"}), Fills("Suc_neq_Zero", {"elim"}),
      Fills("Zero_neq_Suc", {"elim"}), Fills("n_not_Suc_n", {"simp"}), Fills("Suc_n_not_n", {"simp"}),
      Fills("Suc_inject", {}), Overrides("mult_cancel1", {"simp"}), Overrides("nat.induct", {"intro"})>>

\* The rules one pass adds to a database: their names differ, so what one of
\* them does to the index decides about no other.
missing(db) ==
    LET wanted(rule) == rule.name \in Builtins /\ (rule.overrides \/ rule.name \notin DOMAIN db.by_name)
    IN  SelectSeq(LogicRules \o EqualityRules \o ArithmeticRules \o NatRules, wanted)

add_builtins(db) ==
    LET added == missing(db)
        into(r) == LET in(rule) == r \in rule.into IN SelectSeq(added, in)
        theorems(rules) == [n \in DOMAIN rules |-> builtin(rules[n].name)]
    IN  [db EXCEPT !.all = @ \o theorems(added),
                   !.by_name = [n \in {added[i].name : i \in DOMAIN added} |-> builtin(n)] @@ @,
                   !.rules = [r \in RuleSet |-> @[r] \o theorems(into(r))]]
=============================================================================
