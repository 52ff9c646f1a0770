---------------------------- MODULE TheoryProcessor ----------------------------
(***************************************************************************)
(* The processor of theory/loader.rs: it classifies each command span of a *)
(* source and hands it to a handler, which extends the local theory or     *)
(* drives the Isar proof of the pending lemma.  Every span runs under      *)
(* catch_unwind, and the handlers of proof commands under another one that *)
(* says nothing: what a command did before it panicked stays done.         *)
(***************************************************************************)
EXTENDS Integers, Sequences

CONSTANTS
    Name,         \* the names of theories, lemmas and declared facts
    Stmt,         \* the statements
    Methods(_),   \* Methods(p): what a method may make of the goal of p
    MaxTheorems,  \* bound on the theorems collected
    MaxLemmas,    \* bound on the lemmas counted
    MaxErrors,    \* bound on the errors reported
    MaxLevel      \* bound on the nesting of blocks

ASSUME ProcessorAssumption ==
    /\ Name \subseteq STRING /\ Stmt \subseteq Seq(STRING) \ {<<>>}
    /\ {MaxTheorems, MaxLemmas, MaxErrors, MaxLevel} \subseteq Nat

Isar == INSTANCE IsarProof

VARIABLES
    proc,    \* the TheoryProcessor
    shared,  \* LOCAL_THEOREM_INDEX, the thread's index the methods read
    caught   \* whether the last span's handler panicked

procVars == <<proc, shared, caught>>

NoName == ""
NoProof == <<>>
NoTheory == [name |-> NoName, parent |-> NoName, noted |-> <<>>]

begin_theory(parent, n) == [name |-> n, parent |-> parent, noted |-> <<>>]

new(accept) ==
    [local |-> NoTheory, proof |-> NoProof, theorems |-> <<>>, index |-> <<>>,
     lemma_count |-> 0, pending |-> NoName, errors |-> 0, header |-> FALSE, accept_all |-> accept, reading |-> FALSE, begun |-> 0]

\* Whatever the parent is, the local theory begins from Pure.
with_parent(parent, n, accept) ==
    [new(accept) EXCEPT !.local = begin_theory("Pure", n), !.header = TRUE]

ProcInit ==
    /\ \E accept \in BOOLEAN, n \in Name : proc \in {new(accept), with_parent("Parent", n, accept)}
    /\ shared = <<>>
    /\ caught = FALSE

Reading == proc.reading
Room == Len(proc.theorems) < MaxTheorems /\ proc.lemma_count < MaxLemmas
Within(p) == Len(p) <= MaxLevel
-----------------------------------------------------------------------------
\* Recording theorems.
insert(index, n, thm) == [m \in {n} \cup DOMAIN index |-> IF m = n THEN thm ELSE index[m]]

pushed(pr, n, thm) ==
    [pr EXCEPT !.index = insert(@, n, thm), !.theorems = Append(@, [name |-> n, thm |-> thm])]

\* The handlers of locale, class instances, typedef, record and datatype push
\* by themselves and leave the methods' index alone.
add_without_sharing(n, thm) ==
    proc' = pushed(proc, n, thm) /\ UNCHANGED shared

\* With or without attributes, which are data no command reads back.
add_theorem_to_index(pr, n, thm) ==
    /\ proc' = pushed(pr, n, thm)
    /\ shared' = insert(shared, n, thm)

error(pr) == [pr EXCEPT !.errors = @ + 1]
-----------------------------------------------------------------------------
\* Sources.
\* Mutant: the index of the thread is not cleared.
process_source_keeps ==
    /\ ~Reading
    /\ proc' = [proc EXCEPT !.reading = TRUE]
    /\ caught' = FALSE
    /\ UNCHANGED shared

process_source ==
    /\ ~Reading
    /\ proc' = [proc EXCEPT !.reading = TRUE]
    /\ shared' = <<>>
    /\ caught' = FALSE

\* The thread goes on to another theory; its index is as the last one left it.
next_theory ==
    /\ ~Reading
    /\ \E accept \in BOOLEAN, n \in Name :
           proc' \in {new(accept), with_parent("Parent", n, accept)}
    /\ caught' = FALSE
    /\ UNCHANGED shared

is_unconditional(thm) == thm.hyps = {}

\* What the local theory has noted, and the unconditional theorems: the later
\* of two with one name.
note_unconditional(pr) ==
    LET good == {i \in DOMAIN pr.theorems : is_unconditional(pr.theorems[i].thm)}
        names == {pr.theorems[i].name : i \in good}
        last(n) == CHOOSE i \in good : /\ pr.theorems[i].name = n
                                       /\ \A j \in good : pr.theorems[j].name = n => j <= i
    IN  [n \in names \cup DOMAIN pr.local.noted |->
            IF n \in names THEN pr.theorems[last(n)].thm ELSE pr.local.noted[n]]

finalize ==
    /\ Reading
    /\ proc' = [proc EXCEPT !.reading = FALSE,
                            !.local.noted = IF proc.local = NoTheory THEN @
                                            ELSE note_unconditional(proc)]
    /\ caught' = FALSE
    /\ UNCHANGED shared

\* A header's imports are a span of their own: none is seen here.  `begin`
\* alone has no name to read, and panics.
parse_header(n) ==
    /\ Reading
    /\ UNCHANGED shared
    /\ IF proc.header THEN UNCHANGED proc /\ caught' = FALSE
       ELSE IF n = NoName
         THEN /\ proc.errors < MaxErrors
              /\ proc' = error(proc) /\ caught' = TRUE
         ELSE /\ proc' = [proc EXCEPT !.local = begin_theory("Pure", n), !.header = TRUE]
              /\ caught' = FALSE
-----------------------------------------------------------------------------
\* Theory commands.
begin_lemma(n, s) ==
    /\ Reading
    /\ proc.begun < MaxLemmas
    /\ proc' = [proc EXCEPT !.proof = Isar!lemma(Isar!init, s).p, !.pending = n, !.begun = @ + 1]
    /\ caught' = FALSE
    /\ UNCHANGED shared

\* A declaration that gives a theorem: what it declares, assumed.  A command
\* that does not parse, or whose text its handler will not read, gives none.
Declared(n) == Isar!assume(<<n>>)

\* definition, axiomatization, abbreviation, type_synonym, typedecl.
process_theory_body(n) == add_theorem_to_index(proc, n, Declared(n))

process_inductive(n) == add_theorem_to_index(proc, n, Declared(n))
process_function_inline(n) == add_theorem_to_index(proc, n, Declared(n))
process_function(n) == add_theorem_to_index(proc, n, Declared(n)) \/ process_function_inline(n)

process_interpretation(n) == add_without_sharing(n, Declared(n))

\* locale, subclass, instance; class is shared with the methods.
process_locale_class(n) ==
    \/ add_without_sharing(n, Declared(n))
    \/ add_theorem_to_index(proc, n, Declared(n))
    \/ process_interpretation(n)

process_typedef(n) == add_without_sharing(n, Declared(n))
process_record(n) == add_without_sharing(n, Declared(n))

process_datatype(n) ==
    \/ Room /\ add_without_sharing(n, Declared(n))
    \/ proc.errors < MaxErrors /\ proc' = error(proc) /\ UNCHANGED shared

Declares(n) ==
    \/ process_theory_body(n)
    \/ process_inductive(n)
    \/ process_function(n)
    \/ process_locale_class(n)
    \/ process_typedef(n)
    \/ process_record(n)

Declaring(n) ==
    /\ Reading
    /\ (Room /\ Declares(n)) \/ process_datatype(n)
    /\ caught' = FALSE

\* lemmas n = m: an alias of a theorem that is known, or nothing.
process_lemmas_cmd(n, m) ==
    /\ Reading /\ Room
    /\ IF m \in DOMAIN proc.index THEN add_theorem_to_index(proc, n, proc.index[m])
       ELSE UNCHANGED <<proc, shared>>
    /\ caught' = FALSE
-----------------------------------------------------------------------------
\* Proof commands.  Without a proof they do nothing.
Driving(r) ==
    /\ Reading
    /\ IF proc.proof = NoProof
         THEN UNCHANGED <<proc, shared>> /\ caught' = FALSE
         ELSE /\ Within(r.p)
              /\ proc' = [proc EXCEPT !.proof = r.p]
              /\ caught' = ~r.ok
              /\ UNCHANGED shared

\* Goals, assumptions and chains open a block when a goal is being proved.
Opened(p) == IF Isar!mode(p) = "Backward" THEN Isar!proof(p) ELSE Isar!Returned(p)

process_proof == Driving(Isar!proof(proc.proof))

\* have, show, hence, thus, and obtain, guess, case.
process_goal(s) ==
    \/ Driving(Isar!Then(Opened(proc.proof), LAMBDA q : Isar!have(q, s)))
    \/ Driving(Isar!Then(Opened(proc.proof), LAMBDA q : Isar!show(q, s)))

process_asm ==
    \/ Driving(Isar!Then(Opened(proc.proof), LAMBDA q : Isar!fix(q)))
    \/ Driving(Isar!Then(Opened(proc.proof), LAMBDA q : Isar!assume_props(q)))

process_script == \E m \in Methods(proc.proof) : Driving(Isar!apply(proc.proof, m.method, m.result))

\* also, moreover; finally, ultimately; then; from, with, next.
process_chain ==
    \/ Driving(Isar!Then(Opened(proc.proof), LAMBDA q : Isar!also(q)))
    \/ Driving(Isar!Then(Opened(proc.proof), LAMBDA q : Isar!finally(q)))
    \/ Driving(Isar!Then(Opened(proc.proof), LAMBDA q : Isar!then_chain(q)))
    \/ Driving(Opened(proc.proof))

\* The block is left: a lemma's, if no more than it is open.
Counted(pr) ==
    LET thm == Isar!extract_theorem(pr.proof)
        counted == [pr EXCEPT !.lemma_count = @ + 1]
    IN  IF thm = Isar!NoThm
          THEN proc' = counted /\ UNCHANGED shared
          ELSE add_theorem_to_index(counted, Isar!extracted_name(pr.proof), thm)

Closing(r) ==
    /\ Reading /\ Room
    /\ ~proc.accept_all
    /\ IF proc.proof = NoProof THEN UNCHANGED <<proc, shared>> /\ caught' = FALSE
       ELSE /\ caught' = ~r.ok
            /\ LET left == [proc EXCEPT !.proof = r.p]
               IN  IF r.ok /\ Isar!level(r.p) <= 2 THEN Counted(left)
                   ELSE proc' = left /\ UNCHANGED shared

\* accept_all: the pending lemma is recorded as `True |- True`, every time.
accept ==
    /\ Reading /\ Room
    /\ proc.accept_all
    /\ caught' = FALSE
    /\ IF proc.pending = NoName THEN UNCHANGED <<proc, shared>>
       ELSE add_theorem_to_index([proc EXCEPT !.lemma_count = @ + 1],
                                 proc.pending, Isar!assume(<<"True">>))

process_qed ==
    \/ accept
    \/ Closing(Isar!done(proc.proof))
    \/ \E m \in Methods(proc.proof) : Closing(Isar!by(proc.proof, m.method, m.result))
    \/ Closing(Isar!sorry(proc.proof))
    \/ Closing(Isar!Returned(proc.proof)) \* qed: QED_BLOCK counts as a terminal command

\* Consts, declare, locale-like commands without theorems, text, diagnostics, `end`,
\* let, note, using and } change nothing.
process_nothing == Reading /\ caught' = FALSE /\ UNCHANGED <<proc, shared>>

\* A command of no known category is an error of the theory's, and is skipped.
process_unknown ==
    /\ Reading /\ proc.errors < MaxErrors
    /\ proc' = error(proc)
    /\ caught' = FALSE
    /\ UNCHANGED shared

process_span ==
    \/ \E n \in Name \cup {NoName} : parse_header(n)
    \/ \E n \in Name, s \in Stmt : begin_lemma(n, s)
    \/ \E n \in Name : Declaring(n)
    \/ \E n, m \in Name \cup Isar!Kind : process_lemmas_cmd(n, m)
    \/ process_proof \/ process_asm \/ process_script \/ process_chain \/ process_qed
    \/ \E s \in Stmt : process_goal(s)
    \/ process_nothing \/ process_unknown

ProcNext == process_source \/ process_span \/ finalize \/ next_theory
-----------------------------------------------------------------------------
\* A valuation of the atoms makes a statement, a theorem true.
True(v, s) == (\A i \in 1..(Len(s) - 1) : v[s[i]]) => v[s[Len(s)]]
Follows(v, thm) ==
    (/\ \A h \in thm.hyps : True(v, h)
     /\ \A i \in DOMAIN thm.prems : True(v, thm.prems[i])) => v[thm.concl]

Atom == Name \cup {"True"} \cup UNION {{s[i] : i \in DOMAIN s} : s \in Stmt}
Valid(thm) == thm.hyps = {} /\ \A v \in [Atom -> BOOLEAN] : Follows(v, thm)

(* What a finished theory offers to the theories that import it is valid   *)
(* without hypotheses, although lemmas are recorded without looking at     *)
(* what their proofs came to, although accepted lemmas and definitions are *)
(* recorded as assumptions, and whatever panicked (loader.rs finalize).    *)
StoredHold == \A n \in DOMAIN proc.local.noted : Valid(proc.local.noted[n])

(* While a theory is read, the index the proof methods of its thread look  *)
(* names up in holds this theory's theorems only: nothing is left of the   *)
(* theory the thread read before (loader.rs process_source).               *)
SharedIsOfThisTheory ==
    Reading => \A n \in DOMAIN shared :
                  \E i \in DOMAIN proc.theorems :
                     proc.theorems[i].name = n /\ proc.theorems[i].thm = shared[n]
=============================================================================
