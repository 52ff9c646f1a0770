------------------------------ MODULE ImportOrder ------------------------------
(***************************************************************************)
(* What both loaders of a directory of theories promise (theory/           *)
(* session_builder.rs, hol/theory_graph.rs): every theory found is loaded, *)
(* once, and after the theories it imports.  A theory that imports itself  *)
(* through others, or imports one that does, has no such place: it comes   *)
(* after every theory that has one.  An import that was not found counts   *)
(* for nothing.                                                            *)
(***************************************************************************)
EXTENDS Sequences, SequencesExt

CONSTANT Theory     \* the names a theory can have

VARIABLES
    needs,          \* the theories found, each with the set of its imports
    loaded          \* the theories loaded, in order

vars == <<needs, loaded>>

Found == DOMAIN needs
Imports(t) == needs[t] \cap Found

\* The theories no order can place after their imports.
Stuck == UNION {S \in SUBSET Found : \A t \in S : Imports(t) \cap S # {}}

Init ==
    /\ needs \in UNION {[S -> SUBSET Theory] : S \in SUBSET Theory}
    /\ loaded = <<>>

Ready(t) ==
    LET before == IF t \in Stuck THEN Found \ Stuck ELSE Imports(t)
    IN  t \in Found \ ToSet(loaded) /\ before \subseteq ToSet(loaded)

Load(t) ==
    /\ Ready(t)
    /\ loaded' = Append(loaded, t)
    /\ UNCHANGED needs

Next == \E t \in Theory : Load(t)

Spec == Init /\ [][Next]_vars /\ WF_vars(Next)
=============================================================================
