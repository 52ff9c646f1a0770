------------------------------- MODULE Toplevel -------------------------------
(***************************************************************************)
(* The toplevel of isar/toplevel.rs: it executes one command at a time and *)
(* is in a theory or in a proof.  Its proof is an Isar proof state, whose  *)
(* panics nothing catches here.                                            *)
(***************************************************************************)
EXTENDS Integers, Sequences

CONSTANTS
    Stmt,         \* the statements a command may state
    Methods(_),   \* Methods(p): what a method may make of the goal of p
    MaxTheorems,  \* bound on the theorems collected
    MaxLevel      \* bound on the nesting of blocks

Isar == INSTANCE IsarProof

VARIABLES
    state,  \* ToplevelState: Theory, Proof, or Panicked
    said    \* what the last command returned

Theory(theorems) == [mode |-> "Theory", theorems |-> theorems, proof |-> <<>>]
Proof(theorems, p) == [mode |-> "Proof", theorems |-> theorems, proof |-> p]
Abort(theorems, p) == [mode |-> "Panicked", theorems |-> theorems, proof |-> p]

TopInit == state = Theory(<<>>) /\ said = "none"

Within(q) == Len(q) <= MaxLevel

\* The proof command `r` leads to, or an error outside a proof.
InProof(r) ==
    IF state.mode # "Proof"
      THEN said' = "not in proof mode" /\ UNCHANGED state
      ELSE /\ Within(r.p)
           /\ said' = IF r.ok THEN "ok" ELSE "panic"
           /\ state' = IF r.ok THEN Proof(state.theorems, r.p) ELSE Abort(state.theorems, r.p)

\* A command that goes on without an error where there is no proof.
InProofOrSkip(r) == IF state.mode = "Proof" THEN InProof(r) ELSE said' = "ok" /\ UNCHANGED state

\* The proof is left for the theory, however deep it was.
LeaveWith(r) ==
    IF state.mode # "Proof"
      THEN said' = "not in proof mode" /\ UNCHANGED state
      ELSE /\ said' = IF r.ok THEN "ok" ELSE "panic"
           /\ state' = IF r.ok THEN Theory(state.theorems) ELSE Abort(state.theorems, r.p)

Running == state.mode # "Panicked"
p == state.proof
-----------------------------------------------------------------------------
exec_lemma(s) ==
    /\ Running
    /\ IF state.mode = "Theory"
         THEN /\ state' = Proof(<<>>, Isar!lemma(Isar!init, s).p)
              /\ said' = "ok"
         ELSE said' = "not in theory mode" /\ UNCHANGED state

exec_proof == Running /\ InProof(Isar!proof(p))

exec_apply == Running /\ \E m \in Methods(p) : InProof(Isar!apply(p, m.method, m.result))

exec_by == Running /\ \E m \in Methods(p) : LeaveWith(Isar!by(p, m.method, m.result))

exec_qed == Running /\ LeaveWith(Isar!done(p))

exec_have_show(s) == Running /\ (InProof(Isar!have(p, s)) \/ InProof(Isar!show(p, s)))

exec_fix == Running /\ InProof(Isar!fix(p))
exec_assume == Running /\ InProof(Isar!assume_props(p))
exec_obtain == Running /\ InProofOrSkip(Isar!obtain(p))
exec_also == Running /\ InProofOrSkip(Isar!also(p))
exec_finally == Running /\ InProofOrSkip(Isar!finally(p))
exec_induct_cases == Running /\ \E m \in Methods(p) : InProof(Isar!by_rule(p, m.result))

\* A theorem `True |- True` under the name given, in a proof as in a theory.
exec_lemmas ==
    /\ Running
    /\ Len(state.theorems) < MaxTheorems
    /\ state' = [state EXCEPT !.theorems = Append(@, Isar!assume(<<"True">>))]
    /\ said' = "ok"

\* The definition extends a theory that is dropped at once; the commands not
\* implemented, the no-ops, the markup and the unknown ones do as much.
exec_definition == Running /\ said' = "ok" /\ UNCHANGED state

TopNext == \/ \E s \in Stmt : exec_lemma(s) \/ exec_have_show(s)
           \/ exec_proof \/ exec_apply \/ exec_by \/ exec_qed
           \/ exec_fix \/ exec_assume \/ exec_obtain
           \/ exec_also \/ exec_finally \/ exec_induct_cases
           \/ exec_lemmas \/ exec_definition
=============================================================================
