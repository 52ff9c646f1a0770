------------------------------ MODULE IsarSystem ------------------------------
(***************************************************************************)
(* The three users of the Isar proof state: the toplevel, the theory       *)
(* processor and a caller of the API.  One of them runs, on a thread of    *)
(* its own; the others are as they were created.                           *)
(***************************************************************************)
EXTENDS TheoryProcessor, FiniteSets

CONSTANT MaxUsing  \* bound on the facts chained, and on those goals are to use

VARIABLES
    client,         \* who runs
    state, said,    \* the toplevel's
    stack,          \* the caller's proof state
    panicked        \* whether the caller's last command panicked

sysVars == <<client, procVars, state, said, stack, panicked>>

Top == INSTANCE Toplevel

-----------------------------------------------------------------------------
(* A caller of the public API of isar/proof.rs issues any command in any   *)
(* order, as the plugins and the tests may, and goes on after a panic with *)
(* whatever the command did before it.  It issues the commands that the    *)
(* toplevel and the theory processor never reach as well.                  *)
Uses(p) == {i \in DOMAIN p : p[i].goal # Isar!NoGoal /\ p[i].goal.using # <<>>}

InBounds(p) ==
    /\ Len(p) <= MaxLevel
    /\ Cardinality({i \in DOMAIN p : p[i].facts # <<>>}) + Cardinality(Uses(p)) <= MaxUsing
    /\ \A i \in Uses(p) : Len(p[i].goal.using) = 1

Call(r) ==
    /\ InBounds(r.p)
    /\ stack' = r.p
    /\ panicked' = ~r.ok

\* The fact a caller has at hand.
Fact == Isar!assume(<<"A">>)

Contexts ==
    \/ Call(Isar!fix(stack))
    \/ Call(Isar!assume_props(stack))
    \/ Call(Isar!note(stack))
    \/ Call(Isar!let_bind(stack))
    \/ Call(Isar!obtain(stack))

Facts ==
    \/ Call(Isar!from(stack, <<Fact>>))
    \/ Call(Isar!then_chain(stack))
    \/ Call(Isar!using(stack, <<Fact>>))
    \/ Call(Isar!with(stack, <<Fact>>))
    \/ Call(Isar!also(stack))
    \/ Call(Isar!finally(stack))

Blocks ==
    \/ Call(Isar!proof(stack))
    \/ Call(Isar!qed(stack))
    \/ Call(Isar!next(stack))
    \/ Call(Isar!open_brace(stack))
    \/ Call(Isar!close_brace(stack))
    \/ Call(Isar!done(stack))
    \/ Call(Isar!Returned(Isar!return_to_theory(stack)))

Goals(s) ==
    \/ Call(Isar!lemma(stack, s))
    \/ Call(Isar!have(stack, s))
    \/ Call(Isar!show(stack, s))

Proving ==
    \/ \E m \in Methods(stack) :
          \/ Call(Isar!apply(stack, m.method, m.result))
          \/ Call(Isar!by(stack, m.method, m.result))
          \/ Call(Isar!by_rule(stack, m.result))
    \/ Call(Isar!sorry(stack))
    \/ Call(Isar!defer(stack))

ClientNext == Contexts \/ Facts \/ Blocks \/ (\E s \in Stmt : Goals(s)) \/ Proving
-----------------------------------------------------------------------------
SysInit ==
    /\ client \in {"toplevel", "processor", "api"}
    /\ ProcInit
    /\ Top!TopInit
    /\ stack = Isar!init /\ panicked = FALSE

TopStep == client = "toplevel" /\ Top!TopNext /\ UNCHANGED <<client, procVars, stack, panicked>>
ProcStep == client = "processor" /\ ProcNext /\ UNCHANGED <<client, state, said, stack, panicked>>
ApiStep == client = "api" /\ ClientNext /\ UNCHANGED <<client, procVars, state, said>>

SysNext == TopStep \/ ProcStep \/ ApiStep

Spec == SysInit /\ [][SysNext]_sysVars
-----------------------------------------------------------------------------
\* The proof state of whoever runs.
Pstack ==
    CASE client = "toplevel" -> state.proof
      [] client = "processor" -> proc.proof
      [] client = "api" -> stack

(* A goal above the lemma's is open as long as it is on the stack: no      *)
(* command leaves it for another mode.  So the block that `qed` closes     *)
(* never has a goal of its own, and the refinement `qed` makes of the      *)
(* parent goal, which asks neither whether the shown goal is proved nor    *)
(* whether its statement is the parent's, is never made.  (The lemma's     *)
(* goal itself goes Forward at `done`.)                                    *)
OpenGoalsAreBackward ==
    \A i \in DOMAIN Pstack :
       (i > 2 /\ Pstack[i].goal # Isar!NoGoal) => Pstack[i].mode = "Backward"
=============================================================================
