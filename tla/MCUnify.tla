-------------------------------- MODULE MCUnify --------------------------------
(***************************************************************************)
(* The term functions and the two loops of UnifyLoops, checked on every pair of *)
(* a small set of terms against textbook definitions.                      *)
(***************************************************************************)
EXTENDS UnifyLoops

a == Free("a")
p == Free("p")
c == Const("c")
g == Const("g")
x == Var("x", 0)
y == Var("y", 0)
z == Var("z", 1)

\* Atoms, applications whose head is rigid, flexible or free, and abstractions.
MCInputs ==
  {a, c, x, y,
   App(c, a), App(c, x), App(c, y), App(p, a), App(x, a), App(x, y), App(y, c),
   App(App(c, a), x), App(App(c, x), y), App(App(c, x), a), App(App(c, x), App(g, x)),
   App(App(c, App(x, a)), a), App(App(c, a), c), App(App(c, App(g, a)), App(g, a)),
   Abs(Bound(0)), Abs(a), Abs(x), Abs(App(c, Bound(0))), Abs(App(x, Bound(0))),
   Abs(Abs(Bound(1))), Abs(App(Abs(Bound(1)), Bound(0))), Abs(App(y, a)), App(c, Abs(Bound(0))),
   z, App(c, z), App(App(c, z), x)}

-----------------------------------------------------------------------------
(* Textbook definitions. *)

\* The free variable v of t replaced by the closed term u.
RECURSIVE Replace(_, _, _)
Replace(t, v, u) ==
  CASE t = v -> u
    [] is_abs(t) -> Abs(Replace(t[2], v, u))
    [] is_app(t) -> App(Replace(t[2], v, u), Replace(t[3], v, u))
    [] OTHER -> t

RECURSIVE Subterms(_)
Subterms(t) ==
  {t} \union (CASE is_abs(t) -> Subterms(t[2])
                [] is_app(t) -> Subterms(t[2]) \union Subterms(t[3])
                [] OTHER -> {})

VarsOf(t) == {s \in Subterms(t) : is_var(s)}
Ground(t) == VarsOf(t) = {}
AbsFree(t) == \A s \in Subterms(t) : ~is_abs(s)

\* No variable is applied, and no subterm is one the matcher takes for a
\* higher-order pattern.
FirstOrder(t) == \A s \in Subterms(t) : is_app(s) => Kind(spine_head(s)) = "Const"

\* All ground instances of t over the ground inputs.
Instances(vs) == [vs -> {s \in Inputs : Ground(s) /\ AbsFree(s)}]

-----------------------------------------------------------------------------
(* The term functions. *)

\* Substituting for what a binder binds (lambda in term.rs, subst_bounds and eta_contract in
\* term_subst.rs together).  forall_intr followed by forall_elim is a substitution:
\* abstracting a variable and putting an abstraction-free term for the bound index gives
\* what replacing the variable gives, under any binders the term has.  And an eta-contracted
\* abstraction applied to anything is what the abstraction applied to it reduces to.
BetaLaws ==
  AbsFree(right) =>
    /\ subst_bounds(<<right>>, lambda(a, left)[2]) = Replace(left, a, right)
    /\ is_abs(left) => beta_norm(App(eta_contract(left), right)) = beta_norm(App(left, right))

-----------------------------------------------------------------------------
(* The loops. *)

\* The bindings of both loops never form a cycle, at any iteration: norm_term
\* follows them without a visited set and would run into its 20000-step cap.
Reaches(env, v) ==
  LET Grow[n \in 0..Cardinality(DOMAIN env)] ==
        IF n = 0 THEN VarsOf(env[v])
        ELSE Grow[n - 1] \union UNION {VarsOf(env[w]) : w \in Grow[n - 1] \intersect DOMAIN env}
  IN Grow[Cardinality(DOMAIN env)]

EnvAcyclic == \A v \in DOMAIN work.env : v \notin Reaches(work.env, v)

\* A failed unification of first-order terms means that no ground instance
\* makes them equal: the order in which pairs are taken loses no unifier.
FirstOrderUnifyComplete ==
  (mode = "unify" /\ work.status = "none" /\ FirstOrder(left) /\ FirstOrder(right))
     => \A env \in Instances(VarsOf(left) \union VarsOf(right)) :
           norm_term(env, left) # norm_term(env, right)

\* An answer is right on the fragment the loops handle: unifying with a ground term
\* yields an environment that makes the two terms equal, and matching a first-order
\* pattern with a ground object one that instantiates the pattern to the object's
\* normal form.  No pair is lost from the stack, no disagreement skipped.
GroundAnswersAreRight ==
  /\ (mode = "unify" /\ work.status = "some" /\ Ground(right))
       => norm_term(work.env, left) = norm_term(work.env, right)
  /\ (mode = "match" /\ work.status = "some" /\ FirstOrder(left) /\ Ground(right))
       => norm_term(work.env, left) = norm_term(empty_env, right)

\* Both loops return (unify_dpairs_iter, match_pattern_iter), without reaching
\* the cap on iterations.
Terminates == <>(work.status # "running" /\ work.steps < SearchBound)

===============================================================================
