# A TLA+ verification of isabelle-rs

isabelle-rs is a reimplementation of Isabelle in Rust: an LCF kernel for
Isabelle/Pure, the Isar proof language on top of it, loaders for theory files,
HOL packages, proof methods and automated provers, and a language server that
checks theory files incrementally. This directory holds TLA+ models of its
parts, the TLC configurations that check them on small instances, and TLAPS
proofs of what matters most for every instance. `PROJECT.json` ties each
definition to the source lines it models, each property to the run that checks
it and to a mutant of the code that breaks it, and lists the hazards the
properties are aimed at.

To repeat everything:

    tlasany M.tla                              # parse a module
    tlc -workers 2 -config MCFleche.cfg MCFleche
    tlapm ThmKernelProofs.tla                  # and the other *Proofs modules

## 1. The system

Paths are relative to `src/src/` of the repository.

| Part | Files | State | Operations | What makes it correct |
|---|---|---|---|---|
| Terms | `core/term.rs`, `logic.rs`, `term_subst.rs`, `envir.rs` | none (values); an `Envir` maps schematic variables to terms | `lambda`, `subst_bounds`, `beta_norm`, `eta_contract`, `norm_term`, destructors | de Bruijn indices always point at the right binder |
| Unification | `core/unify.rs` | a work stack and an environment, per call | `unifiers`, `matchers` | ends; acyclic bindings; the result unifies or matches |
| Kernel | `core/thm.rs` | immutable `Thm` values | the rules of `ThmKernel`, `admit` | what is derived follows from its hypotheses; the footprint names every admission used |
| Isar | `isar/proof.rs`, `toplevel.rs`, `proof_state.rs` | a stack of proof nodes with mode, facts and goal; `Theory`/`Proof`/`Error` | the proof commands | goals are closed by what proves them, whatever panics |
| Theory loading | `theory/loader.rs` | the pending lemma, the open proof, the theorems collected, a thread's index of names | one handler per kind of span, `finalize` | what a theory offers is valid; a failing span spoils nothing else |
| Session build, theory graph | `theory/session_builder.rs`, `hol/theory_graph.rs` | registry, queue, order, database | scan the imports, order, load, report | a theory is loaded after its imports, and none goes missing |
| Source reader and database | `hol/hol_loader.rs`, `isar/term_parser.rs` | a cursor over lines; a database with indexes by name, rule kind and attribute | parse lemmas and declarations, file them | the database has what the file says |
| Datatype package | `hol/ctr_sugar.rs`, `hol/bnf_lfp.rs` | none | the facts of a datatype, assumed | they hold of a datatype |
| Proof methods | `isar/method.rs`, `attrib.rs`, `linarith.rs` | thread-locals: database override, cached simplifier, deadline, budget, depth, statistics | search methods, method expressions, `verify_lemma`, a file's batch | a proved lemma follows; the tallies are right |
| Automated provers | `tools/metis.rs`, `tools/reconstruct.rs` | clause queues; assignment and learned clauses | resolution, replay of foreign proofs, a SAT solver | what is derived follows; the answers are right |
| Document | `document/document.rs` | per file: version, text, commands, snapshots | open, update, close, `find_fork_point` | snapshots belong to the commands that are there |
| Fleche engine | `fleche/engine.rs` | the document behind a mutex | check the commands without a snapshot, answer queries | an incremental check says what one from scratch would |
| Server | `server/handler.rs`, `transport.rs`, `lsp/` | lifecycle flags; two I/O threads | document notifications, queries, publishing | clients see the newest diagnostics |
| Session | `session/session.rs`, `file_worker.rs`, `watchdog.rs` | a map of worker handles; per worker a thread, a channel of 64, a document | open, update, hover, proof state, close, shutdown | each caller gets its own answer; nobody waits for ever; no thread is left over |

How they interact. The server's main thread takes one message at a time and
calls the Fleche engine, which edits the locked document and executes the
commands without a snapshot. `Session` is a second, concurrent front end: each
file has a worker thread, and callers block on a oneshot until their command is
answered. Loading a directory goes through one of two loaders: the session
builder has each file's spans processed by the theory processor, which drives
the Isar proof state; the theory graph has its lemmas cut out of the text by
`hol_loader` and filed in a database, and the verifier then runs the methods on
each lemma, with the database and the names of its file in thread-local state.
Methods, packages and provers are clients of the kernel.

Where it is hard: long chains of kernel rules with side conditions; index
arithmetic under binders; snapshots kept across edits; panics that are caught
half-way and leave proof state, thread-locals or locks behind; queries on a
worker with a bounded channel that drops what does not fit; workers that panic,
are closed or replaced while somebody waits; line scanners that must agree
where an item ends; orders that come out of hash maps; strict and non-strict
bounds; a SAT solver that assigns while it scans. `PROJECT.json` lists these
hazards line by line.

## 2. The modules

| Module | Models | Kind |
|---|---|---|
| `PureTerm`, `Unify` | the term functions; one turn of the unifier's and the matcher's loops | recursive operators |
| `UnifyLoops`, `MCUnify` | the loops | state machine |
| `ThmKernel` | `thm.rs`: one action per rule; terms are CONSTANT operators | state machine |
| `ThmSemantics` | a meaning for terms, the assumptions on terms, the kernel's properties | assumptions, properties |
| `MCThmKernel` | the instance over `PureTerm` and `Unify`, with the two-valued model | instance |
| `Document` | `document.rs` and the executor's effect | functions |
| `Fleche`, `MCFleche` | `engine.rs` and the document handlers of `handler.rs` | state machine |
| `FileWorker` | `file_worker.rs`: one worker's steps | actions |
| `Session`, `MCSession` | `session.rs` composed with the workers | state machine |
| `IsarProof` | `isar/proof.rs`: every command as a function from stacks to a stack and whether it returned | functions |
| `Toplevel` | `isar/toplevel.rs` over `IsarProof` | actions |
| `TheoryProcessor` | `theory/loader.rs`: one action per span handler | actions |
| `IsarSystem`, `MCIsar` | the three users of the proof state, one of which runs | state machine |
| `ImportOrder` | what both loaders promise | abstract specification |
| `BuildSystem`, `MCBuild` | the import graph, the two ways to order it, the two loaders; one of them loads a directory, and implements `ImportOrder` | state machine |
| `TermParser` | `term_parser.rs` on token texts | recursive operators |
| `LemmaParser`, `DeclParser` | the scanners of `hol_loader.rs` for lemmas and for declarations | recursive operators |
| `DatatypeFacts` | formulas over a datatype with their meaning; the facts of `ctr_sugar.rs` and `bnf_lfp.rs` | recursive operators |
| `SourceFile`, `MCSource` | a file of items goes through the scanners | state machine |
| `TheoremDb` | the database, its indexes, aliases and key rules | functions |
| `Method` | the tactics, the simplifier and the search methods on ground rule statements | recursive operators |
| `ProofScript` | the method expressions and the structured scripts | recursive operators |
| `VerifyFile` | the batch over files, with the thread-local state; what a check gives is a constant | state machine |
| `VerifyLemma`, `MCVerify` | `verify_lemma`, which gives that constant its value | recursive operators |
| `Linarith` | arith | state machine |
| `Metis` | the resolution prover and the replay of foreign proofs | state machine |
| `SatSolver`, `Clausify` | the SAT solver on clauses; the two ways to make clauses of a formula | state machines |
| `MCProvers` | one call of one of these | instance |
| `ThmKernelProofs`, `FlecheProofs`, `SessionProofs`, `IsarProofs`, `BuildProofs`, `VerifyProofs`, `ProverProofs`, `LinarithProofs` | the proofs, each about the module or modules it extends | proofs |

A module with theorems, and each module it uses, has no `RECURSIVE` operator,
which the prover cannot take: where the code recurses there, the model has a
recursive function on a set with a measure (`Linarith`'s functions of terms, with
`height`; `Metis`'s, with `depth`; `Clausify`'s, with `size`), or on an initial
segment of the numbers for a loop (`Metis`'s `after`, `TheoremDb`'s `Joined`). What
does need such operators stands in a module beside it (`VerifyLemma`).

### Terms, unification, kernel

A term is a tuple, types are left out. The recursive operators follow the match
arms of the code; its explicit stacks become recursion. `unify_step` and
`match_step` are one turn of the loops, with the code's order of cases and of
pushes and the iteration cap.

The kernel's state is `thms`, the values a client holds. A client is arbitrary:
any rule may be applied to any values held, in any order. A theorem is the
record of the Rust struct without serial number and derivation, which no rule
reads, and without flex-flex pairs, which no rule creates. Two history fields
are added: `used`, the admissions a derivation rests on with their
propositions, and `sorts`, the sort hypotheses it met; `FootprintExact`
compares them with `oracles` and `shyps`. `Next` has every rule. `CoreNext`
leaves out `beta_conversion` and `bicompose_eresolve`, which are wrong whatever
terms are like (section 5). The rules that are left rely on functions of terms,
and the code's are not right about all terms: `alpha_eq` takes `?a` for `a`,
`mk_all` binds both, `subst_bounds` captures, a pair of different variables is
dropped from a unifier, and `conv.rs:398` makes an environment whose maxidx
does not cover it. The last section of `ThmSemantics` states, rule by rule, what
the step relies on about the very terms it has at hand; `FaithfulSpec` and
`CoveredSpec` are the derivations that keep to it. The terms of run `kernel`
always do (`UniverseIsFaithful`, which TLC evaluates).

`Envir::update` asserts that an index is within the environment's maxidx. A
loop of `Unify` carries that maxidx, and a binding that fails the assertion is
its outcome `panic`. The environments of the runs begin with the maxidx of the
pairs, as those of `bicompose` do.

### Documents and the Fleche engine

A text is a sequence of one-line segments, each a command's source or blank.
The executor's verdict on a command is a constant of its source (`Code`),
because `RealExecutor::execute` reads nothing else but the context's proof
state, which it overwrites. Each handler is one action, edit and check
together: the server handles one message at a time. `poisoned` is the mutex
poisoned by a check that panics with the document locked: at the slice
`commands[start_idx..]` when there are more snapshots than commands, or in the
executor, on a command whose source is in the constant `Panics`; the snapshots
made before it stay in the node.

### Session and workers

A worker is a record: its document node, its cached proof state, its channel,
the command it is handling, whether a sender is left, and whether it runs, has
ended or has panicked. A call looks the handle up, does `try_send` and blocks
on the oneshot. `open_file`, `update_file`, `close_file` and `shutdown` take
`&mut self` and the two queries `&self`, so the guards let queries run together
and everything else alone. When a thread ends, its receiver is dropped with
every command in it, and their callers' oneshots with them.

### The Isar proof state and its three users

The stack of nodes is a sequence, innermost last. A command is a function that
gives the stack it leaves and whether it returned: a command that panics after
its first assignments leaves those. What a method derives for a goal is a
CONSTANT, `Methods`. The toplevel, the theory processor and an arbitrary caller
of the API each have a proof state; one of them runs (`client`), the others
stay as created, since they share nothing. The processor's two levels of
`catch_unwind` are in its actions: `caught` says that the span's handler
panicked, and the processor goes on with what the handler had done.
`note_unconditional` and `finalize` turn what was collected into what importing
theories see.

### Loading a directory

`BuildSystem` keeps the imports found and the queue of Kahn's algorithm; wherever
the code iterates a hash map the next element is any (`\E`). Theories on a
cycle, and those that import one, are appended when the queue is empty. The
session builder then loads them one by one and tallies; the graph grows the
database per file and puts the types of the imports into the annotations. The
session builder looks the first import up for a parent (`parent_of`), and the
processor begins from Pure whatever it is handed (`with_parent`).
`ImportOrder` is the promise in a few lines: every theory found is loaded once,
after its imports, those without such a place after all others. Run `build`
checks the refinement `Promise!Spec` with `loaded <- SubSeq(order, 1, at)`,
safety and liveness; `BuildProofs` proves the safety part.

### From source text to the database

A line is a sequence of tokens with its indentation; quotes, attributes and
brackets are token kinds, so a multi-line quote is an opened, an inner and a
closed part. The scanners are kept as they are, cursor and all: which line each
takes for the end of an item is what goes wrong in them. An item of `MCSource`
comes with what it says, and the properties compare the two. The file is read by the database or, for its
datatypes alone, by `CtrSugar` (`reader`), whose derived facts come with definitions
of the discriminators and selectors they are about. `DatatypeFacts` gives
the facts a meaning in the free algebra up to a depth, where fold, map,
set and the orders are defined by recursion, and the facts are evaluated in it.

`TheoremDb` files a list of lemmas: their theorems in order, the first of each name,
the rule sets they are sorted into by attributes and looks, then the theorems the
`lemmas` commands stand for, then the key rules. The rules that every database gets
besides (`add_builtins`) are there by name, with the sets each goes into and whether
it takes the place of a parsed theorem; what they state is a constant.

### Verifying a file

Statements are rules over ground atoms with equations between them. `Method`
follows the resolution, elimination, simplification and search of
`method.rs` with their order, depth and candidate limits. `VerifyFile` has the
thread-local state as variables: `db_override`, `local_index`, `cached_simp`,
`deadline`, `budget`, `single_method_depth` and `stats`. The budget, the time or
the match limit may run out while a lemma is checked, and is then taken to have
run out at the start of the check (`Allowances`); a panic ends the file unless
the code catches it. A check is a function of the lemma and of what it reads of
its thread: `verify_lemma`, of `VerifyLemma`. The machine looks its result up in
the table `verdict`, a constant. Two assumptions tie the two together, and TLC
evaluates both on every run: `TableAssumption` says that the table holds what
`verify_lemma` gives, and `VerdictAssumption` that it has an answer for each lemma
of a file while the file's database and index are in force.

### The provers

`MCProvers` makes one call of one prover. `Linarith` reads atoms off the
subgoals, eliminates variable by variable and checks for a contradiction; its
terms are a set `Terms` with `height`, and what it computes of them (`expression`,
`Mentions`, `value`) are recursive functions on it. `Metis` is the given-clause
loop on ground clauses, with a nondeterministic choice among clauses of equal
weight, and the replay of a foreign proof; its terms are chains of premises and a
conclusion, of a set `Literals` with `depth`. `SatSolver` is the loop on clauses,
propagation in scan order; `Clausify` makes the clauses of a formula in either of
the two ways and calls it. Its formulas are a set `FormulaTerms` with `size`; the two
passes over them (`skolemize_rec`, and `term_to_cnf_clauses` or `tseitin_rec`), like
what a formula says (`models`), are recursive functions on it, which carry the counter of
constants or the clauses and the map of variables along.

## 3. The runs

| Run | Question | Bounds |
|---|---|---|
| `unify` | Do binding, substitution, beta and eta keep their laws (`BetaLaws`), do the loops end with acyclic bindings, and are they right on the fragments they handle? | every pair of 27 terms, both loops |
| `kernel` | Do arbitrary derivations by the core rules keep footprint, soundness, maxidx? | 13 propositions, at most 2 values held, 1 hypothesis each |
| `fleche` | Do snapshots stay in line, does an edit re-check what it must and no more, is nothing shown that is no longer reported, does the server die only of what is known? | 2 files, 9 texts, 4 versions |
| `session` | Is every caller answered, from the right document, with the right error, and do workers end? | 2 files, 3 callers, channel of 1, 2 workers, 2 checks per worker |
| `isar` | Is what a theory stores valid whatever its proofs came to, is the index that of its theory, do open goals stay where `qed` cannot touch them? | 2 statements, 1 name, 4 nodes, 2 theorems, 2 lemmas, 1 error, 1 chained fact |
| `build` | Do both loaders keep the promise of the order, is every theory reported, is the grown database the whole one? | every import graph of 3 theories over 6 headers, 4 outcomes, 4 contents, 7 added rules |
| `verify` | Are the tallies right, is a proved lemma the lemma, do results follow, is the override the file's? | 2 of 5 files one after the other, 41 lemmas, 3 atoms, 3 added rules |
| `source` | Are lemmas, declarations and statements read as written, and do the datatype facts hold? | files of up to 2 of 24 items; every text of up to 5 of 9 tokens; datatype values to depth 2 |
| `provers` | Is elimination exact, do entailed goals hold, do derived clauses follow, are the solver's answers right for the clauses and for the formula, does it answer where its decisions cannot be wrong? | numbers to 2, 2 eliminations, 60 prover steps, 14 clauses, 3 SAT variables |
| `kernel_sound`, `provers_solve` | Does the code keep what its documentation says? (No: section 5.) | as the runs they belong to |
| `verify_proved` | Is a lemma that counts as proved proved from something else? (No: section 5.) | 1 file of 1 lemma |

Why the bounds are enough to be interesting.

* `unify`: the terms have rigid, flexible and free heads, repeated variables,
  nested bindings, a redex, and abstractions under abstractions.
* `kernel`: the client keeps dropping values and going on, so derivations have
  no bound on their length, only on their width; two values are what the widest
  rule takes. The universe has a false closed proposition, a schematic variable
  with a positive index, equations between propositions and functions, and an
  admissible rule that is not valid.
* `fleche`: three commands make a prefix that is kept, a fork point, and a
  changed tail; a blank segment moves commands; a text without commands poisons,
  and so does one with a command the executor panics on, behind one it checks.
* `session`: with three callers one query is being handled, one queued and one
  refused; two workers let a file be reopened while its first still runs.
* `isar`: four nodes are a lemma with a block and a nested block; the statement
  `A ==> A` is what an abandoned proof's assumption turns `A` into when it is
  discharged. `MaxUsing` bounds the chained facts, which commands only append.
* `build`: the headers make chains, diamonds, self-imports, cycles of one, two
  and three, and an import that does not exist; a theory can panic, be
  unreadable or have errors. Of the rules that are added (`Builtins`) there is one of
  each kind: filling or overriding, into each rule set; `refl` is also a theorem of
  the files, `nat.induct` overrides.
* `verify`: the five files go through every method and every exit of
  `verify_lemma`; two in a row are what stale thread-local state takes.
* `source`: two items are what it takes for one to swallow the other.
* `provers`: in one elimination each kind of bound meets each other; three
  variables let a conflict come after a propagation after a decision. The code's
  limits of 100 eliminations, 10000 steps and 5000 clauses are constants here.

Conditions in properties. `LemmasAsWritten` and `DeclarationsAsWritten` speak of
files whose items stand apart (`WellSeparated`: no form whose end the scanners
are known to misjudge in front of what follows it), `TextAsWritten` of plain
texts, `EntailedGoalsHold` of orders without subtraction, `FormulaAnswersAreRight`
of plain formulas with a variable for each part, `DefiniteClausesAreSolved` of
clauses with at most one negative literal, `ResultsAreEntailed` of results without
elimination, `OverrideFollowsFile` of threads no panic got
through. Each condition is narrow and has its reason in section 5.

Deadlock is checked in `session`: somebody can always make another call. The
other systems stop: a loop has returned, a universe is exhausted, a bound is
reached, the directory is loaded.

Fairness. `UnifyLoops`, `BuildSystem` and the SAT solver's loop are weakly fair:
a loop in a function runs on. `Session` is weakly fair in each worker's step and
each caller's wake-up: these are operating-system threads, and `blocking_recv`
returns when there is something to return. Nothing makes anybody call the
session again, nor restart a worker. Nothing else needs fairness or has it.

Every property of a passing run has a mutant in `PROJECT.json`: a definition of
the model changed the way a slip in the code would change it, under which TLC
finds the property violated. The mutants stand beside the definitions they
replace, marked as such.

## 4. What is proved

**`ThmKernelProofs`** has three inductions, for clients that call the rules in
any order on any values they hold. `TypeCorrect` and `FootprintCorrect` are
about `CoreSpec`: every value is a theorem record over the propositions with an
exact footprint (`AllWellMade`). `Soundness` is about `FaithfulSpec`: a theorem
is entailed by its hypotheses in every interpretation whenever the admissions in
its footprint are valid. `MaxidxCorrect` is about `CoveredSpec`: maxidx bounds
the indices. The second and third rest on the first, as the steps of both are
steps of `CoreNext` (`FaithfulIsCore`, `CoveredIsCore`): soundness of a
two-premise rule needs the footprints of the premises. There is one lemma per
rule and induction, resting on lemmas about the ways a rule builds its result
(`DerivedSound`, `CombinedSound` and their like) and, for resolution, on splicing
premise lists.

What is assumed of terms, by name in `ThmSemantics`, is about constructors,
destructors and normalisation; TLC evaluates it on the instance of the
kernel's runs:

* `SyntaxAssumption`: parts of propositions are propositions, parts of equations
  terms; `ImpliesAssumption`, `EqualsAssumption`, `CongruenceAssumption`,
  `ChainAssumption`: an implication, an equation, an application, a vacuous
  binder and a list of premises mean what they say.
* `FreeInAssumption`: a free variable that does not occur does not matter.
* `MaxIdxAssumption`, `EnvMaxIdxAssumption`: the index of what is built is not
  above those of its parts, and what unification binds comes from its terms.
  (`compute_maxidx` looks at terms; the indices of type variables, which
  it also counts, are left out with the types.)

What the code gets wrong is not assumed but is a condition on the step, so that
the theorems say exactly which steps they vouch for:

* `SameMeaning`: the terms `alpha_eq` compares in this step (hypotheses united,
  a hypothesis discharged, a premise and a conclusion) mean the same if it says
  so. It identifies a `Var` with a `Free` of its name, and names that agree after a
  dot (`docs/TRUST.md`, T2, records both).
* `FaithfulEquation`: what `dest_equals` takes for an equation, by a name that
  ends in `.eq`, is one.
* `FaithfulBinder`, `FaithfulInstance`: `mk_all` binds the free variable and
  nothing else, `subst_bounds` makes an instance.
* `FaithfulNorm`, `FaithfulResolution`: `norm_term` is a change of
  interpretation (it gives up after 20000 steps), and the environment found makes
  the two terms equal.
* `Covers`, and the index of what is discharged, for `MaxidxCorrect`:
  `implies_intr` may bring in a variant of the hypothesis with a larger index.

**`FlecheProofs`**, about `Spec`: `SnapshotsLineUpAlways`, `TailIsFreshAlways`,
`UpdateReusesAlways`, `ShownIsReportedAlways`, `PoisonIsExplainedAlways`,
`ProofStateAsFromScratchAlways`, `VersionsOrderedAlways`, for every set of files,
every text, every set of commands the executor panics on and any number of edits.
None is inductive. The invariant says of every node
(`History`) that its snapshots are numbered from 0, that their versions are
ordered and none is from the future, and that each was made by its command
(`MadeBy`): it reports what its source says, and its proof state goes on from
nothing or from the snapshot before. And unless the document is poisoned a node has
as many snapshots as commands, and the client is shown nothing that they do not
report. It is kept because a snapshot that survives an edit lies in the common
prefix, or is the first, and because executing appends one snapshot per command, as
far as the first on which the executor panics.
`ProofStateAsFromScratch` takes an induction along the commands besides: two runs
of the same commands end in the same state if each step goes on from nothing or
from where the run stands (`LastStateIsTheLastLemmas`), because a lemma's state is
its own and any other command clears the state or leaves it; and a kept snapshot
whose source changed nevertheless reports the same, so that both sources are silent
and leave the state they find (`SaidTells`, `SilentLeaves`).
`UpdateReuses` and `TailIsFresh` say nothing of a file's first command: that one may
stay as it was although it changed (section 5).
`VersionsOrdered` is asked by no run: versions never run backwards along a node.

**`SessionProofs`**, about `Spec`: `PendingIsHeldAlways`,
`CheckedWhatWasAskedAlways`, `GoneHasAReasonAlways`,
`ChecksAreNeverRefusedAlways`, for every set of files, texts and callers, every
capacity and any number of workers. The invariant `SessionOK` ties callers and
channels together in both directions. What a worker handles or has queued is
owed (`Owed`) to a caller that is pending and was sent to this worker, each
caller once (`OwedOnce`), or the channel holds a lone `Shutdown` and the sender
is gone (`Closing`); and a pending caller's command is in its worker
(`CallerOK`). Neither direction alone is kept: that an answer goes to a pending
caller needs the first, that a caller is not forgotten the second. That checks
find room is the borrow's doing: a check starts when no caller is in a call, so
no command is owed, so all channels of mapped workers are empty (`Idle`).
The only assumption is `FileWorkerAssumption`, on the constants.

**`IsarProofs`**, about `IsarSystem`: `OpenGoalsAreBackwardAlways`,
`StoredHoldAlways`, `SharedIsOfThisTheoryAlways`, for every set of names and
statements, every `Methods` and every bound. The invariant has three parts:
each of the three proof states is a stack (`Stack`) whose goals were stated and
whose goals above the lemma's are being proved; the processor has recorded
(`Recorded`) without hypotheses only what is the triviality of a statement; and
the index of names agrees with the theorems collected since the theory began.
There is a lemma per command of `IsarProof` that it keeps `Stack` whether it
returns or panics; the toplevel uses the same commands through another
`INSTANCE`, which `Same...` lemmas show to be the same functions. Nothing is
assumed of `Methods`: that is the point, what a method returns is recorded
nowhere without the hypotheses it has. `TrivialIsValid` shows that the
triviality of a statement holds whatever its atoms are. The only assumption is
`ProcessorAssumption`: names are strings, a statement is a nonempty sequence of
strings, the bounds are numbers.

**`BuildProofs`**, about `BuildSystem`:
`EveryTheoryIsReportedAlways`, `AnnotatedWithImportsAlways`,
`IncrementalIsWholeAlways` and `OrderRefined`, for every set of names, all headers and outcomes, and every order the hash maps allow.
The argument about the order has two halves. While theories are sorted
(`SortInv`), the degree of a theory is the number of places in its header where an
import is missing, and the queue holds, once each, just the theories with none.
When the queue is empty each theory left imports another of those left, so that
what is left is exactly `Stuck`, what no order can place (`LeftIsStuck`: that it is
all of it takes the first of a stuck set in the order). From then on every theory
is in its place (`InPlace`), and everything else follows: a theory is annotated
after its imports were read,
the reports count each theory once, and each turn of the loop loads a theory that
is ready in the sense of `ImportOrder`. `OrderRefined` is the refinement step by
step, without the fairness of `Promise!Spec`.

`IncrementalIsWhole` compares the database grown file by file with one filled from all
the lemmas, as they were loaded. The invariant (`DatabaseInv`) is that the database's
index has the first of each name of this list and its theorems are just the list's.
Filing one list after another is filing both at once (`FiledTwice`, from `FirstOfTwo`);
the aliases, which each file resolves against another database, do not disturb it
(`Grown`): the name of a `lemmas` command is filed with the lemmas, under its
placeholder, so that resolving it files nothing (`FiledAgain`), and the theorem it
finds is one that was there. So the theorem holds because of the defect of
section 5: a database that filed an alias under the theorem it stands for would depend
on how the lemmas are cut into files. The rule sets are left out of the property, as
`extend` and `from_lemmas` classify by different rules. Assumed are the types of the
constants: `NamesAssumption`, `HeadersAssumption`, `OutcomesAssumption`,
`ContentsAssumption`.

**`VerifyProofs`**, about `VerifyFile`: `StatsAccountAlways`,
`OverrideFollowsFileAlways`, for any files and any table of verdicts that meets
`VerdictAssumption`. The invariant adds to the types what a panic leaves behind
(`Tallied`): the counts of the file it cut short stay until the next file begins,
so that only an inequality between the statistics of the thread and the tallies of
the files survives it. The two properties need each other: that every attempt is
counted needs an answer for every lemma, which the verifier gives while the
override is the file's own.

**`ProverProofs`**, about `SatSpec`, `MetisSpec` and `ClausifySpec`. `AnswersAreRightAlways`, for any
lists of clauses with nonzero literals (`ClauseListsAssumption`): what the solver learns is a clause
it holds, so clauses held and given are the same but for copies (`SameClauses`), and
an assignment under which every clause held is true is right for those given. That
`unsatisfiable` is right rests on `Level0Follows`: what is assigned at level 0 has
this value wherever the clauses given are true. Propagation keeps it because the
other literals of a unit clause are false, at levels whose greatest is the one it
assigns at; decisions open a level above 0, and going back drops what is above.

`FoundEntailed`, for any problems of the resolution prover, any foreign proofs of them
and any limits: a clause it keeps, a theorem it replays and the theorem it returns
are true wherever the premises are, and a goal it refutes the negation of holds there.
The invariant says that every theorem held is good: its hypotheses are among the
clauses of the negated goal, and it is true in every valuation that makes those and
the premises true (`Good`). Each rule makes good theorems of good ones
(`CompositionHolds` for resolution), factoring, the inferences of a call and the
replay of a step by induction over their turns. Where the goal is false, each clause
of its negation is true, so that a contradiction from them alone refutes that.
Assumed are `LiteralsAssumption` (terms are finite, and the set has their parts),
`ProblemsAssumption` (types, and that what is negated is in the set) and
`LimitsAssumption`.

`FormulaAnswersAlways`, about `ClausifySpec`, for any formulas of any size: the answer
about the clauses that `tseitin_transform` made of a plain formula is right about the
formula. A plain formula is left as it is by `skolemize` (`PlainIsItself`; that its
recursion is well-founded is `SkolemDefined`). What `tseitin_rec` adds for a part is the
subject of `Encoded`, by induction over the formula for every state of the clauses and
the map it may start from: where the clauses are true the part's variable has the part's
value (the variables of atoms being read as an interpretation), and an assignment that
gives each variable in the map its formula's value makes the new clauses true if it does
the old ones. The second half is why a part that was met before, with its clauses made
again, does no harm. What a variable stands for never changes, as the map only grows
(`AtomIdStays`), and `DefiningSays` is the truth table of each connective's clauses.
The solver's half is `SatInv`, and that a variable in no clause does not matter
(`TrueWithinTable`). Assumed is `FormulasAssumption`: formulas are finite, have one of
the six shapes, atoms have names of their own, and the set has the parts of its members.

**`LinarithProofs`**, about `ArithSpec`: `EliminationIsExactAlways`,
`EntailedGoalsHoldAlways`, for all variables, terms and goals and numbers up to any
bound. Terms are followed by induction over their height, sums by induction over
the variables; both come from `MeasureInduction`, and the values of the recursive
functions from `MeasureRecursion`. An atom's constraints say what the atom says (`ExpressionIsValue`, `AtomSays`). That
the clearing of a variable adds inequations with factors
that are not negative (`Combined`) shows that who meets the constraints meets what
is left (`EliminationKeeps`), so a contradiction at the end is one at the start.
That nothing is added for unit coefficients takes the tightest bound
(`LeastOf`, `EliminationAddsNothing`). Assumed are `VarsAssumption` (the variables
listed are distinct), `TermsAssumption` (a set of terms closed under parts, with a
height that falls), `GoalsAssumption` and `LargestAssumption` (types).

### Induction, and what is only model-checked

The library's induction theorems take an operator as a parameter, which the
installed provers cannot instantiate. Its theorem about least elements of
well-founded relations (`WFMin`) takes a set. From it each module that needs one
derives an induction about sets (`LeastNatural`, `MeasureInduction`), and a
recursive function is then within reach: on a set with a measure
(`MeasureRecursion`), or on an initial segment of the numbers, where two of them agree
as far as both go (`UptoSame`). Folds of the community modules and `RECURSIVE`
operators are not. So these are only model-checked:

* what is said of a module with such operators: the properties of `unify`
  (`BetaLaws`, `EnvAcyclic`, `FirstOrderUnifyComplete`, `GroundAnswersAreRight`) and
  of `source`; `ProvedIsTheLemma` and `ResultsAreEntailed`, which are about what
  `verify_lemma` computes;
* liveness, as the prover does no fairness: `Terminates`, `CallsReturn`,
  `OrphansEnd`, `DefiniteClausesAreSolved`, and the fairness of `ImportOrder` in
  `OrderRespectsImports`.

## 5. Where the code does not keep what is said of it

Shown by a run:

| Run | What is said | What the code does |
|---|---|---|
| `kernel_sound` | "These functions MUST be correct" (`thm.rs:454`) | `bicompose_eresolve` discharges its major premise by a premise stripped from a hypothesis (`thm.rs:1182-1186`): from `a ==> a` follows `a` |
| `verify_proved` | `Proved`: "A real proof path closed the goal" (`method.rs:47-56`) | the check starts from the theorem assumed from the lemma: `B == C` by `blast` is proved with `B == C` for a hypothesis |
| `provers_solve` | "Returns `true` if satisfiable, `false` if unsatisfiable" (`metis.rs:763`) | the loop learns the conflict clause itself, always decides TRUE, and repeats for ever on `(not 1 or 2)`, `(not 1 or not 2)` |

Met while modelling, and kept in the models as they are; the properties are
conditioned so that they say what does hold.

* Unification: a pair of two different variables is dropped, so `bicompose`
  resolves `?x ==> ?x` with `?y ==> ?y` into `?x ==> ?y`; a higher-order pattern
  ends a match, whatever is still on the stack, and is bound to a constant
  function; `subst_bounds` lets an argument with binders be captured below a
  binder. From the assumed `a`, `implies_intr` of `?a` makes `?a ==> a` without
  hypotheses, as `alpha_eq` takes the two for the same (`thm.rs:225`, where 212
  says "equal modulo bound variable renaming"). `forall_intr` looks for the `Free` `a`
  in the hypotheses and `mk_all` binds `?a` too, so that from `?a` follows
  `!!a. a`. Instantiating by an environment that `conv.rs:398` makes can leave maxidx
  behind ("proper tracking for fresh variable generation", `thm.rs:18`).
  `beta_conversion` returns the body unsubstituted; it, `combination`,
  `abstraction`, `strip_shyps` and `add_shyp` have no caller outside `thm.rs`;
  `bicompose_eresolve`, which also forgets the hypotheses and oracles of a fact it
  uses, is called from `isar/method.rs`.
* Fleche: a changed first command keeps its old snapshot (`document.rs:338`),
  against "Changed commands produce new snapshots" (`document.rs:139`): the fork
  point is 0 for it as for an unchanged one. An edit publishes the diagnostics of
  the commands it executed and they replace those the client has of the file, so that
  those of the kept commands disappear (`engine.rs:230-242`). An edit that empties a
  file kills the server, and so does a panic of the executor. A crashed worker is never restarted, against
  `file_worker.rs`'s "watchdog detects, restarts"; a worker's cached proof
  state outlives the text it came from.
* Isar: `qed` never refines the parent goal, because a block it closes never has
  a goal of its own left; an abandoned proof leaves the toplevel in `Proof`.
* Loading: the cycle check of `theory_graph.rs:105` never returns the error its
  comment promises; `load_all_theories` adds the builtins twice; the alias of a
  `lemmas` command is filed as a placeholder `True` before it is resolved
  (`hol_loader.rs:1280`) and may stay so; every theory is begun from Pure
  (`loader.rs:107`) though the session builder looks its first import up and passes it
  ("passing parent theories", `session_builder.rs:13`); a
  theory that failed to build is reported as having no lemmas; the rule
  `mult_cancel1` that is added to every database says `(m * k = n * k) = (m = n)`
  (`hol_loader.rs:3227`), which is false for `k = 0`.
* Reading: `by` takes the lines after it up to the next keyword; an inline `by`,
  the `apply` lines after the first and the proof below `using` are lost; the
  premise of `"A" if "B"`, a premise that does not parse, and the assumes of a
  one-line class are dropped; a multi-line `shows` is cut; a `sorry` below a
  multi-line statement is read as a statement; a nameless lemma with assumes
  records the assumption as a theorem; `where` at the end of a header loses the
  equations; a quoted selector type adds an argument; `old_rep_datatype` loses
  argument types; a class without `begin` reads on into what follows; a datatype
  with a comment on its line is not read (`hol_loader.rs:254-259`); `EX1`, `THE` and
  `SOME` are no keywords of the lexer (`token.rs:113-196`), so that the parser's
  branches for them (`term_parser.rs:174-185`) are never taken;
  `A == B` is read as `A` and `f (x) = t` as `f x`; the right operands of `&`
  and `|` take in implications (`term_parser.rs:155` says otherwise).
* Datatype facts: the generated lemmas and the BNF facts are all `True`; the
  packaged set, predicator, relator, split, case-congruence, nchotomy, exhaust
  and fixpoint-induction facts are not facts of datatypes. Every discriminator
  lemma of `generate_ctr_sugar_lemmas` is the first discriminator theorem, whatever
  its name says: `disc_thm_idx` is never advanced (`ctr_sugar.rs:1528`). Unnamed
  selectors are numbered per constructor (`ctr_sugar.rs:140`), so that two
  constructors define the same selector differently. `CoreFactsHold` is
  about the others.
* Verifying: a method with a comma in brackets recurses to depth 200 and
  returns the state unchanged (`method.rs:1730`); `using f by m` keeps the word
  `by`; `simp add:` drops the database's rules; every `have` or `show` of an
  atomic statement succeeds by assuming itself; the budget is per file, so that
  later lemmas starve; `verify_lemma` never returns `None`, so verified equals
  attempted; a panic that leaves it leaves the database override behind, and
  the simplifier cached for the thread is never that of a later file.
* Provers: arith negates an equation into both strict orders at once, where its
  comment says "or", so every equation is entailed; with one subgoal it closes
  the goal by assuming it; a rule that closes a subgoal skips the next.
  Paramodulation derives nothing, on HOL's equality because `subst_premise` wants
  Pure's; `prove` returns `(g ==> False) ==> False`, or
  `False`, for "a proof of the goal" (`metis.rs:358`); a replay accepts a
  theorem with the goal among its premises, and `reconstruct` returns the last
  step unchecked. The direct clause conversion is wrong for positive
  implications; the other treats applications as conjunctions.

## 6. Not modelled

* Types, sorts and signatures: the term model is untyped, as is most of what
  the kernel compares. A type error the kernel would miss is not seen.
* The JSON-RPC transport with its two I/O threads, and the LSP router and
  feature handlers: the handlers are modelled from a decoded message on, and the
  features are stateless functions of a text.
* The tokenizer and the outer span parser: texts are sequences of segments,
  lines of tokens, or spans.
* In the methods and provers: schematic variables, the metis and arith branches
  of the method dispatcher, and attribute syntax; machine-integer overflow in
  arith; strict orders of type int, which only its unit tests make; proof
  reasons and trail in the SAT solver, and the copies of a learned clause
  between the first and the last; TPTP printing and external provers.
* HOL packages other than datatypes and the loader's declarations: builders of
  terms, clients of the kernel, which cannot derive more than its arbitrary
  client does. What the added rules of the database state, and its tables of
  constants, are data.
* Nets, term orders and conversions: choices among rules, which the models try
  in database order. Names, variables, arenas and containers.
* Plugins (an external WASM runtime), printing, the CLI, the SQLite cache.

## 7. Plan

Done: every part of section 1 but the transport. What would come next: the
transport's reader and writer with the server's lifecycle, composed with `Fleche`
(every request answered once, nothing written after exit); schematic variables in
`Method`, through `Unify`; the sort algebra against its definition.
