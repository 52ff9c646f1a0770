------------------------------ MODULE BuildSystem ------------------------------
(***************************************************************************)
(* The loaders of a directory of theories, over one algorithm for the      *)
(* order.                                                                  *)
(*                                                                         *)
(* The order is that of Kahn's algorithm, written twice: in                *)
(* SessionBuilder::resolve_dependencies, which takes the ready theories    *)
(* from a stack, and in TheoryGraph::topological_sort, which takes them    *)
(* from a queue.  Both iterate over hash maps, so that theories that       *)
(* become ready together are pushed in any order.                          *)
(*                                                                         *)
(* The session builder of theory/session_builder.rs processes the theories *)
(* in load order, hands each the first of its imports for a parent - which *)
(* the processor does not use -, registers what came of them and reports,  *)
(* as a BuildResult (build) or as a VerifyReport (build_with_classifier).  *)
(*                                                                         *)
(* The theory graph of hol/theory_graph.rs reads the theories in load      *)
(* order and collects the lemmas they state, annotated with the types      *)
(* declared so far, in one theorem database.  A file that cannot be read,  *)
(* or whose parser panics, is noted and skipped.                           *)
(***************************************************************************)
EXTENDS Integers, FiniteSets, TheoremDb

CONSTANTS
    Names,          \* the names a theory can have, in alphabetical order
    Headers,        \* the lists of imports a header can have
    Outcomes,       \* what may come of processing a theory
    Contents(_)     \* Contents(t): the lists of lemmas theory t may state

ASSUME NamesAssumption == Names \in Seq(STRING)
ASSUME HeadersAssumption == Headers \subseteq Seq(STRING)

Theory == ToSet(Names)

Outcome == [kind : {"read", "unreadable", "panic"}, lemmas : Nat, theorems : Nat,
            errors : Nat, syntax : BOOLEAN]

ASSUME OutcomesAssumption == Outcomes \subseteq Outcome

\* What a file states is a list of lemmas.
ASSUME ContentsAssumption ==
    \A t \in Theory : \A lemmas \in Contents(t) :
        lemmas \in Seq(ToSet(lemmas)) /\ \A lem \in ToSet(lemmas) : IsLemma(lem)

VARIABLES
    loader,     \* who loads the directory: "build", "classify" or "graph"
    phase,      \* "scan", "sort", "load", "done" or "served"
    files,      \* the theories found, each with the imports of its header
    in_degree,  \* the imports of each theory that are not ordered yet
    queue,      \* the theories with none left
    order,      \* the theories ordered so far, then the load order
    at          \* how many of them are loaded

VARIABLES
    registry,   \* the TheoryRegistry: the parent each theory was begun from
    result,     \* the BuildResult
    report      \* the results of a VerifyReport

VARIABLES
    nodes,      \* the nodes loaded: the lemmas, and the types they were given
    errors,     \* the theories that could not be loaded
    db,         \* the database
    type_env    \* the theories whose declarations the type environment holds

orderVars == <<loader, phase, files, in_degree, queue, order, at>>
buildVars == <<registry, result, report>>
graphVars == <<nodes, errors, db, type_env>>

\* A map with one more entry, or a new value for it.
With(map, key, value) == [k \in DOMAIN map \cup {key} |-> IF k = key THEN value ELSE map[k]]

-----------------------------------------------------------------------------
(* The order. *)

Found == DOMAIN files
IsSession == loader \in {"build", "classify"}

\* How often t imports i: an import repeated in the header counts twice.
Edges(t, i) == Cardinality({k \in DOMAIN files[t] : files[t][k] = i})
DegreeOf(t) == Cardinality({k \in DOMAIN files[t] : files[t][k] \in Found})

OrderInit ==
    /\ loader \in {"build", "classify", "graph"}
    /\ phase = "scan"
    /\ files \in UNION {[S -> Headers] : S \in SUBSET Theory}
    /\ in_degree = <<>> /\ queue = <<>> /\ order = <<>> /\ at = 0

\* The headers are read; the theories without imports are ready.
scan ==
    /\ phase = "scan"
    /\ phase' = "sort"
    /\ in_degree' = [t \in Found |-> DegreeOf(t)]
    /\ queue' \in SetToSeqs({t \in Found : DegreeOf(t) = 0})
    /\ UNCHANGED <<loader, files, order, at>>

\* Mutant: the degree left of a theory is not looked at.
Freed_any(t) == {n \in Found : Edges(n, t) > 0}

\* The theories t was the last missing import of.
Freed(t) == {n \in Found : Edges(n, t) > 0 /\ in_degree[n] = Edges(n, t)}

order_next ==
    /\ phase = "sort" /\ queue # <<>>
    /\ LET t == IF IsSession THEN Last(queue) ELSE Head(queue)
           rest == IF IsSession THEN Front(queue) ELSE Tail(queue)
       IN  /\ order' = Append(order, t)
           /\ in_degree' = [n \in Found |-> in_degree[n] - Edges(n, t)]
           /\ \E freed \in SetToSeqs(Freed(t)) : queue' = rest \o freed
    /\ UNCHANGED <<loader, phase, files, at>>

\* What is left is on a cycle or behind one: it is forced into the order, by
\* name in the graph, as the hash map has it in the builder.
Rank(t) == CHOOSE i \in DOMAIN Names : Names[i] = t
Sorted(s) == \A i, j \in DOMAIN s : i < j => Rank(s[i]) < Rank(s[j])
Unordered == {s \in SetToSeqs(Found \ ToSet(order)) : IsSession \/ Sorted(s)}

break_cycles ==
    /\ phase = "sort" /\ queue = <<>>
    /\ \E rest \in Unordered : order' = order \o rest
    /\ phase' = "load"
    /\ UNCHANGED <<loader, files, in_degree, queue, at>>
\* The loop over the order; what is done for a theory is the loaders' own.
load_next ==
    /\ phase = "load" /\ at < Len(order)
    /\ at' = at + 1
    /\ UNCHANGED <<loader, phase, files, in_degree, queue, order>>

load_end ==
    /\ phase = "load" /\ at = Len(order)
    /\ phase' = "done"
    /\ UNCHANGED <<loader, files, in_degree, queue, order, at>>

Current == order[at + 1]
-----------------------------------------------------------------------------
(* The session builder. *)

BuildInit ==
    /\ registry = [t \in {"Pure"} |-> "Pure"]
    /\ result = [loaded |-> 0, failed |-> 0, theorems |-> 0, names |-> <<>>]
    /\ report = <<>>

lookup(n) == IF n \in DOMAIN registry THEN n ELSE "Pure"

parent_of(t) == IF files[t] = <<>> THEN "Pure" ELSE lookup(Head(files[t]))

\* The processor begins the local theory from Pure, whatever parent it is handed
\* (against session_builder.rs:13, "passing parent theories").
with_parent(parent) == "Pure"

\* A theory that was read is registered, whatever its errors.
register(t, o) ==
    registry' = IF o.kind = "read" THEN With(registry, t, with_parent(parent_of(t)))
                ELSE registry

IsOk(o) == o.kind = "read" /\ o.errors = 0

\* Mutant: a theory that panics is not counted.
build_one_uncounted(t, o) ==
    result' = IF IsOk(o) THEN [result EXCEPT !.loaded = @ + 1, !.theorems = @ + o.theorems,
                                             !.names = Append(@, t)]
              ELSE IF o.kind = "panic" THEN result
              ELSE [result EXCEPT !.failed = @ + 1]

build_one(t, o) ==
    result' = IF IsOk(o) THEN [result EXCEPT !.loaded = @ + 1, !.theorems = @ + o.theorems,
                                             !.names = Append(@, t)]
              ELSE [result EXCEPT !.failed = @ + 1]

build_one_classified(o) ==
    CASE o.kind = "unreadable" -> "IoError"
      [] o.kind = "panic" -> "SyntaxError"
      [] o.kind = "read" ->
            CASE o.lemmas = 0 /\ (o.theorems = 0 \/ o.errors = 0) -> "NoLemmas"
              [] o.lemmas > 0 /\ o.errors = 0 -> "FullSuccess"
              [] o.errors > 0 /\ o.theorems > 0 -> "PartialSuccess"
              [] o.errors > 0 /\ o.theorems = 0 /\ o.lemmas > 0 ->
                    IF o.syntax THEN "SyntaxError" ELSE "ProofFailure"

\* What a PartialSuccess reports: the theorems collected, of the lemmas counted.
tally(o) ==
    CASE build_one_classified(o) = "FullSuccess" -> <<1, 1>>
      [] build_one_classified(o) = "PartialSuccess" -> <<o.theorems, o.lemmas>>
      [] OTHER -> <<0, 0>>

build_next ==
    /\ IsSession
    /\ load_next
    /\ \E o \in Outcomes :
           /\ register(Current, o)
           /\ IF loader = "build"
              THEN build_one(Current, o) /\ UNCHANGED report
              ELSE /\ report' = Append(report, [name |-> Current, tally |-> tally(o),
                                                status |-> build_one_classified(o)])
                   /\ UNCHANGED result

\* VerifyReport::new sums up the results.
counts(status) == Cardinality({i \in DOMAIN report : report[i].status = status})
Sum(k) == FoldSeq(LAMBDA r, n : r.tally[k] + n, 0, report)
overall == <<Sum(1), Sum(2)>>

has_verified(status) == status \in {"FullSuccess", "PartialSuccess"}

-----------------------------------------------------------------------------
(* The theory graph. *)

GraphInit ==
    /\ nodes = <<>> /\ errors = <<>> /\ db = new /\ type_env = {}

load_file_fails ==
    /\ errors' = Append(errors, Current)
    /\ UNCHANGED <<nodes, db, type_env>>

load_file(t, lemmas) ==
    /\ type_env' = type_env \cup {t}
    /\ nodes' = With(nodes, t, [lemmas |-> lemmas, types |-> type_env'])
    /\ db' = extend(db, lemmas)
    /\ UNCHANGED errors

graph_next ==
    /\ loader = "graph"
    /\ load_next
    /\ \/ load_file_fails
       \/ \E lemmas \in Contents(Current) : load_file(Current, lemmas)

\* load_all ends with the built-in rules.
load_all_end ==
    /\ loader = "graph" /\ load_end
    /\ db' = add_builtins(db)
    /\ UNCHANGED <<nodes, errors, type_env>>

\* load_all_theories adds them to what load_all returns, once more.
load_all_theories ==
    /\ loader = "graph" /\ phase = "done"
    /\ phase' = "served"
    /\ db' = add_builtins(db)
    /\ UNCHANGED <<loader, files, in_degree, queue, order, at, nodes, errors, type_env>>

-----------------------------------------------------------------------------
vars == <<loader, phase, files, in_degree, queue, order, at, registry, result, report,
          nodes, errors, db, type_env>>

Init == OrderInit /\ BuildInit /\ GraphInit

Ordering == (scan \/ order_next \/ break_cycles) /\ UNCHANGED <<buildVars, graphVars>>
SessionNext == IsSession /\ (build_next \/ (load_end /\ UNCHANGED buildVars)) /\ UNCHANGED graphVars
GraphNext == (graph_next \/ load_all_end \/ load_all_theories) /\ UNCHANGED buildVars

Next == Ordering \/ SessionNext \/ GraphNext

\* Each loader is one loop of one thread, which goes on to its end.
Spec == Init /\ [][Next]_vars /\ WF_vars(Next)
-----------------------------------------------------------------------------
\* The order is what the loaders promise, and every theory is reached.
Promise == INSTANCE ImportOrder WITH
               needs <- [t \in Found |-> ToSet(files[t]) \cap Theory],
               loaded <- SubSeq(order, 1, at)
OrderRespectsImports == Promise!Spec

Processed == {order[i] : i \in 1..at}
OnCycle(t) == t \in Promise!Stuck

\* No theory found goes missing from a report: a build loads or fails each of
\* them, a classified build has one result for each, and what counts as
\* verified was registered.
EveryTheoryIsReported ==
    phase = "done" =>
        CASE loader = "build" ->
                /\ result.loaded + result.failed = Cardinality(Found)
                /\ Len(result.names) = result.loaded
                /\ ToSet(result.names) \subseteq DOMAIN registry
          [] loader = "classify" ->
                /\ {report[i].name : i \in DOMAIN report} = Found
                /\ Len(report) = Cardinality(Found)
                /\ \A i \in DOMAIN report :
                       has_verified(report[i].status) => report[i].name \in DOMAIN registry
          [] OTHER -> DOMAIN nodes \cup ToSet(errors) = Found

\* Every lemma was annotated with the types of the theories its own imports,
\* those that were loaded at all, whatever order they were loaded in.
AnnotatedWithImports ==
    \A t \in DOMAIN nodes :
        OnCycle(t) \/ ToSet(files[t]) \cap DOMAIN nodes \subseteq nodes[t].types

\* The database grown file by file finds by each name what one filled from all
\* the lemmas at once, in the same order, finds, and has the same theorems.
Collected(i) == IF order[i] \in DOMAIN nodes THEN nodes[order[i]].lemmas ELSE <<>>
Lemmas == Joined([i \in 1..at |-> Collected(i)], at)
IncrementalIsWhole ==
    loader = "graph" /\ phase = "load" =>
        LET whole == from_lemmas(Lemmas)
        IN  /\ db.by_name = whole.by_name
            /\ db.def_index = whole.def_index
            /\ ToSet(db.all) = ToSet(whole.all)
            /\ AnnotatedWithImports
=============================================================================
