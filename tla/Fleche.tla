------------------------------- MODULE Fleche -------------------------------
(***************************************************************************)
(* The Fleche engine (fleche/engine.rs), the document it keeps behind a    *)
(* mutex, and the document handlers of the language server                 *)
(* (server/handler.rs) that call it.  The server handles one message at a  *)
(* time, so a handler - the edit and the check that follows it - is one    *)
(* step.                                                                   *)
(*                                                                         *)
(* check_file slices the commands at the number of snapshots, and hands    *)
(* each command past it to the executor.  When there are more snapshots    *)
(* than commands the slice panics while the mutex is held, and so does the *)
(* executor on a command it cannot stand; the mutex is then poisoned and   *)
(* every later call panics on it.                                          *)
(***************************************************************************)
EXTENDS Document, FiniteSetsExt

CONSTANTS
    URI,        \* the files of the workspace
    Content,    \* the texts an editor sends
    Panics,     \* the sources whose execution panics
    MaxVersion  \* bound on the edits explored

ASSUME FlecheAssumption ==
    Content \subseteq Text /\ Panics \subseteq Source /\ MaxVersion \in Nat

VARIABLES
    nodes,          \* the open files: uri |-> node
    global_version, \* the document's version counter
    poisoned,       \* did a check panic while it held the document?
    published       \* the diagnostics last sent to the client, for each file

vars == <<nodes, global_version, poisoned, published>>

Init == /\ nodes = <<>>
        /\ global_version = 0
        /\ poisoned = FALSE
        /\ published = [u \in URI |-> {}]

Put(f, u, x) == [v \in DOMAIN f \union {u} |-> IF v = u THEN x ELSE f[v]]

\* The commands without a snapshot whose execution panics.
PanicsAt(node) == {i \in Len(node.snapshots) + 1 .. Len(node.commands) :
                      node.commands[i].source \in Panics}

\* Mutant: what is returned is added to what the client has.
check_file_adds(u, node) ==
    LET checked == ExecuteRest(node, None)
    IN  /\ nodes' = Put(nodes, u, checked)
        /\ published' = [published EXCEPT ![u] = @ \union NodeDiagnostics(checked)]
        /\ UNCHANGED poisoned

\* A check that ends: one snapshot per command, and only what the new ones
\* report is returned - and published.
check_file_ends(u, node) ==
    LET checked == ExecuteRest(node, None)
    IN  /\ nodes' = Put(nodes, u, checked)
        /\ published' = [published EXCEPT ![u] =
              NodeDiagnostics([checked EXCEPT !.snapshots =
                 SubSeq(@, Len(node.snapshots) + 1, Len(@))])]
        /\ UNCHANGED poisoned

\* A check that panics leaves the node with the snapshots it had come to.
check_file_panics(u, node, reached) ==
    /\ nodes' = Put(nodes, u, [ExecuteRest(node, None) EXCEPT
                                  !.snapshots = SubSeq(@, 1, reached)])
    /\ poisoned' = TRUE
    /\ UNCHANGED published

\* Mutant: a node with a snapshot to spare is not executed.
check_file_skips(u, node) ==
    /\ nodes' = Put(nodes, u, IF node.snapshots # <<>> THEN node ELSE ExecuteRest(node, None))
    /\ published' = [published EXCEPT ![u] = NodeDiagnostics(nodes'[u])]
    /\ UNCHANGED poisoned

(***************************************************************************)
(* check_file, run on the node an open or an update has just stored.  The  *)
(* context starts empty however many snapshots were kept.                  *)
(***************************************************************************)
check_file(u, node) ==
    \/ /\ Len(node.snapshots) > Len(node.commands)
       /\ nodes' = Put(nodes, u, node)
       /\ poisoned' = TRUE
       /\ UNCHANGED published
    \/ /\ Len(node.snapshots) <= Len(node.commands)
       /\ PanicsAt(node) # {}
       /\ check_file_panics(u, node, Min(PanicsAt(node)) - 1)
    \/ /\ Len(node.snapshots) <= Len(node.commands)
       /\ PanicsAt(node) = {}
       /\ check_file_ends(u, node)

open_file(u, content) ==
    /\ ~poisoned
    /\ global_version < MaxVersion
    /\ global_version' = global_version + 1
    /\ check_file(u, update_content(new_node, content, global_version'))

update_open(u, content) ==
    /\ ~poisoned
    /\ global_version < MaxVersion
    /\ u \in DOMAIN nodes
    /\ global_version' = global_version + 1
    /\ check_file(u, update_content(nodes[u], content, global_version'))

\* An update of a file that is not open counts a version, then opens it.
update_missing(u, content) ==
    /\ ~poisoned
    /\ global_version + 1 < MaxVersion
    /\ u \notin DOMAIN nodes
    /\ global_version' = global_version + 2
    /\ check_file(u, update_content(new_node, content, global_version'))

\* Closing forgets the node; what was published stays on the client's screen.
close_file(u) ==
    /\ ~poisoned
    /\ u \in DOMAIN nodes
    /\ nodes' = [v \in DOMAIN nodes \ {u} |-> nodes[v]]
    /\ UNCHANGED <<global_version, poisoned, published>>

Next == \E u \in URI :
           \/ close_file(u)
           \/ \E content \in Content :
                 open_file(u, content) \/ update_open(u, content) \/ update_missing(u, content)

Spec == Init /\ [][Next]_vars

(***************************************************************************)
(* The answers to queries.  get_proof_state takes the line asked about and *)
(* ignores it: it answers the last proof state any snapshot holds.         *)
(***************************************************************************)
LastProofState(snapshots) ==
    LET held == {i \in DOMAIN snapshots : snapshots[i].proof_state # None}
    IN  IF held = {} THEN None ELSE snapshots[Max(held)].proof_state

\* Mutant: only the last snapshot is asked.
get_last_proof_state(u) ==
    IF u \in DOMAIN nodes /\ nodes[u].snapshots # <<>>
      THEN nodes[u].snapshots[Len(nodes[u].snapshots)].proof_state
      ELSE None

get_proof_state(u) == IF u \in DOMAIN nodes THEN LastProofState(nodes[u].snapshots) ELSE None

get_diagnostics(u) == IF u \in DOMAIN nodes THEN NodeDiagnostics(nodes[u]) ELSE {}
-----------------------------------------------------------------------------
(***************************************************************************)
(* Properties.  The reference an incremental check is held against is a    *)
(* check from scratch: all commands executed on a node with no snapshots.  *)
(***************************************************************************)
Scratch(u) == ExecuteRest([nodes[u] EXCEPT !.snapshots = <<>>], None)

\* What a snapshot says, the line it said it of left out: an edit may move a
\* command without changing it, and its snapshot is kept as it was.
Said(snapshot) == [k \in DOMAIN snapshot.diagnostics |->
                      [code  |-> snapshot.diagnostics[k].code,
                       about |-> snapshot.diagnostics[k].about]]

FreshAt(u, i) == Said(nodes[u].snapshots[i]) = Said(Scratch(u).snapshots[i])

CommandType  == [source : Source, line : Nat, id : Nat]

\* The document's state has the shape the rest of the server relies on: a
\* version, and commands each with its source, line and number.
TypeOK == /\ global_version \in Nat
          /\ poisoned \in BOOLEAN
          /\ DOMAIN nodes \subseteq URI
          /\ DOMAIN published = URI
          /\ \A u \in DOMAIN nodes :
                /\ nodes[u].version \in 1..global_version
                /\ nodes[u].content \in Content
                /\ nodes[u].commands = parse_commands(nodes[u].content)
                /\ nodes[u].commands \in Seq(CommandType)

\* After every handler each open file has one snapshot per command, numbered
\* as the commands are - whatever sequence of edits led there.  Keeping the
\* snapshots "up to the fork point" is only right while this holds.
SnapshotsLineUp ==
    ~poisoned => \A u \in DOMAIN nodes :
        /\ Len(nodes[u].snapshots) = Len(nodes[u].commands)
        /\ \A i \in DOMAIN nodes[u].snapshots : nodes[u].snapshots[i].command_id = i - 1

\* Past its first command a file is never left with a stale snapshot: each
\* says what executing its command afresh would say.
TailIsFresh ==
    ~poisoned => \A u \in DOMAIN nodes :
        \A i \in 2..Len(nodes[u].snapshots) : FreshAt(u, i)

\* A file whose first snapshot is fresh too answers the proof state a check
\* from scratch would, though an incremental check resumes in an empty context.
ProofStateAsFromScratch ==
    ~poisoned => \A u \in DOMAIN nodes :
        (Len(nodes[u].snapshots) > 0 /\ FreshAt(u, 1)) =>
            get_proof_state(u) = LastProofState(Scratch(u).snapshots)

\* The snapshots of a file were made in the order of its commands: a later
\* command never carries an older version than an earlier one.
VersionsOrdered ==
    \A u \in DOMAIN nodes :
        LET s == nodes[u].snapshots IN
        /\ \A i, j \in DOMAIN s : i < j => s[i].version <= s[j].version
        /\ \A i \in DOMAIN s : s[i].version <= nodes[u].version

\* The document is poisoned by nothing but an edit that empties a file whose
\* first snapshot outlives its command, or by a command the executor panics on,
\* reached in order and the first of the new ones that does: the slice never
\* panics on a file with commands, and no command is checked twice or passed over
\* on the way.
PoisonIsExplained ==
    poisoned => \E u \in DOMAIN nodes :
        LET reached == Len(nodes[u].snapshots) IN
        \/ nodes[u].commands = <<>> /\ reached = 1
        \/ /\ reached < Len(nodes[u].commands)
           /\ nodes[u].commands[reached + 1].source \in Panics
           /\ \A i \in 1..reached : nodes[u].snapshots[i].command_id = i - 1

\* An update executes no command of the unchanged prefix again, and executes
\* every one after the first that is not in it.  (Nothing is said of a changed
\* first command: document.rs:139 has it executed, find_fork_point answers 0 for
\* it as for an unchanged one, and its old snapshot stays.)
ReusesAt(u) ==
    LET kept == CommonPrefix(nodes[u].commands, nodes'[u].commands)
    IN  \A i \in DOMAIN nodes'[u].snapshots :
           /\ i <= kept => nodes'[u].snapshots[i] = nodes[u].snapshots[i]
           /\ i > kept /\ i > 1 => nodes'[u].snapshots[i].version = global_version'

UpdateReuses ==
    [][\A u \in DOMAIN nodes \intersect DOMAIN nodes' :
         (update_open(u, nodes'[u].content) /\ ~poisoned') => ReusesAt(u)]_vars

\* The client is shown of an open file nothing that the document no longer
\* reports: no diagnostic outlives the command or the line it was about.  (The
\* converse fails: what the kept snapshots report vanishes from the screen, as
\* check_file returns the diagnostics of the others and these are published.)
ShownIsReported ==
    ~poisoned => \A u \in DOMAIN nodes : published[u] \subseteq get_diagnostics(u)
=============================================================================
