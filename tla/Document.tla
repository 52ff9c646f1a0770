------------------------------ MODULE Document ------------------------------
(***************************************************************************)
(* The document model of document/document.rs and the command executor     *)
(* fleche/engine.rs hands it to: what a node of the document is, how an    *)
(* edit re-parses it and decides which snapshots survive, and what         *)
(* executing the commands without a snapshot adds.  These are the          *)
(* functions two components are built from, the Fleche engine (one         *)
(* document behind a mutex) and the FileWorker (one document per thread).  *)
(*                                                                         *)
(* A text is a sequence of segments, one to a line, each the source of a   *)
(* command or Blank (a segment with nothing but white space between its    *)
(* semicolons).                                                            *)
(***************************************************************************)
EXTENDS Integers, Sequences, FiniteSets

CONSTANTS
    Source,     \* the command sources an editor types
    Blank,      \* a segment that holds no command
    Code        \* Code[s]: how the executor classifies the source s

Codes == {"theory-header", "lemma-verified", "lemma-unverified", "parse-error",
          "definition-accepted", "unknown-command", "exec-error", "silent"}

ASSUME DocumentAssumption == /\ Blank \notin Source
                             /\ Code \in [Source -> Codes]

Text == Seq(Source \union {Blank})

None == <<>>
Some(x) == <<x>>

(***************************************************************************)
(* Parsing and editing.                                                    *)
(***************************************************************************)
CommandLines(content) == {p \in DOMAIN content : content[p] # Blank}

\* Only segments with something in them become commands; they are numbered
\* consecutively from 0 and remember the line they stand on.
parse_commands(content) ==
    LET lines == CommandLines(content)
        line(i) == CHOOSE p \in lines : Cardinality({q \in lines : q <= p}) = i
    IN  [i \in 1..Cardinality(lines) |->
            [source |-> content[line(i)], line |-> line(i), id |-> i - 1]]

SameFrom(old, new, n) == \A j \in 1..n : old[j].source = new[j].source

CommonPrefix(old, new) ==
    CHOOSE n \in 0..Len(old) :
        /\ n <= Len(new)
        /\ SameFrom(old, new, n)
        /\ \/ n = Len(old)
           \/ n = Len(new)
           \/ old[n + 1].source # new[n + 1].source

\* Mutant: the fork point is the first changed command.
first_changed(old, new) == CommonPrefix(old, new)

\* The index of the last unchanged command - and 0 when none is unchanged,
\* the same answer as when the first one is.
find_fork_point(old, new) ==
    IF CommonPrefix(old, new) > 0 THEN CommonPrefix(old, new) - 1 ELSE 0

\* Mutant: the fork point's own snapshot is dropped too.
KeptBeforeFork(snapshots, fork) ==
    SubSeq(snapshots, 1,
           CHOOSE k \in 0..Len(snapshots) :
               /\ \A j \in 1..k : snapshots[j].command_id < fork
               /\ \/ k = Len(snapshots)
                  \/ snapshots[k + 1].command_id >= fork)

\* The leading snapshots whose command is not past the fork point.
KeptSnapshots(snapshots, fork) ==
    SubSeq(snapshots, 1,
           CHOOSE k \in 0..Len(snapshots) :
               /\ \A j \in 1..k : snapshots[j].command_id <= fork
               /\ \/ k = Len(snapshots)
                  \/ snapshots[k + 1].command_id > fork)

new_node == [version |-> 0, content |-> <<>>, commands |-> <<>>, snapshots |-> <<>>]

update_content(node, content, version) ==
    LET commands == parse_commands(content)
    IN  [version   |-> version,
         content   |-> content,
         commands  |-> commands,
         snapshots |-> KeptSnapshots(node.snapshots,
                                     find_fork_point(node.commands, commands))]

(***************************************************************************)
(* Executing a command.  Its diagnostics depend on the command alone; the  *)
(* proof state is that of the last lemma, cleared by a theory header and   *)
(* left alone by everything else.                                          *)
(***************************************************************************)
Diagnostics(cmd) ==
    IF Code[cmd.source] = "silent"
      THEN <<>>
      ELSE <<[code |-> Code[cmd.source], about |-> cmd.source, line |-> cmd.line]>>

ProofStateAfter(cmd, proof_state) ==
    CASE Code[cmd.source] = "theory-header"    -> None
      [] Code[cmd.source] = "lemma-verified"   -> Some({})
      [] Code[cmd.source] = "lemma-unverified" -> Some({[goal |-> cmd.source, id |-> cmd.id]})
      [] OTHER                                 -> proof_state

\* The proof state after each command from the first one without a snapshot,
\* when the first of them is executed in proof_state.
Contexts(node, proof_state) ==
    LET start == Len(node.snapshots)
        ctx[i \in start..Len(node.commands)] ==
            IF i = start
              THEN proof_state
              ELSE ProofStateAfter(node.commands[i], ctx[i - 1])
    IN  ctx

Snapshot(cmd, version, proof_state) ==
    [command_id |-> cmd.id, version |-> version,
     diagnostics |-> Diagnostics(cmd), proof_state |-> proof_state]

\* The loop over commands[start_idx..]: one more snapshot per command.
ExecuteRest(node, proof_state) ==
    LET ctx == Contexts(node, proof_state)
    IN  [node EXCEPT !.snapshots =
            [i \in 1..Len(node.commands) |->
                IF i <= Len(node.snapshots)
                  THEN node.snapshots[i]
                  ELSE Snapshot(node.commands[i], node.version, ctx[i])]]

\* The snapshots of a node in order, flattened to what they report.
NodeDiagnostics(node) ==
    UNION {{node.snapshots[i].diagnostics[k] : k \in DOMAIN node.snapshots[i].diagnostics} :
               i \in DOMAIN node.snapshots}
=============================================================================
