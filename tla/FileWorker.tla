----------------------------- MODULE FileWorker -----------------------------
(***************************************************************************)
(* The threads of session/file_worker.rs, one per opening of a file.  A    *)
(* worker owns a document with its one file, takes commands from a bounded *)
(* channel and answers each on a oneshot channel of the caller's.          *)
(*                                                                         *)
(* A oneshot is a caller's reply: "pending" while its sender is in a       *)
(* command, then "sent", or "dropped" when the command was thrown away.    *)
(* Executing a command of a source in Panics unwinds the thread: what it   *)
(* was handling and whatever is queued is dropped with it.                 *)
(***************************************************************************)
EXTENDS Document, SequencesExt

CONSTANTS
    URI,        \* the files
    Content,    \* the texts a file is checked with
    Caller,     \* the threads that use the session
    Capacity,   \* the channel's bound: 64 in the code
    Panics      \* the sources whose execution panics

ASSUME FileWorkerAssumption == /\ Content \subseteq Text
                               /\ Capacity \in Nat \ {0}
                               /\ Panics \subseteq Source
                               /\ "nobody" \notin Caller

VARIABLES
    workers,    \* the workers spawned, in order
    reply       \* the oneshot of each caller's current call

worker_vars == <<workers, reply>>

Nobody == "nobody"
Shutdown == [kind |-> "Shutdown", content |-> <<>>, reply |-> Nobody]
Command(kind, content, c) == [kind |-> kind, content |-> content, reply |-> c]

Unused  == [state |-> "unused", value |-> {}]
Pending == [state |-> "pending", value |-> {}]
Sent(value) == [state |-> "sent", value |-> value]
Dropped == [state |-> "dropped", value |-> {}]

\* FileWorker::spawn.  The document counts its versions from 0; the worker's
\* own counter is always equal to it.
spawn(uri) == [uri |-> uri, node |-> new_node, check_ctx |-> None,
               rx |-> <<>>, handling |-> <<>>, senders |-> TRUE, status |-> "running"]

\* Mutant: a worker that is handling a command accepts no other.
Accepts_idle(w) ==
    workers[w].status = "running" /\ workers[w].handling = <<>> /\ Len(workers[w].rx) < Capacity

Accepts(w) == workers[w].status = "running" /\ Len(workers[w].rx) < Capacity

\* try_send: a full or a closed channel throws the command away.
Sending(w, cmd) == IF Accepts(w)
                     THEN [workers EXCEPT ![w].rx = Append(@, cmd)]
                     ELSE workers

Waiting(w) == {cmd.reply : cmd \in ToSet(workers[w].rx) \union ToSet(workers[w].handling)}

(***************************************************************************)
(* handle_check_file: the edit, then the commands without a snapshot, in   *)
(* the context the last check ended in.  A file with nothing to execute is *)
(* answered with no diagnostics at all.                                    *)
(***************************************************************************)
Edited(w, content) == update_content(workers[w].node, content, workers[w].node.version + 1)

NothingToExecute(node) == Len(node.snapshots) >= Len(node.commands)

CheckedWorker(w, content) ==
    LET node == Edited(w, content)
    IN  IF NothingToExecute(node)
          THEN [workers[w] EXCEPT !.node = node]
          ELSE [workers[w] EXCEPT !.node = ExecuteRest(node, workers[w].check_ctx),
                                  !.check_ctx = Contexts(node, @)[Len(node.commands)]]

CheckAnswer(w, content) ==
    LET node == Edited(w, content)
    IN  IF NothingToExecute(node)
          THEN {}
          ELSE NodeDiagnostics(ExecuteRest(node, workers[w].check_ctx))

CheckPanics(w, content) ==
    LET node == Edited(w, content)
    IN  \E i \in Len(node.snapshots) + 1 .. Len(node.commands) :
            node.commands[i].source \in Panics

(***************************************************************************)
(* The event loop.                                                         *)
(***************************************************************************)
Receive(w) ==
    /\ workers[w].status = "running"
    /\ workers[w].handling = <<>>
    /\ workers[w].rx # <<>>
    /\ Head(workers[w].rx) # Shutdown
    /\ workers' = [workers EXCEPT ![w].rx = Tail(@),
                                  ![w].handling = <<Head(workers[w].rx)>>]
    /\ UNCHANGED reply

\* Mutant: the answer is sent and the checked document is thrown away.
CheckFile_forgets(w) ==
    /\ workers[w].handling # <<>>
    /\ LET cmd == workers[w].handling[1] IN
          /\ cmd.kind = "CheckFile"
          /\ ~CheckPanics(w, cmd.content)
          /\ workers' = [workers EXCEPT ![w].handling = <<>>]
          /\ reply' = [reply EXCEPT ![cmd.reply] = Sent(CheckAnswer(w, cmd.content))]

CheckFile(w) ==
    /\ workers[w].handling # <<>>
    /\ LET cmd == workers[w].handling[1] IN
          /\ cmd.kind = "CheckFile"
          /\ ~CheckPanics(w, cmd.content)
          /\ workers' = [workers EXCEPT ![w] =
                            [CheckedWorker(w, cmd.content) EXCEPT !.handling = <<>>]]
          /\ reply' = [reply EXCEPT ![cmd.reply] = Sent(CheckAnswer(w, cmd.content))]

Hover(w) ==
    /\ workers[w].handling # <<>>
    /\ workers[w].handling[1].kind = "Hover"
    /\ workers' = [workers EXCEPT ![w].handling = <<>>]
    /\ reply' = [reply EXCEPT ![workers[w].handling[1].reply] = Sent({workers[w].uri})]

\* The cached proof state, whatever the line.
ProofState(w) ==
    /\ workers[w].handling # <<>>
    /\ workers[w].handling[1].kind = "ProofState"
    /\ workers' = [workers EXCEPT ![w].handling = <<>>]
    /\ reply' = [reply EXCEPT ![workers[w].handling[1].reply] = Sent(ToSet(workers[w].check_ctx))]

\* Mutant: the commands of a thread that is gone are never dropped.
Gone_silently(w, status) ==
    /\ workers' = [workers EXCEPT ![w].rx = <<>>, ![w].handling = <<>>, ![w].status = status]
    /\ UNCHANGED reply

\* The thread is gone: the receiver and every command in it are dropped.
Gone(w, status) ==
    /\ workers' = [workers EXCEPT ![w].rx = <<>>, ![w].handling = <<>>, ![w].status = status]
    /\ reply' = [c \in Caller |-> IF c \in Waiting(w) THEN Dropped ELSE reply[c]]

Panic(w) ==
    /\ workers[w].handling # <<>>
    /\ workers[w].handling[1].kind = "CheckFile"
    /\ CheckPanics(w, workers[w].handling[1].content)
    /\ Gone(w, "panicked")

Stop(w) ==
    /\ workers[w].status = "running"
    /\ workers[w].handling = <<>>
    /\ workers[w].rx # <<>>
    /\ Head(workers[w].rx) = Shutdown
    /\ Gone(w, "ended")

\* Mutant: a worker nobody can send to waits for ever.
Disconnected_never(w) == FALSE /\ Gone(w, "ended")

\* blocking_recv answers None once every sender is dropped and the channel
\* is drained.
Disconnected(w) ==
    /\ workers[w].status = "running"
    /\ workers[w].handling = <<>>
    /\ workers[w].rx = <<>>
    /\ ~workers[w].senders
    /\ Gone(w, "ended")

WorkerStep(w) == \/ Receive(w)
                 \/ CheckFile(w)
                 \/ Hover(w)
                 \/ ProofState(w)
                 \/ Panic(w)
                 \/ Stop(w)
                 \/ Disconnected(w)
=============================================================================
