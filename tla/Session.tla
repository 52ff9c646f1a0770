------------------------------ MODULE Session -------------------------------
(***************************************************************************)
(* The session of session/session.rs: the map from files to the handles of *)
(* their workers, and the calls that go through it.  A call looks its      *)
(* worker up, sends a command and blocks on the oneshot.                   *)
(*                                                                         *)
(* open_file, update_file, close_file and shutdown borrow the session      *)
(* mutably, hover and proof_state share it; a caller holds its borrow      *)
(* until its call returns, so only queries ever run at the same time.      *)
(***************************************************************************)
EXTENDS FileWorker

CONSTANTS
    MaxWorkers, \* bound on the workers spawned
    MaxVersion  \* bound on the checks of one worker

ASSUME SessionAssumption == MaxWorkers \in Nat /\ MaxVersion \in Nat

VARIABLES
    handles,    \* handles[u]: the worker in the map for file u, 0 if none
    call        \* the call each caller is in

vars == <<workers, reply, handles, call>>

NoCall == [op |-> "none", uri |-> Nobody, content |-> <<>>, worker |-> 0, full |-> FALSE]

Init == /\ workers = <<>>
        /\ reply = [c \in Caller |-> Unused]
        /\ handles = [u \in URI |-> 0]
        /\ call = [c \in Caller |-> NoCall]

NotFound == [state |-> "not_found", value |-> {}]

Exclusive == {"open_file", "update_file"}

\* Mutant: a mutable borrow is given out beside the others.
MayBorrowShared == \E c \in Caller : call[c] = NoCall

MayBorrowMut == \A c \in Caller : call[c] = NoCall
MayBorrow(c) == call[c] = NoCall /\ \A d \in Caller : call[d].op \notin Exclusive

\* Dropping the handle of u drops the only sender its worker has.
WithoutSender(ws, u) == IF handles[u] = 0 THEN ws ELSE [ws EXCEPT ![handles[u]].senders = FALSE]

open_file(c, u, content) ==
    /\ MayBorrowMut
    /\ Len(workers) < MaxWorkers
    /\ LET w == Len(workers) + 1
           cmd == Command("CheckFile", content, c)
       IN  /\ workers' = Append(WithoutSender(workers, u), [spawn(u) EXCEPT !.rx = <<cmd>>])
           /\ handles' = [handles EXCEPT ![u] = w]
           /\ call' = [call EXCEPT ![c] = [op |-> "open_file", uri |-> u, content |-> content,
                                           worker |-> w, full |-> FALSE]]
    /\ reply' = [reply EXCEPT ![c] = Pending]

\* The three calls that go to the worker the map has: send, then block.
Ask(c, u, op, cmd) ==
    /\ handles[u] # 0
    /\ workers' = Sending(handles[u], cmd)
    /\ reply' = [reply EXCEPT ![c] = IF Accepts(handles[u]) THEN Pending ELSE Dropped]
    /\ call' = [call EXCEPT ![c] = [op |-> op, uri |-> u, content |-> cmd.content,
                                    worker |-> handles[u],
                                    full |-> Len(workers[handles[u]].rx) >= Capacity]]
    /\ UNCHANGED handles

update_file(c, u, content) ==
    /\ MayBorrowMut
    /\ handles[u] # 0
    /\ workers[handles[u]].node.version < MaxVersion
    /\ Ask(c, u, "update_file", Command("CheckFile", content, c))

hover(c, u) == MayBorrow(c) /\ Ask(c, u, "hover", Command("Hover", <<>>, c))

proof_state(c, u) == MayBorrow(c) /\ Ask(c, u, "proof_state", Command("ProofState", <<>>, c))

\* get_handle fails, in whichever call: there is nobody to ask.
FileNotFound(c, u) ==
    /\ MayBorrow(c)
    /\ handles[u] = 0
    /\ reply' = [reply EXCEPT ![c] = NotFound]
    /\ call' = [call EXCEPT ![c] = [NoCall EXCEPT !.op = "not_found", !.uri = u]]
    /\ UNCHANGED <<workers, handles>>

close_file(u) ==
    /\ MayBorrowMut
    /\ handles[u] # 0
    /\ workers' = WithoutSender(Sending(handles[u], Shutdown), u)
    /\ handles' = [handles EXCEPT ![u] = 0]
    /\ UNCHANGED <<reply, call>>

shutdown ==
    /\ MayBorrowMut
    /\ \E u \in URI : handles[u] # 0
    /\ workers' = [w \in DOMAIN workers |->
                      IF \E u \in URI : handles[u] = w
                        THEN [Sending(w, Shutdown)[w] EXCEPT !.senders = FALSE]
                        ELSE workers[w]]
    /\ handles' = [u \in URI |-> 0]
    /\ UNCHANGED <<reply, call>>

\* The call returns: an answer, WorkerGone if the oneshot's sender was
\* dropped, or FileNotFound.
Return(c) ==
    /\ reply[c].state \in {"sent", "dropped", "not_found"}
    /\ reply' = [reply EXCEPT ![c] = Unused]
    /\ call' = [call EXCEPT ![c] = NoCall]
    /\ UNCHANGED <<workers, handles>>

CallStep(c, u) == \/ hover(c, u)
                  \/ proof_state(c, u)
                  \/ FileNotFound(c, u)
                  \/ \E content \in Content : open_file(c, u, content) \/ update_file(c, u, content)

Work(w) == w \in DOMAIN workers /\ WorkerStep(w) /\ UNCHANGED <<handles, call>>

Next == \/ \E c \in Caller, u \in URI : CallStep(c, u)
        \/ \E u \in URI : close_file(u)
        \/ shutdown
        \/ \E c \in Caller : Return(c)
        \/ \E w \in DOMAIN workers : Work(w)

\* Threads run: a worker that can step does, and a caller whose oneshot is
\* settled wakes up.  Nobody has to make another call.
Fairness == /\ \A w \in 1..MaxWorkers : WF_vars(Work(w))
            /\ \A c \in Caller : WF_vars(Return(c))

Spec == Init /\ [][Next]_vars /\ Fairness
-----------------------------------------------------------------------------
(***************************************************************************)
(* Properties.                                                             *)
(***************************************************************************)
\* The session's bookkeeping is well formed: the map names workers that were
\* spawned for the file it maps, and a channel never exceeds its bound.
TypeOK == /\ Len(workers) <= MaxWorkers
          /\ \A u \in URI : handles[u] # 0 =>
                /\ handles[u] \in DOMAIN workers
                /\ workers[handles[u]].uri = u
                /\ workers[handles[u]].senders
          /\ \A w \in DOMAIN workers :
                /\ workers[w].status \in {"running", "ended", "panicked"}
                /\ Len(workers[w].rx) <= Capacity
                /\ Len(workers[w].handling) <= 1

\* A caller is never forgotten: while its oneshot is pending, exactly one
\* worker holds its command, once, and that worker is still running.
PendingIsHeld ==
    \A c \in Caller : reply[c].state = "pending" =>
        LET w == call[c].worker
            held == workers[w].handling \o workers[w].rx
        IN  /\ workers[w].status = "running"
            /\ Cardinality({i \in DOMAIN held : held[i].reply = c}) = 1
            /\ \A v \in DOMAIN workers \ {w} : c \notin Waiting(v)

\* A check that is answered has been done: the worker the map has for the
\* file holds the text the call came with, with a snapshot for every command.
CheckedWhatWasAsked ==
    \A c \in Caller : (reply[c].state = "sent" /\ call[c].op \in Exclusive) =>
        LET w == handles[call[c].uri] IN
        /\ w = call[c].worker
        /\ workers[w].node.content = call[c].content
        /\ Len(workers[w].node.snapshots) >= Len(workers[w].node.commands)

\* WorkerGone is said only of a worker that panicked or whose channel was
\* full when the command was sent - never because of another file's worker,
\* and never because a file was reopened or closed.
GoneHasAReason ==
    \A c \in Caller : reply[c].state = "dropped" =>
        workers[call[c].worker].status = "panicked" \/ call[c].full

\* Only queries ever find a channel full.
ChecksAreNeverRefused ==
    \A c \in Caller : call[c].op \in Exclusive => ~call[c].full

\* Every call returns.
CallsReturn == \A c \in Caller : (call[c] # NoCall) ~> (call[c] = NoCall)

\* A worker no file is mapped to any more - closed, shut down, or replaced by
\* opening the file again - ends: threads do not pile up.
OrphansEnd == \A w \in 1..MaxWorkers :
    (w \in DOMAIN workers /\ ~workers[w].senders) ~>
        (w \in DOMAIN workers /\ workers[w].status # "running")

=============================================================================
