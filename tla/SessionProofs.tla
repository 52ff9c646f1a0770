---------------------------- MODULE SessionProofs ----------------------------
(***************************************************************************)
(* Proofs about the session and its workers, for every set of files, texts *)
(* and callers, every bound of the channels and any number of workers.     *)
(*                                                                         *)
(* The invariant, SessionOK, ties the callers to the channels: what a      *)
(* worker is handling or has queued is owed to callers that are waiting    *)
(* for it, to each once, unless it is the Shutdown that was sent when      *)
(* nobody was waiting; and a caller that is waiting is waited for          *)
(* somewhere.                                                              *)
(***************************************************************************)
EXTENDS Session, FiniteSetTheorems, SequenceTheorems, TLAPS

IsSeq(s) == \E S : s \in Seq(S)

WorkerFields == {"uri", "node", "check_ctx", "rx", "handling", "senders", "status"}

\* A command in a channel of worker w is what its caller asked and waits for.
Owed(cmd, w, r, cl) ==
    LET c == cmd.reply
    IN  /\ c \in Caller
        /\ r[c] = Pending
        /\ cl[c].worker = w
        /\ cl[c].op \in Exclusive => cmd.kind = "CheckFile"
        /\ cmd.kind = "CheckFile" =>
              cl[c].op \in Exclusive /\ cl[c].content = cmd.content /\ cmd.content \in Content

OwedOnce(x) ==
    /\ \A i, j \in DOMAIN x.rx : x.rx[i].reply = x.rx[j].reply => i = j
    /\ \A i \in DOMAIN x.handling, j \in DOMAIN x.rx : x.handling[i].reply # x.rx[j].reply

Closing(x) == x.rx = <<Shutdown>> /\ x.handling = <<>> /\ ~x.senders

WorkerOK(x, w, r, cl) ==
    /\ DOMAIN x = WorkerFields
    /\ IsSeq(x.rx)
    /\ x.handling = <<>> \/ x.handling = <<x.handling[1]>>
    /\ \A i \in DOMAIN x.handling : Owed(x.handling[i], w, r, cl)
    /\ (\A i \in DOMAIN x.rx : Owed(x.rx[i], w, r, cl)) \/ Closing(x)
    /\ OwedOnce(x)
    /\ x.status # "running" => x.rx = <<>> /\ x.handling = <<>>
    /\ x.senders => x.status \in {"running", "panicked"}

\* Worker x holds a command of caller c.
Holds(x, c) ==
    \/ \E i \in DOMAIN x.handling : x.handling[i].reply = c
    \/ \E i \in DOMAIN x.rx : x.rx[i].reply = c

Checked(x, content) ==
    x.node.content = content /\ Len(x.node.snapshots) >= Len(x.node.commands)

CallerOK(c, ws, r, h, cl) ==
    LET w == cl[c].worker
    IN  /\ r[c].state \in {"unused", "pending", "sent", "dropped", "not_found"}
        /\ r[c].state = "unused" <=> cl[c] = NoCall
        /\ r[c].state = "pending" => r[c] = Pending /\ w \in DOMAIN ws /\ Holds(ws[w], c)
        /\ r[c].state = "dropped" => (w \in DOMAIN ws /\ ws[w].status = "panicked") \/ cl[c].full
        /\ cl[c].op \in Exclusive =>
              /\ ~cl[c].full
              /\ cl[c].uri \in URI /\ h[cl[c].uri] = w
              /\ \A d \in Caller \ {c} : cl[d] = NoCall
              /\ r[c].state = "sent" => w \in DOMAIN ws /\ Checked(ws[w], cl[c].content)

HandleOK(u, ws, h) ==
    h[u] # 0 => h[u] \in DOMAIN ws /\ ws[h[u]].uri = u /\ ws[h[u]].senders

OK(ws, r, h, cl) ==
    /\ IsSeq(ws)
    /\ DOMAIN r = Caller /\ DOMAIN cl = Caller /\ DOMAIN h = URI
    /\ \A w \in DOMAIN ws : WorkerOK(ws[w], w, r, cl)
    /\ \A c \in Caller : CallerOK(c, ws, r, h, cl)
    /\ \A u \in URI : HandleOK(u, ws, h)

SessionOK == OK(workers, reply, handles, call)
-----------------------------------------------------------------------------
(* Sequences. *)

LEMMA SeqFacts ==
  ASSUME NEW s, IsSeq(s)
  PROVE  Len(s) \in Nat /\ DOMAIN s = 1..Len(s)
BY LenProperties DEF IsSeq

LEMMA NoEntries == IsSeq(<<>>) /\ DOMAIN <<>> = {} /\ Len(<<>>) = 0
<1>1. <<>> \in Seq({}) /\ Len(<<>>) = 0
  OBVIOUS
<1>2. DOMAIN <<>> = 1..0
  BY <1>1, LenProperties
<1> QED BY <1>1, <1>2 DEF IsSeq

LEMMA OneEntry ==
  ASSUME NEW x
  PROVE  IsSeq(<<x>>) /\ DOMAIN <<x>> = {1} /\ Len(<<x>>) = 1 /\ <<x>>[1] = x
<1>1. <<x>> \in Seq({x}) /\ Len(<<x>>) = 1
  OBVIOUS
<1>2. DOMAIN <<x>> = 1..1
  BY <1>1, LenProperties
<1>3. <<x>>[1] = x /\ 1..1 = {1}
  OBVIOUS
<1> QED BY <1>1, <1>2, <1>3 DEF IsSeq

LEMMA AppendSeq ==
  ASSUME NEW s, IsSeq(s), NEW x
  PROVE  /\ IsSeq(Append(s, x))
         /\ Len(Append(s, x)) = Len(s) + 1
         /\ DOMAIN Append(s, x) = 1..(Len(s) + 1)
         /\ \A i \in 1..Len(s) : Append(s, x)[i] = s[i]
         /\ Append(s, x)[Len(s) + 1] = x
<1>1. PICK S : s \in Seq(S)
  BY DEF IsSeq
<1>2. s \in Seq(S \cup {x}) /\ x \in S \cup {x}
  BY <1>1, SeqMonotonic
<1>3. Append(s, x) \in Seq(S \cup {x})
  BY <1>2, AppendProperties
<1> QED BY <1>2, <1>3, AppendProperties, LenProperties DEF IsSeq

LEMMA TailSeq ==
  ASSUME NEW s, IsSeq(s), s # <<>>
  PROVE  /\ IsSeq(Tail(s))
         /\ Len(Tail(s)) = Len(s) - 1
         /\ DOMAIN Tail(s) = 1..(Len(s) - 1)
         /\ \A i \in 1..(Len(s) - 1) : i + 1 \in DOMAIN s /\ Tail(s)[i] = s[i + 1]
         /\ Head(s) = s[1] /\ 1 \in DOMAIN s
<1>1. PICK S : s \in Seq(S)
  BY DEF IsSeq
<1>2. /\ Tail(s) \in Seq(S) /\ Len(Tail(s)) = Len(s) - 1 /\ Head(s) = s[1]
      /\ \A i \in 1..Len(Tail(s)) : Tail(s)[i] = s[i + 1]
  BY <1>1, HeadTailProperties
<1>3. Len(s) \in Nat \ {0} /\ DOMAIN s = 1..Len(s) /\ DOMAIN Tail(s) = 1..Len(Tail(s))
  BY <1>1, <1>2, LenProperties, EmptySeq
<1> QED BY <1>2, <1>3 DEF IsSeq

\* A function on 1..n is a sequence.
LEMMA FunctionIsSeq ==
  ASSUME NEW n \in Nat, NEW f, DOMAIN f = 1..n, f = [i \in DOMAIN f |-> f[i]]
  PROVE  IsSeq(f) /\ Len(f) = n
<1> DEFINE S == {f[i] : i \in 1..n}
<1>1. f \in [1..n -> S]
  OBVIOUS
<1>2. f \in Seq(S)
  BY <1>1
<1> QED BY <1>2, LenProperties DEF IsSeq

LEMMA ExceptSeqFacts ==
  ASSUME NEW s, IsSeq(s), NEW i \in DOMAIN s, NEW x
  PROVE  /\ IsSeq([s EXCEPT ![i] = x])
         /\ DOMAIN [s EXCEPT ![i] = x] = DOMAIN s
         /\ \A j \in DOMAIN s : [s EXCEPT ![i] = x][j] = IF j = i THEN x ELSE s[j]
<1>1. PICK S : s \in Seq(S)
  BY DEF IsSeq
<1>2. s \in Seq(S \cup {x}) /\ x \in S \cup {x} /\ i \in 1..Len(s)
  BY <1>1, SeqMonotonic, LenProperties
<1> QED BY <1>2, ExceptSeq, LenProperties DEF IsSeq
-----------------------------------------------------------------------------
(* One worker. *)

LEMMA OwedKept ==
  ASSUME NEW cmd, NEW w, NEW r, NEW cl, NEW r2, NEW cl2, Owed(cmd, w, r, cl),
         r2[cmd.reply] = r[cmd.reply], cl2[cmd.reply] = cl[cmd.reply]
  PROVE  Owed(cmd, w, r2, cl2)
BY DEF Owed

\* What is no command of its own does not disturb a worker.
LEMMA WorkerKept ==
  ASSUME NEW x, NEW w, NEW r, NEW cl, NEW r2, NEW cl2, WorkerOK(x, w, r, cl),
         \A c \in Caller : r[c] = Pending /\ cl[c].worker = w => r2[c] = r[c] /\ cl2[c] = cl[c]
  PROVE  WorkerOK(x, w, r2, cl2)
<1>1. \A cmd : Owed(cmd, w, r, cl) => Owed(cmd, w, r2, cl2)
  BY OwedKept DEF Owed
<1> QED BY <1>1 DEF WorkerOK

LEMMA ShutdownIsOwedToNobody ==
  /\ Shutdown.reply \notin Caller
  /\ \A w, r, cl : ~Owed(Shutdown, w, r, cl)
BY FileWorkerAssumption DEF Shutdown, Nobody, Owed

\* Where nobody waits, the channels are empty but for a Shutdown.
LEMMA Idle ==
  ASSUME NEW x, NEW w, NEW r, NEW cl, WorkerOK(x, w, r, cl), \A c \in Caller : r[c] # Pending
  PROVE  x.handling = <<>> /\ (x.rx = <<>> \/ Closing(x))
<1>1. \A cmd : ~Owed(cmd, w, r, cl)
  BY DEF Owed
<1>2. DOMAIN x.handling = {}
  BY <1>1 DEF WorkerOK
<1>3. x.handling = <<>>
  BY <1>2, OneEntry DEF WorkerOK
<1>4. CASE DOMAIN x.rx = {}
  <2>1. IsSeq(x.rx) /\ Len(x.rx) \in Nat /\ DOMAIN x.rx = 1..Len(x.rx)
    BY SeqFacts DEF WorkerOK
  <2>2. Len(x.rx) = 0
    <3>1. PICK k \in Nat : k = Len(x.rx)
      BY <2>1
    <3>2. 1 \notin 1..k
      BY <1>4, <2>1, <3>1
    <3> QED BY <3>1, <3>2
  <2>3. x.rx = <<>>
    BY <2>1, <2>2, EmptySeq DEF IsSeq
  <2> QED BY <1>3, <2>3
<1>5. CASE DOMAIN x.rx # {}
  BY <1>1, <1>3, <1>5 DEF WorkerOK
<1> QED BY <1>4, <1>5

LEMMA SendersDropped ==
  ASSUME NEW x, NEW w, NEW r, NEW cl, WorkerOK(x, w, r, cl)
  PROVE  LET y == [x EXCEPT !.senders = FALSE]
         IN  /\ WorkerOK(y, w, r, cl)
             /\ y.uri = x.uri /\ y.status = x.status /\ y.senders = FALSE
             /\ y.rx = x.rx /\ y.handling = x.handling
<1> DEFINE y == [x EXCEPT !.senders = FALSE]
<1>1. /\ DOMAIN y = WorkerFields /\ y.uri = x.uri /\ y.status = x.status /\ y.senders = FALSE
      /\ y.rx = x.rx /\ y.handling = x.handling
  BY DEF WorkerOK, WorkerFields
<1> HIDE DEF y
<1>2. Closing(x) => Closing(y)
  BY <1>1 DEF Closing
<1>3. OwedOnce(y)
  BY <1>1 DEF WorkerOK, OwedOnce
<1>4. WorkerOK(y, w, r, cl)
  BY <1>1, <1>2, <1>3 DEF WorkerOK
<1> QED BY <1>1, <1>4 DEF y

\* A worker to which nobody can send and whose channel, empty before, holds a
\* Shutdown.
LEMMA ShutDown ==
  ASSUME NEW x, NEW w, NEW r, NEW cl, WorkerOK(x, w, r, cl), x.rx = <<>>, x.handling = <<>>,
         x.status = "running", NEW y, DOMAIN y = WorkerFields,
         y.rx = <<Shutdown>>, y.handling = <<>>, y.senders = FALSE, y.status = x.status
  PROVE  WorkerOK(y, w, r, cl)
<1>1. IsSeq(y.rx) /\ DOMAIN y.rx = {1} /\ DOMAIN y.handling = {}
  BY OneEntry, NoEntries
<1>2. OwedOnce(y) /\ Closing(y)
  BY <1>1 DEF OwedOnce, Closing
<1> QED BY <1>1, <1>2 DEF WorkerOK

\* A command of a caller that was in no call is queued.
LEMMA Queued ==
  ASSUME NEW x, NEW w, NEW r, NEW cl, WorkerOK(x, w, r, cl), x.senders, x.status = "running",
         NEW cmd, Owed(cmd, w, r, cl), ~Holds(x, cmd.reply), NEW y,
         DOMAIN y = WorkerFields, y.rx = Append(x.rx, cmd), y.handling = x.handling,
         y.senders = x.senders, y.status = x.status
  PROVE  WorkerOK(y, w, r, cl) /\ Holds(y, cmd.reply)
<1> DEFINE n == Len(x.rx)
<1>1. IsSeq(x.rx) /\ n \in Nat /\ DOMAIN x.rx = 1..n
  BY SeqFacts DEF WorkerOK
<1>2. /\ IsSeq(y.rx) /\ DOMAIN y.rx = 1..(n + 1) /\ y.rx[n + 1] = cmd
      /\ \A i \in 1..n : y.rx[i] = x.rx[i]
  BY <1>1, AppendSeq
<1>3. n + 1 \in DOMAIN y.rx /\ \A i \in DOMAIN y.rx : i \in DOMAIN x.rx \/ i = n + 1
  BY <1>1, <1>2
<1> HIDE DEF n
<1>4. \A i \in DOMAIN x.rx : Owed(x.rx[i], w, r, cl)
  BY DEF WorkerOK, Closing
<1>5. \A i \in DOMAIN y.rx : Owed(y.rx[i], w, r, cl)
  BY <1>1, <1>2, <1>3, <1>4
<1>6. OwedOnce(y)
  <2>1. \A i \in DOMAIN x.rx : x.rx[i].reply # cmd.reply
    BY DEF Holds
  <2>2. \A i \in DOMAIN x.handling : x.handling[i].reply # cmd.reply
    BY DEF Holds
  <2>3. \A i, j \in DOMAIN y.rx : y.rx[i].reply = y.rx[j].reply => i = j
    BY <1>1, <1>2, <1>3, <2>1 DEF WorkerOK, OwedOnce
  <2>4. \A i \in DOMAIN y.handling, j \in DOMAIN y.rx : y.handling[i].reply # y.rx[j].reply
    BY <1>1, <1>2, <1>3, <2>2 DEF WorkerOK, OwedOnce
  <2> QED BY <2>3, <2>4 DEF OwedOnce
<1>7. Holds(y, cmd.reply)
  BY <1>2, <1>3 DEF Holds
<1> QED BY <1>2, <1>5, <1>6, <1>7 DEF WorkerOK

\* The worker takes the next command, which is no Shutdown.
LEMMA Received ==
  ASSUME NEW x, NEW w, NEW r, NEW cl, WorkerOK(x, w, r, cl),
         x.status = "running", x.handling = <<>>, x.rx # <<>>, Head(x.rx) # Shutdown,
         NEW y, DOMAIN y = WorkerFields, y.rx = Tail(x.rx), y.handling = <<Head(x.rx)>>,
         y.senders = x.senders, y.status = x.status
  PROVE  WorkerOK(y, w, r, cl) /\ \A c : Holds(x, c) => Holds(y, c)
<1> DEFINE n == Len(x.rx)
<1>1. IsSeq(x.rx) /\ n \in Nat /\ DOMAIN x.rx = 1..n
  BY SeqFacts DEF WorkerOK
<1>2. /\ IsSeq(y.rx) /\ DOMAIN y.rx = 1..(n - 1) /\ Head(x.rx) = x.rx[1] /\ 1 \in DOMAIN x.rx
      /\ \A i \in 1..(n - 1) : i + 1 \in DOMAIN x.rx /\ y.rx[i] = x.rx[i + 1]
  BY <1>1, TailSeq
<1>3. DOMAIN y.handling = {1} /\ y.handling[1] = x.rx[1]
  BY <1>2, OneEntry
<1>4. \A i \in DOMAIN x.rx : Owed(x.rx[i], w, r, cl)
  <2>1. ~Closing(x)
    BY <1>2, OneEntry DEF Closing
  <2> QED BY <2>1 DEF WorkerOK
<1>5. \A i \in DOMAIN y.rx : i + 1 \in DOMAIN x.rx /\ i + 1 # 1 /\ y.rx[i] = x.rx[i + 1]
  BY <1>1, <1>2
<1>6. OwedOnce(y)
  <2>1. \A i, j \in DOMAIN x.rx : x.rx[i].reply = x.rx[j].reply => i = j
    BY DEF WorkerOK, OwedOnce
  <2>2. \A i, j \in DOMAIN y.rx : i + 1 = j + 1 => i = j
    BY <1>1, <1>2
  <2>3. \A i, j \in DOMAIN y.rx : y.rx[i].reply = y.rx[j].reply => i = j
    BY <1>5, <2>1, <2>2
  <2>4. \A i \in DOMAIN y.handling, j \in DOMAIN y.rx : y.handling[i].reply # y.rx[j].reply
    BY <1>2, <1>3, <1>5, <2>1
  <2> QED BY <2>3, <2>4 DEF OwedOnce
<1>7. WorkerOK(y, w, r, cl)
  BY <1>2, <1>3, <1>4, <1>5, <1>6 DEF WorkerOK
<1>8. ASSUME NEW c, Holds(x, c) PROVE Holds(y, c)
  <2>1. PICK i \in DOMAIN x.rx : x.rx[i].reply = c
    BY <1>8, NoEntries DEF Holds
  <2>2. CASE i = 1
    BY <1>3, <2>1, <2>2 DEF Holds
  <2>3. CASE i # 1
    <3>1. i - 1 \in 1..(n - 1) /\ (i - 1) + 1 = i
      BY <1>1, <2>1, <2>3
    <3>2. PICK j : j = i - 1
      OBVIOUS
    <3>3. j \in DOMAIN y.rx /\ y.rx[j] = x.rx[i]
      BY <1>2, <3>1, <3>2
    <3> QED BY <2>1, <3>3 DEF Holds
  <2> QED BY <2>2, <2>3
<1> QED BY <1>7, <1>8

\* The worker is done with the command it was handling.
LEMMA Handled ==
  ASSUME NEW x, NEW w, NEW r, NEW cl, NEW r2, WorkerOK(x, w, r, cl),
         x.handling # <<>>, NEW c, c = x.handling[1].reply,
         \A d \in Caller \ {c} : r2[d] = r[d],
         NEW y, DOMAIN y = WorkerFields, y.rx = x.rx, y.handling = <<>>,
         y.senders = x.senders, y.status = x.status
  PROVE  /\ WorkerOK(y, w, r2, cl)
         /\ Owed(x.handling[1], w, r, cl)
         /\ \A d : d # c /\ Holds(x, d) => Holds(y, d)
<1>1. DOMAIN x.handling = {1} /\ x.handling = <<x.handling[1]>> /\ DOMAIN y.handling = {}
  BY OneEntry, NoEntries DEF WorkerOK
<1>2. Owed(x.handling[1], w, r, cl)
  BY <1>1 DEF WorkerOK
<1>3. ~Closing(x) /\ x.status = "running"
  BY DEF WorkerOK, Closing
<1>4. \A i \in DOMAIN x.rx : Owed(x.rx[i], w, r, cl) /\ x.rx[i].reply # c
  BY <1>1, <1>3 DEF WorkerOK, OwedOnce
<1>5. \A i \in DOMAIN y.rx : Owed(y.rx[i], w, r2, cl)
  <2>1. \A i \in DOMAIN y.rx : y.rx[i].reply \in Caller
    BY <1>4 DEF Owed
  <2> QED BY <1>4, <2>1, OwedKept
<1>6. OwedOnce(y)
  BY <1>1 DEF WorkerOK, OwedOnce
<1>7. WorkerOK(y, w, r2, cl)
  BY <1>1, <1>3, <1>5, <1>6 DEF WorkerOK
<1>8. \A d : d # c /\ Holds(x, d) => Holds(y, d)
  BY <1>1 DEF Holds
<1> QED BY <1>2, <1>7, <1>8
-----------------------------------------------------------------------------
(* What a check leaves in the document. *)

LEMMA ParsedLength ==
  ASSUME NEW content \in Content
  PROVE  Len(parse_commands(content)) \in Nat
<1> DEFINE lines == CommandLines(content)
           f == parse_commands(content)
<1>1. content \in Seq(Source \union {Blank})
  BY FileWorkerAssumption DEF Text
<1>2. Len(content) \in Nat /\ lines \subseteq 1..Len(content)
  BY <1>1, LenProperties DEF CommandLines
<1>3. IsFiniteSet(1..Len(content))
  BY <1>2, FS_Interval
<1>4. IsFiniteSet(lines)
  BY <1>2, <1>3, FS_Subset
<1>5. PICK n \in Nat : n = Cardinality(lines)
  BY <1>4, FS_CardinalityType
<1>6. DOMAIN f = 1..n /\ f = [i \in DOMAIN f |-> f[i]]
  BY <1>5 DEF parse_commands
<1> HIDE DEF f
<1>7. Len(f) = n
  BY <1>6, FunctionIsSeq
<1> QED BY <1>7 DEF f

LEMMA ExecutedAll ==
  ASSUME NEW node, Len(node.commands) \in Nat, NEW ctx,
         DOMAIN node = {"version", "content", "commands", "snapshots"}
  PROVE  LET done == ExecuteRest(node, ctx)
         IN  /\ done.content = node.content /\ done.commands = node.commands
             /\ Len(done.snapshots) = Len(node.commands)
<1> DEFINE c == Contexts(node, ctx)
           f == [i \in 1..Len(node.commands) |->
                    IF i <= Len(node.snapshots) THEN node.snapshots[i]
                    ELSE Snapshot(node.commands[i], node.version, c[i])]
           done == ExecuteRest(node, ctx)
<1>1. done = [node EXCEPT !.snapshots = f]
  BY DEF ExecuteRest
<1>2. Len(f) = Len(node.commands)
  <2>1. PICK n \in Nat : n = Len(node.commands)
    OBVIOUS
  <2>2. DOMAIN f = 1..n /\ f = [i \in DOMAIN f |-> f[i]]
    BY <2>1
  <2> HIDE DEF f
  <2> QED BY <2>1, <2>2, FunctionIsSeq
<1> HIDE DEF f, done
<1>3. done.content = node.content /\ done.commands = node.commands /\ done.snapshots = f
  BY <1>1
<1> QED BY <1>2, <1>3 DEF done

LEMMA CheckedFacts ==
  ASSUME NEW w, DOMAIN workers[w] = WorkerFields, NEW content \in Content
  PROVE  LET y == CheckedWorker(w, content)
         IN  /\ DOMAIN y = WorkerFields /\ Checked(y, content)
             /\ y.uri = workers[w].uri /\ y.rx = workers[w].rx
             /\ y.senders = workers[w].senders /\ y.status = workers[w].status
<1> DEFINE node == Edited(w, content)
           x == workers[w]
           y == CheckedWorker(w, content)
<1>1. /\ DOMAIN node = {"version", "content", "commands", "snapshots"}
      /\ node.content = content /\ Len(node.commands) \in Nat
  <2>1. /\ DOMAIN node = {"version", "content", "commands", "snapshots"}
        /\ node.content = content /\ node.commands = parse_commands(content)
    BY DEF Edited, update_content
  <2> QED BY <2>1, ParsedLength
<1>2. CASE NothingToExecute(node)
  <2>1. y = [x EXCEPT !.node = node]
    BY <1>2 DEF CheckedWorker
  <2> HIDE DEF x, y, node
  <2>2. /\ DOMAIN y = WorkerFields /\ y.node = node /\ y.uri = x.uri /\ y.rx = x.rx
        /\ y.senders = x.senders /\ y.status = x.status
    BY <2>1 DEF x, WorkerFields
  <2> QED BY <1>1, <1>2, <2>2 DEF Checked, NothingToExecute, x, y
<1>3. CASE ~NothingToExecute(node)
  <2> DEFINE done == ExecuteRest(node, x.check_ctx)
             ctx == Contexts(node, x.check_ctx)[Len(node.commands)]
  <2>1. y = [x EXCEPT !.node = done, !.check_ctx = ctx]
    BY <1>3 DEF CheckedWorker
  <2>2. /\ done.content = content /\ Len(done.snapshots) = Len(done.commands)
        /\ Len(done.commands) \in Nat
    <3> HIDE DEF node
    <3>1. /\ done.content = node.content /\ done.commands = node.commands
          /\ Len(done.snapshots) = Len(node.commands)
      BY <1>1, ExecutedAll
    <3> QED BY <1>1, <3>1
  <2> HIDE DEF x, y, node, done, ctx
  <2>3. /\ DOMAIN y = WorkerFields /\ y.node = done /\ y.uri = x.uri /\ y.rx = x.rx
        /\ y.senders = x.senders /\ y.status = x.status
    BY <2>1 DEF x, WorkerFields
  <2>4. Checked(y, content)
    BY <2>2, <2>3 DEF Checked
  <2> QED BY <2>3, <2>4 DEF x, y
<1> QED BY <1>2, <1>3
-----------------------------------------------------------------------------
(* The steps of a worker. *)

\* What a step of worker w, which leaves y, does to the reply of caller d.
LeftAlone(d, y, w, r, r2, cl) ==
    /\ r2[d] = r[d]
    /\ r[d].state = "pending" /\ cl[d].worker = w => Holds(y, d)

Settled(d, y, w, r, r2, cl) ==
    /\ r[d] = Pending
    /\ cl[d].worker = w
    /\ r2[d].state \in {"sent", "dropped"}
    /\ r2[d].state = "dropped" => y.status = "panicked"
    /\ r2[d].state = "sent" /\ cl[d].op \in Exclusive => Checked(y, cl[d].content)

LEMMA WorkerSteps ==
  ASSUME NEW ws, NEW r, NEW h, NEW cl, OK(ws, r, h, cl), NEW w \in DOMAIN ws, NEW y, NEW r2,
         DOMAIN r2 = Caller, WorkerOK(y, w, r2, cl),
         y.uri = ws[w].uri, y.senders = ws[w].senders,
         ws[w].status = "panicked" => y.status = "panicked",
         y.node = ws[w].node \/ \E c \in Caller : r[c] = Pending,
         \A d \in Caller : LeftAlone(d, y, w, r, r2, cl) \/ Settled(d, y, w, r, r2, cl)
  PROVE  OK([ws EXCEPT ![w] = y], r2, h, cl)
<1> DEFINE ws2 == [ws EXCEPT ![w] = y]
<1>1. /\ IsSeq(ws2) /\ DOMAIN ws2 = DOMAIN ws
      /\ \A v \in DOMAIN ws : ws2[v] = IF v = w THEN y ELSE ws[v]
  BY ExceptSeqFacts DEF OK
<1> HIDE DEF ws2
<1>2. \A v \in DOMAIN ws2 : WorkerOK(ws2[v], v, r2, cl)
  <2>1. ASSUME NEW v \in DOMAIN ws, v # w PROVE WorkerOK(ws2[v], v, r2, cl)
    <3>1. WorkerOK(ws[v], v, r, cl)
      BY DEF OK
    <3>2. \A c \in Caller : r[c] = Pending /\ cl[c].worker = v => r2[c] = r[c] /\ cl[c] = cl[c]
      <4> SUFFICES ASSUME NEW c \in Caller, r[c] = Pending, cl[c].worker = v
                   PROVE  r2[c] = r[c]
        OBVIOUS
      <4>1. cl[c].worker # w
        BY <2>1
      <4> QED BY <4>1 DEF LeftAlone, Settled
    <3>3. WorkerOK(ws[v], v, r2, cl)
      BY <3>1, <3>2, WorkerKept
    <3> QED BY <1>1, <2>1, <3>3
  <2> QED BY <1>1, <2>1
<1>3. \A u \in URI : HandleOK(u, ws2, h)
  BY <1>1 DEF OK, HandleOK
<1>4. ASSUME NEW d \in Caller PROVE CallerOK(d, ws2, r2, h, cl)
  <2>1. CallerOK(d, ws, r, h, cl)
    BY DEF OK
  <2>2. \A v \in DOMAIN ws : v \in DOMAIN ws2 /\ (ws[v].status = "panicked" => ws2[v].status = "panicked")
    BY <1>1
  <2>3. CASE LeftAlone(d, y, w, r, r2, cl)
    <3>0. r2[d] = r[d] /\ (r[d].state = "pending" /\ cl[d].worker = w => Holds(y, d))
      BY <2>3 DEF LeftAlone
    <3>1. r[d].state = "pending" => Holds(ws2[cl[d].worker], d)
      BY <1>1, <2>1, <3>0 DEF CallerOK
    <3>2. ASSUME r[d].state = "sent", cl[d].op \in Exclusive
          PROVE  ws2[cl[d].worker].node = ws[cl[d].worker].node
      <4>1. \A c \in Caller \ {d} : cl[c] = NoCall
        BY <2>1, <3>2 DEF CallerOK
      <4>2. \A c \in Caller : cl[c] = NoCall => r[c].state = "unused"
        BY DEF OK, CallerOK
      <4>3. \A c \in Caller : r[c] # Pending
        BY <4>1, <4>2, <3>2 DEF Pending
      <4> QED BY <1>1, <2>1, <3>2, <4>3 DEF CallerOK
    <3>3. cl[d].worker \in DOMAIN ws /\ Checked(ws[cl[d].worker], cl[d].content)
             /\ r[d].state = "sent" /\ cl[d].op \in Exclusive
          => cl[d].worker \in DOMAIN ws2 /\ Checked(ws2[cl[d].worker], cl[d].content)
      BY <2>2, <3>2 DEF Checked
    <3> QED BY <2>1, <2>2, <3>0, <3>1, <3>3 DEF CallerOK
  <2>4. CASE Settled(d, y, w, r, r2, cl)
    <3>1. r[d].state = "pending" /\ cl[d] # NoCall
      BY <2>1, <2>4 DEF CallerOK, Pending, Settled
    <3>2. w \in DOMAIN ws2 /\ ws2[w] = y
      BY <1>1
    <3> QED BY <2>1, <2>4, <3>1, <3>2 DEF CallerOK, Settled
  <2> QED BY <2>3, <2>4
<1>5. OK(ws2, r2, h, cl)
  BY <1>1, <1>2, <1>3, <1>4 DEF OK
<1> QED BY <1>5 DEF ws2

LEMMA Parts ==
  ASSUME SessionOK
  PROVE  /\ OK(workers, reply, handles, call)
         /\ IsSeq(workers)
         /\ DOMAIN reply = Caller /\ DOMAIN call = Caller /\ DOMAIN handles = URI
         /\ \A w \in DOMAIN workers : WorkerOK(workers[w], w, reply, call)
         /\ \A c \in Caller : CallerOK(c, workers, reply, handles, call)
         /\ \A u \in URI : HandleOK(u, workers, handles)
BY DEF SessionOK, OK

LEMMA ReceiveKeeps ==
  ASSUME SessionOK, NEW w \in DOMAIN workers, Receive(w), UNCHANGED <<handles, call>>
  PROVE  SessionOK'
<1> DEFINE x == workers[w]
           y == [x EXCEPT !.rx = Tail(x.rx), !.handling = <<Head(x.rx)>>]
<1>1. WorkerOK(x, w, reply, call)
  BY Parts
<1>2. x.status = "running" /\ x.handling = <<>> /\ x.rx # <<>> /\ Head(x.rx) # Shutdown
  BY DEF Receive
<1>3. /\ DOMAIN y = WorkerFields /\ y.rx = Tail(x.rx) /\ y.handling = <<Head(x.rx)>>
      /\ y.senders = x.senders /\ y.status = x.status /\ y.uri = x.uri /\ y.node = x.node
  <2> HIDE DEF x
  <2> QED BY <1>1 DEF WorkerOK, WorkerFields
<1>4. workers' = [workers EXCEPT ![w] = y] /\ reply' = reply
  BY DEF Receive
<1> HIDE DEF y
<1>5. WorkerOK(y, w, reply, call) /\ \A c : Holds(x, c) => Holds(y, c)
  <2> HIDE DEF x
  <2> QED BY <1>1, <1>2, <1>3, Received
<1>6. ASSUME NEW d \in Caller PROVE LeftAlone(d, y, w, reply, reply, call)
  BY <1>5, Parts DEF LeftAlone, CallerOK
<1>7. OK([workers EXCEPT ![w] = y], reply, handles, call)
  BY <1>2, <1>3, <1>5, <1>6, Parts, WorkerSteps
<1> QED BY <1>4, <1>7 DEF SessionOK

\* CheckFile, Hover and ProofState: the caller of the command gets an answer.
LEMMA AnswerKeeps ==
  ASSUME SessionOK, NEW w \in DOMAIN workers, workers[w].handling # <<>>,
         NEW c, c = workers[w].handling[1].reply, NEW value, NEW y,
         DOMAIN y = WorkerFields, y.rx = workers[w].rx, y.handling = <<>>,
         y.senders = workers[w].senders, y.status = workers[w].status, y.uri = workers[w].uri,
         call[c].op \in Exclusive => Checked(y, call[c].content)
  PROVE  /\ OK([workers EXCEPT ![w] = y], [reply EXCEPT ![c] = Sent(value)], handles, call)
         /\ Owed(workers[w].handling[1], w, reply, call)
<1> DEFINE x == workers[w]
           r2 == [reply EXCEPT ![c] = Sent(value)]
<1>1. WorkerOK(x, w, reply, call) /\ DOMAIN reply = Caller
  BY Parts
<1>2. DOMAIN r2 = Caller /\ \A d \in Caller : r2[d] = IF d = c THEN Sent(value) ELSE reply[d]
  BY <1>1
<1> HIDE DEF r2
<1>3. /\ WorkerOK(y, w, r2, call) /\ Owed(x.handling[1], w, reply, call)
      /\ \A d : d # c /\ Holds(x, d) => Holds(y, d)
  <2>1. \A d \in Caller \ {c} : r2[d] = reply[d]
    BY <1>2
  <2> QED BY <1>1, <2>1, Handled
<1>4. c \in Caller /\ reply[c] = Pending /\ call[c].worker = w
  BY <1>3 DEF Owed
<1>5. ASSUME NEW d \in Caller
      PROVE  LeftAlone(d, y, w, reply, r2, call) \/ Settled(d, y, w, reply, r2, call)
  <2>1. CASE d = c
    <3>1. r2[d].state = "sent"
      BY <1>2, <2>1 DEF Sent
    <3> QED BY <1>4, <2>1, <3>1 DEF Settled
  <2>2. CASE d # c
    <3>1. reply[d].state = "pending" /\ call[d].worker = w => Holds(x, d)
      BY Parts DEF CallerOK
    <3> QED BY <1>2, <1>3, <2>2, <3>1 DEF LeftAlone
  <2> QED BY <2>1, <2>2
<1>6. x.status = "panicked" => y.status = "panicked"
  OBVIOUS
<1>7. \E d \in Caller : reply[d] = Pending
  BY <1>4
<1>8. OK([workers EXCEPT ![w] = y], r2, handles, call)
  BY <1>2, <1>3, <1>5, <1>6, <1>7, Parts, WorkerSteps
<1> QED BY <1>3, <1>8 DEF r2

LEMMA QueryKeeps ==
  ASSUME SessionOK, NEW w \in DOMAIN workers, Hover(w) \/ ProofState(w),
         UNCHANGED <<handles, call>>
  PROVE  SessionOK'
<1> DEFINE x == workers[w]
           c == x.handling[1].reply
           y == [x EXCEPT !.handling = <<>>]
<1>1. WorkerOK(x, w, reply, call) /\ x.handling # <<>> /\ x.handling[1].kind # "CheckFile"
  BY Parts DEF Hover, ProofState
<1>2. /\ DOMAIN y = WorkerFields /\ y.rx = x.rx /\ y.handling = <<>>
      /\ y.senders = x.senders /\ y.status = x.status /\ y.uri = x.uri
  <2> HIDE DEF x
  <2> QED BY <1>1 DEF WorkerOK, WorkerFields
<1>3. call[c].op \notin Exclusive
  <2>1. Owed(x.handling[1], w, reply, call)
    BY <1>1, OneEntry DEF WorkerOK
  <2> QED BY <1>1, <2>1 DEF Owed
<1>4. PICK value : reply' = [reply EXCEPT ![c] = Sent(value)]
  BY DEF Hover, ProofState
<1>5. workers' = [workers EXCEPT ![w] = y]
  BY DEF Hover, ProofState
<1> HIDE DEF y
<1>6. OK([workers EXCEPT ![w] = y], [reply EXCEPT ![c] = Sent(value)], handles, call)
  BY <1>1, <1>2, <1>3, AnswerKeeps
<1> QED BY <1>4, <1>5, <1>6 DEF SessionOK

LEMMA CheckFileKeeps ==
  ASSUME SessionOK, NEW w \in DOMAIN workers, CheckFile(w), UNCHANGED <<handles, call>>
  PROVE  SessionOK'
<1> DEFINE x == workers[w]
           cmd == x.handling[1]
           c == cmd.reply
           z == CheckedWorker(w, cmd.content)
           y == [z EXCEPT !.handling = <<>>]
<1>1. WorkerOK(x, w, reply, call) /\ x.handling # <<>> /\ cmd.kind = "CheckFile"
  BY Parts DEF CheckFile
<1>2. call[c].content = cmd.content /\ cmd.content \in Content
  <2>1. Owed(cmd, w, reply, call)
    BY <1>1, OneEntry DEF WorkerOK
  <2> QED BY <1>1, <2>1 DEF Owed
<1>3. /\ DOMAIN z = WorkerFields /\ Checked(z, cmd.content)
      /\ z.uri = x.uri /\ z.rx = x.rx /\ z.senders = x.senders /\ z.status = x.status
  <2>1. DOMAIN workers[w] = WorkerFields
    BY <1>1 DEF WorkerOK
  <2>2. PICK content \in Content : content = cmd.content
    BY <1>2
  <2> QED BY <2>1, <2>2, CheckedFacts
<1>4. /\ DOMAIN y = WorkerFields /\ y.rx = x.rx /\ y.handling = <<>>
      /\ y.senders = x.senders /\ y.status = x.status /\ y.uri = x.uri /\ y.node = z.node
  <2> HIDE DEF x, z
  <2> QED BY <1>3 DEF WorkerFields
<1>5. Checked(y, call[c].content)
  <2> HIDE DEF x, y, z
  <2> QED BY <1>2, <1>3, <1>4 DEF Checked
<1>6. PICK value : reply' = [reply EXCEPT ![c] = Sent(value)]
  BY DEF CheckFile
<1>7. workers' = [workers EXCEPT ![w] = y]
  BY DEF CheckFile
<1> HIDE DEF y, z
<1>8. OK([workers EXCEPT ![w] = y], [reply EXCEPT ![c] = Sent(value)], handles, call)
  BY <1>1, <1>4, <1>5, AnswerKeeps
<1> QED BY <1>6, <1>7, <1>8 DEF SessionOK

LEMMA GoneKeeps ==
  ASSUME SessionOK, NEW w \in DOMAIN workers, NEW status, Gone(w, status),
         UNCHANGED <<handles, call>>,
         \/ status = "panicked"
         \/ /\ status = "ended" /\ ~workers[w].senders
            /\ workers[w].status = "running" /\ workers[w].handling = <<>>
            /\ workers[w].rx = <<>> \/ Closing(workers[w])
  PROVE  SessionOK'
<1> DEFINE x == workers[w]
           y == [x EXCEPT !.rx = <<>>, !.handling = <<>>, !.status = status]
           r2 == [c \in Caller |-> IF c \in Waiting(w) THEN Dropped ELSE reply[c]]
<1>1. WorkerOK(x, w, reply, call)
  BY Parts
<1>2. /\ DOMAIN y = WorkerFields /\ y.rx = <<>> /\ y.handling = <<>> /\ y.status = status
      /\ y.senders = x.senders /\ y.uri = x.uri /\ y.node = x.node
  <2> HIDE DEF x
  <2> QED BY <1>1 DEF WorkerOK, WorkerFields
<1>3. workers' = [workers EXCEPT ![w] = y] /\ reply' = r2
  BY DEF Gone
<1>4. DOMAIN r2 = Caller /\ \A c \in Caller : r2[c] = IF c \in Waiting(w) THEN Dropped ELSE reply[c]
  OBVIOUS
<1> HIDE DEF y, r2
<1>5. \A c : c \in Waiting(w) <=> Holds(x, c)
  BY DEF Waiting, Holds, ToSet
<1>6. WorkerOK(y, w, r2, call)
  BY <1>2, NoEntries DEF WorkerOK, OwedOnce
<1>7. ASSUME NEW d \in Caller
      PROVE  LeftAlone(d, y, w, reply, r2, call) \/ Settled(d, y, w, reply, r2, call)
  <2>1. CASE Holds(x, d)
    <3>1. Owed(x.handling[1], w, reply, call) \/ x.handling = <<>>
      BY <1>1, OneEntry DEF WorkerOK
    <3>2. ~Closing(x)
      BY <2>1, OneEntry, NoEntries, ShutdownIsOwedToNobody DEF Holds, Closing
    <3>3. status = "panicked"
      BY <2>1, <3>2, NoEntries DEF Holds
    <3>4. reply[d] = Pending /\ call[d].worker = w
      BY <1>1, <2>1, <3>2 DEF WorkerOK, Owed, Holds
    <3>5. r2[d].state = "dropped"
      BY <1>4, <1>5, <2>1 DEF Dropped
    <3> QED BY <1>2, <3>3, <3>4, <3>5 DEF Settled
  <2>2. CASE ~Holds(x, d)
    <3>1. r2[d] = reply[d]
      BY <1>4, <1>5, <2>2
    <3>2. ~(reply[d].state = "pending" /\ call[d].worker = w)
      BY <2>2, Parts DEF CallerOK
    <3> QED BY <3>1, <3>2 DEF LeftAlone
  <2> QED BY <2>1, <2>2
<1>8. x.status = "panicked" => y.status = "panicked"
  BY <1>2
<1>9. OK([workers EXCEPT ![w] = y], r2, handles, call)
  BY <1>2, <1>4, <1>6, <1>7, <1>8, Parts, WorkerSteps
<1> QED BY <1>3, <1>9 DEF SessionOK

LEMMA WorkKeeps ==
  ASSUME SessionOK, NEW w, Work(w)
  PROVE  SessionOK'
<1>1. w \in DOMAIN workers /\ WorkerStep(w) /\ UNCHANGED <<handles, call>>
  BY DEF Work
<1>2. CASE Receive(w)
  BY <1>1, <1>2, ReceiveKeeps
<1>3. CASE CheckFile(w)
  BY <1>1, <1>3, CheckFileKeeps
<1>4. CASE Hover(w) \/ ProofState(w)
  BY <1>1, <1>4, QueryKeeps
<1>5. CASE Panic(w)
  BY <1>1, <1>5, GoneKeeps DEF Panic
<1>6. CASE Stop(w)
  <2>1. WorkerOK(workers[w], w, reply, call) /\ IsSeq(workers[w].rx)
    BY <1>1, Parts DEF WorkerOK
  <2>2. workers[w].rx # <<>> /\ Head(workers[w].rx) = Shutdown
    BY <1>6 DEF Stop
  <2>3. 1 \in DOMAIN workers[w].rx /\ workers[w].rx[1] = Shutdown
    BY <2>1, <2>2, TailSeq
  <2>4. Closing(workers[w])
    BY <2>1, <2>3, ShutdownIsOwedToNobody DEF WorkerOK
  <2>5. /\ Gone(w, "ended") /\ workers[w].status = "running"
        /\ workers[w].handling = <<>> /\ ~workers[w].senders
    BY <1>6, <2>4 DEF Stop, Closing
  <2> QED BY <1>1, <2>4, <2>5, GoneKeeps
<1>7. CASE Disconnected(w)
  BY <1>1, <1>7, GoneKeeps DEF Disconnected
<1> QED BY <1>1, <1>2, <1>3, <1>4, <1>5, <1>6, <1>7 DEF WorkerStep
-----------------------------------------------------------------------------
(* The steps of the callers. *)

LEMMA HeldIsPending ==
  ASSUME NEW x, NEW w, NEW r, NEW cl, WorkerOK(x, w, r, cl), NEW c \in Caller, Holds(x, c)
  PROVE  r[c] = Pending /\ cl[c].worker = w
<1>1. ~Closing(x)
  BY OneEntry, NoEntries, ShutdownIsOwedToNobody DEF Holds, Closing
<1> QED BY <1>1 DEF WorkerOK, Holds, Owed

\* A caller that is in no call waits for nothing, whatever the workers do.
LEMMA InNoCall ==
  ASSUME NEW d \in Caller, NEW ws, NEW r, NEW h, NEW cl, cl[d] = NoCall, r[d].state = "unused"
  PROVE  CallerOK(d, ws, r, h, cl)
BY DEF CallerOK, NoCall, Exclusive

LEMMA NobodyWaits ==
  ASSUME SessionOK, MayBorrowMut
  PROVE  \A c \in Caller : call[c] = NoCall /\ reply[c].state = "unused" /\ reply[c] # Pending
<1>1. \A c \in Caller : call[c] = NoCall
  BY DEF MayBorrowMut
<1>2. \A c \in Caller : reply[c].state = "unused"
  BY <1>1, Parts DEF CallerOK
<1> QED BY <1>1, <1>2 DEF Pending

\* A call of c that leaves the workers of the others as they are: none gets
\* another status, document, file or sender, and none loses a command.
SameWorkers(ws, ws2) ==
    /\ IsSeq(ws2) /\ DOMAIN ws2 = DOMAIN ws
    /\ \A v \in DOMAIN ws :
          /\ ws2[v].status = ws[v].status /\ ws2[v].node = ws[v].node
          /\ ws2[v].uri = ws[v].uri /\ ws2[v].senders = ws[v].senders
          /\ \A d : Holds(ws[v], d) => Holds(ws2[v], d)

LEMMA CallerSteps ==
  ASSUME NEW ws, NEW r, NEW h, NEW cl, OK(ws, r, h, cl), NEW c \in Caller,
         NEW ws2, NEW r2, NEW cl2, SameWorkers(ws, ws2),
         DOMAIN r2 = Caller, DOMAIN cl2 = Caller,
         \A d \in Caller \ {c} : r2[d] = r[d] /\ cl2[d] = cl[d],
         cl2[c] = NoCall \/ \A d \in Caller \ {c} : cl[d].op \notin Exclusive,
         \A v \in DOMAIN ws2 : WorkerOK(ws2[v], v, r2, cl2),
         CallerOK(c, ws2, r2, h, cl2)
  PROVE  OK(ws2, r2, h, cl2)
<1>1. \A u \in URI : HandleOK(u, ws2, h)
  BY DEF OK, HandleOK, SameWorkers
<1>2. ASSUME NEW d \in Caller, d # c PROVE CallerOK(d, ws2, r2, h, cl2)
  <2>1. CallerOK(d, ws, r, h, cl) /\ r2[d] = r[d] /\ cl2[d] = cl[d]
    BY <1>2 DEF OK
  <2>2. /\ r2[d].state = "pending" => cl2[d].worker \in DOMAIN ws2 /\ Holds(ws2[cl2[d].worker], d)
        /\ r2[d].state = "dropped" =>
              (cl2[d].worker \in DOMAIN ws2 /\ ws2[cl2[d].worker].status = "panicked") \/ cl2[d].full
    BY <2>1 DEF CallerOK, SameWorkers
  <2>3. \A v \in DOMAIN ws : \A content :
           Checked(ws[v], content) => v \in DOMAIN ws2 /\ Checked(ws2[v], content)
    BY DEF Checked, SameWorkers
  <2>4. cl[d].op \in Exclusive => \A e \in Caller \ {d} : cl2[e] = NoCall
    <3> SUFFICES ASSUME cl[d].op \in Exclusive, NEW e \in Caller \ {d} PROVE cl2[e] = NoCall
      OBVIOUS
    <3>1. cl[e] = NoCall
      BY <2>1 DEF CallerOK
    <3>2. CASE e = c
      BY <1>2, <3>2
    <3>3. CASE e # c
      BY <3>1, <3>3
    <3> QED BY <3>2, <3>3
  <2> QED BY <2>1, <2>2, <2>3, <2>4 DEF CallerOK
<1> QED BY <1>1, <1>2 DEF OK, SameWorkers

LEMMA Unchanged_SameWorkers == ASSUME NEW ws, IsSeq(ws) PROVE SameWorkers(ws, ws)
BY DEF SameWorkers

LEMMA ReturnKeeps ==
  ASSUME SessionOK, NEW c \in Caller, Return(c)
  PROVE  SessionOK'
<1> DEFINE r2 == [reply EXCEPT ![c] = Unused]
           cl2 == [call EXCEPT ![c] = NoCall]
<1>1. /\ DOMAIN r2 = Caller /\ DOMAIN cl2 = Caller /\ r2[c] = Unused /\ cl2[c] = NoCall
      /\ \A d \in Caller \ {c} : r2[d] = reply[d] /\ cl2[d] = call[d]
  BY Parts
<1>2. reply[c] # Pending /\ reply' = r2 /\ call' = cl2 /\ UNCHANGED <<workers, handles>>
  BY DEF Return, Pending
<1> HIDE DEF r2, cl2
<1>3. ASSUME NEW v \in DOMAIN workers PROVE WorkerOK(workers[v], v, r2, cl2)
  <2>1. WorkerOK(workers[v], v, reply, call)
    BY Parts
  <2> QED BY <1>1, <1>2, <2>1, WorkerKept
<1>4. CallerOK(c, workers, r2, handles, cl2)
  <2>1. r2[c].state = "unused"
    BY <1>1 DEF Unused
  <2> QED BY <1>1, <2>1, InNoCall
<1>5. OK(workers, r2, handles, cl2)
  <2>1. SameWorkers(workers, workers)
    BY Parts, Unchanged_SameWorkers
  <2> QED BY <1>1, <1>3, <1>4, <2>1, Parts, CallerSteps
<1> QED BY <1>2, <1>5 DEF SessionOK

LEMMA NotFoundKeeps ==
  ASSUME SessionOK, NEW c \in Caller, NEW u, FileNotFound(c, u)
  PROVE  SessionOK'
<1> DEFINE r2 == [reply EXCEPT ![c] = NotFound]
           k == [NoCall EXCEPT !.op = "not_found", !.uri = u]
           cl2 == [call EXCEPT ![c] = k]
<1>0. k.op = "not_found" /\ k # NoCall
  <2>1. k.op = "not_found"
    BY DEF NoCall
  <2> HIDE DEF k
  <2> QED BY <2>1 DEF NoCall
<1> HIDE DEF k
<1>1. /\ DOMAIN r2 = Caller /\ DOMAIN cl2 = Caller /\ r2[c] = NotFound /\ cl2[c] = k
      /\ \A d \in Caller \ {c} : r2[d] = reply[d] /\ cl2[d] = call[d]
  BY Parts
<1>2. /\ call[c] = NoCall /\ \A d \in Caller : call[d].op \notin Exclusive
      /\ reply' = r2 /\ call' = cl2 /\ UNCHANGED <<workers, handles>>
  BY DEF FileNotFound, MayBorrow, k
<1> HIDE DEF r2, cl2
<1>3. reply[c] # Pending
  BY <1>2, Parts DEF CallerOK, Pending
<1>4. ASSUME NEW v \in DOMAIN workers PROVE WorkerOK(workers[v], v, r2, cl2)
  <2>1. WorkerOK(workers[v], v, reply, call)
    BY Parts
  <2> QED BY <1>1, <1>3, <2>1, WorkerKept
<1>5. CallerOK(c, workers, r2, handles, cl2)
  BY <1>0, <1>1 DEF CallerOK, NotFound, Exclusive
<1>6. OK(workers, r2, handles, cl2)
  <2>1. SameWorkers(workers, workers)
    BY Parts, Unchanged_SameWorkers
  <2> QED BY <1>1, <1>2, <1>4, <1>5, <2>1, Parts, CallerSteps
<1> QED BY <1>2, <1>6 DEF SessionOK

\* hover, proof_state and update_file: the command is queued, or refused.
LEMMA AskKeeps ==
  ASSUME SessionOK, NEW c \in Caller, NEW u \in URI, NEW op, NEW kind, NEW content,
         Ask(c, u, op, Command(kind, content, c)),
         call[c] = NoCall, \A d \in Caller : call[d].op \notin Exclusive,
         op # "none",
         op \in Exclusive => MayBorrowMut /\ kind = "CheckFile" /\ content \in Content,
         op \notin Exclusive => kind # "CheckFile"
  PROVE  SessionOK'
<1> DEFINE w == handles[u]
           x == workers[w]
           cmd == Command(kind, content, c)
           full == Len(x.rx) >= Capacity
           k == [op |-> op, uri |-> u, content |-> content, worker |-> w, full |-> full]
           rc == IF Accepts(w) THEN Pending ELSE Dropped
           r2 == [reply EXCEPT ![c] = rc]
           cl2 == [call EXCEPT ![c] = k]
           ws2 == Sending(w, cmd)
<1>1. /\ DOMAIN r2 = Caller /\ DOMAIN cl2 = Caller /\ r2[c] = rc /\ cl2[c] = k
      /\ \A d \in Caller \ {c} : r2[d] = reply[d] /\ cl2[d] = call[d]
  BY Parts
<1>2. cmd.kind = kind /\ cmd.content = content /\ cmd.reply = c
  BY DEF Command
<1>3. w # 0 /\ workers' = ws2 /\ reply' = r2 /\ call' = cl2 /\ handles' = handles
  BY <1>2 DEF Ask
<1>4. k.op = op /\ k.uri = u /\ k.content = content /\ k.worker = w /\ k.full = full
  OBVIOUS
<1>5. k # NoCall
  <2> HIDE DEF k
  <2> QED BY <1>4 DEF NoCall
<1> HIDE DEF r2, cl2, ws2, k, rc, cmd
<1>6. w \in DOMAIN workers /\ WorkerOK(x, w, reply, call) /\ x.senders
  BY <1>3, Parts DEF HandleOK
<1>7. x.status \in {"running", "panicked"} /\ IsSeq(x.rx) /\ Len(x.rx) \in Nat
  BY <1>6, SeqFacts DEF WorkerOK
<1>8. reply[c].state = "unused" /\ reply[c] # Pending
  BY Parts DEF CallerOK, Pending
<1>9. ASSUME NEW v \in DOMAIN workers PROVE WorkerOK(workers[v], v, r2, cl2)
  <2>1. WorkerOK(workers[v], v, reply, call)
    BY Parts
  <2> QED BY <1>1, <1>8, <2>1, WorkerKept
<1>10. op \in Exclusive => ~full
  <2> SUFFICES ASSUME op \in Exclusive PROVE ~full
    OBVIOUS
  <2>1. \A d \in Caller : reply[d] # Pending
    BY NobodyWaits
  <2>2. x.rx = <<>>
    BY <1>6, <2>1, Idle DEF Closing
  <2> QED BY <2>2, NoEntries, FileWorkerAssumption
<1>11. op \in Exclusive => \A d \in Caller \ {c} : cl2[d] = NoCall
  BY <1>1 DEF MayBorrowMut
<1>12. CASE Accepts(w)
  <2> DEFINE y == [x EXCEPT !.rx = Append(x.rx, cmd)]
  <2>1. /\ DOMAIN y = WorkerFields /\ y.rx = Append(x.rx, cmd) /\ y.handling = x.handling
        /\ y.senders = x.senders /\ y.status = x.status /\ y.uri = x.uri /\ y.node = x.node
    <3> HIDE DEF x
    <3> QED BY <1>6 DEF WorkerOK, WorkerFields
  <2>2. ws2 = [workers EXCEPT ![w] = y]
    BY <1>12 DEF ws2, Sending
  <2> HIDE DEF y
  <2>3. rc = Pending /\ x.status = "running"
    BY <1>12 DEF rc, Accepts
  <2>4. Owed(cmd, w, r2, cl2)
    BY <1>1, <1>2, <1>4, <2>3 DEF Owed
  <2>5. ~Holds(x, cmd.reply)
    BY <1>2, <1>6, <1>8, HeldIsPending
  <2>6. WorkerOK(y, w, r2, cl2) /\ Holds(y, c)
    <3>1. WorkerOK(x, w, r2, cl2)
      BY <1>6, <1>9
    <3> HIDE DEF x
    <3> QED BY <1>2, <1>6, <2>1, <2>3, <2>4, <2>5, <3>1, Queued
  <2>7. \A d : Holds(x, d) => Holds(y, d)
    <3>1. /\ DOMAIN x.rx = 1..Len(x.rx) /\ DOMAIN y.rx = 1..(Len(x.rx) + 1)
          /\ \A i \in 1..Len(x.rx) : y.rx[i] = x.rx[i]
      BY <1>7, <2>1, AppendSeq, SeqFacts
    <3>2. \A i \in DOMAIN x.rx : i \in DOMAIN y.rx /\ y.rx[i] = x.rx[i]
      BY <1>7, <3>1
    <3> QED BY <2>1, <3>2 DEF Holds
  <2>8. /\ IsSeq(ws2) /\ DOMAIN ws2 = DOMAIN workers
        /\ \A v \in DOMAIN workers : ws2[v] = IF v = w THEN y ELSE workers[v]
    BY <1>6, <2>2, Parts, ExceptSeqFacts
  <2>9. SameWorkers(workers, ws2)
    BY <2>1, <2>7, <2>8 DEF SameWorkers
  <2>10. \A v \in DOMAIN ws2 : WorkerOK(ws2[v], v, r2, cl2)
    BY <1>9, <2>6, <2>8
  <2>11. CallerOK(c, ws2, r2, handles, cl2)
    <3>1. r2[c] = Pending /\ r2[c].state = "pending" /\ w \in DOMAIN ws2 /\ Holds(ws2[w], c)
      BY <1>1, <1>6, <2>3, <2>6, <2>8 DEF Pending
    <3> QED BY <1>1, <1>4, <1>5, <1>10, <1>11, <3>1 DEF CallerOK
  <2>12. OK(ws2, r2, handles, cl2)
    BY <1>1, <2>9, <2>10, <2>11, Parts, CallerSteps
  <2> QED BY <1>3, <2>12 DEF SessionOK
<1>13. CASE ~Accepts(w)
  <2>1. ws2 = workers /\ rc = Dropped
    BY <1>13 DEF ws2, Sending, rc
  <2>2. x.status = "panicked" \/ full
    BY <1>7, <1>13, FileWorkerAssumption DEF Accepts
  <2>3. CallerOK(c, ws2, r2, handles, cl2)
    <3>1. r2[c].state = "dropped"
      BY <1>1, <2>1 DEF Dropped
    <3> QED BY <1>1, <1>4, <1>5, <1>6, <1>10, <1>11, <2>1, <2>2, <3>1 DEF CallerOK
  <2>4. SameWorkers(workers, ws2)
    BY <2>1, Parts, Unchanged_SameWorkers
  <2>5. OK(ws2, r2, handles, cl2)
    BY <1>1, <1>9, <2>1, <2>3, <2>4, Parts, CallerSteps
  <2> QED BY <1>3, <2>5 DEF SessionOK
<1> QED BY <1>12, <1>13

LEMMA CallsKeep ==
  ASSUME SessionOK, NEW c \in Caller, NEW u \in URI,
         \/ hover(c, u)
         \/ proof_state(c, u)
         \/ \E content \in Content : update_file(c, u, content)
  PROVE  SessionOK'
<1>1. CASE hover(c, u)
  BY <1>1, AskKeeps DEF hover, MayBorrow, Exclusive
<1>2. CASE proof_state(c, u)
  BY <1>2, AskKeeps DEF proof_state, MayBorrow, Exclusive
<1>3. ASSUME NEW content \in Content, update_file(c, u, content)
      PROVE  SessionOK'
  <2>1. /\ MayBorrowMut /\ call[c] = NoCall
        /\ Ask(c, u, "update_file", Command("CheckFile", content, c))
    BY <1>3 DEF update_file, MayBorrowMut
  <2>2. \A d \in Caller : call[d].op \notin Exclusive
    BY <2>1 DEF MayBorrowMut, NoCall, Exclusive
  <2> QED BY <2>1, <2>2, AskKeeps DEF Exclusive
<1> QED BY <1>1, <1>2, <1>3

\* close_file and shutdown: the worker of a handle, when nobody waits.
Closed(x) ==
    [(IF x.status = "running" /\ Len(x.rx) < Capacity
        THEN [x EXCEPT !.rx = Append(x.rx, Shutdown)]
        ELSE x) EXCEPT !.senders = FALSE]

LEMMA ClosedFacts ==
  ASSUME NEW x, NEW w, NEW r, NEW cl, WorkerOK(x, w, r, cl), x.senders,
         \A c \in Caller : r[c] # Pending
  PROVE  WorkerOK(Closed(x), w, r, cl)
<1>1. x.rx = <<>> /\ x.handling = <<>> /\ DOMAIN x = WorkerFields
  BY Idle DEF Closing, WorkerOK
<1>2. Len(x.rx) < Capacity
  BY <1>1, NoEntries, FileWorkerAssumption
<1>3. CASE x.status = "running"
  <2> DEFINE y == [[x EXCEPT !.rx = Append(x.rx, Shutdown)] EXCEPT !.senders = FALSE]
  <2>1. Append(<<>>, Shutdown) = <<Shutdown>>
    OBVIOUS
  <2>2. /\ DOMAIN y = WorkerFields /\ y.rx = Append(x.rx, Shutdown) /\ y.handling = x.handling
        /\ y.senders = FALSE /\ y.status = x.status
    BY <1>1 DEF WorkerFields
  <2>3. Closed(x) = y
    BY <1>2, <1>3 DEF Closed
  <2> HIDE DEF y
  <2>4. y.rx = <<Shutdown>> /\ y.handling = <<>>
    BY <1>1, <2>1, <2>2
  <2>5. WorkerOK(y, w, r, cl)
    BY <1>1, <1>3, <2>2, <2>4, ShutDown
  <2> QED BY <2>3, <2>5
<1>4. CASE x.status # "running"
  <2>1. Closed(x) = [x EXCEPT !.senders = FALSE]
    BY <1>4 DEF Closed
  <2>2. WorkerOK([x EXCEPT !.senders = FALSE], w, r, cl)
    BY SendersDropped
  <2> QED BY <2>1, <2>2
<1> QED BY <1>3, <1>4

\* Where nobody waits, the map and the workers may change together.
LEMMA QuietSteps ==
  ASSUME SessionOK, MayBorrowMut, NEW ws, NEW h, IsSeq(ws), DOMAIN h = URI,
         \A w \in DOMAIN ws : WorkerOK(ws[w], w, reply, call),
         \A u \in URI : HandleOK(u, ws, h)
  PROVE  OK(ws, reply, h, call)
<1>1. ASSUME NEW c \in Caller PROVE CallerOK(c, ws, reply, h, call)
  BY NobodyWaits, InNoCall
<1> QED BY <1>1, Parts DEF OK

LEMMA CloseKeeps ==
  ASSUME SessionOK, NEW u \in URI, close_file(u)
  PROVE  SessionOK'
<1> DEFINE w == handles[u]
           x == workers[w]
           y == Closed(x)
           ws2 == [workers EXCEPT ![w] = y]
           h2 == [handles EXCEPT ![u] = 0]
<1>1. MayBorrowMut /\ w # 0 /\ handles' = h2 /\ reply' = reply /\ call' = call
  BY DEF close_file
<1>2. w \in DOMAIN workers /\ WorkerOK(x, w, reply, call) /\ x.senders /\ x.uri = u
  BY <1>1, Parts DEF HandleOK
<1>3. workers' = ws2
  <2>1. workers' = [Sending(w, Shutdown) EXCEPT ![w].senders = FALSE]
    BY <1>1 DEF close_file, WithoutSender
  <2>2. CASE Accepts(w)
    <3>1. y = [[x EXCEPT !.rx = Append(x.rx, Shutdown)] EXCEPT !.senders = FALSE]
      BY <2>2 DEF Accepts, Closed
    <3>2. workers' = [[workers EXCEPT ![w].rx = Append(x.rx, Shutdown)] EXCEPT ![w].senders = FALSE]
      BY <2>1, <2>2 DEF Sending
    <3>3. workers' = [workers EXCEPT ![w] =
                        [[x EXCEPT !.rx = Append(x.rx, Shutdown)] EXCEPT !.senders = FALSE]]
      <4> HIDE DEF y
      <4> QED BY <1>2, <3>2
    <3> QED BY <3>1, <3>3
  <2>3. CASE ~Accepts(w)
    BY <2>1, <2>3 DEF Accepts, Closed, Sending
  <2> QED BY <2>2, <2>3
<1> HIDE DEF y
<1>4. WorkerOK(y, w, reply, call)
  BY <1>1, <1>2, NobodyWaits, ClosedFacts DEF y
<1>5. /\ IsSeq(ws2) /\ DOMAIN ws2 = DOMAIN workers
      /\ \A v \in DOMAIN workers : ws2[v] = IF v = w THEN y ELSE workers[v]
  BY <1>2, Parts, ExceptSeqFacts
<1> HIDE DEF ws2
<1>6. \A v \in DOMAIN ws2 : WorkerOK(ws2[v], v, reply, call)
  BY <1>4, <1>5, Parts
<1>7. DOMAIN h2 = URI /\ \A t \in URI : h2[t] = IF t = u THEN 0 ELSE handles[t]
  BY Parts
<1> HIDE DEF h2
<1>8. ASSUME NEW t \in URI PROVE HandleOK(t, ws2, h2)
  BY <1>2, <1>5, <1>7, Parts DEF HandleOK
<1>9. OK(ws2, reply, h2, call)
  BY <1>1, <1>5, <1>6, <1>7, <1>8, QuietSteps
<1> QED BY <1>1, <1>3, <1>9 DEF SessionOK

LEMMA ShutdownKeeps ==
  ASSUME SessionOK, shutdown
  PROVE  SessionOK'
<1> DEFINE ws2 == workers'
           h2 == [u \in URI |-> 0]
<1>1. /\ MayBorrowMut /\ handles' = h2 /\ reply' = reply /\ call' = call
      /\ ws2 = [w \in DOMAIN workers |->
                  IF \E u \in URI : handles[u] = w
                    THEN [Sending(w, Shutdown)[w] EXCEPT !.senders = FALSE]
                    ELSE workers[w]]
  BY DEF shutdown
<1>2. /\ DOMAIN ws2 = DOMAIN workers
      /\ \A w \in DOMAIN workers :
            ws2[w] = IF \E u \in URI : handles[u] = w
                       THEN [Sending(w, Shutdown)[w] EXCEPT !.senders = FALSE]
                       ELSE workers[w]
      /\ ws2 = [w \in DOMAIN ws2 |-> ws2[w]]
  BY <1>1
<1> HIDE DEF ws2
<1>3. IsSeq(ws2)
  <2>1. PICK n \in Nat : DOMAIN workers = 1..n
    BY Parts, SeqFacts
  <2> QED BY <1>2, <2>1, FunctionIsSeq
<1>4. ASSUME NEW w \in DOMAIN ws2 PROVE WorkerOK(ws2[w], w, reply, call)
  <2>1. WorkerOK(workers[w], w, reply, call) /\ w \in DOMAIN workers
    BY <1>2, Parts
  <2>2. CASE \E u \in URI : handles[u] = w
    <3>1. workers[w].senders
      <4>1. PICK u \in URI : handles[u] = w
        BY <2>2
      <4>2. w # 0
        BY <2>1, Parts, SeqFacts
      <4> QED BY <4>1, <4>2, Parts DEF HandleOK
    <3>2. [Sending(w, Shutdown)[w] EXCEPT !.senders = FALSE] = Closed(workers[w])
      <4>1. CASE Accepts(w)
        <5>1. Sending(w, Shutdown)[w] = [workers[w] EXCEPT !.rx = Append(workers[w].rx, Shutdown)]
          BY <2>1, <4>1 DEF Sending
        <5> QED BY <4>1, <5>1 DEF Closed, Accepts
      <4>2. CASE ~Accepts(w)
        BY <4>2 DEF Closed, Accepts, Sending
      <4> QED BY <4>1, <4>2
    <3>3. ws2[w] = Closed(workers[w])
      BY <1>2, <2>1, <2>2, <3>2
    <3>4. WorkerOK(Closed(workers[w]), w, reply, call)
      BY <1>1, <2>1, <3>1, NobodyWaits, ClosedFacts
    <3> QED BY <3>3, <3>4
  <2>3. CASE ~\E u \in URI : handles[u] = w
    BY <1>2, <2>1, <2>3
  <2> QED BY <2>2, <2>3
<1>5. DOMAIN h2 = URI /\ \A u \in URI : HandleOK(u, ws2, h2)
  BY DEF HandleOK
<1>6. OK(ws2, reply, h2, call)
  BY <1>1, <1>3, <1>4, <1>5, QuietSteps
<1> QED BY <1>1, <1>6 DEF SessionOK, ws2

LEMMA WithoutSenderFacts ==
  ASSUME SessionOK, NEW u \in URI
  PROVE  LET ws == WithoutSender(workers, u)
         IN  /\ IsSeq(ws) /\ DOMAIN ws = DOMAIN workers /\ Len(ws) = Len(workers)
             /\ \A v \in DOMAIN workers :
                   /\ WorkerOK(ws[v], v, reply, call)
                   /\ ws[v].uri = workers[v].uri
                   /\ workers[v].senders /\ v # handles[u] => ws[v].senders
<1> DEFINE w == handles[u]
           x == workers[w]
           y == [x EXCEPT !.senders = FALSE]
           ws == WithoutSender(workers, u)
<1>1. CASE w = 0
  BY <1>1, Parts DEF WithoutSender
<1>2. CASE w # 0
  <2>1. w \in DOMAIN workers /\ WorkerOK(x, w, reply, call)
    BY <1>2, Parts DEF HandleOK
  <2>2. ws = [workers EXCEPT ![w] = y]
    BY <1>2 DEF WithoutSender
  <2>3. WorkerOK(y, w, reply, call) /\ y.uri = x.uri
    <3> HIDE DEF x
    <3> QED BY <2>1, SendersDropped
  <2> HIDE DEF y
  <2>4. /\ IsSeq(ws) /\ DOMAIN ws = DOMAIN workers
        /\ \A v \in DOMAIN workers : ws[v] = IF v = w THEN y ELSE workers[v]
    <3> HIDE DEF w, x, ws
    <3> QED BY <2>1, <2>2, Parts, ExceptSeqFacts
  <2> HIDE DEF ws
  <2>5. Len(ws) = Len(workers)
    <3>1. /\ Len(ws) \in Nat /\ DOMAIN ws = 1..Len(ws)
          /\ Len(workers) \in Nat /\ DOMAIN workers = 1..Len(workers)
      BY <2>4, Parts, SeqFacts
    <3>2. PICK m \in Nat, n \in Nat : m = Len(ws) /\ n = Len(workers)
      BY <3>1
    <3>3. 1..m = 1..n
      BY <2>4, <3>1, <3>2
    <3>4. m = n
      <4>1. m \in 1..n \/ m = 0
        BY <3>3
      <4>2. n \in 1..m \/ n = 0
        BY <3>3
      <4> QED BY <4>1, <4>2
    <3> QED BY <3>2, <3>4
  <2> QED BY <2>3, <2>4, <2>5, Parts DEF ws
<1> QED BY <1>1, <1>2

LEMMA OpenKeeps ==
  ASSUME SessionOK, NEW c \in Caller, NEW u \in URI, NEW content \in Content,
         open_file(c, u, content)
  PROVE  SessionOK'
<1> DEFINE n == Len(workers)
           w == n + 1
           ws == WithoutSender(workers, u)
           cmd == Command("CheckFile", content, c)
           x == [spawn(u) EXCEPT !.rx = <<cmd>>]
           k == [op |-> "open_file", uri |-> u, content |-> content, worker |-> w, full |-> FALSE]
           ws2 == Append(ws, x)
           r2 == [reply EXCEPT ![c] = Pending]
           h2 == [handles EXCEPT ![u] = w]
           cl2 == [call EXCEPT ![c] = k]
<1>1. /\ MayBorrowMut
      /\ workers' = ws2 /\ reply' = r2 /\ handles' = h2 /\ call' = cl2
  BY DEF open_file
<1>2. /\ DOMAIN r2 = Caller /\ DOMAIN cl2 = Caller /\ r2[c] = Pending /\ cl2[c] = k
      /\ \A d \in Caller \ {c} : r2[d] = reply[d] /\ cl2[d] = call[d]
      /\ DOMAIN h2 = URI /\ \A t \in URI : h2[t] = IF t = u THEN w ELSE handles[t]
  BY Parts
<1>3. cmd.kind = "CheckFile" /\ cmd.content = content /\ cmd.reply = c
  BY DEF Command
<1>4. /\ k.op = "open_file" /\ k.uri = u /\ k.content = content /\ k.worker = w
      /\ k.full = FALSE
  OBVIOUS
<1>5. k # NoCall
  <2> HIDE DEF k
  <2> QED BY <1>4 DEF NoCall
<1>6. /\ DOMAIN x = WorkerFields /\ x.uri = u /\ x.rx = <<cmd>> /\ x.handling = <<>>
      /\ x.senders = TRUE /\ x.status = "running"
  <2> HIDE DEF cmd
  <2> QED BY DEF spawn, WorkerFields
<1>7. n \in Nat /\ DOMAIN workers = 1..n /\ w \notin DOMAIN workers /\ w # 0
  BY Parts, SeqFacts
<1>8. /\ IsSeq(ws) /\ DOMAIN ws = DOMAIN workers /\ Len(ws) = n
      /\ \A v \in DOMAIN workers :
            /\ WorkerOK(ws[v], v, reply, call)
            /\ ws[v].uri = workers[v].uri
            /\ workers[v].senders /\ v # handles[u] => ws[v].senders
  BY WithoutSenderFacts
<1> HIDE DEF ws, x, cmd, k
<1>9. /\ IsSeq(ws2) /\ DOMAIN ws2 = 1..w /\ ws2[w] = x
      /\ \A v \in DOMAIN workers : ws2[v] = ws[v]
  BY <1>7, <1>8, AppendSeq
<1>10. w \in DOMAIN ws2 /\ \A v \in DOMAIN ws2 : v \in DOMAIN workers \/ v = w
  BY <1>7, <1>9
<1>11. \A v \in DOMAIN workers : v \in DOMAIN ws2
  BY <1>7, <1>9
<1> HIDE DEF ws2, r2, h2, cl2, n, w
<1>12. WorkerOK(x, w, r2, cl2) /\ Holds(x, c)
  <2>1. IsSeq(x.rx) /\ DOMAIN x.rx = {1} /\ x.rx[1] = cmd /\ DOMAIN x.handling = {}
    BY <1>6, OneEntry, NoEntries
  <2>2. Owed(cmd, w, r2, cl2)
    BY <1>2, <1>3, <1>4 DEF Owed, Exclusive
  <2>3. OwedOnce(x) /\ Holds(x, c)
    BY <1>3, <2>1 DEF OwedOnce, Holds
  <2> QED BY <1>6, <2>1, <2>2, <2>3 DEF WorkerOK
<1>13. ASSUME NEW v \in DOMAIN ws2 PROVE WorkerOK(ws2[v], v, r2, cl2)
  <2>1. CASE v = w
    BY <1>9, <1>12, <2>1
  <2>2. CASE v # w
    <3>1. v \in DOMAIN workers /\ ws2[v] = ws[v]
      BY <1>9, <1>10, <2>2
    <3>2. WorkerOK(ws[v], v, reply, call)
      BY <1>8, <3>1
    <3>3. \A d \in Caller : reply[d] # Pending
      BY <1>1, NobodyWaits
    <3>4. WorkerOK(ws[v], v, r2, cl2)
      BY <3>2, <3>3, WorkerKept
    <3> QED BY <3>1, <3>4
  <2> QED BY <2>1, <2>2
<1>14. ASSUME NEW t \in URI PROVE HandleOK(t, ws2, h2)
  <2>1. CASE t = u
    BY <1>2, <1>6, <1>9, <1>10, <2>1 DEF HandleOK
  <2>2. CASE t # u
    <3>1. h2[t] = handles[t]
      BY <1>2, <2>2
    <3> SUFFICES ASSUME handles[t] # 0
                 PROVE  handles[t] \in DOMAIN ws2 /\ ws2[handles[t]].uri = t
                           /\ ws2[handles[t]].senders
      BY <3>1 DEF HandleOK
    <3>2. handles[t] \in DOMAIN workers /\ workers[handles[t]].uri = t /\ workers[handles[t]].senders
      BY Parts DEF HandleOK
    <3>3. handles[t] # handles[u]
      BY <2>2, <3>2, Parts DEF HandleOK
    <3> QED BY <1>8, <1>9, <1>11, <3>2, <3>3
  <2> QED BY <2>1, <2>2
<1>15. ASSUME NEW d \in Caller PROVE CallerOK(d, ws2, r2, h2, cl2)
  <2>1. CASE d = c
    <3>1. r2[c].state = "pending" /\ r2[c] = Pending
      BY <1>2 DEF Pending
    <3>2. \A e \in Caller \ {c} : cl2[e] = NoCall
      BY <1>1, <1>2, NobodyWaits
    <3> QED BY <1>2, <1>4, <1>5, <1>9, <1>10, <1>12, <2>1, <3>1, <3>2 DEF CallerOK
  <2>2. CASE d # c
    BY <1>1, <1>2, <2>2, NobodyWaits, InNoCall
  <2> QED BY <2>1, <2>2
<1>16. OK(ws2, r2, h2, cl2)
  BY <1>2, <1>9, <1>13, <1>14, <1>15 DEF OK
<1> QED BY <1>1, <1>16 DEF SessionOK
-----------------------------------------------------------------------------
LEMMA InitOK == Init => SessionOK
<1> SUFFICES ASSUME Init PROVE SessionOK
  OBVIOUS
<1>1. IsSeq(workers) /\ DOMAIN workers = {}
  BY NoEntries DEF Init
<1>2. ASSUME NEW c \in Caller PROVE CallerOK(c, workers, reply, handles, call)
  BY InNoCall DEF Init, Unused
<1>3. \A u \in URI : HandleOK(u, workers, handles)
  BY DEF Init, HandleOK
<1>4. DOMAIN reply = Caller /\ DOMAIN call = Caller /\ DOMAIN handles = URI
  BY DEF Init
<1> QED BY <1>1, <1>2, <1>3, <1>4 DEF SessionOK, OK

LEMMA StepOK == SessionOK /\ [Next]_vars => SessionOK'
<1> SUFFICES ASSUME SessionOK, [Next]_vars PROVE SessionOK'
  OBVIOUS
<1>1. ASSUME NEW c \in Caller, NEW u \in URI, CallStep(c, u) PROVE SessionOK'
  BY <1>1, CallsKeep, NotFoundKeeps, OpenKeeps DEF CallStep
<1>2. ASSUME NEW u \in URI, close_file(u) PROVE SessionOK'
  BY <1>2, CloseKeeps
<1>3. CASE shutdown
  BY <1>3, ShutdownKeeps
<1>4. ASSUME NEW c \in Caller, Return(c) PROVE SessionOK'
  BY <1>4, ReturnKeeps
<1>5. ASSUME NEW w \in DOMAIN workers, Work(w) PROVE SessionOK'
  BY <1>5, WorkKeeps
<1>6. CASE UNCHANGED vars
  BY <1>6 DEF vars, SessionOK
<1> QED BY <1>1, <1>2, <1>3, <1>4, <1>5, <1>6 DEF Next

\* The invariant holds in every state of the session.
THEOREM SessionOKAlways == Spec => []SessionOK
BY InitOK, StepOK, PTL DEF Spec

\* WorkerGone has a reason (session.rs get_handle, send, blocking_recv): the
\* worker panicked, or its channel was full when the command was sent.
THEOREM GoneHasAReasonAlways == Spec => []GoneHasAReason
<1>1. SessionOK => GoneHasAReason
  BY Parts DEF GoneHasAReason, CallerOK
<1> QED BY <1>1, SessionOKAlways, PTL

\* A check - update_file or open_file - never meets a full channel: it is
\* sent under the mutable borrow, when no query can be queued.
THEOREM ChecksAreNeverRefusedAlways == Spec => []ChecksAreNeverRefused
<1>1. SessionOK => ChecksAreNeverRefused
  BY Parts DEF ChecksAreNeverRefused, CallerOK
<1> QED BY <1>1, SessionOKAlways, PTL

\* When a check is answered, the worker the map has for its file holds the
\* text that was asked for, every command of it executed.
THEOREM CheckedWhatWasAskedAlways == Spec => []CheckedWhatWasAsked
<1>1. SessionOK => CheckedWhatWasAsked
  BY Parts DEF CheckedWhatWasAsked, CallerOK, Checked
<1> QED BY <1>1, SessionOKAlways, PTL

LEMMA HeldOnce ==
  ASSUME NEW x, NEW w, NEW r, NEW cl, WorkerOK(x, w, r, cl), NEW c \in Caller, Holds(x, c)
  PROVE  LET held == x.handling \o x.rx
         IN  Cardinality({i \in DOMAIN held : held[i].reply = c}) = 1
<1> DEFINE held == x.handling \o x.rx
           n == Len(x.rx)
           P == {i \in DOMAIN held : held[i].reply = c}
<1>1. IsSeq(x.rx) /\ n \in Nat /\ DOMAIN x.rx = 1..n
  BY SeqFacts DEF WorkerOK
<1>2. PICK m \in {0, 1} : IsSeq(x.handling) /\ Len(x.handling) = m /\ DOMAIN x.handling = 1..m
  <2>1. CASE x.handling = <<>>
    <3>1. IsSeq(x.handling) /\ Len(x.handling) = 0 /\ DOMAIN x.handling = {}
      BY <2>1, NoEntries
    <3> QED BY <3>1
  <2>2. CASE x.handling = <<x.handling[1]>>
    <3>1. IsSeq(x.handling) /\ Len(x.handling) = 1 /\ DOMAIN x.handling = {1}
      BY <2>2, OneEntry
    <3> QED BY <3>1
  <2> QED BY <2>1, <2>2 DEF WorkerOK
<1>3. /\ DOMAIN held = 1..(m + n)
      /\ \A i \in 1..(m + n) : held[i] = IF i <= m THEN x.handling[i] ELSE x.rx[i - m]
  <2>1. PICK S, T : x.handling \in Seq(S) /\ x.rx \in Seq(T)
    BY <1>1, <1>2 DEF IsSeq
  <2>2. x.handling \in Seq(S \cup T) /\ x.rx \in Seq(S \cup T)
    BY <2>1, SeqMonotonic
  <2>3. /\ held \in Seq(S \cup T) /\ Len(held) = m + n
        /\ \A i \in 1..(m + n) : held[i] = IF i <= m THEN x.handling[i] ELSE x.rx[i - m]
    BY <1>2, <2>2, ConcatProperties
  <2> QED BY <2>3, LenProperties
<1> HIDE DEF held, n
<1>4. \E k \in P : TRUE
  <2>1. CASE \E i \in DOMAIN x.handling : x.handling[i].reply = c
    <3>1. PICK i \in 1..m : x.handling[i].reply = c
      BY <1>2, <2>1
    <3>2. i \in 1..(m + n) /\ i <= m
      BY <1>1, <3>1
    <3> QED BY <1>3, <3>1, <3>2
  <2>2. CASE \E i \in DOMAIN x.rx : x.rx[i].reply = c
    <3>1. PICK i \in 1..n : x.rx[i].reply = c
      BY <1>1, <2>2
    <3>2. m + i \in 1..(m + n) /\ ~(m + i <= m) /\ (m + i) - m = i
      BY <1>1, <3>1
    <3>3. PICK k : k = m + i
      OBVIOUS
    <3>4. k \in DOMAIN held /\ held[k] = x.rx[i]
      BY <1>3, <3>2, <3>3
    <3> QED BY <3>1, <3>4
  <2> QED BY <2>1, <2>2 DEF Holds
<1>5. ASSUME NEW i \in P, NEW j \in P, i < j PROVE FALSE
  <2>1. i \in 1..(m + n) /\ j \in 1..(m + n) /\ held[i].reply = c /\ held[j].reply = c
    BY <1>3
  <2>2. j > m
    BY <1>5, <1>1, <2>1
  <2>3. j - m \in DOMAIN x.rx /\ x.rx[j - m].reply = c
    <3>1. j - m \in 1..n /\ ~(j <= m)
      BY <1>1, <2>1, <2>2
    <3> QED BY <1>1, <1>3, <2>1, <3>1
  <2>4. CASE i <= m
    <3>1. i \in DOMAIN x.handling /\ x.handling[i].reply = c
      BY <1>2, <1>3, <2>1, <2>4
    <3> QED BY <2>3, <3>1 DEF WorkerOK, OwedOnce
  <2>5. CASE ~(i <= m)
    <3>1. i - m \in 1..n
      BY <1>1, <2>1, <2>5
    <3>2. i - m \in DOMAIN x.rx /\ x.rx[i - m].reply = c
      BY <1>1, <1>3, <2>1, <2>5, <3>1
    <3>3. i - m = j - m
      BY <2>3, <3>2 DEF WorkerOK, OwedOnce
    <3> QED BY <1>1, <1>5, <2>1, <3>3
  <2> QED BY <2>4, <2>5
<1>6. \A i, j \in P : i = j
  <2>1. P \subseteq Int
    BY <1>1, <1>3
  <2> QED BY <1>5, <2>1
<1>7. PICK k : P = {k}
  BY <1>4, <1>6
<1>8. Cardinality(P) = 1
  BY <1>7, FS_Singleton
<1> QED BY <1>8 DEF held

\* No caller is forgotten: what a caller waits for is held once, by the
\* running worker it was sent to, until it is answered or dropped.
THEOREM PendingIsHeldAlways == Spec => []PendingIsHeld
<1>1. ASSUME SessionOK PROVE PendingIsHeld
  <2> SUFFICES ASSUME NEW c \in Caller, reply[c].state = "pending"
               PROVE  LET w == call[c].worker
                          held == workers[w].handling \o workers[w].rx
                      IN  /\ workers[w].status = "running"
                          /\ Cardinality({i \in DOMAIN held : held[i].reply = c}) = 1
                          /\ \A v \in DOMAIN workers \ {w} : c \notin Waiting(v)
    BY DEF PendingIsHeld
  <2> DEFINE w == call[c].worker
             held == workers[w].handling \o workers[w].rx
  <2>1. w \in DOMAIN workers /\ Holds(workers[w], c) /\ WorkerOK(workers[w], w, reply, call)
    BY <1>1, Parts DEF CallerOK
  <2>2. workers[w].status = "running"
    BY <2>1, NoEntries DEF WorkerOK, Holds
  <2>3. Cardinality({i \in DOMAIN held : held[i].reply = c}) = 1
    <3> HIDE DEF w
    <3> QED BY <2>1, HeldOnce
  <2>4. ASSUME NEW v \in DOMAIN workers \ {w}, c \in Waiting(v) PROVE FALSE
    <3>1. Holds(workers[v], c)
      BY <2>4 DEF Waiting, Holds, ToSet
    <3>2. WorkerOK(workers[v], v, reply, call)
      BY <1>1, Parts
    <3>3. call[c].worker = v
      BY <3>1, <3>2, HeldIsPending
    <3> QED BY <3>3
  <2> QED BY <2>2, <2>3, <2>4
<1> QED BY <1>1, SessionOKAlways, PTL
=============================================================================
