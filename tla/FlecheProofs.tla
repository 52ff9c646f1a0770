---------------------------- MODULE FlecheProofs ----------------------------
(***************************************************************************)
(* Proofs about the Fleche engine, for every set of files, texts and       *)
(* commands and any number of edits.  The inductive invariant, History and *)
(* Inv, says of each node what its snapshots owe to its commands; it holds *)
(* of a poisoned document too, whose last edit was checked in part at most.*)
(***************************************************************************)
EXTENDS Fleche, FiniteSetTheorems, SequenceTheorems, WellFoundedInduction, TLAPS

(***************************************************************************)
(* The invariant.                                                          *)
(***************************************************************************)
IsSeq(s) == \E S : s \in Seq(S)

\* What executing a command of this source reports, wherever it stands.
SaidOf(source) == Said(Snapshot([source |-> source, line |-> 0, id |-> 0], 0, None))

Numbered(s) == \A i \in 1..Len(s) : s[i].command_id = i - 1

Ordered(s, version) ==
    /\ \A i \in 1..Len(s) : s[i].version \in Nat /\ s[i].version <= version
    /\ \A i, j \in 1..Len(s) : i < j => s[i].version <= s[j].version

\* The state of the proof after the i-th command, when it has this source.
StateAfter(source, i, proof_state) ==
    ProofStateAfter([source |-> source, line |-> 0, id |-> i - 1], proof_state)

\* The i-th snapshot is what a command of this source leaves: what it reports,
\* and a proof state that goes on from nothing or from the snapshot before.
MadeBy(s, i, source) ==
    /\ Said(s[i]) = SaidOf(source)
    /\ \/ s[i].proof_state = StateAfter(source, i, None)
       \/ i > 1 /\ s[i].proof_state = StateAfter(source, i, s[i - 1].proof_state)

\* Each snapshot was made by its command; the first one by some command.
Made(n) ==
    /\ \A i \in 2..Len(n.snapshots) : i <= Len(n.commands) =>
          MadeBy(n.snapshots, i, n.commands[i].source)
    /\ 1 <= Len(n.snapshots) => \E source : MadeBy(n.snapshots, 1, source)

History(n) == /\ IsSeq(n.commands) /\ IsSeq(n.snapshots)
              /\ \A i \in 1..Len(n.commands) : n.commands[i].id = i - 1
              /\ n.version \in Nat
              /\ Numbered(n.snapshots)
              /\ Ordered(n.snapshots, n.version)
              /\ Made(n)

Inv == /\ global_version \in Nat
       /\ poisoned \in BOOLEAN
       /\ DOMAIN nodes \subseteq URI
       /\ DOMAIN published = URI
       /\ \A u \in DOMAIN nodes : /\ History(nodes[u])
                                 /\ nodes[u].version \in 1..global_version
                                 /\ nodes[u].content \in Content
                                 /\ nodes[u].commands = parse_commands(nodes[u].content)
       /\ ~poisoned => \A u \in DOMAIN nodes :
             /\ Len(nodes[u].snapshots) = Len(nodes[u].commands)
             /\ published[u] \subseteq NodeDiagnostics(nodes[u])
       /\ PoisonIsExplained

(***************************************************************************)
(* The functions of the document.                                          *)
(***************************************************************************)

\* A non-empty set of naturals has a least element.
LEMMA LeastNatural ==
    ASSUME NEW T \in SUBSET Nat, T # {}
    PROVE  \E x \in T : \A y \in T : x <= y
<1>1. PICK x \in T : \A y \in T : ~(<<y, x>> \in OpToRel(<, Nat))
  BY NatLessThanWellFounded, WFMin
<1>2. \A y \in T : ~(y < x)
  BY <1>1 DEF OpToRel
<1> QED BY <1>2

\* A function on 1..n is a sequence of length n.
LEMMA FunctionIsSeq ==
    ASSUME NEW n \in Nat, NEW s, DOMAIN s = 1..n, s = [i \in 1..n |-> s[i]]
    PROVE  IsSeq(s) /\ Len(s) = n
<1> DEFINE S == {s[i] : i \in 1..n}
<1>1. s \in [1..n -> S]
  OBVIOUS
<1>2. s \in Seq(S)
  BY <1>1
<1> HIDE DEF S
<1> QED BY <1>2, LenProperties DEF IsSeq

\* Parsing yields a sequence of commands numbered from 0.
LEMMA ParseSeq ==
    ASSUME NEW content \in Content
    PROVE  /\ IsSeq(parse_commands(content))
           /\ Len(parse_commands(content)) \in Nat
           /\ \A i \in 1..Len(parse_commands(content)) :
                 parse_commands(content)[i].id = i - 1
<1> DEFINE n == Cardinality(CommandLines(content))
           c == parse_commands(content)
<1>1. content \in Seq(Source \union {Blank})
  BY FlecheAssumption DEF Text
<1>2. IsFiniteSet(DOMAIN content)
  BY <1>1, FS_Interval, LenProperties
<1>3. IsFiniteSet(CommandLines(content))
  BY <1>2, FS_Subset DEF CommandLines
<1>4. n \in Nat
  BY <1>3, FS_CardinalityType
<1>5. DOMAIN c = 1..n /\ c = [i \in 1..n |-> c[i]] /\ \A i \in 1..n : c[i].id = i - 1
  BY DEF parse_commands
<1> HIDE DEF n, c
<1>6. IsSeq(c) /\ Len(c) = n
  BY <1>4, <1>5, FunctionIsSeq
<1> QED BY <1>4, <1>5, <1>6 DEF c

\* The common prefix exists: it fits in both lists, and they agree on it.
LEMMA CommonPrefixAgrees ==
    ASSUME NEW old, NEW new, IsSeq(old), IsSeq(new)
    PROVE  /\ CommonPrefix(old, new) \in 0..Len(old)
           /\ CommonPrefix(old, new) <= Len(new)
           /\ SameFrom(old, new, CommonPrefix(old, new))
<1>1. Len(old) \in Nat /\ Len(new) \in Nat
  BY LenProperties DEF IsSeq
<1> DEFINE Ends(n) == \/ n = Len(old)
                      \/ n = Len(new)
                      \/ old[n + 1].source # new[n + 1].source
           T == {n \in 0..Len(old) : n <= Len(new) /\ Ends(n)}
<1>2. T # {}
  <2>1. CASE Len(old) <= Len(new)
    <3>1. Len(old) \in T
      BY <1>1, <2>1
    <3> QED BY <3>1
  <2>2. CASE ~(Len(old) <= Len(new))
    <3>1. Len(new) \in T
      BY <1>1, <2>2
    <3> QED BY <3>1
  <2> QED BY <2>1, <2>2
<1>3. PICK n \in T : \A m \in T : n <= m
  <2>1. T \in SUBSET Nat
    BY <1>1
  <2> HIDE DEF T
  <2> QED BY <1>2, <2>1, LeastNatural
<1>4. SameFrom(old, new, n)
  <2> SUFFICES ASSUME NEW j \in 1..n
               PROVE  old[j].source = new[j].source
    BY DEF SameFrom
  <2>1. n \in 0..Len(old) /\ n <= Len(new)
    BY <1>3
  <2>2. j - 1 \in 0..Len(old) /\ j - 1 <= Len(new) /\ ~(n <= j - 1)
    BY <1>1, <2>1
  <2>3. j - 1 \notin T
    BY <1>3, <2>2
  <2>4. ~Ends(j - 1)
    BY <2>2, <2>3
  <2>5. (j - 1) + 1 = j
    BY <1>1, <2>1
  <2> QED BY <2>4, <2>5
<1>5. \E k \in 0..Len(old) : k <= Len(new) /\ SameFrom(old, new, k) /\ Ends(k)
  BY <1>3, <1>4
<1> QED BY <1>5 DEF CommonPrefix

\* The snapshots kept are the first fork + 1, or all when there are fewer.
LEMMA KeptFacts ==
    ASSUME NEW s, IsSeq(s), Numbered(s), NEW fork \in Nat
    PROVE  /\ IsSeq(KeptSnapshots(s, fork))
           /\ Len(KeptSnapshots(s, fork)) = IF fork + 1 <= Len(s) THEN fork + 1 ELSE Len(s)
           /\ \A i \in 1..Len(KeptSnapshots(s, fork)) : KeptSnapshots(s, fork)[i] = s[i]
<1>1. PICK S : s \in Seq(S)
  BY DEF IsSeq
<1>2. Len(s) \in Nat /\ \A i \in 1..Len(s) : s[i] \in S
  BY <1>1, LenProperties, ElementOfSeq
<1> DEFINE Stops(k) == /\ \A j \in 1..k : s[j].command_id <= fork
                       /\ \/ k = Len(s)
                          \/ s[k + 1].command_id > fork
           m == IF fork + 1 <= Len(s) THEN fork + 1 ELSE Len(s)
           k == CHOOSE k \in 0..Len(s) : Stops(k)
<1>3. m \in 0..Len(s) /\ Stops(m)
  <2>1. m \in 0..Len(s)
    BY <1>2
  <2>2. \A j \in 1..m : s[j].command_id <= fork
    BY <1>2 DEF Numbered
  <2>3. CASE fork + 1 <= Len(s) /\ m < Len(s)
    <3>1. s[m + 1].command_id = m
      BY <1>2, <2>3 DEF Numbered
    <3> QED BY <2>1, <2>2, <2>3, <3>1
  <2>4. CASE ~(fork + 1 <= Len(s) /\ m < Len(s))
    BY <1>2, <2>1, <2>2, <2>4
  <2> QED BY <2>3, <2>4
<1>4. k \in 0..Len(s) /\ Stops(k)
  BY <1>3
<1>5. ASSUME NEW q \in 0..Len(s), Stops(q)
      PROVE  q = m
  <2>1. q <= fork + 1
    <3> SUFFICES ASSUME q > fork + 1 PROVE FALSE
      BY <1>2
    <3>1. fork + 2 \in 1..q /\ fork + 2 \in 1..Len(s)
      BY <1>2
    <3>2. s[fork + 2].command_id <= fork
      BY <1>5, <3>1
    <3>3. s[fork + 2].command_id = fork + 1
      BY <3>1 DEF Numbered
    <3> QED BY <3>2, <3>3
  <2>2. q = Len(s) \/ q > fork
    <3> SUFFICES ASSUME q # Len(s) PROVE q > fork
      OBVIOUS
    <3>1. q + 1 \in 1..Len(s)
      BY <1>2
    <3>2. s[q + 1].command_id = q
      BY <3>1 DEF Numbered
    <3>3. s[q + 1].command_id > fork
      BY <1>5
    <3> QED BY <3>2, <3>3
  <2> QED BY <1>2, <2>1, <2>2
<1>6. KeptSnapshots(s, fork) = SubSeq(s, 1, m)
  BY <1>4, <1>5 DEF KeptSnapshots
<1>7. m \in Nat /\ m <= Len(s) /\ \A i \in 1..m : s[i] \in S
  BY <1>2
<1> HIDE DEF m, k
<1>8. /\ SubSeq(s, 1, m) \in Seq(S)
      /\ Len(SubSeq(s, 1, m)) = m
      /\ \A i \in 1..m : SubSeq(s, 1, m)[i] = s[i]
  <2>1. /\ SubSeq(s, 1, m) \in Seq(S)
        /\ Len(SubSeq(s, 1, m)) = IF 1 <= m THEN m - 1 + 1 ELSE 0
        /\ \A i \in 1 .. m - 1 + 1 : SubSeq(s, 1, m)[i] = s[1 + i - 1]
    BY <1>7, SubSeqProperties
  <2> QED BY <1>7, <2>1
<1> QED BY <1>6, <1>8 DEF IsSeq, m

\* A snapshot carries the number of its command and the version it was made for.
LEMMA SnapshotFields ==
    ASSUME NEW cmd, NEW version, NEW proof_state
    PROVE  /\ Snapshot(cmd, version, proof_state).command_id = cmd.id
           /\ Snapshot(cmd, version, proof_state).version = version
           /\ Snapshot(cmd, version, proof_state).proof_state = proof_state
  BY DEF Snapshot

\* What a command reports, its line left out, depends on its source alone.
LEMMA SaidBySource ==
    ASSUME NEW cmd, NEW version, NEW proof_state
    PROVE  Said(Snapshot(cmd, version, proof_state)) = SaidOf(cmd.source)
<1> DEFINE other == [source |-> cmd.source, line |-> 0, id |-> 0]
<1>1. CASE Code[cmd.source] = "silent"
  <2>1. Diagnostics(cmd) = <<>> /\ Diagnostics(other) = <<>>
    BY <1>1 DEF Diagnostics
  <2> QED BY <2>1 DEF Said, SaidOf, Snapshot
<1>2. CASE Code[cmd.source] # "silent"
  <2> DEFINE d == Diagnostics(cmd)
             e == Diagnostics(other)
  <2>1. /\ d = <<[code |-> Code[cmd.source], about |-> cmd.source, line |-> cmd.line]>>
        /\ e = <<[code |-> Code[cmd.source], about |-> cmd.source, line |-> 0]>>
    BY <1>2 DEF Diagnostics
  <2> HIDE DEF d, e
  <2>2. DOMAIN d = 1..1 /\ DOMAIN e = 1..1
    BY <2>1
  <2>3. \A k \in 1..1 : d[k].code = e[k].code /\ d[k].about = e[k].about
    BY <2>1
  <2>4. [k \in DOMAIN d |-> [code |-> d[k].code, about |-> d[k].about]]
          = [k \in DOMAIN e |-> [code |-> e[k].code, about |-> e[k].about]]
    BY <2>2, <2>3
  <2> QED BY <2>4 DEF Said, SaidOf, Snapshot, d, e
<1> QED BY <1>1, <1>2

\* So does the state it leaves, given where it stands and what it goes on from.
LEMMA StateBySource ==
    ASSUME NEW cmd, NEW i, cmd.id = i - 1, NEW proof_state
    PROVE  ProofStateAfter(cmd, proof_state) = StateAfter(cmd.source, i, proof_state)
  BY DEF ProofStateAfter, StateAfter

\* The contexts of a run exist: the first is the one it starts in, and each
\* other is what its command makes of the one before.
LEMMA ContextsDef ==
    ASSUME NEW n, NEW proof_state, Len(n.snapshots) \in Nat, Len(n.commands) \in Nat,
           Len(n.snapshots) <= Len(n.commands)
    PROVE  LET ctx == Contexts(n, proof_state) IN
           /\ ctx[Len(n.snapshots)] = proof_state
           /\ \A i \in 1..Len(n.commands) : i > Len(n.snapshots) =>
                 ctx[i] = ProofStateAfter(n.commands[i], ctx[i - 1])
<1> DEFINE start == Len(n.snapshots)
           end == Len(n.commands)
           cmds == n.commands
           Runs(f, m) == f = [i \in start..m |->
               IF i = start THEN proof_state ELSE ProofStateAfter(cmds[i], f[i - 1])]
           Bad == {m \in start..end : ~\E f : Runs(f, m)}
<1> HIDE DEF start, end, cmds
<1>0. start \in Nat /\ end \in Nat /\ start <= end
  BY DEF start, end
<1>1. \E f : Runs(f, start)
  <2> DEFINE f == [i \in start..start |-> proof_state]
  <2>1. \A i \in start..start : i = start
    BY <1>0
  <2>2. Runs(f, start)
    BY <2>1
  <2> QED BY <2>2
<1>2. ASSUME NEW m \in start..end, NEW g, Runs(g, m), m + 1 \in start..end
      PROVE  \E f : Runs(f, m + 1)
  <2> DEFINE f == [i \in start..(m + 1) |->
                      IF i = m + 1 THEN ProofStateAfter(cmds[i], g[m]) ELSE g[i]]
  <2>1. m \in start..m /\ m # m + 1 /\ m + 1 # start
    BY <1>0
  <2>2. \A i \in start..(m + 1) : i # m + 1 => i \in start..m
    BY <1>0
  <2>3. f[m + 1] = ProofStateAfter(cmds[m + 1], g[m]) /\ f[m] = g[m]
    BY <1>0, <2>1
  <2>4. \A i \in start..m : f[i] = g[i]
    BY <1>0
  <2>5. ASSUME NEW i \in start..(m + 1)
        PROVE  f[i] = IF i = start THEN proof_state ELSE ProofStateAfter(cmds[i], f[i - 1])
    <3>1. CASE i = m + 1
      <4>1. i - 1 = m /\ i # start
        BY <1>0, <3>1
      <4> HIDE DEF f
      <4> QED BY <2>3, <3>1, <4>1
    <3>2. CASE i # m + 1
      <4>1. i \in start..m
        BY <2>2, <3>2
      <4>2. g[i] = IF i = start THEN proof_state ELSE ProofStateAfter(cmds[i], g[i - 1])
        BY <1>2, <4>1
      <4>3. CASE i = start
        <5> HIDE DEF f
        <5> QED BY <2>4, <4>1, <4>2, <4>3
      <4>4. CASE i # start
        <5>1. i - 1 \in start..m
          BY <1>0, <4>1, <4>4
        <5> HIDE DEF f
        <5> QED BY <2>4, <4>1, <4>2, <4>4, <5>1
      <4> QED BY <4>3, <4>4
    <3> QED BY <3>1, <3>2
  <2>6. Runs(f, m + 1)
    <3>1. f = [i \in start..(m + 1) |-> f[i]]
      OBVIOUS
    <3> HIDE DEF f
    <3> QED BY <2>5, <3>1
  <2> HIDE DEF f, Runs
  <2> QED BY <2>6
<1>3. Bad = {}
  <2> SUFFICES ASSUME Bad # {} PROVE FALSE
    OBVIOUS
  <2>1. PICK m \in Bad : \A k \in Bad : m <= k
    <3>1. Bad \in SUBSET Nat
      BY <1>0
    <3> HIDE DEF Bad
    <3> QED BY <3>1, LeastNatural
  <2> HIDE DEF Runs
  <2>2. m \in start..end /\ m # start /\ ~\E f : Runs(f, m)
    BY <1>1, <2>1
  <2>3. m - 1 \in start..end /\ m - 1 \notin Bad /\ (m - 1) + 1 = m
    BY <1>0, <2>1, <2>2
  <2>4. PICK g : Runs(g, m - 1)
    BY <2>3
  <2> HIDE DEF Bad
  <2> QED BY <1>2, <2>2, <2>3, <2>4
<1>4. \E f : Runs(f, end)
  <2> HIDE DEF Runs
  <2>1. end \in start..end
    BY <1>0
  <2>2. end \notin Bad
    BY <1>3
  <2> QED BY <2>1, <2>2
<1>5. Runs(Contexts(n, proof_state), end)
  BY <1>4 DEF Contexts, start, end, cmds
<1> DEFINE ctx == Contexts(n, proof_state)
<1> HIDE DEF ctx
<1>6. ctx = [i \in start..end |->
               IF i = start THEN proof_state ELSE ProofStateAfter(cmds[i], ctx[i - 1])]
  BY <1>5 DEF ctx
<1>7. start \in start..end /\ \A i \in 1..end : i > start => i \in start..end /\ i # start
  BY <1>0
<1>8. /\ ctx[start] = proof_state
      /\ \A i \in 1..end : i > start => ctx[i] = ProofStateAfter(cmds[i], ctx[i - 1])
  BY <1>6, <1>7
<1> QED BY <1>8 DEF ctx, start, end, cmds

\* An edit of a node that was fully checked leaves a node whose snapshots
\* still belong to its commands; it has too many of them only when one
\* snapshot outlives the last command.
LEMMA EditKeepsHistory ==
    ASSUME NEW n, History(n), Len(n.snapshots) = Len(n.commands),
           NEW content \in Content, NEW version \in Nat, n.version < version
    PROVE  LET m == update_content(n, content, version) IN
           /\ History(m)
           /\ m.version = version /\ m.content = content
           /\ m.commands = parse_commands(content)
           /\ \A i \in 1..Len(m.snapshots) : m.snapshots[i].version < version
           /\ Len(m.snapshots) > Len(m.commands) =>
                 m.commands = <<>> /\ Len(m.snapshots) = 1
<1> DEFINE new    == parse_commands(content)
           prefix == CommonPrefix(n.commands, new)
           fork   == find_fork_point(n.commands, new)
           kept   == KeptSnapshots(n.snapshots, fork)
           m      == update_content(n, content, version)
<1>1. IsSeq(new) /\ Len(new) \in Nat /\ \A i \in 1..Len(new) : new[i].id = i - 1
  BY ParseSeq
<1>2. /\ IsSeq(n.commands) /\ IsSeq(n.snapshots)
      /\ Numbered(n.snapshots) /\ Ordered(n.snapshots, n.version) /\ n.version \in Nat
  BY DEF History
<1>3. Len(n.commands) \in Nat /\ Len(n.snapshots) \in Nat
  BY <1>2, LenProperties DEF IsSeq
<1> HIDE DEF new
<1>4. prefix \in 0..Len(n.commands) /\ prefix <= Len(new) /\ SameFrom(n.commands, new, prefix)
  BY <1>1, <1>2, CommonPrefixAgrees
<1>5. fork = (IF prefix > 0 THEN prefix - 1 ELSE 0) /\ fork \in Nat
  BY <1>3, <1>4 DEF find_fork_point
<1>6. /\ m.version = version /\ m.content = content /\ m.commands = new /\ m.snapshots = kept
  BY DEF update_content, new
<1> HIDE DEF m, kept, fork, prefix
<1>7. /\ IsSeq(kept)
      /\ Len(kept) = IF fork + 1 <= Len(n.snapshots) THEN fork + 1 ELSE Len(n.snapshots)
      /\ \A i \in 1..Len(kept) : kept[i] = n.snapshots[i]
  BY <1>2, <1>5, KeptFacts DEF kept
<1>8. Len(kept) \in Nat /\ Len(kept) <= Len(n.snapshots)
  BY <1>3, <1>5, <1>7
<1>9. \A i \in 2..Len(kept) : i <= prefix
  BY <1>3, <1>4, <1>5, <1>7
<1>10. Numbered(kept)
  <2>1. \A i \in 1..Len(kept) : i \in 1..Len(n.snapshots) /\ kept[i] = n.snapshots[i]
    BY <1>3, <1>7, <1>8
  <2> QED BY <1>2, <2>1 DEF Numbered
<1>11. Ordered(kept, version)
  <2>1. \A i \in 1..Len(kept) : i \in 1..Len(n.snapshots) /\ kept[i] = n.snapshots[i]
    BY <1>3, <1>7, <1>8
  <2>2. \A i \in 1..Len(kept) : kept[i].version \in Nat /\ kept[i].version <= version
    BY <1>2, <2>1 DEF Ordered
  <2> QED BY <1>2, <2>1, <2>2 DEF Ordered
<1>15. \A i \in 1..Len(kept) : kept[i].version < version
  <2>1. \A i \in 1..Len(kept) : i \in 1..Len(n.snapshots) /\ kept[i] = n.snapshots[i]
    BY <1>3, <1>7, <1>8
  <2> QED BY <1>2, <2>1 DEF Ordered
<1>16. 1 <= Len(kept) => \E source : MadeBy(kept, 1, source)
  <2> SUFFICES ASSUME 1 <= Len(kept)
               PROVE  \E source : MadeBy(kept, 1, source)
    OBVIOUS
  <2>1. 1 \in 1..Len(kept) /\ 1 <= Len(n.snapshots)
    BY <1>3, <1>8
  <2>2. PICK source : MadeBy(n.snapshots, 1, source)
    BY <2>1 DEF History, Made
  <2>3. MadeBy(kept, 1, source)
    BY <1>7, <2>1, <2>2 DEF MadeBy
  <2> QED BY <2>3
<1>12. Made(m)
  <2> SUFFICES ASSUME NEW i \in 2..Len(kept), i <= Len(new)
               PROVE  MadeBy(kept, i, new[i].source)
    BY <1>6, <1>16 DEF Made
  <2>1. i \in 1..prefix /\ i \in 1..Len(kept)
    BY <1>4, <1>8, <1>9
  <2>2. n.commands[i].source = new[i].source
    BY <1>4, <2>1 DEF SameFrom
  <2>3. i \in 2..Len(n.snapshots) /\ i <= Len(n.commands)
    BY <1>3, <1>8
  <2>4. MadeBy(n.snapshots, i, n.commands[i].source)
    BY <2>3 DEF History, Made
  <2>5. i - 1 \in 1..Len(kept) /\ i \in 1..Len(kept)
    BY <1>8
  <2> QED BY <1>7, <2>2, <2>4, <2>5 DEF MadeBy
<1>13. History(m)
  BY <1>1, <1>6, <1>7, <1>10, <1>11, <1>12 DEF History
<1>14. ASSUME Len(kept) > Len(new)
       PROVE  new = <<>> /\ Len(kept) = 1
  <2>1. prefix = 0
    BY <1>1, <1>3, <1>4, <1>5, <1>7, <1>14
  <2>2. Len(kept) = 1 /\ Len(new) = 0
    BY <1>1, <1>3, <1>5, <1>7, <1>14, <2>1
  <2> QED BY <1>1, <2>2, EmptySeq DEF IsSeq
<1> QED BY <1>6, <1>13, <1>14, <1>15 DEF m, new

\* Executing the commands that have no snapshot completes a node.
LEMMA ExecuteKeepsHistory ==
    ASSUME NEW n, History(n), ~(Len(n.snapshots) > Len(n.commands))
    PROVE  LET m == ExecuteRest(n, None) IN
           /\ History(m)
           /\ m.version = n.version /\ m.content = n.content
           /\ m.commands = n.commands
           /\ Len(m.snapshots) = Len(m.commands)
           /\ \A i \in 1..Len(m.snapshots) :
                 IF i <= Len(n.snapshots) THEN m.snapshots[i] = n.snapshots[i]
                 ELSE m.snapshots[i].version = n.version
<1> DEFINE m == ExecuteRest(n, None)
           k == Len(n.commands)
           s == m.snapshots
           ctx == Contexts(n, None)
<1>1. /\ Len(n.snapshots) \in Nat /\ k \in Nat /\ Len(n.snapshots) <= k
  BY LenProperties DEF History, IsSeq
<1>2. /\ s = [i \in 1..k |-> IF i <= Len(n.snapshots) THEN n.snapshots[i]
                               ELSE Snapshot(n.commands[i], n.version, ctx[i])]
      /\ m.version = n.version /\ m.commands = n.commands /\ m.content = n.content
  BY DEF ExecuteRest, History
<1>11. /\ ctx[Len(n.snapshots)] = None
       /\ \A i \in 1..k : i > Len(n.snapshots) =>
             ctx[i] = ProofStateAfter(n.commands[i], ctx[i - 1])
  BY <1>1, ContextsDef
<1> HIDE DEF m, ctx, k
<1>3. IsSeq(s) /\ Len(s) = k
  BY <1>1, <1>2, FunctionIsSeq
<1>4. \A i \in 1..k : i <= Len(n.snapshots) =>
          s[i] = n.snapshots[i] /\ i \in 1..Len(n.snapshots)
  BY <1>1, <1>2
<1>5. \A i \in 1..k : ~(i <= Len(n.snapshots)) =>
          s[i] = Snapshot(n.commands[i], n.version, ctx[i])
  BY <1>1, <1>2
<1> HIDE DEF s
<1> USE DEF k
<1>6. Numbered(s)
  <2> SUFFICES ASSUME NEW i \in 1..k PROVE s[i].command_id = i - 1
    BY <1>3 DEF Numbered
  <2>1. CASE i <= Len(n.snapshots)
    BY <1>4, <2>1 DEF History, Numbered
  <2>2. CASE ~(i <= Len(n.snapshots))
    <3>1. s[i].command_id = n.commands[i].id
      BY <1>5, <2>2, SnapshotFields
    <3> QED BY <3>1 DEF History
  <2> QED BY <2>1, <2>2
<1>7. \A i \in 1..k : /\ s[i].version \in Nat /\ s[i].version <= n.version
                      /\ ~(i <= Len(n.snapshots)) => s[i].version = n.version
  <2> SUFFICES ASSUME NEW i \in 1..k
               PROVE  /\ s[i].version \in Nat /\ s[i].version <= n.version
                      /\ ~(i <= Len(n.snapshots)) => s[i].version = n.version
    OBVIOUS
  <2>1. CASE i <= Len(n.snapshots)
    BY <1>4, <2>1 DEF History, Ordered
  <2>2. CASE ~(i <= Len(n.snapshots))
    <3>1. s[i].version = n.version
      BY <1>5, <2>2, SnapshotFields
    <3> QED BY <2>2, <3>1 DEF History
  <2> QED BY <2>1, <2>2
<1>8. Ordered(s, n.version)
  <2>1. ASSUME NEW i \in 1..Len(s), NEW j \in 1..Len(s), i < j
        PROVE  s[i].version <= s[j].version
    <3>1. i \in 1..k /\ j \in 1..k
      BY <1>3
    <3>2. CASE j <= Len(n.snapshots)
      <4>1. i <= Len(n.snapshots)
        BY <1>1, <2>1, <3>2
      <4> QED BY <1>4, <2>1, <3>1, <3>2, <4>1 DEF History, Ordered
    <3>3. CASE ~(j <= Len(n.snapshots))
      <4>1. s[j].version = n.version /\ s[i].version <= n.version
        BY <1>7, <3>1, <3>3
      <4> QED BY <4>1
    <3> QED BY <3>2, <3>3
  <2>2. \A i \in 1..Len(s) : s[i].version \in Nat /\ s[i].version <= n.version
    BY <1>1, <1>3, <1>7
  <2> QED BY <2>1, <2>2 DEF Ordered
<1>12. ASSUME NEW i \in 1..k, ~(i <= Len(n.snapshots))
       PROVE  MadeBy(s, i, n.commands[i].source)
  <2>1. Said(s[i]) = SaidOf(n.commands[i].source)
    BY <1>5, <1>12, SaidBySource
  <2>2. ctx[i] = StateAfter(n.commands[i].source, i, ctx[i - 1])
    <3>1. n.commands[i].id = i - 1
      BY DEF History
    <3>2. i > Len(n.snapshots)
      BY <1>1, <1>12
    <3>3. ctx[i] = ProofStateAfter(n.commands[i], ctx[i - 1])
      BY <1>11, <3>2
    <3> QED BY <3>1, <3>3, StateBySource
  <2>3. s[i].proof_state = ctx[i]
    BY <1>5, <1>12, SnapshotFields
  <2>4. CASE i - 1 = Len(n.snapshots)
    BY <1>11, <2>1, <2>2, <2>3, <2>4 DEF MadeBy
  <2>5. CASE i - 1 # Len(n.snapshots)
    <3>1. i - 1 \in 1..k /\ ~(i - 1 <= Len(n.snapshots)) /\ i > 1
      BY <1>1, <1>12, <2>5
    <3>2. s[i - 1].proof_state = ctx[i - 1]
      BY <1>5, <3>1, SnapshotFields
    <3> QED BY <2>1, <2>2, <2>3, <3>1, <3>2 DEF MadeBy
  <2> QED BY <2>4, <2>5
<1>9. Made(m)
  <2>1. ASSUME NEW i \in 2..k
        PROVE  MadeBy(s, i, n.commands[i].source)
    <3>1. i \in 1..k /\ i - 1 \in 1..k
      BY <1>1
    <3>2. CASE i <= Len(n.snapshots)
      <4>1. i \in 2..Len(n.snapshots) /\ i - 1 <= Len(n.snapshots)
        BY <1>1, <3>2
      <4>2. MadeBy(n.snapshots, i, n.commands[i].source)
        BY <1>1, <3>1, <4>1 DEF History, Made
      <4>3. s[i] = n.snapshots[i] /\ s[i - 1] = n.snapshots[i - 1]
        BY <1>4, <3>1, <3>2, <4>1
      <4> QED BY <4>2, <4>3 DEF MadeBy
    <3>3. CASE ~(i <= Len(n.snapshots))
      BY <1>12, <3>1, <3>3
    <3> QED BY <3>2, <3>3
  <2>2. ASSUME 1 <= k
        PROVE  \E source : MadeBy(s, 1, source)
    <3>1. 1 \in 1..k
      BY <1>1, <2>2
    <3>2. CASE 1 <= Len(n.snapshots)
      <4>1. PICK source : MadeBy(n.snapshots, 1, source)
        BY <3>2 DEF History, Made
      <4>2. s[1] = n.snapshots[1]
        BY <1>4, <3>1, <3>2
      <4>3. MadeBy(s, 1, source)
        BY <4>1, <4>2 DEF MadeBy
      <4> QED BY <4>3
    <3>3. CASE ~(1 <= Len(n.snapshots))
      BY <1>12, <3>1, <3>3
    <3> QED BY <3>2, <3>3
  <2> QED BY <1>2, <1>3, <2>1, <2>2 DEF Made, s
<1>10. History(m)
  BY <1>2, <1>3, <1>6, <1>8, <1>9 DEF History, s
<1>13. \A i \in 1..Len(s) : IF i <= Len(n.snapshots) THEN s[i] = n.snapshots[i]
                               ELSE s[i].version = n.version
  BY <1>3, <1>4, <1>7
<1> QED BY <1>2, <1>3, <1>10, <1>13 DEF m, s

\* What a check returns is part of what the node's snapshots report.
LEMMA RestIsReported ==
    ASSUME NEW m, History(m), NEW start \in Nat
    PROVE  NodeDiagnostics([m EXCEPT !.snapshots = SubSeq(@, start + 1, Len(@))])
              \subseteq NodeDiagnostics(m)
<1> DEFINE s == m.snapshots
           rest == SubSeq(s, start + 1, Len(s))
           tail == [m EXCEPT !.snapshots = SubSeq(@, start + 1, Len(@))]
           Reports(x) == {x.diagnostics[k] : k \in DOMAIN x.diagnostics}
<1>1. PICK S : s \in Seq(S)
  BY DEF History, IsSeq
<1>2. Len(s) \in Nat /\ DOMAIN s = 1..Len(s) /\ \A i \in 1..Len(s) : s[i] \in S
  BY <1>1, LenProperties, ElementOfSeq
<1>3. tail.snapshots = rest
  <2> HIDE DEF rest, s
  <2>1. tail = [m EXCEPT !.snapshots = rest]
    BY DEF rest, s
  <2>2. [m EXCEPT !.snapshots = rest].snapshots = rest
    OBVIOUS
  <2> HIDE DEF tail
  <2> QED BY <2>1, <2>2
<1> HIDE DEF tail, s
<1>4. \A i \in DOMAIN rest : start + i \in DOMAIN s /\ rest[i] = s[start + i]
  <2>1. \A i \in (start + 1)..Len(s) : s[i] \in S
    BY <1>2
  <2>2. start + 1 \in Int /\ Len(s) \in Int
    BY <1>2
  <2>3. /\ rest \in Seq(S)
        /\ Len(rest) = IF start + 1 <= Len(s) THEN Len(s) - (start + 1) + 1 ELSE 0
        /\ \A i \in 1..(Len(s) - (start + 1) + 1) : rest[i] = s[start + 1 + i - 1]
    BY <2>1, <2>2, SubSeqProperties
  <2>4. DOMAIN rest = 1..Len(rest)
    BY <2>3, LenProperties
  <2> HIDE DEF rest
  <2>5. ASSUME NEW i \in DOMAIN rest
        PROVE  /\ start + i \in 1..Len(s) /\ i \in 1..(Len(s) - (start + 1) + 1)
               /\ start + 1 + i - 1 = start + i
    BY <1>2, <2>3, <2>4, <2>5
  <2> QED BY <1>2, <2>3, <2>5
<1>5. NodeDiagnostics(tail) = UNION {Reports(rest[i]) : i \in DOMAIN rest}
  BY <1>3 DEF NodeDiagnostics
<1>6. NodeDiagnostics(m) = UNION {Reports(s[i]) : i \in DOMAIN s}
  BY DEF NodeDiagnostics, s
<1> HIDE DEF Reports, rest
<1> QED BY <1>4, <1>5, <1>6 DEF tail

\* The first k snapshots of a node are a history of it, too.
LEMMA TruncatedHistory ==
    ASSUME NEW n, History(n), NEW k \in 0..Len(n.snapshots)
    PROVE  LET m == [n EXCEPT !.snapshots = SubSeq(@, 1, k)]
           IN  /\ History(m) /\ Len(m.snapshots) = k
               /\ m.version = n.version /\ m.content = n.content /\ m.commands = n.commands
<1> DEFINE s == n.snapshots
           t == SubSeq(s, 1, k)
           m == [n EXCEPT !.snapshots = SubSeq(@, 1, k)]
<1>1. PICK S : s \in Seq(S)
  BY DEF History, IsSeq
<1>2. Len(s) \in Nat /\ \A i \in 1..Len(s) : s[i] \in S
  BY <1>1, LenProperties, ElementOfSeq
<1>3. t \in Seq(S) /\ Len(t) = k /\ \A i \in 1..k : t[i] = s[i]
  <2>1. \A i \in 1..k : s[i] \in S
    BY <1>2
  <2>2. /\ t \in Seq(S) /\ Len(t) = (IF 1 <= k THEN k - 1 + 1 ELSE 0)
        /\ \A i \in 1..(k - 1 + 1) : t[i] = s[1 + i - 1]
    <3>1. 1 \in Int /\ k \in Int
      OBVIOUS
    <3> QED BY <2>1, <3>1, SubSeqProperties
  <2> HIDE DEF t, s
  <2>3. k - 1 + 1 = k /\ \A i \in 1..k : 1 + i - 1 = i
    OBVIOUS
  <2> QED BY <2>2, <2>3
<1>4. /\ m.snapshots = t /\ m.version = n.version
      /\ m.content = n.content /\ m.commands = n.commands
  BY <1>2 DEF History
<1>5. IsSeq(t)
  BY <1>3 DEF IsSeq
<1> HIDE DEF t, m
<1>6. Numbered(t) /\ Ordered(t, n.version)
  <2>1. 1..k \subseteq 1..Len(s)
    BY <1>2
  <2>2. Numbered(s) /\ Ordered(s, n.version)
    BY DEF History
  <2> HIDE DEF s
  <2> QED BY <1>3, <2>1, <2>2 DEF Numbered, Ordered
<1>7. Made(m)
  <2>1. ASSUME NEW i \in 2..k, i <= Len(n.commands)
        PROVE  MadeBy(t, i, n.commands[i].source)
    <3>1. i \in 2..Len(s) /\ i \in 1..k /\ i - 1 \in 1..k
      BY <1>2
    <3>2. MadeBy(s, i, n.commands[i].source)
      BY <2>1, <3>1 DEF History, Made
    <3> QED BY <1>3, <3>1, <3>2 DEF MadeBy
  <2>2. ASSUME 1 <= k
        PROVE  \E source : MadeBy(t, 1, source)
    <3>1. 1 <= Len(s) /\ 1 \in 1..k
      BY <1>2, <2>2
    <3>2. PICK source : MadeBy(s, 1, source)
      BY <3>1 DEF History, Made
    <3>3. MadeBy(t, 1, source)
      BY <1>3, <3>1, <3>2 DEF MadeBy
    <3> QED BY <3>3
  <2> QED BY <1>3, <1>4, <2>1, <2>2 DEF Made
<1>8. History(m)
  BY <1>4, <1>5, <1>6, <1>7 DEF History
<1> QED BY <1>3, <1>4, <1>8 DEF m

\* A check of a node that was edited keeps the invariant.
LEMMA CheckKeepsInv ==
    ASSUME Inv, ~poisoned, NEW u \in URI, NEW n, History(n), n.version = global_version',
           n.content \in Content, n.commands = parse_commands(n.content),
           global_version' \in Nat, global_version < global_version',
           \A i \in 1..Len(n.snapshots) : n.snapshots[i].version < n.version,
           Len(n.snapshots) > Len(n.commands) => n.commands = <<>> /\ Len(n.snapshots) = 1,
           check_file(u, n)
    PROVE  Inv'
<1> DEFINE Parsed(m) == m.content \in Content /\ m.commands = parse_commands(m.content)
<1>1. \A v \in DOMAIN nodes : /\ History(nodes[v]) /\ Parsed(nodes[v])
                               /\ nodes[v].version \in 1..global_version'
                               /\ Len(nodes[v].snapshots) = Len(nodes[v].commands)
                               /\ published[v] \subseteq NodeDiagnostics(nodes[v])
  BY DEF Inv
<1>2. global_version' \in 1..global_version' /\ DOMAIN nodes \union {u} \subseteq URI
  BY DEF Inv
<1>3. CASE Len(n.snapshots) > Len(n.commands)
  <2>1. nodes' = Put(nodes, u, n) /\ poisoned' = TRUE /\ published' = published
    BY <1>3 DEF check_file
  <2>2. DOMAIN nodes' = DOMAIN nodes \union {u} /\ nodes'[u] = n
    BY <2>1 DEF Put
  <2>3. \A v \in DOMAIN nodes' : v # u => v \in DOMAIN nodes /\ nodes'[v] = nodes[v]
    BY <2>1 DEF Put
  <2>4. \A v \in DOMAIN nodes' : /\ History(nodes'[v]) /\ Parsed(nodes'[v])
                                  /\ nodes'[v].version \in 1..global_version'
    BY <1>1, <1>2, <2>2, <2>3
  <2>5. PoisonIsExplained'
    BY <1>3, <2>2 DEF PoisonIsExplained
  <2> QED BY <1>2, <2>1, <2>2, <2>4, <2>5 DEF Inv
<1> DEFINE m == ExecuteRest(n, None)
           start == Len(n.snapshots)
<1>4. ASSUME ~(start > Len(n.commands))
      PROVE  /\ History(m) /\ m.version = n.version /\ Len(m.snapshots) = Len(m.commands)
             /\ m.content = n.content /\ m.commands = n.commands
             /\ start \in Nat /\ Len(n.commands) \in Nat
  BY <1>4, ExecuteKeepsHistory, LenProperties DEF History, IsSeq
<1>5. CASE ~(start > Len(n.commands)) /\ PanicsAt(n) # {}
  <2> DEFINE p == Min(PanicsAt(n))
             k == [m EXCEPT !.snapshots = SubSeq(@, 1, p - 1)]
  <2>1. nodes' = Put(nodes, u, k) /\ poisoned' = TRUE /\ published' = published
    <3> HIDE DEF k, m
    <3>1. check_file_panics(u, n, p - 1)
      BY <1>4, <1>5 DEF check_file
    <3> QED BY <3>1 DEF check_file_panics, k, m
  <2>2. p \in PanicsAt(n)
    <3>1. PanicsAt(n) \in SUBSET Nat
      BY <1>4, <1>5 DEF PanicsAt
    <3>2. \E x \in PanicsAt(n) : \A y \in PanicsAt(n) : x <= y
      BY <1>5, <3>1, LeastNatural
    <3> QED BY <3>2 DEF Min
  <2> HIDE DEF p
  <2>3. /\ p \in 1..Len(n.commands) /\ p - 1 \in 0..Len(m.snapshots)
        /\ p - 1 < Len(n.commands) /\ p - 1 + 1 = p
        /\ n.commands[p].source \in Panics
    <3> HIDE DEF m
    <3> QED BY <1>4, <1>5, <2>2 DEF PanicsAt
  <2>4. /\ History(k) /\ Len(k.snapshots) = p - 1 /\ k.version = n.version
        /\ k.content = n.content /\ k.commands = n.commands
    <3> HIDE DEF m
    <3> QED BY <1>4, <1>5, <2>3, TruncatedHistory
  <2> HIDE DEF k, m
  <2>5. DOMAIN nodes' = DOMAIN nodes \union {u} /\ nodes'[u] = k
    BY <2>1 DEF Put
  <2>6. \A v \in DOMAIN nodes' : v # u => v \in DOMAIN nodes /\ nodes'[v] = nodes[v]
    BY <2>1 DEF Put
  <2>7. \A v \in DOMAIN nodes' : /\ History(nodes'[v]) /\ Parsed(nodes'[v])
                                  /\ nodes'[v].version \in 1..global_version'
    BY <1>1, <1>2, <2>4, <2>5, <2>6
  <2>8. \A i \in 1..Len(k.snapshots) : k.snapshots[i].command_id = i - 1
    BY <2>4 DEF History, Numbered
  <2>9. PoisonIsExplained'
    BY <2>3, <2>4, <2>5, <2>8 DEF PoisonIsExplained
  <2> QED BY <1>2, <2>1, <2>5, <2>7, <2>9 DEF Inv
<1>6. CASE ~(start > Len(n.commands)) /\ PanicsAt(n) = {}
  <2> DEFINE shown == NodeDiagnostics([m EXCEPT !.snapshots = SubSeq(@, start + 1, Len(@))])
  <2>1. /\ nodes' = Put(nodes, u, m) /\ poisoned' = poisoned
        /\ published' = [published EXCEPT ![u] = shown]
    <3>1. check_file_ends(u, n)
      BY <1>4, <1>6 DEF check_file
    <3> QED BY <3>1 DEF check_file_ends
  <2>2. shown \subseteq NodeDiagnostics(m)
    <3> HIDE DEF m, start
    <3> QED BY <1>4, <1>6, RestIsReported
  <2> HIDE DEF m, shown
  <2>5. DOMAIN nodes' = DOMAIN nodes \union {u} /\ nodes'[u] = m
    BY <2>1 DEF Put
  <2>6. \A v \in DOMAIN nodes' : v # u => v \in DOMAIN nodes /\ nodes'[v] = nodes[v]
    BY <2>1 DEF Put
  <2>7. \A v \in DOMAIN published : published'[v] = IF v = u THEN shown ELSE published[v]
    BY <2>1
  <2>8. DOMAIN published' = URI /\ DOMAIN nodes' \subseteq URI
    BY <1>2, <2>1, <2>5 DEF Inv
  <2>9. ASSUME NEW v \in DOMAIN nodes'
        PROVE  /\ History(nodes'[v]) /\ Parsed(nodes'[v])
               /\ nodes'[v].version \in 1..global_version'
               /\ Len(nodes'[v].snapshots) = Len(nodes'[v].commands)
               /\ published'[v] \subseteq NodeDiagnostics(nodes'[v])
    <3>1. v \in DOMAIN published
      BY <2>8, <2>9 DEF Inv
    <3>2. CASE v = u
      BY <1>2, <1>4, <1>6, <2>2, <2>5, <2>7, <3>1, <3>2
    <3>3. CASE v # u
      BY <1>1, <2>6, <2>7, <2>9, <3>1, <3>3
    <3> QED BY <3>2, <3>3
  <2>10. PoisonIsExplained'
    BY <2>1 DEF PoisonIsExplained
  <2> QED BY <2>1, <2>8, <2>9, <2>10 DEF Inv
<1> QED BY <1>3, <1>5, <1>6

\* The invariant holds at the start and every handler keeps it.
LEMMA InitInv == Init => Inv
<1>1. \A u : u \notin DOMAIN <<>>
  <2>1. <<>> \in Seq({}) /\ Len(<<>>) = 0
    BY EmptySeq
  <2>2. DOMAIN <<>> = 1..0
    BY <2>1, LenProperties
  <2> QED BY <2>2
<1> SUFFICES ASSUME Init PROVE Inv
  OBVIOUS
<1>2. \A u : u \notin DOMAIN nodes
  BY <1>1 DEF Init
<1>3. global_version = 0 /\ poisoned = FALSE /\ DOMAIN published = URI
  BY DEF Init
<1> QED BY <1>2, <1>3 DEF Inv, PoisonIsExplained

\* A node just made has a trivial history.
LEMMA NewNodeHistory == /\ History(new_node)
                        /\ Len(new_node.snapshots) = Len(new_node.commands)
                        /\ new_node.version = 0
<1>1. <<>> \in Seq({}) /\ Len(<<>>) = 0
  BY EmptySeq
<1>2. /\ new_node.snapshots = <<>> /\ new_node.commands = <<>> /\ new_node.version = 0
  BY DEF new_node
<1>3. IsSeq(<<>>)
  BY <1>1 DEF IsSeq
<1>4. Numbered(<<>>) /\ Ordered(<<>>, 0) /\ Made(new_node)
  BY <1>1, <1>2 DEF Numbered, Ordered, Made
<1> QED BY <1>1, <1>2, <1>3, <1>4 DEF History

\* Every handler keeps the invariant, and so does a stuttering step.
LEMMA NextInv == Inv /\ [Next]_vars => Inv'
<1> SUFFICES ASSUME Inv, [Next]_vars PROVE Inv'
  OBVIOUS
<1>1. global_version \in Nat
  BY DEF Inv
<1>2. ASSUME NEW u \in URI, NEW content \in Content, open_file(u, content)
      PROVE  Inv'
  <2>1. ~poisoned /\ global_version' = global_version + 1
    BY <1>2 DEF open_file
  <2> DEFINE n == update_content(new_node, content, global_version')
  <2>2. check_file(u, n)
    BY <1>2 DEF open_file
  <2>3. /\ global_version' \in Nat /\ 0 < global_version' /\ global_version < global_version'
    BY <1>1, <2>1
  <2>4. /\ History(n) /\ n.version = global_version'
        /\ n.content \in Content /\ n.commands = parse_commands(n.content)
        /\ \A i \in 1..Len(n.snapshots) : n.snapshots[i].version < n.version
        /\ Len(n.snapshots) > Len(n.commands) => n.commands = <<>> /\ Len(n.snapshots) = 1
    BY <2>3, NewNodeHistory, EditKeepsHistory
  <2> HIDE DEF n
  <2> QED BY <2>1, <2>2, <2>3, <2>4, CheckKeepsInv
<1>3. ASSUME NEW u \in URI, NEW content \in Content, update_missing(u, content)
      PROVE  Inv'
  <2>1. ~poisoned /\ global_version' = global_version + 2
    BY <1>3 DEF update_missing
  <2> DEFINE n == update_content(new_node, content, global_version')
  <2>2. check_file(u, n)
    BY <1>3 DEF update_missing
  <2>3. /\ global_version' \in Nat /\ 0 < global_version' /\ global_version < global_version'
    BY <1>1, <2>1
  <2>4. /\ History(n) /\ n.version = global_version'
        /\ n.content \in Content /\ n.commands = parse_commands(n.content)
        /\ \A i \in 1..Len(n.snapshots) : n.snapshots[i].version < n.version
        /\ Len(n.snapshots) > Len(n.commands) => n.commands = <<>> /\ Len(n.snapshots) = 1
    BY <2>3, NewNodeHistory, EditKeepsHistory
  <2> HIDE DEF n
  <2> QED BY <2>1, <2>2, <2>3, <2>4, CheckKeepsInv
<1>4. ASSUME NEW u \in URI, NEW content \in Content, update_open(u, content)
      PROVE  Inv'
  <2>1. ~poisoned /\ u \in DOMAIN nodes /\ global_version' = global_version + 1
    BY <1>4 DEF update_open
  <2> DEFINE n == update_content(nodes[u], content, global_version')
  <2>2. check_file(u, n)
    BY <1>4 DEF update_open
  <2>3. /\ History(nodes[u]) /\ nodes[u].version \in Nat
        /\ nodes[u].version <= global_version
        /\ Len(nodes[u].snapshots) = Len(nodes[u].commands)
    BY <2>1 DEF Inv, History
  <2>4. /\ global_version' \in Nat /\ nodes[u].version < global_version'
        /\ global_version < global_version'
    BY <1>1, <2>1, <2>3
  <2>5. /\ History(n) /\ n.version = global_version'
        /\ n.content \in Content /\ n.commands = parse_commands(n.content)
        /\ \A i \in 1..Len(n.snapshots) : n.snapshots[i].version < n.version
        /\ Len(n.snapshots) > Len(n.commands) => n.commands = <<>> /\ Len(n.snapshots) = 1
    BY <2>3, <2>4, EditKeepsHistory
  <2> HIDE DEF n
  <2> QED BY <2>1, <2>2, <2>4, <2>5, CheckKeepsInv
<1>5. ASSUME NEW u \in URI, close_file(u)
      PROVE  Inv'
  <2>1. /\ ~poisoned /\ poisoned' = poisoned /\ global_version' = global_version
        /\ nodes' = [v \in DOMAIN nodes \ {u} |-> nodes[v]] /\ published' = published
    BY <1>5 DEF close_file
  <2>2. \A v \in DOMAIN nodes' : v \in DOMAIN nodes /\ nodes'[v] = nodes[v]
    BY <2>1
  <2> QED BY <2>1, <2>2 DEF Inv, PoisonIsExplained
<1>6. CASE UNCHANGED vars
  BY <1>6 DEF vars, Inv, PoisonIsExplained
<1> QED BY <1>2, <1>3, <1>4, <1>5, <1>6 DEF Next

\* The inductive invariant holds in every reachable state.
LEMMA InvAlways == Spec => []Inv
<1> QED BY InitInv, NextInv, PTL DEF Spec

(***************************************************************************)
(* The results.                                                            *)
(***************************************************************************)

\* After every handler an open file has one snapshot per command, numbered
\* as the commands are: the correctness of check_file's resume index.
THEOREM SnapshotsLineUpAlways == Spec => []SnapshotsLineUp
<1>1. Inv => SnapshotsLineUp
  <2> SUFFICES ASSUME Inv, ~poisoned, NEW u \in DOMAIN nodes
               PROVE  /\ Len(nodes[u].snapshots) = Len(nodes[u].commands)
                      /\ \A i \in DOMAIN nodes[u].snapshots :
                            nodes[u].snapshots[i].command_id = i - 1
    BY DEF SnapshotsLineUp
  <2>1. IsSeq(nodes[u].snapshots) /\ Numbered(nodes[u].snapshots)
    BY DEF Inv, History
  <2>2. DOMAIN nodes[u].snapshots = 1..Len(nodes[u].snapshots)
    BY <2>1, LenProperties DEF IsSeq
  <2> QED BY <2>1, <2>2 DEF Inv, Numbered
<1> QED BY <1>1, InvAlways, PTL

\* Whatever the edits, a snapshot past the first says what its command says.
THEOREM TailIsFreshAlways == Spec => []TailIsFresh
<1>1. Inv => TailIsFresh
  <2> SUFFICES ASSUME Inv, ~poisoned, NEW u \in DOMAIN nodes,
                      NEW i \in 2..Len(nodes[u].snapshots)
               PROVE  FreshAt(u, i)
    BY DEF TailIsFresh
  <2> DEFINE n == nodes[u]
             bare == [n EXCEPT !.snapshots = <<>>]
             ctx == Contexts(bare, None)
  <2>1. History(n) /\ Len(n.snapshots) = Len(n.commands)
    BY DEF Inv
  <2>2. i \in 2..Len(n.commands) /\ i \in 1..Len(n.commands) /\ ~(i <= 0)
    BY <2>1, LenProperties DEF History, IsSeq
  <2>3. Said(n.snapshots[i]) = SaidOf(n.commands[i].source)
    BY <2>1, <2>2 DEF History, Made, MadeBy
  <2>4. Scratch(u).snapshots[i] = Snapshot(n.commands[i], n.version, ctx[i])
    <3>1. Len(<<>>) = 0
      BY EmptySeq
    <3> QED BY <2>2, <3>1 DEF Scratch, ExecuteRest
  <2>5. Said(Scratch(u).snapshots[i]) = SaidOf(n.commands[i].source)
    BY <2>4, SaidBySource
  <2> QED BY <2>3, <2>5 DEF FreshAt
<1> QED BY <1>1, InvAlways, PTL

\* A later command's snapshot is never older than an earlier one's.
THEOREM VersionsOrderedAlways == Spec => []VersionsOrdered
<1>1. Inv => VersionsOrdered
  <2> SUFFICES ASSUME Inv, NEW u \in DOMAIN nodes
               PROVE  LET s == nodes[u].snapshots IN
                      /\ \A i, j \in DOMAIN s : i < j => s[i].version <= s[j].version
                      /\ \A i \in DOMAIN s : s[i].version <= nodes[u].version
    BY DEF VersionsOrdered
  <2>1. IsSeq(nodes[u].snapshots) /\ Ordered(nodes[u].snapshots, nodes[u].version)
    BY DEF Inv, History
  <2>2. DOMAIN nodes[u].snapshots = 1..Len(nodes[u].snapshots)
    BY <2>1, LenProperties DEF IsSeq
  <2> QED BY <2>1, <2>2 DEF Ordered
<1> QED BY <1>1, InvAlways, PTL

\* The slice in check_file panics only on a file emptied of its commands, and
\* the executor only on a command it cannot stand, the first new one of its kind.
THEOREM PoisonIsExplainedAlways == Spec => []PoisonIsExplained
<1>1. Inv => PoisonIsExplained
  BY DEF Inv
<1> QED BY <1>1, InvAlways, PTL

\* The client is shown nothing of an open file that the document does not report.
THEOREM ShownIsReportedAlways == Spec => []ShownIsReported
<1>1. Inv => ShownIsReported
  BY DEF Inv, ShownIsReported, get_diagnostics
<1> QED BY <1>1, InvAlways, PTL

\* An update keeps the snapshots of the unchanged prefix, and makes those of the
\* commands after the first that are not in it anew.
THEOREM UpdateReusesAlways == Spec => UpdateReuses
<1>1. ASSUME Inv, Inv', NEW u \in DOMAIN nodes \intersect DOMAIN nodes',
             update_open(u, nodes'[u].content), ~poisoned'
      PROVE  ReusesAt(u)
  <2> DEFINE content == nodes'[u].content
             n == update_content(nodes[u], content, global_version')
             m == ExecuteRest(n, None)
             new == parse_commands(content)
             prefix == CommonPrefix(nodes[u].commands, new)
             fork == find_fork_point(nodes[u].commands, new)
             old == nodes[u].snapshots
             kept == KeptSnapshots(old, fork)
  <2>1. /\ ~poisoned /\ u \in DOMAIN nodes /\ global_version' = global_version + 1
        /\ check_file(u, n)
    BY <1>1 DEF update_open
  <2>2. ~(Len(n.snapshots) > Len(n.commands)) /\ nodes' = Put(nodes, u, m)
    <3>1. \/ poisoned'
          \/ /\ ~(Len(n.snapshots) > Len(n.commands))
             /\ check_file_ends(u, n)
      <4>1. Len(n.snapshots) \in Nat /\ Len(n.commands) \in Nat
        <5>1. /\ History(nodes[u]) /\ nodes[u].version \in 1..global_version
              /\ Len(old) = Len(nodes[u].commands) /\ global_version \in Nat
              /\ content \in Content
          BY <1>1, <2>1 DEF Inv
        <5>2. nodes[u].version < global_version' /\ global_version' \in Nat
          BY <2>1, <5>1
        <5>3. History(n)
          BY <5>1, <5>2, EditKeepsHistory
        <5> HIDE DEF n
        <5> QED BY <5>3, LenProperties DEF History, IsSeq
      <4> HIDE DEF n
      <4> QED BY <2>1, <4>1 DEF check_file, check_file_panics
    <3> QED BY <1>1, <3>1 DEF check_file_ends
  <2>3. nodes'[u] = m
    BY <2>1, <2>2 DEF Put
  <2>4. /\ History(nodes[u]) /\ nodes[u].version \in 1..global_version
        /\ Len(old) = Len(nodes[u].commands) /\ global_version \in Nat
        /\ content \in Content
    BY <1>1, <2>1 DEF Inv
  <2>5. n.snapshots = kept /\ n.commands = new /\ n.version = global_version'
    BY DEF update_content
  <2>6. History(n)
    <3>1. nodes[u].version < global_version' /\ global_version' \in Nat
      BY <2>1, <2>4
    <3> QED BY <2>4, <3>1, EditKeepsHistory
  <2> HIDE DEF n
  <2>7. /\ m.commands = new /\ History(m)
        /\ Len(m.snapshots) = Len(m.commands)
        /\ \A i \in 1..Len(m.snapshots) :
              IF i <= Len(n.snapshots) THEN m.snapshots[i] = n.snapshots[i]
              ELSE m.snapshots[i].version = n.version
    BY <2>2, <2>5, <2>6, ExecuteKeepsHistory
  <2> HIDE DEF m, content
  <2>8. IsSeq(new) /\ IsSeq(old) /\ IsSeq(nodes[u].commands) /\ Numbered(old)
    BY <2>5, <2>6, <2>4 DEF History
  <2>9. Len(old) \in Nat /\ (old # <<>> => Len(old) > 0)
    BY <2>8, LenProperties, EmptySeq DEF IsSeq
  <2> HIDE DEF new, old
  <2>10. prefix \in 0..Len(old) /\ fork = (IF prefix > 0 THEN prefix - 1 ELSE 0)
    BY <2>4, <2>8, CommonPrefixAgrees DEF find_fork_point
  <2> HIDE DEF prefix, fork
  <2>11. fork \in Nat
    BY <2>9, <2>10
  <2>12. /\ Len(kept) = IF fork + 1 <= Len(old) THEN fork + 1 ELSE Len(old)
         /\ \A i \in 1..Len(kept) : kept[i] = old[i]
    BY <2>8, <2>11, KeptFacts
  <2> HIDE DEF kept
  <2>13. Len(kept) \in Nat
    BY <2>9, <2>11, <2>12
  <2>14. DOMAIN m.snapshots = 1..Len(m.snapshots)
    BY <2>7, LenProperties DEF History, IsSeq
  <2>15. ASSUME NEW i \in 1..Len(m.snapshots)
         PROVE  (i <= prefix => i <= Len(kept)) /\ (i > prefix /\ i > 1 => ~(i <= Len(kept)))
    <3>1. Len(m.snapshots) \in Nat /\ i \in Nat /\ i >= 1
      BY <2>7, LenProperties DEF History, IsSeq
    <3> QED BY <2>9, <2>10, <2>12, <3>1
  <2>16. ASSUME NEW i \in 1..Len(m.snapshots)
         PROVE  /\ i <= prefix => m.snapshots[i] = old[i]
                /\ i > prefix /\ i > 1 => m.snapshots[i].version = global_version'
    <3>1. CASE i <= Len(kept)
      <4>1. i \in 1..Len(kept)
        BY <2>13, <3>1
      <4> QED BY <2>5, <2>7, <2>12, <2>15, <3>1, <4>1
    <3>2. CASE ~(i <= Len(kept))
      BY <2>5, <2>7, <2>15, <3>2
    <3> QED BY <3>1, <3>2
  <2> QED BY <2>3, <2>7, <2>14, <2>16 DEF ReusesAt, prefix, old
<1>2. Inv /\ Inv' /\ [Next]_vars =>
        [\A u \in DOMAIN nodes \intersect DOMAIN nodes' :
            (update_open(u, nodes'[u].content) /\ ~poisoned') => ReusesAt(u)]_vars
  BY <1>1
<1> QED BY <1>2, InvAlways, PTL DEF Spec, UpdateReuses

(***************************************************************************)
(* The proof state a file answers is its last lemma's, however the         *)
(* snapshots came about.                                                   *)
(***************************************************************************)
IsLemma(source) == Code[source] \in {"lemma-verified", "lemma-unverified"}

\* Each snapshot's proof state goes on from nothing or from the one before it.
Continues(s, cmds, n) ==
    \A i \in 1..n :
        \/ s[i].proof_state = StateAfter(cmds[i].source, i, None)
        \/ i > 1 /\ s[i].proof_state = StateAfter(cmds[i].source, i, s[i - 1].proof_state)

\* A non-empty set of numbers up to n has a greatest element, and Max is it.
LEMMA GreatestNatural ==
    ASSUME NEW n \in Nat, NEW T \in SUBSET (1..n), T # {}
    PROVE  Max(T) \in T /\ \A y \in T : Max(T) >= y
<1> DEFINE U == {k \in Nat : \A y \in T : y <= k}
<1>1. n \in U
  OBVIOUS
<1>2. PICK k \in U : \A x \in U : k <= x
  <2>1. U \in SUBSET Nat
    OBVIOUS
  <2> HIDE DEF U
  <2> QED BY <1>1, <2>1, LeastNatural
<1>3. k \in T
  <2> SUFFICES ASSUME k \notin T PROVE FALSE
    OBVIOUS
  <2>1. \A y \in T : y <= k - 1 /\ k - 1 \in Nat
    BY <1>2
  <2>2. k - 1 \in U
    BY <2>1
  <2> QED BY <1>2, <2>2
<1>4. \E x \in T : \A y \in T : x >= y
  BY <1>2, <1>3
<1> QED BY <1>4 DEF Max

\* A lemma's state is its own; any other command clears the state or leaves it.
LEMMA LemmaStates ==
    ASSUME NEW source, NEW i, NEW proof_state
    PROVE  /\ IsLemma(source) => /\ StateAfter(source, i, proof_state) = StateAfter(source, i, None)
                                 /\ StateAfter(source, i, None) # None
           /\ ~IsLemma(source) => StateAfter(source, i, proof_state) \in {None, proof_state}
<1> DEFINE cmd == [source |-> source, line |-> 0, id |-> i - 1]
<1>1. cmd.source = source
  OBVIOUS
<1>2. \A x : Some(x) # None
  BY DEF Some, None
<1> HIDE DEF cmd
<1>3. ASSUME NEW ps
      PROVE  ProofStateAfter(cmd, ps) =
                CASE Code[source] = "theory-header"    -> None
                  [] Code[source] = "lemma-verified"   -> Some({})
                  [] Code[source] = "lemma-unverified" -> Some({[goal |-> source, id |-> cmd.id]})
                  [] OTHER                             -> ps
  BY <1>1 DEF ProofStateAfter
<1>4. \A ps : StateAfter(source, i, ps) = ProofStateAfter(cmd, ps)
  BY DEF StateAfter, cmd
<1>5. CASE Code[source] = "lemma-verified"
  BY <1>2, <1>3, <1>4, <1>5 DEF IsLemma
<1>6. CASE Code[source] = "lemma-unverified"
  BY <1>2, <1>3, <1>4, <1>6 DEF IsLemma
<1>7. CASE ~IsLemma(source)
  BY <1>3, <1>4, <1>7 DEF IsLemma
<1> QED BY <1>5, <1>6, <1>7 DEF IsLemma

\* Two runs of the same commands end in the same state, if each goes on from
\* nothing or from where it stands: the state of the last lemma.
LEMMA LastStateIsTheLastLemmas ==
    ASSUME NEW s, NEW cmds, NEW n \in Nat, DOMAIN s = 1..n, Continues(s, cmds, n)
    PROVE  LET lemmas == {i \in 1..n : IsLemma(cmds[i].source)}
           IN  LastProofState(s) =
                  IF lemmas = {} THEN None
                  ELSE StateAfter(cmds[Max(lemmas)].source, Max(lemmas), None)
<1> DEFINE lemmas == {i \in 1..n : IsLemma(cmds[i].source)}
           held == {i \in DOMAIN s : s[i].proof_state # None}
           own(j) == StateAfter(cmds[j].source, j, None)
           \* From j on no lemma changes the state x.
           Stays(j, x) == \A i \in j..n : s[i].proof_state \in {None, x}
<1>1. ASSUME NEW j \in 1..n, NEW x, s[j].proof_state \in {None, x},
             \A i \in (j + 1)..n : ~IsLemma(cmds[i].source)
      PROVE  Stays(j, x)
  <2> DEFINE Bad == {i \in j..n : s[i].proof_state \notin {None, x}}
  <2> SUFFICES ASSUME Bad # {} PROVE FALSE
    OBVIOUS
  <2>1. PICK i \in Bad : \A k \in Bad : i <= k
    <3>1. Bad \in SUBSET Nat
      OBVIOUS
    <3> HIDE DEF Bad
    <3> QED BY <3>1, LeastNatural
  <2>2. i \in (j + 1)..n /\ i - 1 \in j..n /\ i \in 1..n
    BY <1>1, <2>1
  <2>3. s[i - 1].proof_state \in {None, x}
    BY <2>1, <2>2
  <2>4. ~IsLemma(cmds[i].source)
    BY <1>1, <2>2
  <2>5. s[i].proof_state \in {None, s[i - 1].proof_state}
    BY <2>2, <2>4, LemmaStates DEF Continues
  <2> QED BY <2>1, <2>3, <2>5
<1>2. CASE lemmas = {}
  <2>1. \A i \in 1..n : ~IsLemma(cmds[i].source)
    BY <1>2
  <2>2. ASSUME n > 0
        PROVE  Stays(1, None)
    <3>1. 1 \in 1..n
      BY <2>2
    <3>2. s[1].proof_state = StateAfter(cmds[1].source, 1, None)
      BY <3>1 DEF Continues
    <3>3. s[1].proof_state \in {None, None}
      BY <2>1, <3>1, <3>2, LemmaStates
    <3>4. \A i \in (1 + 1)..n : ~IsLemma(cmds[i].source)
      BY <2>1
    <3> HIDE DEF Stays
    <3> QED BY <1>1, <3>1, <3>3, <3>4
  <2>3. held = {}
    BY <2>2
  <2> QED BY <1>2, <2>3 DEF LastProofState
<1>3. CASE lemmas # {}
  <2> DEFINE j == Max(lemmas)
  <2>1. j \in lemmas /\ \A i \in lemmas : j >= i
    <3>1. lemmas \in SUBSET (1..n)
      OBVIOUS
    <3> HIDE DEF lemmas
    <3> QED BY <1>3, <3>1, GreatestNatural
  <2> HIDE DEF j
  <2>2. j \in 1..n /\ IsLemma(cmds[j].source)
    BY <2>1
  <2>3. \A i \in (j + 1)..n : ~IsLemma(cmds[i].source)
    BY <2>1, <2>2
  <2>4. s[j].proof_state = own(j) /\ own(j) # None
    BY <2>2, LemmaStates DEF Continues
  <2>5. Stays(j, own(j))
    <3> HIDE DEF Stays, own
    <3> QED BY <1>1, <2>2, <2>3, <2>4
  <2>6. j \in held /\ held \in SUBSET (1..n)
    BY <2>2, <2>4
  <2>7. Max(held) \in held /\ Max(held) >= j
    <3> HIDE DEF held
    <3> QED BY <2>6, GreatestNatural
  <2>8. s[Max(held)].proof_state = own(j)
    BY <2>2, <2>5, <2>7
  <2>9. LastProofState(s) = s[Max(held)].proof_state
    BY <2>6 DEF LastProofState
  <2> QED BY <1>3, <2>8, <2>9 DEF j
<1> QED BY <1>2, <1>3

\* Two sources that report the same are the same, or both report nothing.
LEMMA SaidTells ==
    ASSUME NEW a, NEW b, SaidOf(a) = SaidOf(b)
    PROVE  a = b \/ (Code[a] = "silent" /\ Code[b] = "silent")
<1> DEFINE d(x) == IF Code[x] = "silent" THEN <<>>
                   ELSE <<[code |-> Code[x], about |-> x, line |-> 0]>>
           f(x) == [k \in DOMAIN d(x) |-> [code |-> d(x)[k].code, about |-> d(x)[k].about]]
<1>1. SaidOf(a) = f(a) /\ SaidOf(b) = f(b)
  BY DEF SaidOf, Said, Snapshot, Diagnostics
<1>2. ASSUME NEW x
      PROVE  /\ Code[x] = "silent" => 1 \notin DOMAIN f(x)
             /\ Code[x] # "silent" => 1 \in DOMAIN f(x) /\ f(x)[1].about = x
  OBVIOUS
<1> HIDE DEF f
<1> QED BY <1>1, <1>2

\* A silent command is not a lemma: it leaves the state it finds.
LEMMA SilentLeaves ==
    ASSUME NEW a, Code[a] = "silent", NEW i, NEW proof_state
    PROVE  StateAfter(a, i, proof_state) = proof_state
  BY DEF StateAfter, ProofStateAfter

\* The snapshots of a file whose first snapshot is fresh go on one from another.
LEMMA FreshContinues ==
    ASSUME NEW n, History(n), Len(n.snapshots) = Len(n.commands), Len(n.snapshots) > 0,
           Said(n.snapshots[1]) = SaidOf(n.commands[1].source)
    PROVE  Continues(n.snapshots, n.commands, Len(n.commands))
<1>1. Len(n.snapshots) \in Nat
  BY LenProperties DEF History, IsSeq
<1>2. ASSUME NEW i \in 2..Len(n.commands)
      PROVE  MadeBy(n.snapshots, i, n.commands[i].source)
  BY <1>1 DEF History, Made
<1>3. n.snapshots[1].proof_state = StateAfter(n.commands[1].source, 1, None)
  <2>1. PICK source : MadeBy(n.snapshots, 1, source)
    BY <1>1 DEF History, Made
  <2>2. /\ SaidOf(source) = SaidOf(n.commands[1].source)
        /\ n.snapshots[1].proof_state = StateAfter(source, 1, None)
    BY <2>1 DEF MadeBy
  <2> QED BY <2>2, SaidTells, SilentLeaves
<1> QED BY <1>1, <1>2, <1>3 DEF Continues, MadeBy

\* An open file whose first snapshot is fresh answers the proof state that a
\* check from scratch would, although each check starts in an empty context.
THEOREM ProofStateAsFromScratchAlways == Spec => []ProofStateAsFromScratch
<1>1. Inv => ProofStateAsFromScratch
  <2> SUFFICES ASSUME Inv, ~poisoned, NEW u \in DOMAIN nodes,
                      Len(nodes[u].snapshots) > 0, FreshAt(u, 1)
               PROVE  get_proof_state(u) = LastProofState(Scratch(u).snapshots)
    BY DEF ProofStateAsFromScratch
  <2> DEFINE n == nodes[u]
             bare == [n EXCEPT !.snapshots = <<>>]
             ctx == Contexts(bare, None)
             k == Len(n.commands)
             t == Scratch(u).snapshots
  <2>1. History(n) /\ Len(n.snapshots) = k
    BY DEF Inv
  <2>2. k \in Nat /\ k > 0 /\ DOMAIN n.snapshots = 1..k
    BY <2>1, LenProperties DEF History, IsSeq
  <2>3. /\ bare.commands = n.commands /\ bare.snapshots = <<>> /\ bare.version = n.version
        /\ Len(<<>>) = 0
    BY EmptySeq DEF History
  <2>4. /\ ctx[0] = None
        /\ \A i \in 1..k : ctx[i] = ProofStateAfter(n.commands[i], ctx[i - 1])
    <3> HIDE DEF bare
    <3>1. /\ ctx[Len(bare.snapshots)] = None
          /\ \A i \in 1..Len(bare.commands) : i > Len(bare.snapshots) =>
                ctx[i] = ProofStateAfter(bare.commands[i], ctx[i - 1])
      BY <2>2, <2>3, ContextsDef
    <3> QED BY <2>2, <2>3, <3>1
  <2>5. DOMAIN t = 1..k /\ \A i \in 1..k : t[i] = Snapshot(n.commands[i], n.version, ctx[i])
    <3>1. t = [i \in 1..k |-> IF i <= Len(bare.snapshots) THEN bare.snapshots[i]
                              ELSE Snapshot(n.commands[i], n.version, ctx[i])]
      BY <2>3 DEF Scratch, ExecuteRest
    <3> HIDE DEF bare, ctx, t
    <3> QED BY <2>2, <2>3, <3>1
  <2> HIDE DEF bare, ctx, t
  <2>6. \A i \in 1..k : t[i].proof_state = ctx[i]
    BY <2>5, SnapshotFields
  <2>7. Continues(t, n.commands, k)
    <3> SUFFICES ASSUME NEW i \in 1..k
                 PROVE  \/ t[i].proof_state = StateAfter(n.commands[i].source, i, None)
                        \/ i > 1 /\ t[i].proof_state =
                              StateAfter(n.commands[i].source, i, t[i - 1].proof_state)
      BY DEF Continues
    <3>1. n.commands[i].id = i - 1
      BY <2>1 DEF History
    <3>2. ctx[i] = StateAfter(n.commands[i].source, i, ctx[i - 1])
      BY <2>4, <3>1, StateBySource
    <3>3. CASE i = 1
      <4>1. ctx[i - 1] = None
        BY <2>4, <3>3
      <4> QED BY <2>6, <3>2, <4>1
    <3>4. CASE i # 1
      <4>1. i - 1 \in 1..k /\ i > 1
        BY <2>2, <3>4
      <4> QED BY <2>6, <3>2, <4>1
    <3> QED BY <3>3, <3>4
  <2>8. Continues(n.snapshots, n.commands, k)
    <3>1. 1 \in 1..k
      BY <2>2
    <3>2. Said(n.snapshots[1]) = SaidOf(n.commands[1].source)
      BY <2>5, <3>1, SaidBySource DEF FreshAt, t
    <3> QED BY <2>1, <2>2, <3>2, FreshContinues
  <2>9. LastProofState(n.snapshots) = LastProofState(t)
    <3> DEFINE lemmas == {i \in 1..k : IsLemma(n.commands[i].source)}
               end == IF lemmas = {} THEN None
                      ELSE StateAfter(n.commands[Max(lemmas)].source, Max(lemmas), None)
    <3>1. LastProofState(n.snapshots) = end
      BY <2>2, <2>8, LastStateIsTheLastLemmas
    <3>2. DOMAIN t = 1..k
      BY <2>5
    <3>3. LastProofState(t) = end
      BY <2>2, <2>7, <3>2, LastStateIsTheLastLemmas
    <3> QED BY <3>1, <3>3
  <2> QED BY <2>9 DEF get_proof_state, t
<1> QED BY <1>1, InvAlways, PTL
=============================================================================
