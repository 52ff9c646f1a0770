------------------------------ MODULE BuildProofs ------------------------------
(***************************************************************************)
(* Proofs about the loaders of a directory of theories, for every set of   *)
(* theories, every import graph and every order the hash maps allow.       *)
(*                                                                         *)
(* While theories are sorted, the queue holds just the theories that are   *)
(* not ordered and import nothing that is not (SortInv); when it is empty, *)
(* each of the theories left imports another of them, so that those left   *)
(* are just the theories no order can place (Stuck).  From then on every   *)
(* theory is in its place (InPlace), which is what the loaders promise     *)
(* (ImportOrder), and what the annotations of the lemmas rest on.          *)
(*                                                                         *)
(* The database is shown to hold, at every moment of the loop, what one    *)
(* filled from all the lemmas loaded so far holds (DatabaseInv).           *)
(***************************************************************************)
EXTENDS BuildSystem, FiniteSetTheorems, SequenceTheorems, WellFoundedInduction, TLAPS

Distinct(s) == \A i, j \in DOMAIN s : s[i] = s[j] => i = j

\* The imports of t that are not ordered, each as often as t has it.
Missing(t) == {k \in DOMAIN files[t] : files[t][k] \in Found \ ToSet(order)}

Before(j) == {order[i] : i \in 1..(j - 1)}

\* A theory whose imports can all come first comes after them, and any other
\* one after every such theory.
InPlace(j) ==
    IF order[j] \in Promise!Stuck THEN Found \ Promise!Stuck \subseteq Before(j)
    ELSE ToSet(files[order[j]]) \cap Found \subseteq Before(j)

OrderTypeOK ==
    /\ loader \in {"build", "classify", "graph"}
    /\ phase \in {"scan", "sort", "load", "done", "served"}
    /\ Found \subseteq Theory /\ \A t \in Found : files[t] \in Seq(STRING)
    /\ order \in Seq(Found) /\ Distinct(order)
    /\ at \in 0..Len(order)

SortInv ==
    phase = "sort" =>
        /\ queue \in Seq(Found) /\ Distinct(queue)
        /\ ToSet(queue) = {t \in Found \ ToSet(order) : Missing(t) = {}}
        /\ \A t \in Found : in_degree[t] = Cardinality(Missing(t))
        /\ \A j \in DOMAIN order : ToSet(files[order[j]]) \cap Found \subseteq Before(j)

OrderInv ==
    /\ OrderTypeOK
    /\ phase = "scan" => order = <<>>
    /\ phase \in {"scan", "sort"} => at = 0
    /\ SortInv
    /\ phase \in {"load", "done", "served"} => ToSet(order) = Found /\ \A j \in DOMAIN order : InPlace(j)
    /\ phase \in {"done", "served"} => at = Len(order)

\* What the builder and the graph keep of the theories they have been through.
RegistryInv == "Pure" \in DOMAIN registry /\ DOMAIN registry \subseteq Processed \cup {"Pure"}

BuildReportInv ==
    loader = "build" =>
        /\ result \in [loaded : Nat, failed : Nat, theorems : Nat, names : Seq(Theory)]
        /\ result.loaded + result.failed = at /\ Len(result.names) = result.loaded
        /\ ToSet(result.names) \subseteq DOMAIN registry

VerifyReportInv ==
    loader = "classify" =>
        /\ DOMAIN report = 1..at /\ \E S : report \in Seq(S)
        /\ \A i \in 1..at : /\ report[i].name = order[i]
                            /\ has_verified(report[i].status) => order[i] \in DOMAIN registry

GraphInv ==
    loader = "graph" =>
        /\ errors \in Seq(Theory) /\ DOMAIN nodes \cup ToSet(errors) = Processed
        /\ type_env = DOMAIN nodes

ReportInv ==
    RegistryInv /\ BuildReportInv /\ VerifyReportInv /\ GraphInv /\ AnnotatedWithImports

SystemInv == OrderInv /\ ReportInv

-----------------------------------------------------------------------------
(* Lists without repetitions. *)

\* A non-empty set of naturals has a least element.
LEMMA LeastNatural ==
    ASSUME NEW T \in SUBSET Nat, T # {}
    PROVE  \E x \in T : \A y \in T : x <= y
<1>1. PICK x \in T : \A y \in T : ~(<<y, x>> \in OpToRel(<, Nat))
  BY NatLessThanWellFounded, WFMin
<1>2. \A y \in T : ~(y < x)
  BY <1>1 DEF OpToRel
<1> QED BY <1>2

\* A list of a finite set has each of its members once.
LEMMA ListsOfASet ==
    ASSUME NEW S, IsFiniteSet(S), NEW s \in SetToSeqs(S)
    PROVE  s \in Seq(S) /\ Distinct(s) /\ ToSet(s) = S
<1> DEFINE n == Cardinality(S)
<1>1. n \in Nat
  BY FS_CardinalityType
<1>2. s \in [1..n -> S] /\ \A i, j \in 1..n : i # j => s[i] # s[j]
  BY DEF SetToSeqs
<1> HIDE DEF n
<1>3. s \in Injection(1..n, S)
  BY <1>2 DEF Injection, IsInjective
<1>4. Cardinality(1..n) = n
  BY <1>1, FS_Interval
<1>5. s \in Surjection(1..n, S)
  BY <1>3, <1>4, FS_Injection DEF n
<1>6. \A x \in S : \E i \in 1..n : s[i] = x
  BY <1>5 DEF Surjection
<1>7. s \in Seq(S) /\ DOMAIN s = 1..n
  BY <1>1, <1>2
<1> QED BY <1>2, <1>6, <1>7 DEF Distinct, ToSet

\* One list after another.
LEMMA Concatenation ==
    ASSUME NEW X, NEW a \in Seq(X), NEW b \in Seq(X),
           Distinct(a), Distinct(b), ToSet(a) \cap ToSet(b) = {}
    PROVE  /\ a \o b \in Seq(X) /\ Distinct(a \o b) /\ ToSet(a \o b) = ToSet(a) \cup ToSet(b)
           /\ Len(a \o b) = Len(a) + Len(b) /\ Len(a) \in Nat /\ Len(b) \in Nat
           /\ \A i \in 1..Len(a) : (a \o b)[i] = a[i]
           /\ \A i \in 1..Len(b) : (a \o b)[Len(a) + i] = b[i]
<1> DEFINE c == a \o b
<1>1. /\ c \in Seq(X) /\ Len(c) = Len(a) + Len(b) /\ Len(a) \in Nat /\ Len(b) \in Nat
      /\ DOMAIN a = 1..Len(a) /\ DOMAIN b = 1..Len(b) /\ DOMAIN c = 1..(Len(a) + Len(b))
  OBVIOUS
<1>2. \A i \in 1..(Len(a) + Len(b)) : c[i] = IF i <= Len(a) THEN a[i] ELSE b[i - Len(a)]
  BY ConcatProperties
<1> HIDE DEF c
<1>3. \A i \in 1..Len(a) : c[i] = a[i]
  BY <1>1, <1>2
<1>4. \A i \in 1..Len(b) : c[Len(a) + i] = b[i]
  <2> SUFFICES ASSUME NEW i \in 1..Len(b) PROVE c[Len(a) + i] = b[i]
    OBVIOUS
  <2>1. Len(a) + i \in 1..(Len(a) + Len(b)) /\ ~(Len(a) + i <= Len(a)) /\ (Len(a) + i) - Len(a) = i
    BY <1>1
  <2> QED BY <1>2, <2>1
<1>5. \A i \in DOMAIN c : \/ i \in 1..Len(a) /\ c[i] = a[i]
                          \/ i - Len(a) \in 1..Len(b) /\ c[i] = b[i - Len(a)]
  BY <1>1, <1>2
<1>6. ToSet(c) = ToSet(a) \cup ToSet(b)
  <2>1. \A x \in ToSet(c) : x \in ToSet(a) \cup ToSet(b)
    BY <1>1, <1>5 DEF ToSet
  <2>2. \A x \in ToSet(a) : x \in ToSet(c)
    <3> SUFFICES ASSUME NEW i \in 1..Len(a) PROVE \E k \in DOMAIN c : c[k] = a[i]
      BY <1>1 DEF ToSet
    <3>1. i \in DOMAIN c
      BY <1>1
    <3> QED BY <1>3, <3>1
  <2>3. \A x \in ToSet(b) : x \in ToSet(c)
    <3> SUFFICES ASSUME NEW i \in 1..Len(b) PROVE \E k \in DOMAIN c : c[k] = b[i]
      BY <1>1 DEF ToSet
    <3>1. Len(a) + i \in DOMAIN c
      BY <1>1
    <3> QED BY <1>4, <3>1
  <2> QED BY <2>1, <2>2, <2>3
<1>7. Distinct(c)
  <2> SUFFICES ASSUME NEW i \in DOMAIN c, NEW j \in DOMAIN c, c[i] = c[j] PROVE i = j
    BY DEF Distinct
  <2>0. i \in Int /\ j \in Int
    BY <1>1
  <2>1. CASE i \in 1..Len(a) /\ j \in 1..Len(a)
    BY <1>1, <1>3, <2>1 DEF Distinct
  <2>2. CASE i - Len(a) \in 1..Len(b) /\ j - Len(a) \in 1..Len(b)
    <3>1. c[i] = b[i - Len(a)] /\ c[j] = b[j - Len(a)]
      BY <1>1, <1>2, <2>0, <2>2
    <3>2. i - Len(a) = j - Len(a)
      BY <1>1, <2>2, <3>1 DEF Distinct
    <3> QED BY <1>1, <2>0, <3>2
  <2>3. \A x \in 1..Len(a), y \in 1..Len(b) : a[x] # b[y]
    BY <1>1 DEF ToSet
  <2> QED BY <1>5, <2>1, <2>2, <2>3
<1> QED BY <1>1, <1>3, <1>4, <1>6, <1>7 DEF c

\* A list of one.
LEMMA OneElement ==
    ASSUME NEW X, NEW x \in X
    PROVE  <<x>> \in Seq(X) /\ Distinct(<<x>>) /\ ToSet(<<x>>) = {x} /\ Len(<<x>>) = 1
BY DEF Distinct, ToSet

\* What is left when the first or the last is taken.
LEMMA TakeOne ==
    ASSUME NEW X, NEW q \in Seq(X), Distinct(q), q # <<>>
    PROVE  /\ Head(q) \in ToSet(q) /\ Tail(q) \in Seq(X) /\ Distinct(Tail(q)) /\ ToSet(Tail(q)) = ToSet(q) \ {Head(q)}
           /\ Last(q) \in ToSet(q) /\ Front(q) \in Seq(X) /\ Distinct(Front(q)) /\ ToSet(Front(q)) = ToSet(q) \ {Last(q)}
<1> DEFINE n == Len(q)
<1>1. n \in Nat /\ n >= 1 /\ DOMAIN q = 1..n
  BY EmptySeq
<1> DEFINE t == Tail(q)
<1>2. t \in Seq(X) /\ DOMAIN t = 1..(n - 1) /\ \A i \in 1..(n - 1) : t[i] = q[i + 1]
  BY HeadTailProperties, LenProperties
<1> DEFINE f == Front(q)
<1>3. f \in Seq(X) /\ DOMAIN f = 1..(n - 1) /\ \A i \in 1..(n - 1) : f[i] = q[i]
  <2>1. f = SubSeq(q, 1, n - 1)
    BY DEF Front
  <2>2. n - 1 <= Len(q) /\ 1 \in Int /\ n - 1 \in Int /\ 1 \in 1..(Len(q) + 1) /\ n - 1 \in 0..Len(q)
    BY <1>1
  <2> HIDE DEF f
  <2>3. /\ SubSeq(q, 1, n - 1) \in Seq(X) /\ Len(SubSeq(q, 1, n - 1)) = n - 1
        /\ \A i \in 1..(n - 1) : SubSeq(q, 1, n - 1)[i] = q[i]
    BY <1>1, <2>2, SubSeqProperties
  <2> QED BY <2>1, <2>3, LenProperties
<1>4. Head(q) = q[1] /\ Last(q) = q[n]
  BY <1>1 DEF Last
<1> HIDE DEF n, t, f
<1>5. Distinct(t) /\ Distinct(f)
  <2>1. Distinct(t)
    <3> SUFFICES ASSUME NEW i \in 1..(n - 1), NEW j \in 1..(n - 1), t[i] = t[j] PROVE i = j
      BY <1>2 DEF Distinct
    <3>1. i + 1 \in DOMAIN q /\ j + 1 \in DOMAIN q /\ q[i + 1] = q[j + 1]
      BY <1>1, <1>2
    <3>2. i + 1 = j + 1
      BY <3>1 DEF Distinct
    <3> QED BY <1>1, <3>2
  <2>2. Distinct(f)
    BY <1>1, <1>3 DEF Distinct
  <2> QED BY <2>1, <2>2
<1>6. ToSet(t) = ToSet(q) \ {q[1]}
  <2>1. \A i \in 1..(n - 1) : i + 1 \in DOMAIN q /\ t[i] = q[i + 1] /\ q[i + 1] # q[1]
    <3> SUFFICES ASSUME NEW i \in 1..(n - 1) PROVE i + 1 \in DOMAIN q /\ q[i + 1] # q[1]
      BY <1>2
    <3>1. i + 1 \in DOMAIN q /\ 1 \in DOMAIN q /\ i + 1 # 1
      BY <1>1
    <3> QED BY <3>1 DEF Distinct
  <2>2. \A i \in DOMAIN q : i = 1 \/ (i - 1 \in 1..(n - 1) /\ t[i - 1] = q[i])
    <3> SUFFICES ASSUME NEW i \in 1..n, i # 1 PROVE i - 1 \in 1..(n - 1) /\ t[i - 1] = q[i]
      BY <1>1
    <3>1. i - 1 \in 1..(n - 1) /\ (i - 1) + 1 = i
      BY <1>1
    <3> QED BY <1>2, <3>1
  <2> QED BY <1>2, <2>1, <2>2 DEF ToSet
<1>7. ToSet(f) = ToSet(q) \ {q[n]}
  <2>1. \A i \in 1..(n - 1) : i \in DOMAIN q /\ f[i] = q[i] /\ q[i] # q[n]
    <3> SUFFICES ASSUME NEW i \in 1..(n - 1) PROVE i \in DOMAIN q /\ q[i] # q[n]
      BY <1>3
    <3>1. i \in DOMAIN q /\ n \in DOMAIN q /\ i # n
      BY <1>1
    <3> QED BY <3>1 DEF Distinct
  <2>2. \A i \in DOMAIN q : i = n \/ (i \in 1..(n - 1) /\ f[i] = q[i])
    BY <1>1, <1>3
  <2> QED BY <1>3, <2>1, <2>2 DEF ToSet
<1>8. q[1] \in ToSet(q) /\ q[n] \in ToSet(q)
  <2>1. 1 \in DOMAIN q /\ n \in DOMAIN q
    BY <1>1
  <2> QED BY <2>1 DEF ToSet
<1> QED BY <1>2, <1>3, <1>4, <1>5, <1>6, <1>7, <1>8 DEF t, f

\* A list of each member of a set has as many elements as the set.
LEMMA LengthOfAList ==
    ASSUME NEW S, NEW s \in Seq(S), Distinct(s), ToSet(s) = S
    PROVE  Len(s) = Cardinality(S)
<1>1. Len(s) \in Nat /\ s \in [1..Len(s) -> S] /\ DOMAIN s = 1..Len(s)
  BY LenProperties
<1>2. s \in Bijection(1..Len(s), S)
  BY <1>1 DEF Distinct, ToSet, Bijection, Injection, Surjection, IsInjective
<1>3. IsFiniteSet(1..Len(s)) /\ Cardinality(1..Len(s)) = Len(s)
  BY <1>1, FS_Interval
<1>4. ExistsBijection(1..Len(s), S)
  BY <1>2 DEF ExistsBijection
<1> QED BY <1>3, <1>4, FS_Bijection

\* There are finitely many names.
LEMMA FoundIsFinite ==
    ASSUME OrderTypeOK
    PROVE  IsFiniteSet(Found)
<1>1. Len(Names) \in Nat /\ DOMAIN Names = 1..Len(Names) /\ Names \in [1..Len(Names) -> Theory]
  <2>1. Len(Names) \in Nat /\ DOMAIN Names = 1..Len(Names) /\ Names \in [1..Len(Names) -> STRING]
    BY NamesAssumption, LenProperties
  <2> QED BY <2>1 DEF Theory, ToSet
<1>2. Names \in Surjection(1..Len(Names), Theory)
  BY <1>1 DEF Surjection, Theory, ToSet
<1>3. IsFiniteSet(1..Len(Names))
  BY <1>1, FS_Interval
<1>4. IsFiniteSet(Theory)
  BY <1>2, <1>3, FS_Surjection
<1> QED BY <1>4, FS_Subset DEF OrderTypeOK

-----------------------------------------------------------------------------
(* The degrees, and the theories no order can place. *)

\* The places of a header are finitely many.
LEMMA Places ==
    ASSUME OrderTypeOK, NEW t \in Found, NEW K \in SUBSET DOMAIN files[t]
    PROVE  IsFiniteSet(K) /\ Cardinality(K) \in Nat /\ (Cardinality(K) = 0 <=> K = {})
<1> DEFINE n == Len(files[t])
<1>1. n \in Nat /\ DOMAIN files[t] = 1..n
  BY LenProperties DEF OrderTypeOK
<1> HIDE DEF n
<1>2. IsFiniteSet(DOMAIN files[t])
  <2>1. IsFiniteSet(1..n)
    BY <1>1, FS_Interval
  <2> QED BY <1>1, <2>1
<1>3. IsFiniteSet(K)
  BY <1>2, FS_Subset
<1> QED BY <1>3, FS_CardinalityType, FS_EmptySet

\* Ordering a theory takes its places in a header off what is missing there.
LEMMA DegreeFalls ==
    ASSUME OrderTypeOK, NEW t \in Found, NEW d \in Found \ ToSet(order)
    PROVE  LET rest == {k \in DOMAIN files[t] : files[t][k] \in Found \ (ToSet(order) \cup {d})}
           IN  /\ Cardinality(rest) = Cardinality(Missing(t)) - Edges(t, d)
               /\ (Edges(t, d) > 0 /\ Cardinality(Missing(t)) = Edges(t, d)) <=> (rest = {} /\ Missing(t) # {})
<1> DEFINE rest == {k \in DOMAIN files[t] : files[t][k] \in Found \ (ToSet(order) \cup {d})}
<1> DEFINE edges == {k \in DOMAIN files[t] : files[t][k] = d}
<1>1. Missing(t) = rest \cup edges /\ rest \cap edges = {}
  BY DEF Missing
<1>2. rest \in SUBSET DOMAIN files[t] /\ edges \in SUBSET DOMAIN files[t] /\ Missing(t) \in SUBSET DOMAIN files[t]
  BY DEF Missing
<1>3. Edges(t, d) = Cardinality(edges)
  BY DEF Edges
<1> HIDE DEF rest, edges
<1>4. /\ IsFiniteSet(rest) /\ Cardinality(rest) \in Nat /\ (Cardinality(rest) = 0 <=> rest = {})
      /\ IsFiniteSet(edges) /\ Cardinality(edges) \in Nat /\ (Cardinality(edges) = 0 <=> edges = {})
      /\ (Cardinality(Missing(t)) = 0 <=> Missing(t) = {})
  BY <1>2, Places
<1>5. Cardinality(Missing(t)) = Cardinality(rest) + Cardinality(edges)
  <2>1. Cardinality(rest \cap edges) = 0
    BY <1>1, FS_EmptySet
  <2>2. Cardinality(rest \cup edges) = Cardinality(rest) + Cardinality(edges) - Cardinality(rest \cap edges)
    BY <1>4, FS_Union
  <2> QED BY <1>1, <1>4, <2>1, <2>2
<1>6. Cardinality(rest) = Cardinality(Missing(t)) - Edges(t, d)
  BY <1>3, <1>4, <1>5
<1>7. (Edges(t, d) > 0 /\ Cardinality(Missing(t)) = Edges(t, d)) <=> (rest = {} /\ Missing(t) # {})
  BY <1>3, <1>4, <1>5
<1> QED BY <1>6, <1>7 DEF rest

\* A theory is stuck when it is in a set whose members import one another.
LEMMA StuckFacts ==
    ASSUME OrderTypeOK
    PROVE  /\ Promise!Stuck \subseteq Found
           /\ \A S \in SUBSET Found : (\A t \in S : ToSet(files[t]) \cap S # {}) => S \subseteq Promise!Stuck
           /\ \A t \in Promise!Stuck : \E S \in SUBSET Found : t \in S /\ \A u \in S : ToSet(files[u]) \cap S # {}
<1>1. Promise!Found = Found
  BY DEF Promise!Found
<1>2. \A t \in Found : Promise!Imports(t) = ToSet(files[t]) \cap Found
  BY DEF Promise!Imports, Promise!Found, OrderTypeOK
<1>3. \A S \in SUBSET Found : (\A t \in S : Promise!Imports(t) \cap S # {}) <=> (\A t \in S : ToSet(files[t]) \cap S # {})
  BY <1>2
<1>4. Promise!Stuck = UNION {S \in SUBSET Found : \A t \in S : Promise!Imports(t) \cap S # {}}
  BY <1>1 DEF Promise!Stuck
<1> QED BY <1>3, <1>4

\* The empty queue: what is not ordered is what no order can place.
LEMMA LeftIsStuck ==
    ASSUME OrderTypeOK, SortInv, phase = "sort", queue = <<>>
    PROVE  Promise!Stuck = Found \ ToSet(order)
<1> DEFINE left == Found \ ToSet(order)
<1>1. \A t \in left : ToSet(files[t]) \cap left # {}
  <2> SUFFICES ASSUME NEW t \in left PROVE ToSet(files[t]) \cap left # {}
    OBVIOUS
  <2>1. ToSet(queue) = {}
    BY DEF ToSet
  <2>2. PICK k \in DOMAIN files[t] : files[t][k] \in left
    BY <2>1 DEF SortInv, Missing
  <2> QED BY <2>2 DEF ToSet
<1>2. left \subseteq Promise!Stuck
  BY <1>1, StuckFacts
<1>3. \A t \in Promise!Stuck : t \notin ToSet(order)
  <2> SUFFICES ASSUME NEW t \in Promise!Stuck, t \in ToSet(order) PROVE FALSE
    OBVIOUS
  <2>1. PICK S \in SUBSET Found : t \in S /\ \A u \in S : ToSet(files[u]) \cap S # {}
    BY StuckFacts
  <2>2. DOMAIN order = 1..Len(order) /\ Len(order) \in Nat
    BY DEF OrderTypeOK
  <2> DEFINE J == {j \in DOMAIN order : order[j] \in S}
  <2>3. J \in SUBSET Nat /\ J # {}
    BY <2>1, <2>2 DEF ToSet
  <2>4. PICK j \in J : \A i \in J : j <= i
    <3> HIDE DEF J
    <3> QED BY <2>3, LeastNatural
  <2>5. PICK u \in ToSet(files[order[j]]) : u \in S
    BY <2>1, <2>4
  <2>6. u \in Before(j)
    BY <2>4, <2>5 DEF SortInv
  <2>7. PICK i \in 1..(j - 1) : order[i] = u
    BY <2>6 DEF Before
  <2>8. i \in J /\ ~(j <= i)
    BY <2>2, <2>4, <2>5, <2>7
  <2> QED BY <2>4, <2>8
<1> QED BY <1>2, <1>3, StuckFacts

-----------------------------------------------------------------------------
(* The steps that order. *)

LEMMA OrderInitInv == OrderInit => OrderInv
<1> SUFFICES ASSUME OrderInit PROVE OrderInv
  OBVIOUS
<1>1. Found \subseteq Theory /\ \A t \in Found : files[t] \in Seq(STRING)
  BY HeadersAssumption DEF OrderInit, Found
<1>2. order = <<>> /\ at = 0 /\ phase = "scan" /\ loader \in {"build", "classify", "graph"}
  BY DEF OrderInit
<1>3. OrderTypeOK
  BY <1>1, <1>2 DEF OrderTypeOK, Distinct
<1> QED BY <1>2, <1>3 DEF OrderInv, SortInv

LEMMA ScanInv ==
    ASSUME OrderInv, scan
    PROVE  OrderInv'
<1>0. /\ phase = "scan" /\ phase' = "sort" /\ order = <<>> /\ at = 0
      /\ UNCHANGED <<loader, files, order, at>>
      /\ in_degree' = [t \in Found |-> DegreeOf(t)] /\ queue' \in SetToSeqs({t \in Found : DegreeOf(t) = 0})
  BY DEF scan, OrderInv
<1>1. OrderTypeOK
  BY DEF OrderInv
<1>2. OrderTypeOK'
  BY <1>0, <1>1 DEF OrderTypeOK, Found, Distinct
<1>3. ToSet(order) = {} /\ DOMAIN order = {}
  BY <1>0 DEF ToSet
<1>4. \A t \in Found : DegreeOf(t) = Cardinality(Missing(t)) /\ (DegreeOf(t) = 0 <=> Missing(t) = {})
  <2> SUFFICES ASSUME NEW t \in Found PROVE DegreeOf(t) = Cardinality(Missing(t)) /\ (DegreeOf(t) = 0 <=> Missing(t) = {})
    OBVIOUS
  <2>1. Missing(t) = {k \in DOMAIN files[t] : files[t][k] \in Found}
    BY <1>3 DEF Missing
  <2>2. DegreeOf(t) = Cardinality(Missing(t))
    BY <2>1 DEF DegreeOf
  <2> QED BY <1>1, <2>1, <2>2, Places
<1> DEFINE ready == {t \in Found : DegreeOf(t) = 0}
<1>5. queue' \in Seq(ready) /\ Distinct(queue') /\ ToSet(queue') = ready
  <2>1. IsFiniteSet(ready)
    BY <1>1, FoundIsFinite, FS_Subset
  <2> HIDE DEF ready
  <2>2. queue' \in SetToSeqs(ready)
    BY <1>0 DEF ready
  <2> QED BY <2>1, <2>2, ListsOfASet
<1>6. queue' \in Seq(Found)
  BY <1>5
<1>7. ready = {t \in Found \ ToSet(order) : Missing(t) = {}}
  BY <1>3, <1>4
<1>8. \A t : Missing(t)' = Missing(t)
  BY <1>0 DEF Missing, Found
<1>9. SortInv'
  BY <1>0, <1>3, <1>4, <1>5, <1>6, <1>7, <1>8 DEF SortInv, Found, Distinct, ToSet
<1> QED BY <1>0, <1>2, <1>9 DEF OrderInv

LEMMA OrderNextInv ==
    ASSUME OrderInv, order_next
    PROVE  OrderInv'
<1> DEFINE t == IF IsSession THEN Last(queue) ELSE Head(queue)
<1> DEFINE rest == IF IsSession THEN Front(queue) ELSE Tail(queue)
<1>0. /\ phase = "sort" /\ at = 0 /\ queue # <<>> /\ UNCHANGED <<loader, phase, files, at>>
      /\ order' = Append(order, t) /\ in_degree' = [n \in Found |-> in_degree[n] - Edges(n, t)]
      /\ \E freed \in SetToSeqs(Freed(t)) : queue' = rest \o freed
  BY DEF order_next, OrderInv
<1>1. OrderTypeOK /\ SortInv
  BY DEF OrderInv
<1>q. /\ queue \in Seq(Found) /\ Distinct(queue)
      /\ ToSet(queue) = {n \in Found \ ToSet(order) : Missing(n) = {}}
      /\ \A n \in Found : in_degree[n] = Cardinality(Missing(n))
      /\ \A j \in DOMAIN order : ToSet(files[order[j]]) \cap Found \subseteq Before(j)
  BY <1>0, <1>1 DEF SortInv
<1>2. t \in ToSet(queue) /\ rest \in Seq(Found) /\ Distinct(rest) /\ ToSet(rest) = ToSet(queue) \ {t}
  BY <1>0, <1>q, TakeOne
<1>3. PICK freed \in SetToSeqs(Freed(t)) : queue' = rest \o freed
  BY <1>0
<1> HIDE DEF t, rest
<1>4. t \in Found \ ToSet(order) /\ Missing(t) = {}
  BY <1>2, <1>q
<1>5. /\ order' \in Seq(Found) /\ Distinct(order') /\ ToSet(order') = ToSet(order) \cup {t} /\ Len(order') = Len(order) + 1
      /\ \A i \in 1..Len(order) : order'[i] = order[i]
      /\ order'[Len(order) + 1] = t /\ Len(order) \in Nat
  <2>1. order \in Seq(Found) /\ Distinct(order)
    BY <1>1 DEF OrderTypeOK
  <2>2. <<t>> \in Seq(Found) /\ Distinct(<<t>>) /\ ToSet(<<t>>) = {t} /\ Len(<<t>>) = 1
    BY <1>4, OneElement
  <2>3. order' = order \o <<t>>
    BY <1>0, <1>4, <2>1, AppendIsConcat
  <2>4. ToSet(order) \cap ToSet(<<t>>) = {}
    BY <1>4, <2>2
  <2>5. 1 \in 1..Len(<<t>>) /\ <<t>>[1] = t
    BY <2>2
  <2> DEFINE one == <<t>>
  <2> HIDE DEF one
  <2>a. one \in Seq(Found) /\ Distinct(one) /\ ToSet(order) \cap ToSet(one) = {}
    BY <2>2, <2>4 DEF one
  <2>6. /\ order \o one \in Seq(Found) /\ Distinct(order \o one) /\ ToSet(order \o one) = ToSet(order) \cup ToSet(one)
        /\ Len(order \o one) = Len(order) + Len(one) /\ Len(order) \in Nat
        /\ \A i \in 1..Len(order) : (order \o one)[i] = order[i]
        /\ \A i \in 1..Len(one) : (order \o one)[Len(order) + i] = one[i]
    BY <2>1, <2>a, Concatenation
  <2>7. order' = order \o one /\ ToSet(one) = {t} /\ Len(one) = 1 /\ 1 \in 1..Len(one) /\ one[1] = t
    BY <2>2, <2>3, <2>5 DEF one
  <2> QED BY <2>6, <2>7
<1>6. OrderTypeOK'
  <2>1. at' \in 0..Len(order') /\ Found' = Found
    BY <1>0, <1>5 DEF Found
  <2> QED BY <1>0, <1>1, <1>5, <2>1 DEF OrderTypeOK
<1>7. \A n \in Found : /\ Cardinality(Missing(n)') = in_degree[n] - Edges(n, t)
                       /\ n \in Freed(t) <=> Missing(n)' = {} /\ Missing(n) # {}
  <2> SUFFICES ASSUME NEW n \in Found
               PROVE  /\ Cardinality(Missing(n)') = in_degree[n] - Edges(n, t)
                      /\ n \in Freed(t) <=> Missing(n)' = {} /\ Missing(n) # {}
    OBVIOUS
  <2>1. Missing(n)' = {k \in DOMAIN files[n] : files[n][k] \in Found \ (ToSet(order) \cup {t})}
    BY <1>0, <1>5 DEF Missing, Found
  <2>2. in_degree[n] = Cardinality(Missing(n))
    BY <1>q
  <2>3. n \in Freed(t) <=> Edges(n, t) > 0 /\ Cardinality(Missing(n)) = Edges(n, t)
    BY <2>2 DEF Freed
  <2>4. /\ Cardinality(Missing(n)') = Cardinality(Missing(n)) - Edges(n, t)
        /\ (Edges(n, t) > 0 /\ Cardinality(Missing(n)) = Edges(n, t)) <=> (Missing(n)' = {} /\ Missing(n) # {})
    BY <1>1, <1>4, <2>1, DegreeFalls
  <2> QED BY <2>2, <2>3, <2>4
<1>8. \A n \in ToSet(order) \cup {t} : Missing(n) = {} /\ n \in Found
  <2> SUFFICES ASSUME NEW n \in ToSet(order) PROVE Missing(n) = {} /\ n \in Found
    BY <1>4
  <2>1. PICK j \in DOMAIN order : order[j] = n
    BY DEF ToSet
  <2>2. ToSet(files[n]) \cap Found \subseteq Before(j)
    BY <1>q, <2>1
  <2>3. DOMAIN order = 1..Len(order) /\ Before(j) \subseteq ToSet(order) /\ n \in Found
    <3>1. DOMAIN order = 1..Len(order) /\ Len(order) \in Nat /\ \A i \in DOMAIN order : order[i] \in Found
      BY <1>1 DEF OrderTypeOK
    <3> QED BY <2>1, <3>1 DEF Before, ToSet
  <2> QED BY <2>2, <2>3 DEF Missing, ToSet
<1>9. \A n \in Found : Missing(n)' \subseteq Missing(n)
  BY <1>0, <1>5 DEF Missing, Found
<1>10. freed \in Seq(Found) /\ Distinct(freed) /\ ToSet(freed) = Freed(t)
  <2>1. Freed(t) \in SUBSET Found
    BY DEF Freed
  <2>2. IsFiniteSet(Freed(t))
    BY <1>1, <2>1, FoundIsFinite, FS_Subset
  <2>3. freed \in Seq(Freed(t)) /\ Distinct(freed) /\ ToSet(freed) = Freed(t)
    BY <2>2, ListsOfASet
  <2> QED BY <2>1, <2>3
<1>11. ToSet(rest) \cap ToSet(freed) = {}
  BY <1>2, <1>7, <1>10, <1>q
<1>12. queue' \in Seq(Found) /\ Distinct(queue') /\ ToSet(queue') = ToSet(rest) \cup Freed(t)
  BY <1>2, <1>3, <1>10, <1>11, Concatenation
<1>13. ToSet(queue') = {n \in Found \ ToSet(order') : Missing(n)' = {}}
  <2>1. \A n \in ToSet(queue') : n \in Found \ ToSet(order') /\ Missing(n)' = {}
    BY <1>2, <1>5, <1>7, <1>8, <1>9, <1>12, <1>q DEF Freed
  <2>2. \A n \in Found \ ToSet(order') : Missing(n)' = {} => n \in ToSet(queue')
    BY <1>2, <1>5, <1>7, <1>12, <1>q
  <2> QED BY <2>1, <2>2
<1>14. \A j \in DOMAIN order' : ToSet(files[order'[j]]) \cap Found \subseteq Before(j)'
  <2> SUFFICES ASSUME NEW j \in 1..(Len(order) + 1)
               PROVE  ToSet(files[order'[j]]) \cap Found \subseteq Before(j)'
    BY <1>5
  <2>1. DOMAIN order = 1..Len(order)
    BY <1>1 DEF OrderTypeOK
  <2>2. Before(j)' = Before(j)
    <3>1. \A i \in 1..(j - 1) : i \in 1..Len(order)
      BY <1>5
    <3>2. \A i \in 1..(j - 1) : order'[i] = order[i]
      BY <1>5, <3>1
    <3> QED BY <3>2 DEF Before
  <2>3. CASE j \in 1..Len(order)
    BY <1>5, <1>q, <2>1, <2>2, <2>3
  <2>4. CASE j = Len(order) + 1
    <3>0. order'[j] = t
      BY <1>5, <2>4
    <3>1. order'[j] = t /\ j - 1 = Len(order)
      <4>1. Len(order) \in Nat
        BY <1>5
      <4> QED BY <2>4, <3>0, <4>1
    <3>2. Before(j) = ToSet(order)
      BY <2>1, <3>1 DEF Before, ToSet
    <3>3. ToSet(files[t]) \cap Found \subseteq ToSet(order)
      BY <1>4 DEF Missing, ToSet
    <3> QED BY <2>2, <3>1, <3>2, <3>3
  <2> QED BY <1>5, <2>3, <2>4
<1>15. SortInv'
  <2>1. \A n \in Found : in_degree'[n] = Cardinality(Missing(n)')
    BY <1>0, <1>7
  <2>2. Found' = Found /\ files' = files
    BY <1>0 DEF Found
  <2>3. ToSet(queue)' = ToSet(queue') /\ ToSet(order)' = ToSet(order') /\ (\A n : ToSet(files[order[n]])' = ToSet(files[order'[n]]))
    BY <2>2 DEF ToSet
  <2> QED BY <1>12, <1>13, <1>14, <2>1, <2>2, <2>3 DEF SortInv, Distinct
<1> QED BY <1>0, <1>6, <1>15 DEF OrderInv

\* Who is stuck depends on the headers only.
LEMMA SameStuck ==
    ASSUME files' = files
    PROVE  Promise!Stuck' = Promise!Stuck /\ Found' = Found
BY DEF Promise!Stuck, Promise!Imports, Promise!Found, Found

LEMMA BreakCyclesInv ==
    ASSUME OrderInv, break_cycles
    PROVE  OrderInv'
<1>0. /\ phase = "sort" /\ at = 0 /\ queue = <<>> /\ UNCHANGED <<loader, files, at>> /\ phase' = "load"
      /\ \E rest \in Unordered : order' = order \o rest
  BY DEF break_cycles, OrderInv
<1>1. OrderTypeOK /\ SortInv
  BY DEF OrderInv
<1> DEFINE left == Found \ ToSet(order)
<1>2. PICK rest \in SetToSeqs(left) : order' = order \o rest
  BY <1>0 DEF Unordered
<1>3. rest \in Seq(left) /\ Distinct(rest) /\ ToSet(rest) = left
  <2>1. IsFiniteSet(left)
    BY <1>1, FoundIsFinite, FS_Subset
  <2> HIDE DEF left
  <2> QED BY <2>1, ListsOfASet
<1>4. order \in Seq(Found) /\ Distinct(order) /\ ToSet(order) \subseteq Found /\ DOMAIN order = 1..Len(order)
  BY <1>1 DEF OrderTypeOK, ToSet
<1>5. rest \in Seq(Found)
  BY <1>3
<1>6. /\ order' \in Seq(Found) /\ Distinct(order') /\ ToSet(order') = ToSet(order) \cup ToSet(rest)
      /\ Len(order') = Len(order) + Len(rest) /\ Len(order) \in Nat /\ Len(rest) \in Nat
      /\ \A i \in 1..Len(order) : order'[i] = order[i]
      /\ \A i \in 1..Len(rest) : order'[Len(order) + i] = rest[i]
  <2>1. ToSet(order) \cap ToSet(rest) = {}
    BY <1>3
  <2> QED BY <1>2, <1>3, <1>4, <1>5, <2>1, Concatenation
<1>7. OrderTypeOK' /\ ToSet(order') = Found /\ Found' = Found
  <2>1. at' \in 0..Len(order') /\ Found' = Found
    BY <1>0, <1>6 DEF Found
  <2> QED BY <1>0, <1>1, <1>3, <1>4, <1>6, <2>1 DEF OrderTypeOK
<1>8. Promise!Stuck = left /\ Promise!Stuck' = left
  BY <1>0, <1>1, LeftIsStuck, SameStuck
<1>9. \A j \in DOMAIN order' : InPlace(j)'
  <2> SUFFICES ASSUME NEW j \in 1..(Len(order) + Len(rest)) PROVE InPlace(j)'
    <3>1. DOMAIN order' = 1..(Len(order) + Len(rest))
      BY <1>6
    <3> QED BY <3>1
  <2>1. CASE j \in 1..Len(order)
    <3>1. order'[j] = order[j] /\ order[j] \in ToSet(order)
      BY <1>4, <1>6, <2>1 DEF ToSet
    <3>2. order'[j] \notin Promise!Stuck'
      BY <1>8, <3>1
    <3>3. Before(j)' = Before(j)
      <4>1. \A i \in 1..(j - 1) : i \in 1..Len(order)
        BY <1>6, <2>1
      <4>2. \A i \in 1..(j - 1) : order'[i] = order[i]
        BY <1>6, <4>1
      <4> QED BY <4>2 DEF Before
    <3>4. ToSet(files[order[j]]) \cap Found \subseteq Before(j)
      BY <1>0, <1>1, <1>4, <2>1 DEF SortInv
    <3> QED BY <1>0, <1>7, <3>1, <3>2, <3>3, <3>4 DEF InPlace, ToSet
  <2>2. CASE j \notin 1..Len(order)
    <3>1. j - Len(order) \in 1..Len(rest) /\ Len(order) + (j - Len(order)) = j
      BY <1>6, <2>2
    <3>2. order'[j] = rest[j - Len(order)]
      <4>1. order'[Len(order) + (j - Len(order))] = rest[j - Len(order)]
        BY <1>6, <3>1
      <4> QED BY <3>1, <4>1
    <3>3. order'[j] \in Promise!Stuck'
      <4>1. rest[j - Len(order)] \in left
        BY <1>3, <3>1
      <4> QED BY <1>8, <3>2, <4>1
    <3>4. \A i \in 1..Len(order) : i \in 1..(j - 1)
      BY <1>6, <2>2
    <3>5. ToSet(order) \subseteq Before(j)'
      BY <1>4, <1>6, <3>4 DEF Before, ToSet
    <3>6. Found' \ Promise!Stuck' \subseteq ToSet(order)
      BY <1>7, <1>8
    <3> QED BY <3>3, <3>5, <3>6 DEF InPlace
  <2> QED BY <2>1, <2>2
<1> QED BY <1>0, <1>7, <1>9 DEF OrderInv, SortInv, ToSet

\* The loaders go through the order, and do not change it.
LEMMA LoadInv ==
    ASSUME OrderInv, UNCHANGED <<loader, files, order>>,
           \/ phase = "load" /\ phase' = "load" /\ at < Len(order) /\ at' = at + 1
           \/ phase = "load" /\ phase' = "done" /\ at = Len(order) /\ at' = at
           \/ phase = "done" /\ phase' = "served" /\ at' = at
    PROVE  OrderInv'
<1>1. OrderTypeOK'
  <2>1. at' \in 0..Len(order)
    <3>1. Len(order) \in Nat /\ at \in 0..Len(order)
      BY DEF OrderInv, OrderTypeOK
    <3> QED BY <3>1
  <2> QED BY <2>1 DEF OrderInv, OrderTypeOK, Found, Distinct
<1>2. \A j : InPlace(j)' <=> InPlace(j)
  BY SameStuck DEF InPlace, Before, ToSet
<1>3. ToSet(order)' = ToSet(order) /\ Found' = Found
  BY SameStuck DEF ToSet
<1> QED BY <1>1, <1>2, <1>3 DEF OrderInv, SortInv

LEMMA OrderStutterInv ==
    ASSUME OrderInv, UNCHANGED orderVars
    PROVE  OrderInv'
<1>0. UNCHANGED <<loader, phase, files, in_degree, queue, order, at>>
  BY DEF orderVars
<1>1. OrderTypeOK'
  BY <1>0 DEF OrderInv, OrderTypeOK, Found, Distinct
<1>2. SortInv'
  <2>1. Distinct(queue)' = Distinct(queue) /\ ToSet(queue)' = ToSet(queue) /\ ToSet(order)' = ToSet(order)
    BY <1>0 DEF Distinct, ToSet
  <2>2. Found' = Found /\ (\A t : Missing(t)' = Missing(t)) /\ (\A j : Before(j)' = Before(j))
    BY <1>0, <2>1 DEF Found, Missing, Before
  <2>3. \A j : ToSet(files[order[j]])' = ToSet(files[order[j]])
    BY <1>0 DEF ToSet
  <2> QED BY <1>0, <2>1, <2>2, <2>3 DEF OrderInv, SortInv
<1>3. \A j : InPlace(j)' <=> InPlace(j)
  BY <1>0, SameStuck DEF InPlace, Before, ToSet
<1>4. ToSet(order)' = ToSet(order) /\ Found' = Found
  BY <1>0 DEF ToSet, Found
<1> QED BY <1>0, <1>1, <1>2, <1>3, <1>4 DEF OrderInv

-----------------------------------------------------------------------------
(* The theory being loaded. *)

\* It is a theory found, not loaded before, with its imports loaded, if it is not stuck.
LEMMA CurrentFacts ==
    ASSUME OrderInv, phase = "load", at < Len(order)
    PROVE  /\ Current \in Found /\ Current \in Theory /\ Current \notin Processed
           /\ Current \notin Promise!Stuck => ToSet(files[Current]) \cap Found \subseteq Processed
           /\ Current \in Promise!Stuck => Found \ Promise!Stuck \subseteq Processed
           /\ files[Current] \in Seq(STRING)
<1>1. at \in Nat /\ at + 1 \in DOMAIN order /\ (at + 1) - 1 = at /\ DOMAIN order = 1..Len(order) /\ Len(order) \in Nat
  BY DEF OrderInv, OrderTypeOK
<1>2. Current \in Found /\ Current \in Theory /\ files[Current] \in Seq(STRING)
  BY <1>1 DEF OrderInv, OrderTypeOK, Current
<1>3. Current \notin Processed
  <2> SUFFICES ASSUME NEW i \in 1..at, order[i] = order[at + 1] PROVE FALSE
    BY DEF Current, Processed
  <2>1. i \in DOMAIN order /\ i # at + 1
    BY <1>1
  <2> QED BY <1>1, <2>1 DEF OrderInv, OrderTypeOK, Distinct
<1>4. Before(at + 1) = Processed
  BY <1>1 DEF Before, Processed
<1>5. InPlace(at + 1)
  BY <1>1 DEF OrderInv
<1> QED BY <1>2, <1>3, <1>4, <1>5 DEF InPlace, Current

\* One theory more is loaded.
LEMMA ProcessedGrows ==
    ASSUME OrderInv, phase = "load", at < Len(order), at' = at + 1, order' = order
    PROVE  Processed' = Processed \cup {Current}
<1>1. at \in Nat
  BY DEF OrderInv, OrderTypeOK
<1>2. 1..(at + 1) = 1..at \cup {at + 1}
  BY <1>1
<1> QED BY <1>2 DEF Processed, Current

\* When the loop is over every theory found has been loaded, once.
LEMMA AllProcessed ==
    ASSUME OrderInv, phase \in {"done", "served"}
    PROVE  Processed = Found /\ at = Cardinality(Found)
<1>1. order \in Seq(Found) /\ Distinct(order) /\ ToSet(order) = Found /\ at = Len(order)
  BY DEF OrderInv, OrderTypeOK
<1>2. Len(order) = Cardinality(Found)
  BY <1>1, LengthOfAList
<1>3. Processed = ToSet(order)
  BY <1>1 DEF Processed, ToSet
<1> QED BY <1>1, <1>2, <1>3

\* What the loaders promise: the first states, and every step.
LEMMA PromiseStep ==
    ASSUME OrderInv, UNCHANGED <<files, order>>, phase = "load", at < Len(order), at' = at + 1
    PROVE  Promise!Next
<1> DEFINE loaded == SubSeq(order, 1, at)
<1>1. at \in Nat /\ at + 1 \in 1..Len(order) /\ Len(order) \in Nat /\ order \in Seq(Found)
  BY DEF OrderInv, OrderTypeOK
<1>2. /\ loaded \in Seq(Found) /\ Len(loaded) = at /\ \A i \in 1..at : loaded[i] = order[i]
  <2>1. at \in 0..Len(order) /\ 1 \in 1..(Len(order) + 1)
    BY <1>1
  <2> QED BY <1>1, <2>1, SubSeqProperties
<1>3. loaded' = Append(loaded, Current)
  <2>1. /\ loaded' \in Seq(Found) /\ Len(loaded') = at + 1 /\ \A i \in 1..(at + 1) : loaded'[i] = order[i]
    <3>1. loaded' = SubSeq(order, 1, at + 1)
      OBVIOUS
    <3>2. at + 1 \in 0..Len(order) /\ 1 \in 1..(Len(order) + 1)
      BY <1>1
    <3> HIDE DEF loaded
    <3> QED BY <1>1, <3>1, <3>2, SubSeqProperties
  <2> DEFINE more == Append(loaded, Current)
  <2>2. /\ more \in Seq(Found) /\ Len(more) = at + 1 /\ \A i \in 1..at : more[i] = order[i]
        /\ more[at + 1] = order[at + 1]
    <3>1. Current \in Found /\ Current = order[at + 1]
      BY CurrentFacts DEF Current
    <3> HIDE DEF loaded
    <3> QED BY <1>1, <1>2, <3>1, AppendProperties
  <2>3. \A i \in 1..(at + 1) : more[i] = loaded'[i]
    <3> HIDE DEF more, loaded
    <3> QED BY <1>1, <2>1, <2>2
  <2> HIDE DEF more, loaded
  <2> QED BY <1>1, <2>1, <2>2, <2>3, SeqEqual DEF more
<1>4. ToSet(loaded) = Processed
  <2>1. DOMAIN loaded = 1..at
    BY <1>2
  <2> HIDE DEF loaded
  <2> QED BY <1>2, <2>1 DEF ToSet, Processed
<1>5. Promise!Found = Found /\ Promise!Imports(Current) = ToSet(files[Current]) \cap Found
  <2>1. Current \in Found /\ Found \subseteq Theory
    BY CurrentFacts DEF OrderInv, OrderTypeOK
  <2> QED BY <2>1 DEF Promise!Imports, Promise!Found
<1>6. Promise!Ready(Current)
  <2>1. Current \in Promise!Found \ ToSet(loaded)
    BY <1>4, <1>5, CurrentFacts
  <2>2. CASE Current \in Promise!Stuck
    <3>1. Found \ Promise!Stuck \subseteq Processed
      BY <2>2, CurrentFacts
    <3>2. Promise!Found \ Promise!Stuck \subseteq ToSet(loaded)
      BY <1>4, <1>5, <3>1
    <3> QED BY <2>1, <2>2, <3>2 DEF Promise!Ready, Promise!ToSet, ToSet
  <2>3. CASE Current \notin Promise!Stuck
    <3>1. ToSet(files[Current]) \cap Found \subseteq Processed
      BY <2>3, CurrentFacts
    <3>2. Promise!Imports(Current) \subseteq ToSet(loaded)
      BY <1>4, <1>5, <3>1
    <3> QED BY <2>1, <2>3, <3>2 DEF Promise!Ready, Promise!ToSet, ToSet
  <2> QED BY <2>2, <2>3
<1>7. UNCHANGED [t \in Found |-> ToSet(files[t]) \cap Theory]
  BY DEF Found, ToSet
<1>8. Promise!Load(Current)
  BY <1>3, <1>6, <1>7 DEF Promise!Load
<1> QED BY <1>8, CurrentFacts DEF Promise!Next
-----------------------------------------------------------------------------
(* What the loaders keep: the registry, the reports and the nodes. *)

LEMMA SystemInitInv ==
    ASSUME Init
    PROVE  SystemInv
<1>1. OrderInv
  BY OrderInitInv DEF Init
<1>2. /\ at = 0 /\ order = <<>> /\ registry = [t \in {"Pure"} |-> "Pure"]
      /\ result = [loaded |-> 0, failed |-> 0, theorems |-> 0, names |-> <<>>]
      /\ report = <<>> /\ nodes = <<>> /\ errors = <<>> /\ type_env = {}
  BY DEF Init, OrderInit, BuildInit, GraphInit
<1>3. Processed = {} /\ 1..at = {}
  BY <1>2 DEF Processed
<1>4. RegistryInv
  BY <1>2, <1>3 DEF RegistryInv
<1>5. BuildReportInv
  BY <1>2 DEF BuildReportInv, ToSet
<1>6. VerifyReportInv
  <2>1. report \in Seq({}) /\ DOMAIN report = {}
    BY <1>2
  <2> QED BY <1>3, <2>1 DEF VerifyReportInv
<1>7. GraphInv /\ AnnotatedWithImports
  <2>1. errors \in Seq(Theory) /\ DOMAIN errors = {} /\ DOMAIN nodes = {}
    BY <1>2
  <2> QED BY <1>2, <1>3, <2>1 DEF GraphInv, ToSet, AnnotatedWithImports
<1> QED BY <1>1, <1>4, <1>5, <1>6, <1>7 DEF SystemInv, ReportInv

\* The annotations stay right where no file is read.
LEMMA AnnotationsSame ==
    ASSUME AnnotatedWithImports, UNCHANGED <<files, nodes>>
    PROVE  AnnotatedWithImports'
<1>1. Promise!Stuck' = Promise!Stuck /\ \A t : ToSet(files[t])' = ToSet(files[t])
  BY SameStuck DEF ToSet
<1> QED BY <1>1 DEF AnnotatedWithImports, OnCycle

\* Nothing is kept while the order is made, and none of it changes afterwards.
LEMMA ReportSame ==
    ASSUME ReportInv, Processed' = Processed, at' = at,
           UNCHANGED <<loader, files>>, \A i \in 1..at : order'[i] = order[i],
           UNCHANGED <<registry, result, report, nodes, errors, type_env>>
    PROVE  ReportInv'
<1>1. RegistryInv'
  BY DEF ReportInv, RegistryInv
<1>2. BuildReportInv'
  BY DEF ReportInv, BuildReportInv, ToSet
<1>3. VerifyReportInv'
  BY DEF ReportInv, VerifyReportInv
<1>4. GraphInv'
  BY DEF ReportInv, GraphInv, ToSet
<1>6. AnnotatedWithImports'
  BY AnnotationsSame DEF ReportInv
<1> QED BY <1>1, <1>2, <1>3, <1>4, <1>6 DEF ReportInv

LEMMA OrderingInv ==
    ASSUME SystemInv, Ordering
    PROVE  SystemInv'
<1>1. OrderInv /\ UNCHANGED <<registry, result, report, nodes, errors, type_env, loader, files>> /\ at = 0 /\ at' = 0
  BY DEF SystemInv, Ordering, buildVars, graphVars, scan, order_next, break_cycles, OrderInv
<1>2. OrderInv'
  BY <1>1, ScanInv, OrderNextInv, BreakCyclesInv DEF Ordering
<1>3. 1..at = {} /\ Processed = {} /\ Processed' = {}
  BY <1>1 DEF Processed
<1>4. ReportInv'
  BY <1>1, <1>3, ReportSame DEF SystemInv
<1> QED BY <1>2, <1>4 DEF SystemInv

\* A theory is processed: it is registered when it was read.
LEMMA RegisterInv ==
    ASSUME SystemInv, phase = "load", at < Len(order), at' = at + 1, UNCHANGED <<files, order>>,
           NEW o, register(Current, o)
    PROVE  /\ RegistryInv'
           /\ DOMAIN registry \subseteq DOMAIN registry'
           /\ o.kind = "read" => Current \in DOMAIN registry'
<1>1. OrderInv /\ RegistryInv
  BY DEF SystemInv, ReportInv
<1>2. Processed' = Processed \cup {Current}
  BY <1>1, ProcessedGrows
<1>3. \/ o.kind = "read" /\ DOMAIN registry' = DOMAIN registry \cup {Current}
      \/ o.kind # "read" /\ registry' = registry
  BY DEF register, With
<1> QED BY <1>1, <1>2, <1>3 DEF RegistryInv

\* One more element at the end of a list.
LEMMA OneMore ==
    ASSUME NEW X, NEW s \in Seq(X), NEW x \in X
    PROVE  /\ Append(s, x) \in Seq(X) /\ Len(Append(s, x)) = Len(s) + 1
           /\ ToSet(Append(s, x)) = ToSet(s) \cup {x}
           /\ \A i \in 1..Len(s) : Append(s, x)[i] = s[i]
           /\ Append(s, x)[Len(s) + 1] = x
           /\ Len(s) \in Nat /\ DOMAIN s = 1..Len(s)
<1> DEFINE a == Append(s, x)
<1>1. /\ a \in Seq(X) /\ Len(a) = Len(s) + 1 /\ Len(s) \in Nat /\ DOMAIN s = 1..Len(s)
      /\ (\A i \in 1..Len(s) : a[i] = s[i]) /\ a[Len(s) + 1] = x
  BY AppendProperties, LenProperties
<1>2. DOMAIN a = 1..Len(s) \cup {Len(s) + 1}
  BY <1>1, LenProperties
<1> HIDE DEF a
<1>3. ToSet(a) = ToSet(s) \cup {x}
  BY <1>1, <1>2 DEF ToSet
<1> QED BY <1>1, <1>3 DEF a

LEMMA BuildNextInv ==
    ASSUME SystemInv, build_next, UNCHANGED graphVars
    PROVE  SystemInv'
<1>1. /\ IsSession /\ phase = "load" /\ at < Len(order) /\ at' = at + 1
      /\ UNCHANGED <<loader, phase, files, in_degree, queue, order>>
      /\ UNCHANGED <<nodes, errors, type_env>>
  BY DEF build_next, load_next, graphVars
<1>2. OrderInv /\ RegistryInv /\ BuildReportInv /\ VerifyReportInv
  BY DEF SystemInv, ReportInv
<1>3. OrderInv'
  BY <1>1, <1>2, LoadInv
<1>4. PICK o \in Outcomes :
         /\ register(Current, o)
         /\ IF loader = "build"
            THEN build_one(Current, o) /\ UNCHANGED report
            ELSE /\ report' = Append(report, [name |-> Current, tally |-> tally(o),
                                              status |-> build_one_classified(o)])
                 /\ UNCHANGED result
  BY DEF build_next
<1>5. /\ RegistryInv'
      /\ DOMAIN registry \subseteq DOMAIN registry'
      /\ o.kind = "read" => Current \in DOMAIN registry'
  BY <1>1, <1>4, RegisterInv
<1>6. Current \in Theory /\ at \in Nat
  BY <1>1, <1>2, CurrentFacts DEF OrderInv, OrderTypeOK
<1>7. BuildReportInv'
  <2> SUFFICES ASSUME loader = "build"
               PROVE  /\ result' \in [loaded : Nat, failed : Nat, theorems : Nat, names : Seq(Theory)]
                      /\ result'.loaded + result'.failed = at' /\ Len(result'.names) = result'.loaded
                      /\ ToSet(result'.names) \subseteq DOMAIN registry'
    BY <1>1 DEF BuildReportInv, ToSet
  <2>1. /\ result \in [loaded : Nat, failed : Nat, theorems : Nat, names : Seq(Theory)]
        /\ result.loaded + result.failed = at /\ Len(result.names) = result.loaded
        /\ ToSet(result.names) \subseteq DOMAIN registry
    BY <1>2 DEF BuildReportInv
  <2>2. build_one(Current, o)
    BY <1>4
  <2>3. CASE IsOk(o)
    <3>1. result' = [result EXCEPT !.loaded = @ + 1, !.theorems = @ + o.theorems,
                                   !.names = Append(@, Current)]
      BY <2>2, <2>3 DEF build_one
    <3>2. /\ result'.loaded = result.loaded + 1 /\ result'.failed = result.failed
          /\ result'.names = Append(result.names, Current)
          /\ result' \in [loaded : Nat, failed : Nat, theorems : Nat, names : Seq(Theory)]
      <4>1. o.theorems \in Nat /\ Append(result.names, Current) \in Seq(Theory)
        BY <1>6, <2>1, OutcomesAssumption DEF Outcome
      <4> DEFINE names == Append(result.names, Current)
      <4>2. result' = [loaded |-> result.loaded + 1, failed |-> result.failed,
                       theorems |-> result.theorems + o.theorems, names |-> names]
        BY <2>1, <3>1
      <4>3. names \in Seq(Theory) /\ names = Append(result.names, Current)
        BY <4>1
      <4> HIDE DEF names
      <4> QED BY <2>1, <4>1, <4>2, <4>3
    <3> DEFINE names == result.names
    <3>3. /\ Append(names, Current) \in Seq(Theory) /\ Len(Append(names, Current)) = Len(names) + 1
          /\ ToSet(Append(names, Current)) = ToSet(names) \cup {Current}
      <4>1. names \in Seq(Theory)
        BY <2>1
      <4> HIDE DEF names
      <4> QED BY <1>6, <4>1, OneMore
    <3>4. Current \in DOMAIN registry'
      BY <1>5, <2>3 DEF IsOk
    <3> QED BY <1>1, <1>5, <1>6, <2>1, <3>2, <3>3, <3>4
  <2>4. CASE ~IsOk(o)
    <3>1. result' = [result EXCEPT !.failed = @ + 1]
      BY <2>2, <2>4 DEF build_one
    <3>2. /\ result'.loaded = result.loaded /\ result'.failed = result.failed + 1 /\ result'.names = result.names
          /\ result' \in [loaded : Nat, failed : Nat, theorems : Nat, names : Seq(Theory)]
      BY <2>1, <3>1
    <3> QED BY <1>1, <1>5, <1>6, <2>1, <3>2
  <2> QED BY <2>3, <2>4
<1>8. VerifyReportInv'
  <2> SUFFICES ASSUME loader = "classify"
               PROVE  /\ DOMAIN report' = 1..(at + 1) /\ \E S : report' \in Seq(S)
                      /\ \A i \in 1..(at + 1) :
                             /\ report'[i].name = order[i]
                             /\ has_verified(report'[i].status) => order[i] \in DOMAIN registry'
    BY <1>1 DEF VerifyReportInv
  <2> DEFINE r == [name |-> Current, tally |-> tally(o), status |-> build_one_classified(o)]
  <2>1. /\ DOMAIN report = 1..at
        /\ \A i \in 1..at : /\ report[i].name = order[i]
                            /\ has_verified(report[i].status) => order[i] \in DOMAIN registry
    BY <1>2 DEF VerifyReportInv
  <2>2. PICK S : report \in Seq(S)
    BY <1>2 DEF VerifyReportInv
  <2>3. report' = Append(report, r)
    BY <1>4
  <2>4. r.name = order[at + 1] /\ (has_verified(r.status) => Current \in DOMAIN registry')
    <3>1. r.name = order[at + 1] /\ r.status = build_one_classified(o)
      BY DEF Current
    <3>2. o.kind \in {"read", "unreadable", "panic"}
      BY OutcomesAssumption DEF Outcome
    <3>3. has_verified(build_one_classified(o)) => o.kind = "read"
      BY <3>2 DEF has_verified, build_one_classified
    <3> HIDE DEF r
    <3> QED BY <1>5, <3>1, <3>3
  <2> HIDE DEF r
  <2>5. report \in Seq(S \cup {r}) /\ Len(report) = at
    BY <1>6, <2>1, <2>2
  <2>6. /\ report' \in Seq(S \cup {r}) /\ Len(report') = at + 1
        /\ \A i \in 1..at : report'[i] = report[i]
        /\ report'[at + 1] = r
    BY <2>3, <2>5, OneMore
  <2>7. DOMAIN report' = 1..(at + 1)
    BY <2>6
  <2>8. \A i \in 1..(at + 1) : i \in 1..at \/ i = at + 1
    BY <1>6
  <2> QED BY <1>5, <2>1, <2>4, <2>6, <2>7, <2>8 DEF Current
<1>9. GraphInv' /\ AnnotatedWithImports'
  BY <1>1, AnnotationsSame DEF GraphInv, IsSession, SystemInv, ReportInv
<1> QED BY <1>3, <1>5, <1>7, <1>8, <1>9 DEF SystemInv, ReportInv

\* A theory that has been gone through is where its imports allow it: what is
\* still to come is none of them.
LEMMA ProcessedFacts ==
    ASSUME OrderInv, phase \in {"load", "done", "served"}, NEW t \in Processed, t \notin Promise!Stuck
    PROVE  ToSet(files[t]) \cap Found \subseteq Processed
<1>1. PICK j \in 1..at : t = order[j]
  BY DEF Processed
<1>2. j \in DOMAIN order /\ \A i \in 1..(j - 1) : i \in 1..at
  BY <1>1 DEF OrderInv, OrderTypeOK
<1>3. Before(j) \subseteq Processed
  BY <1>2 DEF Before, Processed
<1> QED BY <1>1, <1>2, <1>3 DEF OrderInv, InPlace

\* A file is read: its lemmas get the types of all that was read before.
LEMMA AnnotationsGrow ==
    ASSUME SystemInv, graph_next
    PROVE  AnnotatedWithImports'
<1>1. /\ loader = "graph" /\ phase = "load" /\ at < Len(order) /\ UNCHANGED files
      /\ \/ load_file_fails
         \/ \E lemmas \in Contents(Current) : load_file(Current, lemmas)
  BY DEF graph_next, load_next
<1>2. OrderInv /\ AnnotatedWithImports /\ type_env = DOMAIN nodes /\ DOMAIN nodes \subseteq Processed
  BY <1>1 DEF SystemInv, ReportInv, GraphInv
<1>3. CASE load_file_fails
  BY <1>1, <1>2, <1>3, AnnotationsSame DEF load_file_fails
<1>4. CASE \E lemmas \in Contents(Current) : load_file(Current, lemmas)
  <2>1. /\ DOMAIN nodes' = DOMAIN nodes \cup {Current}
        /\ nodes'[Current].types = DOMAIN nodes'
        /\ \A t \in DOMAIN nodes \ {Current} : nodes'[t] = nodes[t]
    BY <1>2, <1>4 DEF load_file, With
  <2>2. Promise!Stuck' = Promise!Stuck /\ \A t : ToSet(files[t])' = ToSet(files[t])
    BY <1>1, SameStuck DEF ToSet
  <2>3. Current \in Found /\ Current \notin Processed
    BY <1>1, <1>2, CurrentFacts
  <2>4. ASSUME NEW t \in DOMAIN nodes, t \notin Promise!Stuck
        PROVE  Current \notin ToSet(files[t])
    BY <1>1, <1>2, <2>3, <2>4, ProcessedFacts
  <2> SUFFICES ASSUME NEW t \in DOMAIN nodes', t \notin Promise!Stuck
               PROVE  ToSet(files[t]) \cap DOMAIN nodes' \subseteq nodes'[t].types
    BY <2>2 DEF AnnotatedWithImports, OnCycle
  <2>5. CASE t = Current
    BY <2>1, <2>5
  <2>6. CASE t # Current
    BY <1>2, <2>1, <2>4, <2>6 DEF AnnotatedWithImports, OnCycle
  <2> QED BY <2>5, <2>6
<1> QED BY <1>1, <1>3, <1>4

LEMMA GraphNextInv ==
    ASSUME SystemInv, graph_next, UNCHANGED buildVars
    PROVE  SystemInv'
<1>1. /\ loader = "graph" /\ phase = "load" /\ at < Len(order) /\ at' = at + 1
      /\ UNCHANGED <<loader, phase, files, in_degree, queue, order>>
      /\ UNCHANGED <<registry, result, report>>
  BY DEF graph_next, load_next, buildVars
<1>2. OrderInv /\ RegistryInv /\ GraphInv
  BY DEF SystemInv, ReportInv
<1>3. OrderInv'
  BY <1>1, <1>2, LoadInv
<1>4. Processed' = Processed \cup {Current} /\ Current \in Theory
  BY <1>1, <1>2, ProcessedGrows, CurrentFacts
<1>5. RegistryInv'
  BY <1>1, <1>2, <1>4 DEF RegistryInv
<1>7. GraphInv'
  <2>1. /\ errors \in Seq(Theory) /\ DOMAIN nodes \cup ToSet(errors) = Processed
        /\ type_env = DOMAIN nodes
    BY <1>1, <1>2 DEF GraphInv
  <2>2. CASE load_file_fails
    <3>1. errors' = Append(errors, Current) /\ nodes' = nodes /\ type_env' = type_env
      BY <2>2 DEF load_file_fails
    <3>2. errors' \in Seq(Theory) /\ ToSet(errors') = ToSet(errors) \cup {Current}
      BY <1>4, <2>1, <3>1, OneMore
    <3> QED BY <1>4, <2>1, <3>1, <3>2 DEF GraphInv, ToSet
  <2>3. CASE \E lemmas \in Contents(Current) : load_file(Current, lemmas)
    <3>1. /\ errors' = errors /\ DOMAIN nodes' = DOMAIN nodes \cup {Current}
          /\ type_env' = type_env \cup {Current}
      BY <2>3 DEF load_file, With
    <3> QED BY <1>4, <2>1, <3>1 DEF GraphInv, ToSet
  <2> QED BY <2>2, <2>3 DEF graph_next
<1>8. BuildReportInv' /\ VerifyReportInv'
  BY <1>1 DEF BuildReportInv, VerifyReportInv
<1>9. AnnotatedWithImports'
  BY AnnotationsGrow
<1> QED BY <1>3, <1>5, <1>7, <1>8, <1>9 DEF SystemInv, ReportInv

\* The steps after the loop, and no step at all.
LEMMA EndInv ==
    ASSUME SystemInv,
           \/ load_end /\ UNCHANGED <<buildVars, graphVars>>
           \/ load_all_end /\ UNCHANGED buildVars
           \/ load_all_theories /\ UNCHANGED buildVars
           \/ UNCHANGED vars
    PROVE  SystemInv'
<1>1. UNCHANGED <<loader, files, order, at, registry, result, report, nodes, errors, type_env>>
  BY DEF load_end, load_all_end, load_all_theories, vars, buildVars, graphVars
<1>2. OrderInv'
  <2>1. \/ UNCHANGED orderVars
        \/ phase = "load" /\ phase' = "done" /\ at = Len(order)
        \/ phase = "done" /\ phase' = "served"
    BY DEF load_end, load_all_end, load_all_theories, vars, orderVars
  <2> QED BY <1>1, <2>1, OrderStutterInv, LoadInv DEF SystemInv
<1>3. Processed' = Processed
  BY <1>1 DEF Processed
<1>4. ReportInv'
  BY <1>1, <1>3, ReportSame DEF SystemInv
<1> QED BY <1>2, <1>4 DEF SystemInv

LEMMA SystemNextInv ==
    ASSUME SystemInv, [Next]_vars
    PROVE  SystemInv'
<1>1. CASE Ordering
  BY <1>1, OrderingInv
<1>2. CASE SessionNext
  BY <1>2, BuildNextInv, EndInv DEF SessionNext
<1>3. CASE GraphNext
  BY <1>3, GraphNextInv, EndInv DEF GraphNext
<1>4. CASE UNCHANGED vars
  BY <1>4, EndInv
<1> QED BY <1>1, <1>2, <1>3, <1>4 DEF Next

-----------------------------------------------------------------------------
\* The invariant of the loaders: the order while it is made and after, and what
\* the builder and the graph keep of the theories they have been through.
THEOREM SystemInvAlways == Spec => []SystemInv
<1> QED BY SystemInitInv, SystemNextInv, PTL DEF Spec

\* Every theory found is reported, once, by each of the loaders.
THEOREM EveryTheoryIsReportedAlways == Spec => []EveryTheoryIsReported
<1>1. SystemInv => EveryTheoryIsReported
  <2> SUFFICES ASSUME SystemInv, phase = "done" PROVE EveryTheoryIsReported
    BY DEF EveryTheoryIsReported
  <2>1. OrderInv /\ ReportInv
    BY DEF SystemInv
  <2>2. Processed = Found /\ at = Cardinality(Found) /\ at \in Nat
    BY <2>1, AllProcessed DEF OrderInv, OrderTypeOK
  <2>3. loader \in {"build", "classify", "graph"}
    BY <2>1 DEF OrderInv, OrderTypeOK
  <2>4. CASE loader = "build"
    BY <2>1, <2>2, <2>4 DEF EveryTheoryIsReported, ReportInv, BuildReportInv
  <2>5. CASE loader = "classify"
    <3>1. /\ DOMAIN report = 1..at
          /\ \A i \in 1..at : /\ report[i].name = order[i]
                              /\ has_verified(report[i].status) => order[i] \in DOMAIN registry
      BY <2>1, <2>5 DEF ReportInv, VerifyReportInv
    <3>2. Len(report) = at
      <4>1. PICK S : report \in Seq(S)
        BY <2>1, <2>5 DEF ReportInv, VerifyReportInv
      <4> QED BY <2>2, <3>1, <4>1
    <3>3. {report[i].name : i \in DOMAIN report} = Found
      BY <2>2, <3>1 DEF Processed
    <3> QED BY <2>2, <2>5, <3>1, <3>2, <3>3 DEF EveryTheoryIsReported
  <2>6. CASE loader = "graph"
    BY <2>1, <2>2, <2>6 DEF EveryTheoryIsReported, ReportInv, GraphInv
  <2> QED BY <2>3, <2>4, <2>5, <2>6
<1> QED BY <1>1, SystemInvAlways, PTL

\* The lemmas of a theory that no cycle keeps from its place are annotated with
\* the types of all its imports that could be read (load_file, load_all).
THEOREM AnnotatedWithImportsAlways == Spec => []AnnotatedWithImports
<1>1. SystemInv => AnnotatedWithImports
  BY DEF SystemInv, ReportInv
<1> QED BY <1>1, SystemInvAlways, PTL

\* The loaders implement what they promise (ImportOrder), but for its fairness,
\* which is checked on a run: each theory is loaded once, after its imports.
THEOREM OrderRefined == Spec => Promise!Init /\ [][Promise!Next]_(Promise!vars)
<1>1. Init => Promise!Init
  <2> SUFFICES ASSUME Init PROVE Promise!Init
    OBVIOUS
  <2>1. at = 0 /\ order = <<>> /\ Found \subseteq Theory
    <3>1. OrderTypeOK /\ at = 0 /\ order = <<>>
      BY SystemInitInv DEF SystemInv, OrderInv, Init, OrderInit
    <3> QED BY <3>1 DEF OrderTypeOK
  <2>2. SubSeq(order, 1, at) = <<>>
    BY <2>1
  <2>3. [t \in Found |-> ToSet(files[t]) \cap Theory] \in [Found -> SUBSET Theory]
    OBVIOUS
  <2> QED BY <2>1, <2>2, <2>3 DEF Promise!Init
<1>2. SystemInv /\ [Next]_vars => [Promise!Next]_(Promise!vars)
  <2> SUFFICES ASSUME SystemInv, [Next]_vars PROVE [Promise!Next]_(Promise!vars)
    OBVIOUS
  <2>1. OrderInv
    BY DEF SystemInv
  <2>2. \/ UNCHANGED <<files, order>> /\ phase = "load" /\ at < Len(order) /\ at' = at + 1
        \/ UNCHANGED <<files, order, at>>
        \/ UNCHANGED files /\ at = 0 /\ at' = 0
    BY <2>1 DEF Next, vars, Ordering, scan, order_next, break_cycles, SessionNext, build_next, load_next,
                load_end, GraphNext, graph_next, load_all_end, load_all_theories, OrderInv
  <2>3. CASE UNCHANGED <<files, order>> /\ phase = "load" /\ at < Len(order) /\ at' = at + 1
    BY <2>1, <2>3, PromiseStep
  <2>4. CASE UNCHANGED <<files, order, at>>
    BY <2>4 DEF Promise!vars, Found, ToSet
  <2>5. CASE UNCHANGED files /\ at = 0 /\ at' = 0
    <3>1. SubSeq(order, 1, at) = <<>> /\ SubSeq(order', 1, at') = <<>>
      BY <2>5
    <3> QED BY <2>5, <3>1 DEF Promise!vars, Found, ToSet
  <2> QED BY <2>2, <2>3, <2>4, <2>5
<1> QED BY <1>1, <1>2, SystemInvAlways, PTL DEF Spec

-----------------------------------------------------------------------------
(* Lists joined, and the indexes of the database. *)

\* What is joined up to each place.
Upto(f, lists, n) == f = [i \in 0..n |-> IF i = 0 THEN <<>> ELSE f[i - 1] \o lists[i]]

\* What is joined up to a place does not depend on how many are joined.
LEMMA UptoSame ==
    ASSUME NEW m \in Nat, NEW n \in 0..m, NEW lists,
           NEW f, NEW g, Upto(f, lists, n), Upto(g, lists, m)
    PROVE  f[n] = g[n]
<1>1. \A i \in 0..n : f[i] = IF i = 0 THEN <<>> ELSE f[i - 1] \o lists[i]
  BY DEF Upto
<1>2. \A i \in 0..m : g[i] = IF i = 0 THEN <<>> ELSE g[i - 1] \o lists[i]
  BY DEF Upto
<1> DEFINE T == {i \in 0..n : f[i] # g[i]}
<1> SUFFICES ASSUME T # {} PROVE FALSE
  OBVIOUS
<1>3. T \in SUBSET Nat
  OBVIOUS
<1>4. PICK k \in T : \A j \in T : k <= j
  <2> HIDE DEF T
  <2> QED BY <1>3, LeastNatural
<1>5. k \in 0..n /\ k \in 0..m /\ f[k] # g[k]
  BY <1>4
<1>6. CASE k = 0
  BY <1>1, <1>2, <1>5, <1>6
<1>7. CASE k # 0
  <2>1. k - 1 \in 0..n /\ ~(k <= k - 1) /\ k \in 1..n
    BY <1>5, <1>7
  <2>2. f[k - 1] = g[k - 1]
    BY <1>4, <2>1
  <2>3. f[k] = f[k - 1] \o lists[k]
    BY <1>1, <1>5, <1>7
  <2>4. g[k] = g[k - 1] \o lists[k]
    BY <1>2, <1>5, <1>7
  <2> QED BY <1>5, <2>1, <2>2, <2>3, <2>4
<1> QED BY <1>6, <1>7

\* There is something to join up to each place.
LEMMA UptoExists ==
    ASSUME NEW lists, NEW n \in Nat
    PROVE  \E f : Upto(f, lists, n)
<1> DEFINE T == {k \in Nat : ~\E f : Upto(f, lists, k)}
<1> SUFFICES ASSUME T # {} PROVE FALSE
  OBVIOUS
<1>1. PICK k \in T : \A j \in T : k <= j
  <2>1. T \in SUBSET Nat
    OBVIOUS
  <2> HIDE DEF T
  <2> QED BY <2>1, LeastNatural
<1>2. CASE k = 0
  <2> DEFINE f == [i \in 0..0 |-> <<>>]
  <2>1. Upto(f, lists, 0)
    BY DEF Upto
  <2> QED BY <1>1, <1>2, <2>1
<1>3. CASE k # 0
  <2>1. k - 1 \in Nat /\ k - 1 \notin T /\ k \in Nat
    BY <1>1, <1>3
  <2>2. PICK g : Upto(g, lists, k - 1)
    BY <2>1
  <2>3. \A i \in 0..(k - 1) : g[i] = IF i = 0 THEN <<>> ELSE g[i - 1] \o lists[i]
    BY <2>2 DEF Upto
  <2> DEFINE f == [i \in 0..k |-> IF i = k THEN g[k - 1] \o lists[k] ELSE g[i]]
  <2>4. \A i \in 0..k : f[i] = IF i = 0 THEN <<>> ELSE f[i - 1] \o lists[i]
    <3> SUFFICES ASSUME NEW i \in 0..k PROVE f[i] = IF i = 0 THEN <<>> ELSE f[i - 1] \o lists[i]
      OBVIOUS
    <3>1. CASE i = k
      <4>1. k - 1 \in 0..k /\ k - 1 # k /\ i # 0
        BY <1>3, <2>1, <3>1
      <4>2. f[k - 1] = g[k - 1] /\ f[i] = g[k - 1] \o lists[k]
        BY <3>1, <4>1
      <4> QED BY <3>1, <4>1, <4>2
    <3>2. CASE i # k
      <4>1. i \in 0..(k - 1) /\ (i # 0 => i - 1 \in 0..k /\ i - 1 # k)
        BY <2>1, <3>2
      <4>2. f[i] = g[i] /\ (i # 0 => f[i - 1] = g[i - 1])
        BY <3>2, <4>1
      <4> HIDE DEF f
      <4> QED BY <2>3, <4>1, <4>2
    <3> QED BY <3>1, <3>2
  <2>5. Upto(f, lists, k)
    <3>1. f = [i \in 0..k |-> f[i]]
      OBVIOUS
    <3> HIDE DEF f
    <3> QED BY <2>4, <3>1 DEF Upto
  <2> QED BY <1>1, <2>5
<1> QED BY <1>2, <1>3

LEMMA JoinedIsUpto ==
    ASSUME NEW lists, NEW n \in Nat
    PROVE  \E f : Upto(f, lists, n) /\ Joined(lists, n) = f[n]
<1> DEFINE f == CHOOSE f : f = [i \in 0..n |-> IF i = 0 THEN <<>> ELSE f[i - 1] \o lists[i]]
<1>1. Joined(lists, n) = f[n]
  BY DEF Joined
<1>2. Upto(f, lists, n)
  BY UptoExists DEF Upto
<1> QED BY <1>1, <1>2

\* The lists are joined one after another, and only those that are counted.
LEMMA JoinedFacts ==
    ASSUME NEW lists, NEW n \in Nat
    PROVE  /\ Joined(lists, 0) = <<>>
           /\ Joined(lists, n + 1) = Joined(lists, n) \o lists[n + 1]
           /\ \A more : (\A i \in 1..n : more[i] = lists[i]) => Joined(more, n) = Joined(lists, n)
<1>1. PICK f : Upto(f, lists, n) /\ Joined(lists, n) = f[n]
  BY JoinedIsUpto
<1>2. PICK g : Upto(g, lists, n + 1) /\ Joined(lists, n + 1) = g[n + 1]
  BY JoinedIsUpto
<1>3. PICK h : Upto(h, lists, 0) /\ Joined(lists, 0) = h[0]
  BY JoinedIsUpto
<1>4. f[n] = g[n]
  <2> DEFINE m == n + 1
  <2>1. m \in Nat /\ n \in 0..m
    OBVIOUS
  <2>2. Upto(g, lists, m) /\ Upto(f, lists, n)
    BY <1>1, <1>2
  <2> HIDE DEF m
  <2> QED BY <2>1, <2>2, UptoSame
<1>5. g[n + 1] = g[n] \o lists[n + 1]
  <2>1. n + 1 \in 0..(n + 1) /\ n + 1 # 0 /\ (n + 1) - 1 = n
    OBVIOUS
  <2>2. g[n + 1] = g[(n + 1) - 1] \o lists[n + 1]
    BY <1>2, <2>1 DEF Upto
  <2> QED BY <2>1, <2>2
<1>6. h[0] = <<>>
  BY <1>3 DEF Upto
<1>7. ASSUME NEW more, \A i \in 1..n : more[i] = lists[i]
      PROVE  Joined(more, n) = Joined(lists, n)
  <2>1. PICK e : Upto(e, more, n) /\ Joined(more, n) = e[n]
    BY JoinedIsUpto
  <2>2. Upto(e, lists, n)
    <3>1. \A i \in 0..n : i # 0 => i \in 1..n
      OBVIOUS
    <3>2. [i \in 0..n |-> IF i = 0 THEN <<>> ELSE e[i - 1] \o more[i]] =
              [i \in 0..n |-> IF i = 0 THEN <<>> ELSE e[i - 1] \o lists[i]]
      BY <1>7, <3>1
    <3> QED BY <2>1, <3>2 DEF Upto
  <2>3. e[n] = f[n]
    <3>1. n \in 0..n
      OBVIOUS
    <3> QED BY <1>1, <2>2, <3>1, UptoSame
  <2> QED BY <1>1, <2>1, <2>3
<1> QED BY <1>1, <1>2, <1>3, <1>4, <1>5, <1>6, <1>7

\* The members of two lists, one after the other.
LEMMA Members ==
    ASSUME NEW X, NEW a \in Seq(X), NEW b \in Seq(X)
    PROVE  ToSet(a \o b) = ToSet(a) \cup ToSet(b)
<1> DEFINE c == a \o b
<1>1. /\ Len(a) \in Nat /\ Len(b) \in Nat
      /\ DOMAIN a = 1..Len(a) /\ DOMAIN b = 1..Len(b) /\ DOMAIN c = 1..(Len(a) + Len(b))
  OBVIOUS
<1>2. \A i \in 1..(Len(a) + Len(b)) : c[i] = IF i <= Len(a) THEN a[i] ELSE b[i - Len(a)]
  BY ConcatProperties
<1> HIDE DEF c
<1>3. \A i \in DOMAIN c : \/ i \in DOMAIN a /\ c[i] = a[i]
                          \/ i - Len(a) \in DOMAIN b /\ c[i] = b[i - Len(a)]
  BY <1>1, <1>2
<1>4. \A i \in DOMAIN a : i \in DOMAIN c /\ c[i] = a[i]
  BY <1>1, <1>2
<1>5. \A i \in DOMAIN b : Len(a) + i \in DOMAIN c /\ c[Len(a) + i] = b[i]
  <2> SUFFICES ASSUME NEW i \in DOMAIN b PROVE Len(a) + i \in DOMAIN c /\ c[Len(a) + i] = b[i]
    OBVIOUS
  <2>1. Len(a) + i \in 1..(Len(a) + Len(b)) /\ ~(Len(a) + i <= Len(a)) /\ (Len(a) + i) - Len(a) = i
    BY <1>1
  <2> QED BY <1>1, <1>2, <2>1
<1>6. ToSet(c) \subseteq ToSet(a) \cup ToSet(b)
  BY <1>3 DEF ToSet
<1>7. ToSet(a) \subseteq ToSet(c)
  BY <1>4 DEF ToSet
<1>8. ToSet(b) \subseteq ToSet(c)
  BY <1>5 DEF ToSet
<1> QED BY <1>6, <1>7, <1>8 DEF c

\* What is joined is a list, and its members come from the lists.
LEMMA JoinedMembers ==
    ASSUME NEW X, NEW lists, NEW n \in Nat, \A i \in 1..n : lists[i] \in Seq(X)
    PROVE  /\ Joined(lists, n) \in Seq(X)
           /\ \A x \in ToSet(Joined(lists, n)) : \E i \in 1..n : x \in ToSet(lists[i])
<1> DEFINE Good(k) == /\ Joined(lists, k) \in Seq(X)
                      /\ \A x \in ToSet(Joined(lists, k)) : \E i \in 1..k : x \in ToSet(lists[i])
<1> DEFINE T == {k \in 0..n : ~Good(k)}
<1> SUFFICES ASSUME T # {} PROVE FALSE
  OBVIOUS
<1>1. PICK k \in T : \A j \in T : k <= j
  <2>1. T \in SUBSET Nat
    OBVIOUS
  <2> HIDE DEF T
  <2> QED BY <2>1, LeastNatural
<1>2. k \in 0..n /\ ~Good(k)
  BY <1>1
<1>3. CASE k = 0
  <2>1. Joined(lists, 0) = <<>> /\ 1..0 = {}
    BY JoinedFacts
  <2>2. <<>> \in Seq(X) /\ DOMAIN <<>> = {}
    OBVIOUS
  <2>3. Joined(lists, 0) \in Seq(X) /\ ToSet(Joined(lists, 0)) = {}
    BY <2>1, <2>2 DEF ToSet
  <2> QED BY <1>2, <1>3, <2>3
<1>4. CASE k # 0
  <2>1. k - 1 \in 0..n /\ k - 1 \in Nat /\ ~(k <= k - 1) /\ k \in 1..n /\ (k - 1) + 1 = k /\ 1..k = 1..(k - 1) \cup {k}
    BY <1>2, <1>4
  <2>2. Good(k - 1)
    BY <1>1, <2>1
  <2>3. Joined(lists, k) = Joined(lists, k - 1) \o lists[k]
    BY <2>1, JoinedFacts
  <2>4. lists[k] \in Seq(X)
    BY <2>1
  <2>5. ToSet(Joined(lists, k - 1) \o lists[k]) = ToSet(Joined(lists, k - 1)) \cup ToSet(lists[k])
    BY <2>2, <2>4, Members
  <2>6. Good(k)
    <3>1. Joined(lists, k) \in Seq(X)
      BY <2>2, <2>3, <2>4
    <3>2. ToSet(Joined(lists, k)) = ToSet(Joined(lists, k - 1)) \cup ToSet(lists[k])
      BY <2>3, <2>5
    <3>3. ASSUME NEW x \in ToSet(Joined(lists, k)) PROVE \E i \in 1..k : x \in ToSet(lists[i])
      BY <2>1, <2>2, <3>2
    <3> QED BY <3>1, <3>3
  <2> QED BY <1>2, <2>6
<1> QED BY <1>3, <1>4
-----------------------------------------------------------------------------
(* The indexes of the database. *)

LEMMA MinIs ==
    ASSUME NEW S \in SUBSET Nat, NEW x \in S, \A y \in S : x <= y
    PROVE  Min(S) = x
<1>1. \A z \in S : (\A y \in S : z <= y) => z = x
  OBVIOUS
<1>2. Min(S) \in S /\ \A y \in S : Min(S) <= y
  BY DEF Min
<1> QED BY <1>1, <1>2

LEMMA MinIn ==
    ASSUME NEW S \in SUBSET Nat, S # {}
    PROVE  Min(S) \in S
BY LeastNatural, MinIs

\* The first lemma of a name in two lists is the first of the first list that has it.
LEMMA FirstOfTwo ==
    ASSUME NEW X, NEW a \in Seq(X), NEW b \in Seq(X), NEW n
    PROVE  /\ n \in Names_of(a) => First(a \o b, n) = First(a, n)
           /\ n \in Names_of(b) \ Names_of(a) => First(a \o b, n) = First(b, n)
           /\ Names_of(a \o b) = Names_of(a) \cup Names_of(b)
<1> DEFINE c == a \o b
<1> DEFINE Of(s) == {i \in DOMAIN s : s[i].name = n}
<1>1. /\ Len(a) \in Nat /\ Len(b) \in Nat
      /\ DOMAIN a = 1..Len(a) /\ DOMAIN b = 1..Len(b) /\ DOMAIN c = 1..(Len(a) + Len(b))
  OBVIOUS
<1>2. \A i \in 1..(Len(a) + Len(b)) : c[i] = IF i <= Len(a) THEN a[i] ELSE b[i - Len(a)]
  BY ConcatProperties
<1> HIDE DEF c
<1>3. \A i \in DOMAIN c : \/ i \in DOMAIN a /\ c[i] = a[i]
                          \/ ~(i <= Len(a)) /\ i - Len(a) \in DOMAIN b /\ c[i] = b[i - Len(a)]
  BY <1>1, <1>2
<1>4. \A i \in DOMAIN a : i \in DOMAIN c /\ c[i] = a[i] /\ i <= Len(a)
  BY <1>1, <1>2
<1>5. \A i \in DOMAIN b : Len(a) + i \in DOMAIN c /\ c[Len(a) + i] = b[i]
  <2> SUFFICES ASSUME NEW i \in DOMAIN b PROVE Len(a) + i \in DOMAIN c /\ c[Len(a) + i] = b[i]
    OBVIOUS
  <2>1. Len(a) + i \in 1..(Len(a) + Len(b)) /\ ~(Len(a) + i <= Len(a)) /\ (Len(a) + i) - Len(a) = i
    BY <1>1
  <2> QED BY <1>1, <1>2, <2>1
<1>6. Of(a) \in SUBSET Nat /\ Of(b) \in SUBSET Nat /\ Of(c) \in SUBSET Nat
  BY <1>1
<1>7. First(a, n) = a[Min(Of(a))].theorem /\ First(b, n) = b[Min(Of(b))].theorem
      /\ First(c, n) = c[Min(Of(c))].theorem
  BY DEF First
<1>8. ASSUME n \in Names_of(a) PROVE First(c, n) = First(a, n)
  <2>1. Of(a) # {}
    BY <1>8 DEF Names_of
  <2>2. PICK k \in Of(a) : \A j \in Of(a) : k <= j
    <3> HIDE DEF Of
    <3> QED BY <1>6, <2>1, LeastNatural
  <2>3. Min(Of(a)) = k
    <3> HIDE DEF Of
    <3> QED BY <1>6, <2>2, MinIs
  <2>4. k \in Of(c) /\ \A j \in Of(c) : k <= j
    <3>1. k \in Of(c) /\ k \in Nat /\ k <= Len(a)
      BY <1>1, <1>4, <2>2
    <3>2. ASSUME NEW j \in Of(c) PROVE k <= j
      BY <1>1, <1>3, <2>2, <3>1
    <3> QED BY <3>1, <3>2
  <2>5. Min(Of(c)) = k
    <3> HIDE DEF Of
    <3> QED BY <1>6, <2>4, MinIs
  <2>6. c[k] = a[k]
    BY <1>4, <2>2
  <2> QED BY <1>7, <2>3, <2>5, <2>6
<1>9. ASSUME n \in Names_of(b) \ Names_of(a) PROVE First(c, n) = First(b, n)
  <2>1. Of(b) # {} /\ Of(a) = {}
    BY <1>9 DEF Names_of
  <2>2. PICK k \in Of(b) : \A j \in Of(b) : k <= j
    <3> HIDE DEF Of
    <3> QED BY <1>6, <2>1, LeastNatural
  <2>3. Min(Of(b)) = k
    <3> HIDE DEF Of
    <3> QED BY <1>6, <2>2, MinIs
  <2>4. Len(a) + k \in Of(c) /\ \A j \in Of(c) : Len(a) + k <= j
    <3>1. Len(a) + k \in Of(c) /\ k \in Nat
      BY <1>1, <1>5, <2>2
    <3>2. ASSUME NEW j \in Of(c) PROVE Len(a) + k <= j
      <4>1. j \in Nat /\ j - Len(a) \in Of(b)
        BY <1>1, <1>3, <2>1
      <4>2. k <= j - Len(a)
        BY <2>2, <4>1
      <4> QED BY <1>1, <3>1, <4>1, <4>2
    <3> QED BY <3>1, <3>2
  <2>5. Min(Of(c)) = Len(a) + k
    <3> DEFINE m == Len(a) + k
    <3>1. m \in Of(c) /\ \A j \in Of(c) : m <= j
      BY <2>4
    <3> HIDE DEF Of, m
    <3>2. Min(Of(c)) = m
      BY <1>6, <3>1, MinIs
    <3> QED BY <3>2 DEF m
  <2>6. c[Len(a) + k] = b[k]
    BY <1>5, <2>2
  <2> QED BY <1>7, <2>3, <2>5, <2>6
<1>10. Names_of(c) = Names_of(a) \cup Names_of(b)
  <2>1. \A i \in DOMAIN c : \/ \E j \in DOMAIN a : c[i].name = a[j].name
                            \/ \E j \in DOMAIN b : c[i].name = b[j].name
    BY <1>3
  <2>2. \A i \in DOMAIN a : \E j \in DOMAIN c : c[j].name = a[i].name
    BY <1>4
  <2>3. \A i \in DOMAIN b : \E j \in DOMAIN c : c[j].name = b[i].name
    BY <1>5
  <2>4. Names_of(c) \subseteq Names_of(a) \cup Names_of(b)
    BY <2>1 DEF Names_of
  <2>5. Names_of(a) \subseteq Names_of(c)
    BY <2>2 DEF Names_of
  <2>6. Names_of(b) \subseteq Names_of(c)
    BY <2>3 DEF Names_of
  <2> QED BY <2>4, <2>5, <2>6
<1> QED BY <1>8, <1>9, <1>10 DEF c

\* To file one list after another is to file both at once.
LEMMA FiledTwice ==
    ASSUME NEW X, NEW a \in Seq(X), NEW b \in Seq(X), NEW map
    PROVE  filed(filed(map, a), b) = filed(map, a \o b)
<1> DEFINE f == filed(map, a)
<1> DEFINE c == a \o b
<1>1. DOMAIN f = DOMAIN map \cup Names_of(a)
  BY DEF filed
<1>2. \A n \in DOMAIN f : f[n] = IF n \in DOMAIN map THEN map[n] ELSE First(a, n)
  BY DEF filed
<1>3. Names_of(c) = Names_of(a) \cup Names_of(b)
  BY FirstOfTwo
<1>4. \A n \in Names_of(a) : First(c, n) = First(a, n)
  BY FirstOfTwo
<1>5. \A n \in Names_of(b) \ Names_of(a) : First(c, n) = First(b, n)
  BY FirstOfTwo
<1> HIDE DEF f, c
<1> DEFINE D == DOMAIN map \cup Names_of(c)
<1>6. DOMAIN f \cup Names_of(b) = D
  BY <1>1, <1>3
<1>7. \A n \in D : (IF n \in DOMAIN f THEN f[n] ELSE First(b, n)) = (IF n \in DOMAIN map THEN map[n] ELSE First(c, n))
  BY <1>1, <1>2, <1>3, <1>4, <1>5
<1>8. filed(f, b) = [n \in D |-> IF n \in DOMAIN f THEN f[n] ELSE First(b, n)]
  BY <1>6 DEF filed
<1>9. filed(map, c) = [n \in D |-> IF n \in DOMAIN map THEN map[n] ELSE First(c, n)]
  BY DEF filed
<1>10. filed(f, b) = filed(map, c)
  <2> HIDE DEF D
  <2> QED BY <1>7, <1>8, <1>9
<1> QED BY <1>10 DEF f, c

\* Names that are there already change nothing.
LEMMA FiledAgain ==
    ASSUME NEW map, NEW a, NEW b, Names_of(b) \subseteq DOMAIN filed(map, a)
    PROVE  filed(filed(map, a), b) = filed(map, a)
<1> DEFINE f == filed(map, a)
<1>1. f = [n \in DOMAIN f |-> f[n]]
  BY DEF filed
<1> HIDE DEF f
<1>2. filed(f, b) = [n \in DOMAIN f \cup Names_of(b) |-> IF n \in DOMAIN f THEN f[n] ELSE First(b, n)]
  BY DEF filed
<1>3. DOMAIN f \cup Names_of(b) = DOMAIN f
  BY DEF f
<1>4. filed(f, b) = f
  BY <1>1, <1>2, <1>3
<1> QED BY <1>4 DEF f

\* What a list files is one of its theorems.
LEMMA FiledIsStated ==
    ASSUME NEW X, NEW a \in Seq(X)
    PROVE  \A n \in Names_of(a) : First(a, n) \in ToSet(Theorems(a))
<1> SUFFICES ASSUME NEW n \in Names_of(a) PROVE First(a, n) \in ToSet(Theorems(a))
  OBVIOUS
<1> DEFINE I == {i \in DOMAIN a : a[i].name = n}
<1>1. DOMAIN a \in SUBSET Nat
  OBVIOUS
<1>2. I \in SUBSET Nat /\ I # {}
  BY <1>1 DEF Names_of
<1>3. First(a, n) = a[Min(I)].theorem
  BY DEF First
<1>4. Min(I) \in I
  <2> HIDE DEF I
  <2> QED BY <1>2, MinIn
<1>5. DOMAIN Theorems(a) = DOMAIN a /\ \A i \in DOMAIN a : Theorems(a)[i] = a[i].theorem
  BY DEF Theorems
<1> QED BY <1>3, <1>4, <1>5 DEF ToSet
-----------------------------------------------------------------------------
(* The database grown by the lemmas of one file. *)

\* A command that finds its theorem gives a list of one, with a theorem that
\* the database had under a name.
LEMMA ResolvedFacts ==
    ASSUME NEW d, NEW lem, IsLemma(lem)
    PROVE  LET Z == [name : STRING, theorem : {d.by_name[n] : n \in DOMAIN d.by_name},
                     attrs : SUBSET STRING, shape : SUBSET STRING, alias_for : Seq(STRING)]
           IN  resolved(d, lem) \in Seq(Z) /\ \A x \in ToSet(resolved(d, lem)) : x.name = lem.name
<1> DEFINE R == {d.by_name[n] : n \in DOMAIN d.by_name}
<1> DEFINE Z == [name : STRING, theorem : R, attrs : SUBSET STRING, shape : SUBSET STRING, alias_for : Seq(STRING)]
<1> DEFINE T == Targets(d, lem)
<1>1. CASE T = {}
  <2>1. resolved(d, lem) = <<>>
    BY <1>1 DEF resolved
  <2>2. <<>> \in Seq(Z) /\ DOMAIN <<>> = {}
    OBVIOUS
  <2>3. ToSet(<<>>) = {}
    BY <2>2 DEF ToSet
  <2> QED BY <2>1, <2>2, <2>3
<1>2. CASE T # {}
  <2>1. T \in SUBSET Nat
    <3>1. lem.alias_for \in Seq(STRING)
      BY DEF IsLemma
    <3> QED BY <3>1 DEF Targets
  <2>2. Min(T) \in T
    <3> HIDE DEF T
    <3> QED BY <1>2, <2>1, MinIn
  <2> DEFINE v == d.by_name[lem.alias_for[Min(T)]]
  <2>3. v \in R
    BY <2>2 DEF Targets
  <2> DEFINE x == [lem EXCEPT !.theorem = v]
  <2>4. resolved(d, lem) = <<x>>
    BY <1>2 DEF resolved
  <2> HIDE DEF v, R
  <2>5. x \in Z /\ x.name = lem.name
    BY <2>3 DEF IsLemma
  <2> HIDE DEF x, Z
  <2>6. <<x>> \in Seq(Z) /\ ToSet(<<x>>) = {x}
    BY <2>5 DEF ToSet
  <2> QED BY <2>4, <2>5, <2>6 DEF Z, R
<1> QED BY <1>1, <1>2 DEF R

\* The theorems of two lists, and of none.
LEMMA MoreTheorems ==
    ASSUME NEW X, NEW a \in Seq(X), NEW b \in Seq(X)
    PROVE  ToSet(Theorems(a \o b)) = ToSet(Theorems(a)) \cup ToSet(Theorems(b))
<1> DEFINE Of(S) == {x.theorem : x \in S}
<1>1. \A s : ToSet(Theorems(s)) = Of(ToSet(s))
  BY DEF Theorems, ToSet
<1>2. ToSet(a \o b) = ToSet(a) \cup ToSet(b)
  BY Members
<1>3. \A S, T : Of(S \cup T) = Of(S) \cup Of(T)
  OBVIOUS
<1> HIDE DEF Of
<1> QED BY <1>1, <1>2, <1>3

LEMMA TheoremsList ==
    ASSUME NEW X, NEW a \in Seq(X)
    PROVE  Theorems(a) \in Seq({x.theorem : x \in X})
<1>1. a \in [1..Len(a) -> X] /\ Len(a) \in Nat /\ DOMAIN a = 1..Len(a)
  OBVIOUS
<1>2. Theorems(a) \in [1..Len(a) -> {x.theorem : x \in X}]
  BY <1>1 DEF Theorems
<1> QED BY <1>1, <1>2

\* What a list of lemmas makes of a database that was filled from one: each
\* command's name is filed with the lemmas, so that resolving it files nothing.
LEMMA Grown ==
    ASSUME NEW d, NEW old, NEW lemmas, NEW rules, NEW X,
           old \in Seq(X), lemmas \in Seq(X), \A lem \in X : IsLemma(lem),
           d.by_name = filed(Empty, old), d.def_index = filed(Empty, old),
           ToSet(d.all) = ToSet(Theorems(old)), \E S : d.all \in Seq(S)
    PROVE  LET g == resolve_aliases(add(d, lemmas, rules), lemmas)
           IN  /\ g.by_name = filed(Empty, old \o lemmas) /\ g.def_index = filed(Empty, old \o lemmas)
               /\ ToSet(g.all) = ToSet(Theorems(old \o lemmas)) /\ \E S : g.all \in Seq(S)
<1> DEFINE a == add(d, lemmas, rules)
<1> DEFINE known == old \o lemmas
<1> DEFINE lists == [i \in DOMAIN lemmas |-> resolved(a, lemmas[i])]
<1> DEFINE aliases == Joined(lists, Len(lemmas))
<1> DEFINE g == resolve_aliases(a, lemmas)
<1>1. /\ a.by_name = filed(d.by_name, lemmas) /\ a.def_index = filed(d.def_index, lemmas)
      /\ a.all = d.all \o Theorems(lemmas)
  BY DEF add
<1>2. a.by_name = filed(Empty, known) /\ a.def_index = filed(Empty, known)
  BY <1>1, FiledTwice
<1>3. g.by_name = filed(a.by_name, aliases) /\ g.def_index = a.def_index /\ g.all = a.all \o Theorems(aliases)
  BY DEF resolve_aliases
<1>4. known \in Seq(X) /\ Len(lemmas) \in Nat /\ DOMAIN lemmas = 1..Len(lemmas)
      /\ \A i \in DOMAIN lemmas : lemmas[i] \in X
  OBVIOUS
<1> HIDE DEF a, g, known
<1> DEFINE R == {a.by_name[n] : n \in DOMAIN a.by_name}
<1> DEFINE Z == [name : STRING, theorem : R, attrs : SUBSET STRING, shape : SUBSET STRING, alias_for : Seq(STRING)]
<1>5. \A i \in 1..Len(lemmas) : /\ lists[i] \in Seq(Z)
                                /\ \A x \in ToSet(lists[i]) : x.name = lemmas[i].name
  BY <1>4, ResolvedFacts
<1> HIDE DEF lists, Z, R
<1>6. aliases \in Seq(Z) /\ \A x \in ToSet(aliases) : \E i \in 1..Len(lemmas) : x \in ToSet(lists[i])
  BY <1>4, <1>5, JoinedMembers
<1> HIDE DEF aliases
<1>7. Names_of(aliases) \subseteq Names_of(lemmas)
  <2>1. \A i \in DOMAIN aliases : aliases[i] \in ToSet(aliases)
    BY DEF ToSet
  <2>2. \A i \in DOMAIN aliases : \E j \in DOMAIN lemmas : aliases[i].name = lemmas[j].name
    BY <1>4, <1>5, <1>6, <2>1
  <2> QED BY <2>2 DEF Names_of
<1>8. Names_of(lemmas) \subseteq DOMAIN a.by_name
  BY <1>1 DEF filed
<1>9. g.by_name = filed(Empty, known) /\ g.def_index = filed(Empty, known)
  BY <1>2, <1>3, <1>7, <1>8, FiledAgain
<1>10. R \subseteq ToSet(Theorems(known))
  <2>1. DOMAIN a.by_name = Names_of(known) /\ \A n \in Names_of(known) : a.by_name[n] = First(known, n)
    BY <1>2 DEF filed, Empty
  <2> QED BY <1>4, <2>1, FiledIsStated DEF R
<1>11. ToSet(Theorems(aliases)) \subseteq R
  <2>1. \A i \in DOMAIN aliases : aliases[i] \in Z
    BY <1>6
  <2>2. \A i \in DOMAIN aliases : aliases[i].theorem \in R
    BY <2>1 DEF Z
  <2>3. DOMAIN Theorems(aliases) = DOMAIN aliases /\ \A i \in DOMAIN aliases : Theorems(aliases)[i] = aliases[i].theorem
    BY DEF Theorems
  <2> QED BY <2>2, <2>3 DEF ToSet
<1> DEFINE Q == {x.theorem : x \in X}
<1>12. PICK S : d.all \in Seq(S)
  OBVIOUS
<1> DEFINE U == S \cup Q \cup {z.theorem : z \in Z}
<1>13. d.all \in Seq(U) /\ Theorems(lemmas) \in Seq(U) /\ Theorems(aliases) \in Seq(U)
  <2>1. Theorems(lemmas) \in Seq(Q)
    BY TheoremsList
  <2>2. Theorems(aliases) \in Seq({z.theorem : z \in Z})
    BY <1>6, TheoremsList
  <2>3. S \subseteq U /\ Q \subseteq U /\ {z.theorem : z \in Z} \subseteq U
    OBVIOUS
  <2>4. \A V, W : \A s \in Seq(V) : V \subseteq W => s \in Seq(W)
    OBVIOUS
  <2> HIDE DEF Q, U
  <2> QED BY <1>12, <2>1, <2>2, <2>3, <2>4
<1> HIDE DEF Q, U
<1>14. a.all \in Seq(U) /\ ToSet(a.all) = ToSet(Theorems(old)) \cup ToSet(Theorems(lemmas))
  BY <1>1, <1>13, Members
<1>15. g.all \in Seq(U) /\ ToSet(g.all) = ToSet(a.all) \cup ToSet(Theorems(aliases))
  BY <1>3, <1>13, <1>14, Members
<1>16. ToSet(Theorems(known)) = ToSet(Theorems(old)) \cup ToSet(Theorems(lemmas))
  BY MoreTheorems DEF known
<1>17. ToSet(g.all) = ToSet(Theorems(known))
  BY <1>10, <1>11, <1>14, <1>15, <1>16
<1> QED BY <1>9, <1>15, <1>17 DEF g, a, known
-----------------------------------------------------------------------------
(* The database of the theory graph. *)

Stated == UNION {UNION {ToSet(lemmas) : lemmas \in Contents(t)} : t \in Theory}

\* The database is what one filled from the lemmas of the nodes holds.
DatabaseInv ==
    loader = "graph" =>
        /\ \A t \in DOMAIN nodes : nodes[t].lemmas \in Seq(Stated)
        /\ phase \in {"scan", "sort", "load"} =>
               /\ db.by_name = filed(Empty, Lemmas) /\ db.def_index = filed(Empty, Lemmas)
               /\ ToSet(db.all) = ToSet(Theorems(Lemmas)) /\ \E S : db.all \in Seq(S)

LEMMA ContentsAreLemmas ==
    /\ \A lem \in Stated : IsLemma(lem)
    /\ \A t \in Theory : \A lemmas \in Contents(t) : lemmas \in Seq(Stated)
<1>1. \A lem \in Stated : IsLemma(lem)
  BY ContentsAssumption DEF Stated
<1>2. ASSUME NEW t \in Theory, NEW lemmas \in Contents(t) PROVE lemmas \in Seq(Stated)
  <2>1. lemmas \in Seq(ToSet(lemmas))
    BY ContentsAssumption
  <2>2. ToSet(lemmas) \subseteq Stated
    BY DEF Stated
  <2>3. \A V, W : \A s \in Seq(V) : V \subseteq W => s \in Seq(W)
    OBVIOUS
  <2> QED BY <2>1, <2>2, <2>3
<1> QED BY <1>1, <1>2

\* The lemmas of the nodes are one list.
LEMMA LemmasAreListed ==
    ASSUME OrderInv, \A t \in DOMAIN nodes : nodes[t].lemmas \in Seq(Stated)
    PROVE  Lemmas \in Seq(Stated)
<1>1. at \in Nat
  BY DEF OrderInv, OrderTypeOK
<1> DEFINE lists == [i \in 1..at |-> Collected(i)]
<1>2. \A i \in 1..at : lists[i] \in Seq(Stated)
  BY DEF Collected
<1> HIDE DEF lists
<1>3. Joined(lists, at) \in Seq(Stated)
  BY <1>1, <1>2, JoinedMembers
<1> QED BY <1>3 DEF Lemmas, lists

\* A new database is what no lemmas fill it with.
LEMMA NewIsEmpty ==
    /\ new.by_name = filed(Empty, <<>>) /\ new.def_index = filed(Empty, <<>>)
    /\ ToSet(new.all) = ToSet(Theorems(<<>>)) /\ new.all \in Seq({})
<1>1. Names_of(<<>>) = {} /\ DOMAIN Empty = {} /\ ToSet(<<>>) = {} /\ Theorems(<<>>) = <<>>
  <2>1. DOMAIN <<>> = {}
    OBVIOUS
  <2>2. Names_of(<<>>) = {}
    BY <2>1 DEF Names_of
  <2>3. Theorems(<<>>) = [i \in {} |-> <<>>[i].theorem]
    BY <2>1 DEF Theorems
  <2>4. Theorems(<<>>) = <<>>
    BY <2>3
  <2> QED BY <2>1, <2>2, <2>4 DEF Empty, ToSet
<1>2. filed(Empty, <<>>) = Empty
  <2>1. DOMAIN Empty \cup Names_of(<<>>) = {}
    BY <1>1
  <2>2. filed(Empty, <<>>) = [n \in {} |-> IF n \in DOMAIN Empty THEN Empty[n] ELSE First(<<>>, n)]
    BY <2>1 DEF filed
  <2>3. \A n \in {} : Placeholder = IF n \in DOMAIN Empty THEN Empty[n] ELSE First(<<>>, n)
    OBVIOUS
  <2>4. Empty = [n \in {} |-> Placeholder]
    BY DEF Empty
  <2> QED BY <2>2, <2>3, <2>4
<1>3. new.by_name = Empty /\ new.def_index = Empty /\ new.all = <<>>
  BY DEF new
<1>4. <<>> \in Seq({})
  OBVIOUS
<1> QED BY <1>1, <1>2, <1>3, <1>4

LEMMA DatabaseInitInv ==
    ASSUME Init
    PROVE  DatabaseInv
<1>1. at = 0 /\ nodes = <<>> /\ db = new
  BY DEF Init, OrderInit, GraphInit
<1>2. Lemmas = <<>>
  BY <1>1, JoinedFacts DEF Lemmas
<1>3. DOMAIN nodes = {}
  BY <1>1
<1> QED BY <1>1, <1>2, <1>3, NewIsEmpty DEF DatabaseInv

\* One theory more: its lemmas are added to the list, none if it was not read.
LEMMA LemmasGrow ==
    ASSUME OrderInv, phase = "load", at < Len(order), at' = at + 1, order' = order,
           \A i \in 1..at : /\ order[i] \in DOMAIN nodes' <=> order[i] \in DOMAIN nodes
                            /\ order[i] \in DOMAIN nodes => nodes'[order[i]] = nodes[order[i]]
    PROVE  Lemmas' = Lemmas \o (IF Current \in DOMAIN nodes' THEN nodes'[Current].lemmas ELSE <<>>)
<1>1. at \in Nat /\ at + 1 \in 1..(at + 1) /\ \A i \in 1..at : i \in 1..(at + 1)
  BY DEF OrderInv, OrderTypeOK
<1> DEFINE a == [i \in 1..at |-> Collected(i)]
<1> DEFINE b == [i \in 1..(at + 1) |-> Collected(i)']
<1>2. \A i \in 1..at : a[i] = b[i]
  BY <1>1 DEF Collected
<1>3. b[at + 1] = IF Current \in DOMAIN nodes' THEN nodes'[Current].lemmas ELSE <<>>
  BY <1>1 DEF Collected, Current
<1>4. Lemmas = Joined(a, at)
  BY DEF Lemmas
<1>5. Lemmas' = Joined(b, at + 1)
  BY DEF Lemmas
<1> HIDE DEF a, b
<1>6. Joined(b, at + 1) = Joined(b, at) \o b[at + 1] /\ Joined(b, at) = Joined(a, at)
  BY <1>1, <1>2, JoinedFacts
<1> QED BY <1>3, <1>4, <1>5, <1>6

LEMMA DatabaseGraphInv ==
    ASSUME SystemInv, DatabaseInv, graph_next
    PROVE  DatabaseInv'
<1>1. /\ loader = "graph" /\ phase = "load" /\ at < Len(order) /\ at' = at + 1
      /\ UNCHANGED <<loader, phase, files, order>>
      /\ \/ load_file_fails
         \/ \E lemmas \in Contents(Current) : load_file(Current, lemmas)
  BY DEF graph_next, load_next
<1>2. OrderInv /\ DOMAIN nodes \subseteq Processed /\ Current \in Theory /\ Current \notin Processed
  BY <1>1, CurrentFacts DEF SystemInv, ReportInv, GraphInv
<1>3. \A t \in DOMAIN nodes : nodes[t].lemmas \in Seq(Stated)
  BY <1>1 DEF DatabaseInv
<1>4. /\ db.by_name = filed(Empty, Lemmas) /\ db.def_index = filed(Empty, Lemmas)
      /\ ToSet(db.all) = ToSet(Theorems(Lemmas)) /\ \E S : db.all \in Seq(S)
  BY <1>1 DEF DatabaseInv
<1>5. Lemmas \in Seq(Stated)
  BY <1>2, <1>3, LemmasAreListed
<1>6. \A i \in 1..at : order[i] # Current
  BY <1>2 DEF Processed
<1>7. CASE load_file_fails
  <2>1. nodes' = nodes /\ db' = db /\ Current \notin DOMAIN nodes
    BY <1>2, <1>7 DEF load_file_fails
  <2>2. Lemmas' = Lemmas \o <<>>
    BY <1>1, <1>2, <2>1, LemmasGrow
  <2>3. Lemmas' = Lemmas
    BY <1>5, <2>2
  <2> QED BY <1>3, <1>4, <2>1, <2>3 DEF DatabaseInv
<1>8. ASSUME NEW lemmas \in Contents(Current), load_file(Current, lemmas)
      PROVE  DatabaseInv'
  <2>1. /\ DOMAIN nodes' = DOMAIN nodes \cup {Current} /\ nodes'[Current].lemmas = lemmas
        /\ \A t \in DOMAIN nodes \ {Current} : nodes'[t] = nodes[t]
    BY <1>8 DEF load_file, With
  <2>2. \A i \in 1..at : /\ order[i] \in DOMAIN nodes' <=> order[i] \in DOMAIN nodes
                         /\ order[i] \in DOMAIN nodes => nodes'[order[i]] = nodes[order[i]]
    BY <1>6, <2>1
  <2>3. Lemmas' = Lemmas \o lemmas
    BY <1>1, <1>2, <2>1, <2>2, LemmasGrow
  <2>4. lemmas \in Seq(Stated)
    BY <1>2, ContentsAreLemmas
  <2>5. \A t \in DOMAIN nodes' : nodes'[t].lemmas \in Seq(Stated)
    BY <1>3, <2>1, <2>4
  <2> DEFINE g == resolve_aliases(add(db, lemmas, rules_extended(db.rules, lemmas)), lemmas)
  <2>6. db' = g
    BY <1>8 DEF load_file, extend
  <2>7. /\ g.by_name = filed(Empty, Lemmas \o lemmas) /\ g.def_index = filed(Empty, Lemmas \o lemmas)
        /\ ToSet(g.all) = ToSet(Theorems(Lemmas \o lemmas)) /\ \E S : g.all \in Seq(S)
    BY <1>4, <1>5, <2>4, ContentsAreLemmas, Grown
  <2> HIDE DEF g
  <2> QED BY <2>3, <2>5, <2>6, <2>7 DEF DatabaseInv
<1> QED BY <1>1, <1>7, <1>8

LEMMA DatabaseNextInv ==
    ASSUME SystemInv, DatabaseInv, [Next]_vars
    PROVE  DatabaseInv'
<1>0. OrderInv
  BY DEF SystemInv
<1>1. CASE graph_next
  BY <1>1, DatabaseGraphInv
<1>2. CASE Ordering
  <2>1. UNCHANGED <<loader, nodes, db>> /\ at = 0 /\ at' = 0 /\ phase \in {"scan", "sort"}
    BY <1>0, <1>2 DEF Ordering, graphVars, scan, order_next, break_cycles, OrderInv
  <2>2. Lemmas = <<>> /\ Lemmas' = <<>>
    BY <2>1, JoinedFacts DEF Lemmas
  <2> QED BY <2>1, <2>2 DEF DatabaseInv
<1>3. CASE SessionNext
  BY <1>3 DEF SessionNext, build_next, load_end, load_next, IsSession, DatabaseInv
<1>4. CASE load_all_end \/ load_all_theories
  <2>1. UNCHANGED <<loader, nodes>> /\ phase' \in {"done", "served"}
    BY <1>4 DEF load_all_end, load_all_theories, load_end
  <2> QED BY <2>1 DEF DatabaseInv
<1>5. CASE UNCHANGED vars
  <2>1. UNCHANGED <<loader, phase, nodes, db, at, order>>
    BY <1>5 DEF vars
  <2>2. Lemmas' = Lemmas
    BY <2>1 DEF Lemmas, Collected
  <2> QED BY <2>1, <2>2 DEF DatabaseInv
<1> QED BY <1>1, <1>2, <1>3, <1>4, <1>5 DEF Next, GraphNext

\* Growing the database file by file (extend) files the same theorems under the
\* same names as filling it from all their lemmas at once (from_lemmas), whatever
\* the files state, with every alias, in whatever order they are loaded.
THEOREM IncrementalIsWholeAlways == Spec => []IncrementalIsWhole
<1>1. SystemInv /\ DatabaseInv => IncrementalIsWhole
  <2> SUFFICES ASSUME SystemInv, DatabaseInv, loader = "graph", phase = "load" PROVE IncrementalIsWhole
    BY DEF IncrementalIsWhole
  <2>1. /\ db.by_name = filed(Empty, Lemmas) /\ db.def_index = filed(Empty, Lemmas)
        /\ ToSet(db.all) = ToSet(Theorems(Lemmas)) /\ Lemmas \in Seq(Stated)
    BY LemmasAreListed DEF DatabaseInv, SystemInv
  <2> DEFINE none == <<>>
  <2> DEFINE g == resolve_aliases(add(new, Lemmas, rules_whole(Lemmas)), Lemmas)
  <2>2. from_lemmas(Lemmas) = g
    BY DEF from_lemmas
  <2>3. /\ new.by_name = filed(Empty, none) /\ new.def_index = filed(Empty, none)
        /\ ToSet(new.all) = ToSet(Theorems(none)) /\ new.all \in Seq({})
    BY NewIsEmpty
  <2>4. none \in Seq(Stated) /\ none \o Lemmas = Lemmas
    BY <2>1
  <2> HIDE DEF none
  <2>5. /\ g.by_name = filed(Empty, none \o Lemmas) /\ g.def_index = filed(Empty, none \o Lemmas)
        /\ ToSet(g.all) = ToSet(Theorems(none \o Lemmas))
    <3>1. \E S : new.all \in Seq(S)
      BY <2>3
    <3>2. \A lem \in Stated : IsLemma(lem)
      BY ContentsAreLemmas
    <3> DEFINE d == new
    <3> DEFINE L == Lemmas
    <3> DEFINE r == rules_whole(Lemmas)
    <3>3. /\ d.by_name = filed(Empty, none) /\ d.def_index = filed(Empty, none)
          /\ ToSet(d.all) = ToSet(Theorems(none)) /\ \E S : d.all \in Seq(S)
      BY <2>3, <3>1
    <3>4. L \in Seq(Stated) /\ none \in Seq(Stated)
      BY <2>1, <2>4
    <3> HIDE DEF d, L, r
    <3> DEFINE h == resolve_aliases(add(d, L, r), L)
    <3>5. /\ h.by_name = filed(Empty, none \o L) /\ h.def_index = filed(Empty, none \o L)
          /\ ToSet(h.all) = ToSet(Theorems(none \o L))
      BY <3>2, <3>3, <3>4, Grown
    <3> QED BY <3>5 DEF d, L, r
  <2> HIDE DEF g
  <2>6. AnnotatedWithImports
    BY DEF SystemInv, ReportInv
  <2> QED BY <2>1, <2>2, <2>4, <2>5, <2>6 DEF IncrementalIsWhole
<1> QED BY <1>1, SystemInitInv, SystemNextInv, DatabaseInitInv, DatabaseNextInv, PTL DEF Spec
=============================================================================
