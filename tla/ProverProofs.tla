------------------------------ MODULE ProverProofs ------------------------------
(***************************************************************************)
(* The answers of the two provers are right, for clauses and for formulas. *)
(*                                                                         *)
(* The SAT solver, for any lists of clauses.  What it learns is a clause   *)
(* it holds, so that the clauses held and given are the same but for       *)
(* copies (SameClauses), and an assignment that makes every clause true is *)
(* an answer about the clauses given.  The other answer rests on           *)
(* Level0Follows: what propagation assigns before any decision is so       *)
(* wherever the clauses are true, a decision and what follows from it have *)
(* a level above 0, and going back keeps the levels of what it keeps.  A   *)
(* clause that is false at level 0 then has no literal true anywhere.      *)
(*                                                                         *)
(* Metis, for any problems.  A theorem is good when its hypotheses are     *)
(* among the clauses of the negated goal and it is true wherever the       *)
(* premises are: each rule makes good theorems of good ones, and so does   *)
(* each loop over them, by induction over its turns.  Where the goal is    *)
(* false the clauses of the negated goal are true, and a contradiction     *)
(* with no other hypotheses would be true as well.                         *)
(*                                                                         *)
(* Formulas, of any size.  By induction over a plain formula, whatever     *)
(* clauses and variables there are when tseitin_rec comes to it: where     *)
(* the clauses are true its variable has its value, and giving each        *)
(* variable the value of what it stands for makes the new clauses true     *)
(* (Encoded).  So the clauses can be made true when the formula can.       *)
(***************************************************************************)
EXTENDS Clausify, Metis, LinarithProofs

-----------------------------------------------------------------------------
(* The inductive invariant. *)

SameClauses(cs, ds) == {cs[i] : i \in DOMAIN cs} = {ds[i] : i \in DOMAIN ds}

SatTypeOK ==
  /\ clauses_given \in Seq(Seq(Int \ {0})) /\ clauses_held \in Seq(Seq(Int \ {0}))
  /\ assignments \in Seq({"none", "true", "false"})
  /\ levels \in Seq(0..decision_level) /\ Len(levels) = Len(assignments)
  /\ \A i \in DOMAIN clauses_given : \A j \in DOMAIN clauses_given[i] :
       var_of(clauses_given[i][j]) \in DOMAIN assignments
  /\ decision_level \in Nat
  /\ sat \in {"idle", "propagate", "conflict", "decide", "satisfiable", "unsatisfiable"}

\* A conflict is a clause it holds, with every literal false.
ConflictIsFalse ==
  sat \in {"conflict", "unsatisfiable"} => (\E i \in DOMAIN clauses_held : clauses_held[i] = conflict) /\ IsFalse(conflict)

\* What is assigned without a decision has that value wherever the clauses are true.
Level0Follows ==
  \A val \in SUBSET DOMAIN assignments :
    ClausesTrue(clauses_given, val) =>
      \A v \in DOMAIN assignments :
        (assignments[v] # "none" /\ levels[v] = 0) => (assignments[v] = "true" <=> v \in val)

SatInv ==
  /\ SatTypeOK
  /\ SameClauses(clauses_held, clauses_given)
  /\ sat = "idle" => decision_level = 0
  /\ ConflictIsFalse
  /\ Level0Follows
  /\ AnswersAreRight

-----------------------------------------------------------------------------
(* Bounds and greatest elements. *)

\* A non-empty set of naturals has a least element.
LEMMA LeastNatural ==
    ASSUME NEW T \in SUBSET Nat, T # {}
    PROVE  \E x \in T : \A y \in T : x <= y
<1>1. PICK x \in T : \A y \in T : ~(<<y, x>> \in OpToRel(<, Nat))
  BY NatLessThanWellFounded, WFMin
<1>2. \A y \in T : ~(y < x)
  BY <1>1 DEF OpToRel
<1> QED BY <1>2

\* A non-empty bounded set of naturals has a greatest element, and Max is that.
LEMMA MaxOfBounded ==
    ASSUME NEW T \in SUBSET Nat, T # {}, NEW b \in Nat, \A x \in T : x <= b
    PROVE  Max(T) \in T /\ \A y \in T : Max(T) >= y
<1> DEFINE above == {n \in Nat : \A x \in T : x <= n}
<1>1. PICK m \in above : \A n \in above : m <= n
  <2>1. above # {} /\ above \in SUBSET Nat
    OBVIOUS
  <2> HIDE DEF above
  <2> QED BY <2>1, LeastNatural
<1>2. m \in T
  <2>1. SUFFICES ASSUME m \notin T PROVE FALSE
    OBVIOUS
  <2>2. PICK x \in T : TRUE
    OBVIOUS
  <2>3. x <= m /\ x # m /\ x \in Nat /\ m \in Nat
    BY <1>1, <2>1
  <2>4. m - 1 \in Nat /\ \A y \in T : y <= m - 1
    BY <1>1, <2>1, <2>3
  <2> QED BY <1>1, <2>3, <2>4
<1>3. \A y \in T : m >= y
  BY <1>1
<1> QED BY <1>2, <1>3 DEF Max

\* Finitely many naturals have a bound.
LEMMA SequenceIsBounded ==
    ASSUME NEW n \in Nat, NEW f \in [1..n -> Nat]
    PROVE  \E b \in Nat : \A i \in 1..n : f[i] <= b
<1> DEFINE Bounded(k) == \E b \in Nat : \A i \in 1..k : f[i] <= b
<1> DEFINE Bad == {k \in 0..n : ~Bounded(k)}
<1>1. Bounded(0)
  <2>1. \A i \in 1..0 : f[i] <= 0
    OBVIOUS
  <2> QED BY <2>1
<1>2. \A k \in 0..(n - 1) : Bounded(k) => Bounded(k + 1)
  <2> SUFFICES ASSUME NEW k \in 0..(n - 1), Bounded(k)
               PROVE  Bounded(k + 1)
    OBVIOUS
  <2>1. PICK b \in Nat : \A i \in 1..k : f[i] <= b
    OBVIOUS
  <2> DEFINE c == IF f[k + 1] <= b THEN b ELSE f[k + 1]
  <2>2. k + 1 \in 1..n /\ f[k + 1] \in Nat /\ \A i \in 1..k : f[i] \in Nat
    OBVIOUS
  <2>3. c \in Nat
    BY <2>2
  <2>4. \A i \in 1..(k + 1) : f[i] <= c
    <3> SUFFICES ASSUME NEW i \in 1..(k + 1) PROVE f[i] <= c
      OBVIOUS
    <3>1. CASE i = k + 1
      BY <2>2, <3>1
    <3>2. CASE i # k + 1
      <4>1. i \in 1..k
        BY <3>2
      <4> QED BY <2>1, <2>2, <4>1
    <3> QED BY <3>1, <3>2
  <2> QED BY <2>3, <2>4
<1> HIDE DEF Bounded
<1>3. Bad = {}
  <2> SUFFICES ASSUME Bad # {} PROVE FALSE
    OBVIOUS
  <2>1. PICK k \in Bad : \A j \in Bad : k <= j
    <3>1. Bad \in SUBSET Nat
      OBVIOUS
    <3> HIDE DEF Bad
    <3> QED BY <3>1, LeastNatural
  <2>2. k \in 1..n
    BY <1>1
  <2>3. k - 1 \in 0..(n - 1) /\ k - 1 \in 0..n /\ (k - 1) + 1 = k /\ ~(k <= k - 1)
    BY <2>2
  <2>4. Bounded(k - 1)
    BY <2>1, <2>3
  <2> QED BY <1>2, <2>1, <2>3, <2>4
<1>4. Bounded(n)
  BY <1>3
<1> QED BY <1>4 DEF Bounded

\* A function on 1..n is a sequence of that length, and conversely.
LEMMA FunctionIsSequence ==
    ASSUME NEW S, NEW n \in Nat, NEW s \in [1..n -> S]
    PROVE  s \in Seq(S) /\ Len(s) = n /\ DOMAIN s = 1..n
<1>1. s \in Seq(S) /\ DOMAIN s = 1..n
  OBVIOUS
<1> QED BY <1>1, LenProperties

LEMMA SequenceIsFunction ==
    ASSUME NEW S, NEW s \in Seq(S)
    PROVE  s \in [1..Len(s) -> S] /\ Len(s) \in Nat /\ DOMAIN s = 1..Len(s)
BY LenProperties

-----------------------------------------------------------------------------
(* SatLiterals and clauses. *)

SatLiteral == Int \ {0}
Clauses == Seq(Seq(SatLiteral))

\* A literal is its variable with its sign.
LEMMA SatLiterals ==
    ASSUME NEW l \in SatLiteral
    PROVE  /\ var_of(l) \in Nat /\ value_of(l) \in {"true", "false"}
           /\ \A val : LitTrue(l, val) <=> (value_of(l) = "true" <=> var_of(l) \in val)
BY DEF SatLiteral, var_of, value_of, LitTrue

\* What a list of clauses is made of.
LEMMA ClauseParts ==
    ASSUME NEW cs \in Clauses, NEW i \in DOMAIN cs
    PROVE  /\ cs[i] \in Seq(SatLiteral) /\ i \in 1..Len(cs)
           /\ DOMAIN cs[i] = 1..Len(cs[i]) /\ Len(cs[i]) \in Nat
           /\ \A j \in DOMAIN cs[i] : cs[i][j] \in SatLiteral
<1>1. cs[i] \in Seq(SatLiteral) /\ i \in 1..Len(cs)
  BY DEF Clauses
<1> QED BY <1>1

\* There is a place in the solver for every variable of the clauses.
LEMMA EveryVariableHasAPlace ==
    ASSUME NEW cs \in Clauses
    PROVE  /\ NumVars(cs) \in Nat
           /\ \A i \in DOMAIN cs : \A j \in DOMAIN cs[i] : var_of(cs[i][j]) \in Nat /\ var_of(cs[i][j]) <= NumVars(cs)
<1> DEFINE BoundOf(i, b) == \A j \in DOMAIN cs[i] : var_of(cs[i][j]) <= b
<1> DEFINE f == [i \in 1..Len(cs) |-> CHOOSE b \in Nat : BoundOf(i, b)]
<1>1. \A i \in 1..Len(cs) : \E b \in Nat : BoundOf(i, b)
  <2> SUFFICES ASSUME NEW i \in 1..Len(cs) PROVE \E b \in Nat : BoundOf(i, b)
    OBVIOUS
  <2>1. i \in DOMAIN cs
    BY DEF Clauses
  <2> DEFINE g == [j \in 1..Len(cs[i]) |-> var_of(cs[i][j])]
  <2>2. g \in [1..Len(cs[i]) -> Nat] /\ Len(cs[i]) \in Nat
    BY <2>1, ClauseParts, SatLiterals
  <2>3. PICK b \in Nat : \A j \in 1..Len(cs[i]) : g[j] <= b
    <3> HIDE DEF g
    <3> QED BY <2>2, SequenceIsBounded
  <2>4. BoundOf(i, b)
    BY <2>1, <2>3, ClauseParts
  <2> QED BY <2>4
<1>2. f \in [1..Len(cs) -> Nat] /\ \A i \in 1..Len(cs) : BoundOf(i, f[i])
  <2> HIDE DEF BoundOf
  <2> QED BY <1>1
<1>3. PICK b \in Nat : \A i \in 1..Len(cs) : f[i] <= b
  <2>1. Len(cs) \in Nat
    BY DEF Clauses
  <2> HIDE DEF f
  <2> QED BY <1>2, <2>1, SequenceIsBounded
<1> DEFINE T == {0} \union UNION {{var_of(cs[i][j]) : j \in DOMAIN cs[i]} : i \in DOMAIN cs}
<1>4. \A i \in DOMAIN cs : \A j \in DOMAIN cs[i] : var_of(cs[i][j]) \in Nat /\ var_of(cs[i][j]) <= b
  <2> SUFFICES ASSUME NEW i \in DOMAIN cs, NEW j \in DOMAIN cs[i]
               PROVE  var_of(cs[i][j]) \in Nat /\ var_of(cs[i][j]) <= b
    OBVIOUS
  <2>1. i \in 1..Len(cs) /\ var_of(cs[i][j]) \in Nat
    BY ClauseParts, SatLiterals
  <2>2. var_of(cs[i][j]) <= f[i] /\ f[i] \in Nat /\ f[i] <= b
    BY <1>2, <1>3, <2>1
  <2> HIDE DEF f
  <2> QED BY <2>1, <2>2
<1>5. T \in SUBSET Nat /\ T # {} /\ \A x \in T : x <= b
  BY <1>4
<1>6. Max(T) \in T /\ \A y \in T : Max(T) >= y
  <2> HIDE DEF T
  <2> QED BY <1>5, MaxOfBounded
<1>7. NumVars(cs) = Max(T)
  BY DEF NumVars
<1>8. \A i \in DOMAIN cs : \A j \in DOMAIN cs[i] : var_of(cs[i][j]) \in T
  OBVIOUS
<1> HIDE DEF T
<1> QED BY <1>4, <1>5, <1>6, <1>7, <1>8

\* The same clauses are true under the same values.
LEMMA SameClausesTrue ==
    ASSUME NEW cs, NEW ds, SameClauses(cs, ds), NEW val
    PROVE  ClausesTrue(cs, val) <=> ClausesTrue(ds, val)
<1>1. \A i \in DOMAIN cs : \E k \in DOMAIN ds : ds[k] = cs[i]
  BY DEF SameClauses
<1>2. \A i \in DOMAIN ds : \E k \in DOMAIN cs : cs[k] = ds[i]
  BY DEF SameClauses
<1> QED BY <1>1, <1>2 DEF ClausesTrue

\* Learning a clause that is held changes nothing but copies.
LEMMA LearnKeeps ==
    ASSUME NEW cs \in Clauses, NEW c, \E i \in DOMAIN cs : cs[i] = c
    PROVE  Learn(cs, c) \in Clauses /\ SameClauses(Learn(cs, c), cs)
<1> DEFINE copies == {i \in DOMAIN cs : cs[i] = c}
<1> DEFINE last == Max(copies)
<1> DEFINE rest == [i \in 1..(Len(cs) - 1) |-> IF i < last THEN cs[i] ELSE cs[i + 1]]
<1> DEFINE many == \E i, k \in copies : i # k
<1>0. Len(cs) \in Nat /\ DOMAIN cs = 1..Len(cs) /\ c \in Seq(SatLiteral)
  BY ClauseParts DEF Clauses
<1>1. copies \in SUBSET Nat /\ copies # {} /\ \A x \in copies : x <= Len(cs)
  BY <1>0
<1>2. last \in copies
  <2> HIDE DEF copies
  <2> QED BY <1>0, <1>1, MaxOfBounded
<1>3. last \in 1..Len(cs) /\ cs[last] = c
  BY <1>0, <1>2
<1> HIDE DEF last
<1>4. rest \in Clauses /\ Len(rest) = Len(cs) - 1 /\ DOMAIN rest = 1..(Len(cs) - 1)
  <2>1. Len(cs) - 1 \in Nat
    BY <1>0, <1>3
  <2>2. \A i \in 1..(Len(cs) - 1) : i \in 1..Len(cs) /\ i + 1 \in 1..Len(cs)
    BY <1>0
  <2>3. \A i \in 1..Len(cs) : cs[i] \in Seq(SatLiteral)
    BY <1>0, ClauseParts
  <2>4. rest \in [1..(Len(cs) - 1) -> Seq(SatLiteral)]
    BY <2>2, <2>3
  <2> DEFINE n == Len(cs) - 1
  <2> HIDE DEF rest, n
  <2>5. n \in Nat /\ rest \in [1..n -> Seq(SatLiteral)]
    BY <2>1, <2>4 DEF n
  <2>6. rest \in Seq(Seq(SatLiteral)) /\ DOMAIN rest = 1..n
    BY <2>5
  <2>7. Len(rest) = n
    BY <2>5, <2>6, LenProperties
  <2> QED BY <2>6, <2>7 DEF Clauses, n
<1>5. \A i \in DOMAIN rest : \E k \in DOMAIN cs : cs[k] = rest[i]
  <2> SUFFICES ASSUME NEW i \in 1..(Len(cs) - 1) PROVE \E k \in DOMAIN cs : cs[k] = rest[i]
    OBVIOUS
  <2>1. i \in DOMAIN cs /\ i + 1 \in DOMAIN cs
    BY <1>0
  <2>2. rest[i] = cs[i] \/ rest[i] = cs[i + 1]
    OBVIOUS
  <2> QED BY <2>1, <2>2
<1>6. \A k \in DOMAIN cs : cs[k] = c \/ \E i \in DOMAIN rest : rest[i] = cs[k]
  <2> SUFFICES ASSUME NEW k \in 1..Len(cs), cs[k] # c PROVE \E i \in DOMAIN rest : rest[i] = cs[k]
    BY <1>0
  <2>1. k # last
    BY <1>3
  <2>2. CASE k < last
    <3>1. k \in 1..(Len(cs) - 1)
      BY <1>0, <1>3, <2>2
    <3> QED BY <2>2, <3>1
  <2>3. CASE k > last
    <3>1. k - 1 \in 1..(Len(cs) - 1) /\ ~(k - 1 < last) /\ (k - 1) + 1 = k
      BY <1>0, <1>3, <2>3
    <3>2. rest[k - 1] = cs[k]
      BY <3>1
    <3> QED BY <3>1, <3>2
  <2> QED BY <1>3, <2>1, <2>2, <2>3
<1> DEFINE base == IF many THEN rest ELSE cs
<1> HIDE DEF rest, copies
<1>7. base \in Clauses /\ DOMAIN base = 1..Len(base) /\ Len(base) \in Nat
  BY <1>4 DEF Clauses
<1>8. \A i \in DOMAIN base : \E k \in DOMAIN cs : cs[k] = base[i]
  BY <1>5
<1>9. \A k \in DOMAIN cs : cs[k] = c \/ \E i \in DOMAIN base : base[i] = cs[k]
  BY <1>6
<1>10. Learn(cs, c) = Append(base, c)
  BY DEF Learn, copies, rest, last
<1> HIDE DEF base
<1>11. Append(base, c) \in Clauses
  BY <1>0, <1>7 DEF Clauses
<1>12. /\ DOMAIN Append(base, c) = 1..(Len(base) + 1)
       /\ \A i \in 1..Len(base) : Append(base, c)[i] = base[i]
       /\ Append(base, c)[Len(base) + 1] = c
  BY <1>0, <1>7 DEF Clauses
<1>13. \A i \in DOMAIN Append(base, c) : \E k \in DOMAIN cs : cs[k] = Append(base, c)[i]
  <2> SUFFICES ASSUME NEW i \in 1..(Len(base) + 1) PROVE \E k \in DOMAIN cs : cs[k] = Append(base, c)[i]
    BY <1>12
  <2>1. CASE i \in 1..Len(base)
    BY <1>7, <1>8, <1>12, <2>1
  <2>2. CASE i = Len(base) + 1
    BY <1>12, <2>2
  <2> QED BY <1>7, <2>1, <2>2
<1>14. \A k \in DOMAIN cs : \E i \in DOMAIN Append(base, c) : Append(base, c)[i] = cs[k]
  <2> SUFFICES ASSUME NEW k \in DOMAIN cs PROVE \E i \in DOMAIN Append(base, c) : Append(base, c)[i] = cs[k]
    OBVIOUS
  <2>1. CASE cs[k] = c
    <3>1. Len(base) + 1 \in 1..(Len(base) + 1)
      BY <1>7
    <3> QED BY <1>12, <2>1, <3>1
  <2>2. CASE cs[k] # c
    <3>1. PICK i \in DOMAIN base : base[i] = cs[k]
      BY <1>9, <2>2
    <3>2. i \in 1..(Len(base) + 1) /\ i \in 1..Len(base)
      BY <1>7, <3>1
    <3> QED BY <1>12, <3>1, <3>2
  <2> QED BY <2>1, <2>2
<1>15. SameClauses(Append(base, c), cs)
  BY <1>13, <1>14 DEF SameClauses
<1> QED BY <1>10, <1>11, <1>15

-----------------------------------------------------------------------------
(* Clauses under the assignments. *)

\* Every literal of a clause that is held has a place and one of three values.
LEMMA HeldParts ==
    ASSUME SatTypeOK, SameClauses(clauses_held, clauses_given), NEW i \in DOMAIN clauses_held
    PROVE  /\ \E k \in DOMAIN clauses_given : clauses_given[k] = clauses_held[i]
           /\ \A j \in DOMAIN clauses_held[i] :
                /\ clauses_held[i][j] \in SatLiteral /\ var_of(clauses_held[i][j]) \in DOMAIN assignments
                /\ assignments[var_of(clauses_held[i][j])] \in {"none", "true", "false"}
<1>1. PICK k \in DOMAIN clauses_given : clauses_given[k] = clauses_held[i]
  BY DEF SameClauses
<1>2. \A v \in DOMAIN assignments : assignments[v] \in {"none", "true", "false"}
  BY DEF SatTypeOK
<1>3. clauses_held \in Clauses
  BY DEF SatTypeOK, Clauses, SatLiteral
<1>4. \A j \in DOMAIN clauses_held[i] : clauses_held[i][j] \in SatLiteral
  BY <1>3, ClauseParts
<1>5. \A j \in DOMAIN clauses_held[i] : var_of(clauses_held[i][j]) \in DOMAIN assignments
  BY <1>1 DEF SatTypeOK
<1> QED BY <1>1, <1>2, <1>4, <1>5

\* What level 0 says of a variable that has a value.
LEMMA Level0Says ==
    ASSUME SatTypeOK, Level0Follows, decision_level = 0,
           NEW val \in SUBSET DOMAIN assignments, ClausesTrue(clauses_given, val),
           NEW l \in SatLiteral, var_of(l) \in DOMAIN assignments,
           assignments[var_of(l)] # "none", assignments[var_of(l)] # value_of(l)
    PROVE  ~LitTrue(l, val)
<1>1. levels[var_of(l)] = 0
  <2>1. DOMAIN assignments = DOMAIN levels /\ \A v \in DOMAIN levels : levels[v] \in 0..0
    BY DEF SatTypeOK
  <2> QED BY <2>1
<1>2. assignments[var_of(l)] = "true" <=> var_of(l) \in val
  BY <1>1 DEF Level0Follows
<1>3. assignments[var_of(l)] \in {"true", "false"} /\ value_of(l) \in {"true", "false"}
  BY SatLiterals DEF SatTypeOK
<1>4. LitTrue(l, val) <=> (value_of(l) = "true" <=> var_of(l) \in val)
  BY SatLiterals
<1> QED BY <1>2, <1>3, <1>4

\* The literal that a unit clause leaves, and the others.
LEMMA PendingFacts ==
    ASSUME NEW i \in DOMAIN Pending
    PROVE  /\ i \in DOMAIN clauses_held
           /\ \E j \in DOMAIN clauses_held[i] :
                /\ Pending[i] = clauses_held[i][j]
                /\ assignments[var_of(Pending[i])] = "none"
                /\ \A k \in DOMAIN clauses_held[i] \ {j} :
                     /\ assignments[var_of(clauses_held[i][k])] # "none"
                     /\ assignments[var_of(clauses_held[i][k])] # value_of(clauses_held[i][k])
<1>1. i \in DOMAIN clauses_held /\ IsUnit(clauses_held[i])
  BY DEF Pending
<1> DEFINE c == clauses_held[i]
<1> DEFINE j == CHOOSE j \in Unassigned(c) : TRUE
<1>2. j \in DOMAIN c /\ Unassigned(c) = {j}
  <2>1. PICK k \in Unassigned(c) : Unassigned(c) = {k}
    BY <1>1 DEF IsUnit
  <2>2. j \in Unassigned(c)
    BY <2>1
  <2> HIDE DEF j
  <2> QED BY <2>1, <2>2 DEF Unassigned
<1>3. Pending[i] = c[j]
  BY <1>1 DEF Pending
<1> HIDE DEF j
<1>4. assignments[var_of(c[j])] = "none" /\ \A k \in DOMAIN c \ {j} : assignments[var_of(c[k])] # "none"
  BY <1>2 DEF Unassigned
<1>5. \A k \in DOMAIN c : assignments[var_of(c[k])] # value_of(c[k])
  BY <1>1 DEF IsUnit, Satisfied
<1> QED BY <1>1, <1>2, <1>3, <1>4, <1>5

\* At level 0 the literal that is left is true wherever the clauses are.
LEMMA UnitsFollow ==
    ASSUME SatTypeOK, SameClauses(clauses_held, clauses_given), Level0Follows, decision_level = 0,
           NEW i \in DOMAIN Pending, NEW val \in SUBSET DOMAIN assignments, ClausesTrue(clauses_given, val)
    PROVE  LitTrue(Pending[i], val)
<1>1. i \in DOMAIN clauses_held
  BY PendingFacts
<1>2. PICK j \in DOMAIN clauses_held[i] :
        /\ Pending[i] = clauses_held[i][j]
        /\ \A k \in DOMAIN clauses_held[i] \ {j} :
             /\ assignments[var_of(clauses_held[i][k])] # "none"
             /\ assignments[var_of(clauses_held[i][k])] # value_of(clauses_held[i][k])
  BY PendingFacts
<1>3. PICK k \in DOMAIN clauses_held[i] : LitTrue(clauses_held[i][k], val)
  BY <1>1, HeldParts DEF ClausesTrue
<1>4. CASE k = j
  BY <1>2, <1>3, <1>4
<1>5. CASE k # j
  <2>1. ~LitTrue(clauses_held[i][k], val)
    BY <1>1, <1>2, <1>5, HeldParts, Level0Says
  <2> QED BY <1>3, <2>1
<1> QED BY <1>4, <1>5

\* The last unit clause for a variable that has one.
LEMMA LastForFacts ==
    ASSUME SatTypeOK, NEW i \in DOMAIN Pending
    PROVE  LET k == LastFor(Pending, var_of(Pending[i]))
           IN k \in DOMAIN Pending /\ var_of(Pending[k]) = var_of(Pending[i]) /\ Pending[k] \in SatLiteral
<1> DEFINE v == var_of(Pending[i])
<1> DEFINE T == {k \in DOMAIN Pending : var_of(Pending[k]) = v}
<1>1. T \in SUBSET Nat /\ i \in T /\ Len(clauses_held) \in Nat /\ \A k \in T : k <= Len(clauses_held)
  <2>1. DOMAIN clauses_held = 1..Len(clauses_held) /\ Len(clauses_held) \in Nat
    BY DEF SatTypeOK
  <2>2. DOMAIN Pending \in SUBSET (1..Len(clauses_held))
    BY <2>1 DEF Pending
  <2>3. T \in SUBSET DOMAIN Pending /\ i \in T
    OBVIOUS
  <2> HIDE DEF T
  <2> QED BY <2>1, <2>2, <2>3
<1>2. Max(T) \in T
  <2> HIDE DEF T
  <2> QED BY <1>1, MaxOfBounded
<1>3. LastFor(Pending, v) = Max(T)
  BY DEF LastFor
<1>4. \A k \in DOMAIN Pending : Pending[k] \in SatLiteral
  <2> SUFFICES ASSUME NEW k \in DOMAIN Pending PROVE Pending[k] \in SatLiteral
    OBVIOUS
  <2>1. k \in DOMAIN clauses_held /\ \E j \in DOMAIN clauses_held[k] : Pending[k] = clauses_held[k][j]
    BY PendingFacts
  <2>2. clauses_held \in Clauses
    BY DEF SatTypeOK, Clauses, SatLiteral
  <2> QED BY <2>1, <2>2, ClauseParts
<1> QED BY <1>2, <1>3, <1>4

\* Of the levels of the conflict, the one gone back to.
LEMMA BacktrackLevel ==
    ASSUME SatTypeOK, SameClauses(clauses_held, clauses_given), \E i \in DOMAIN clauses_held : clauses_held[i] = conflict
    PROVE  compute_backtrack_level \in Nat
<1> DEFINE ls == {levels[var_of(conflict[j])] : j \in DOMAIN conflict} \ {0}
<1> DEFINE below == {k \in ls : \E m \in ls : m > k}
<1>1. \A j \in DOMAIN conflict : levels[var_of(conflict[j])] \in 0..decision_level
  <2>1. \A j \in DOMAIN conflict : var_of(conflict[j]) \in DOMAIN assignments
    BY HeldParts
  <2>2. DOMAIN assignments = DOMAIN levels /\ \A v \in DOMAIN levels : levels[v] \in 0..decision_level
    BY DEF SatTypeOK
  <2> QED BY <2>1, <2>2
<1>2. ls \in SUBSET (0..decision_level)
  BY <1>1
<1>3. below \in SUBSET Nat /\ decision_level \in Nat /\ \A x \in below : x <= decision_level
  <2>1. decision_level \in Nat
    BY DEF SatTypeOK
  <2>2. below \in SUBSET (0..decision_level)
    BY <1>2
  <2> HIDE DEF below
  <2> QED BY <2>1, <2>2
<1>4. compute_backtrack_level = IF below = {} THEN 0 ELSE Max(below)
  BY DEF compute_backtrack_level
<1> HIDE DEF below
<1>5. below # {} => Max(below) \in below
  BY <1>3, MaxOfBounded
<1> QED BY <1>3, <1>4, <1>5

-----------------------------------------------------------------------------
(* The invariant holds at first and is kept by every step. *)

LEMMA InitInv == SatInit => SatInv
<1> SUFFICES ASSUME SatInit PROVE SatInv
  OBVIOUS
<1>1. SatTypeOK
  BY DEF SatInit, SatTypeOK
<1>2. SameClauses(clauses_held, clauses_given)
  BY DEF SatInit, SameClauses
<1>3. Level0Follows
  BY DEF SatInit, Level0Follows
<1> QED BY <1>1, <1>2, <1>3 DEF SatInit, SatInv, ConflictIsFalse, AnswersAreRight

LEMMA SolveClausesInv ==
    ASSUME SatInv, NEW cs \in Seq(Seq(Int \ {0})), solve_clauses(cs)
    PROVE  SatInv'
<1> DEFINE n == NumVars(cs)
<1>0. cs \in Clauses
  BY DEF Clauses, SatLiteral
<1>1. n \in Nat /\ \A i \in DOMAIN cs : \A j \in DOMAIN cs[i] : var_of(cs[i][j]) \in Nat /\ var_of(cs[i][j]) <= n
  BY <1>0, EveryVariableHasAPlace
<1>2. \A i \in DOMAIN cs : \A j \in DOMAIN cs[i] : var_of(cs[i][j]) \in 1..n
  <2> SUFFICES ASSUME NEW i \in DOMAIN cs, NEW j \in DOMAIN cs[i] PROVE var_of(cs[i][j]) \in 1..n
    OBVIOUS
  <2>1. cs[i][j] \in SatLiteral
    BY <1>0, ClauseParts
  <2>2. var_of(cs[i][j]) # 0
    BY <2>1 DEF SatLiteral, var_of
  <2> HIDE DEF n
  <2> QED BY <1>1, <2>2
<1>3. /\ assignments' = [v \in 1..n |-> "none"] /\ levels' = [v \in 1..n |-> 0]
      /\ clauses_given' = cs /\ clauses_held' = cs /\ sat' = "propagate" /\ decision_level' = 0 /\ decision_level = 0
  BY DEF solve_clauses, SatInv
<1> HIDE DEF n
<1>4. SatTypeOK'
  <2>1. assignments' \in [1..n -> {"none", "true", "false"}] /\ levels' \in [1..n -> 0..0]
    BY <1>3
  <2>2. /\ assignments' \in Seq({"none", "true", "false"}) /\ levels' \in Seq(0..0)
        /\ Len(assignments') = n /\ Len(levels') = n /\ DOMAIN assignments' = 1..n
    BY <1>1, <2>1, LenProperties
  <2> QED BY <1>0, <1>2, <1>3, <2>2 DEF SatTypeOK, Clauses, SatLiteral
<1>5. SameClauses(clauses_held, clauses_given)'
  BY <1>3 DEF SameClauses
<1>6. Level0Follows'
  BY <1>3 DEF Level0Follows
<1> QED BY <1>3, <1>4, <1>5, <1>6 DEF SatInv, ConflictIsFalse, AnswersAreRight

LEMMA FindConflictInv ==
    ASSUME SatInv, unit_propagate, find_conflict
    PROVE  SatInv'
<1>0. UNCHANGED <<clauses_given, clauses_held, assignments, levels, decision_level>>
  BY DEF unit_propagate, find_conflict
<1>1. SatTypeOK' /\ sat' = "conflict"
  BY <1>0 DEF SatInv, SatTypeOK, find_conflict
<1>2. SameClauses(clauses_held, clauses_given)'
  BY <1>0 DEF SatInv, SameClauses
<1>3. Level0Follows'
  BY <1>0 DEF SatInv, Level0Follows, ClausesTrue, LitTrue
<1>4. ConflictIsFalse'
  BY <1>0 DEF find_conflict, ConflictIsFalse, IsFalse, Satisfied, Unassigned
<1> QED BY <1>1, <1>2, <1>3, <1>4 DEF SatInv, AnswersAreRight

LEMMA AssignUnitsInv ==
    ASSUME SatInv, unit_propagate, assign_units
    PROVE  SatInv'
<1> DEFINE assigned == {var_of(Pending[i]) : i \in DOMAIN Pending}
<1>0. /\ UNCHANGED <<clauses_given, clauses_held, decision_level, sat>> /\ sat = "propagate"
      /\ assignments' = [v \in DOMAIN assignments |->
                           IF v \in assigned THEN value_of(Pending[LastFor(Pending, v)]) ELSE assignments[v]]
      /\ levels' = [v \in DOMAIN levels |-> IF v \in assigned THEN decision_level ELSE levels[v]]
  BY DEF unit_propagate, assign_units
<1>t. SatTypeOK /\ SameClauses(clauses_held, clauses_given) /\ Level0Follows
  BY DEF SatInv
<1>1. \A v \in assigned : \E i \in DOMAIN Pending : LastFor(Pending, v) = i /\ var_of(Pending[i]) = v /\ Pending[i] \in SatLiteral
  <2> SUFFICES ASSUME NEW k \in DOMAIN Pending
               PROVE  \E i \in DOMAIN Pending : /\ LastFor(Pending, var_of(Pending[k])) = i
                                               /\ var_of(Pending[i]) = var_of(Pending[k]) /\ Pending[i] \in SatLiteral
    OBVIOUS
  <2> QED BY <1>t, LastForFacts
<1> HIDE DEF assigned
<1>2. SatTypeOK'
  <2> DEFINE n == Len(assignments)
  <2>1. /\ n \in Nat /\ DOMAIN assignments = 1..n /\ DOMAIN levels = 1..n /\ decision_level \in Nat
        /\ \A v \in 1..n : assignments[v] \in {"none", "true", "false"} /\ levels[v] \in 0..decision_level
    BY <1>t DEF SatTypeOK
  <2>2. \A v \in assigned : value_of(Pending[LastFor(Pending, v)]) \in {"none", "true", "false"}
    BY <1>1, SatLiterals
  <2> HIDE DEF n
  <2>3. assignments' \in [1..n -> {"none", "true", "false"}] /\ levels' \in [1..n -> 0..decision_level]
    BY <1>0, <2>1, <2>2
  <2>4. /\ assignments' \in Seq({"none", "true", "false"}) /\ levels' \in Seq(0..decision_level)
        /\ Len(assignments') = n /\ Len(levels') = n /\ DOMAIN assignments' = DOMAIN assignments
    BY <2>1, <2>3, FunctionIsSequence
  <2> QED BY <1>0, <1>t, <2>4 DEF SatTypeOK
<1>3. SameClauses(clauses_held, clauses_given)'
  BY <1>0, <1>t DEF SameClauses
<1>4. Level0Follows'
  <2> SUFFICES ASSUME NEW val \in SUBSET DOMAIN assignments, ClausesTrue(clauses_given, val),
                      NEW v \in DOMAIN assignments, assignments'[v] # "none", levels'[v] = 0
               PROVE  assignments'[v] = "true" <=> v \in val
    <3>1. DOMAIN assignments' = DOMAIN assignments
      BY <1>0
    <3>2. \A val : ClausesTrue(clauses_given, val)' <=> ClausesTrue(clauses_given, val)
      BY <1>0 DEF ClausesTrue, LitTrue
    <3> QED BY <1>0, <3>1, <3>2 DEF Level0Follows, ClausesTrue, LitTrue
  <2>0. v \in DOMAIN levels
    BY <1>t DEF SatTypeOK
  <2>1. CASE v \notin assigned
    <3>1. assignments'[v] = assignments[v] /\ levels'[v] = levels[v]
      BY <1>0, <2>0, <2>1
    <3> QED BY <1>t, <3>1 DEF Level0Follows
  <2>2. CASE v \in assigned
    <3>1. PICK i \in DOMAIN Pending : LastFor(Pending, v) = i /\ var_of(Pending[i]) = v /\ Pending[i] \in SatLiteral
      BY <1>1, <2>2
    <3>2. decision_level = 0 /\ assignments'[v] = value_of(Pending[i])
      BY <1>0, <2>0, <2>2, <3>1
    <3>3. LitTrue(Pending[i], val)
      BY <1>t, <3>2, UnitsFollow
    <3> QED BY <3>1, <3>2, <3>3, SatLiterals
  <2> QED BY <2>1, <2>2
<1> QED BY <1>0, <1>2, <1>3, <1>4 DEF SatInv, ConflictIsFalse, AnswersAreRight

LEMMA EndOfPropagationInv ==
    ASSUME SatInv, unit_propagate, end_of_propagation
    PROVE  SatInv'
<1>0. /\ UNCHANGED <<clauses_given, clauses_held, assignments, levels, decision_level, conflict>>
      /\ sat' = IF all_assigned THEN "satisfiable" ELSE "decide"
      /\ \A i \in DOMAIN clauses_held : ~IsFalse(clauses_held[i])
  BY DEF unit_propagate, end_of_propagation
<1>t. SatTypeOK /\ SameClauses(clauses_held, clauses_given) /\ Level0Follows
  BY DEF SatInv
<1>1. SatTypeOK'
  BY <1>0, <1>t DEF SatTypeOK
<1>2. SameClauses(clauses_held, clauses_given)'
  BY <1>0, <1>t DEF SameClauses
<1>3. Level0Follows'
  BY <1>0, <1>t DEF Level0Follows, ClausesTrue, LitTrue
<1>4. all_assigned => ClausesTrue(clauses_held, SolverModel)
  <2> SUFFICES ASSUME all_assigned, NEW i \in DOMAIN clauses_held
               PROVE  \E j \in DOMAIN clauses_held[i] : LitTrue(clauses_held[i][j], SolverModel)
    BY DEF ClausesTrue
  <2>1. \A j \in DOMAIN clauses_held[i] :
          /\ clauses_held[i][j] \in SatLiteral /\ var_of(clauses_held[i][j]) \in DOMAIN assignments
          /\ assignments[var_of(clauses_held[i][j])] \in {"true", "false"}
    BY <1>t, HeldParts DEF all_assigned
  <2>2. Unassigned(clauses_held[i]) = {}
    BY <2>1 DEF Unassigned
  <2>3. PICK j \in DOMAIN clauses_held[i] : assignments[var_of(clauses_held[i][j])] = value_of(clauses_held[i][j])
    BY <1>0, <2>2 DEF IsFalse, Satisfied
  <2>4. value_of(clauses_held[i][j]) = "true" <=> var_of(clauses_held[i][j]) \in SolverModel
    BY <2>1, <2>3 DEF SolverModel
  <2> QED BY <2>1, <2>4, SatLiterals
<1>5. all_assigned => ClausesTrue(clauses_given, SolverModel)
  BY <1>4, <1>t, SameClausesTrue
<1>6. AnswersAreRight'
  <2>1. SolverModel' = SolverModel
    BY <1>0 DEF SolverModel
  <2>2. ClausesTrue(clauses_given, SolverModel)' <=> ClausesTrue(clauses_given, SolverModel)
    BY <1>0, <2>1 DEF ClausesTrue, LitTrue
  <2> QED BY <1>0, <1>5, <2>2 DEF AnswersAreRight
<1> QED BY <1>0, <1>1, <1>2, <1>3, <1>6 DEF SatInv, ConflictIsFalse

LEMMA DecideInv ==
    ASSUME SatInv, decide
    PROVE  SatInv'
<1>t. SatTypeOK /\ SameClauses(clauses_held, clauses_given) /\ Level0Follows
  BY DEF SatInv
<1>0. /\ UNCHANGED <<clauses_given, clauses_held>> /\ sat' = "propagate" /\ decision_level' = decision_level + 1
      /\ decision_level \in Nat
  BY <1>t DEF decide, decide_as, SatTypeOK
<1>1. PICK v \in DOMAIN assignments :
        assignments' = [assignments EXCEPT ![v] = "true"] /\ levels' = [levels EXCEPT ![v] = decision_level + 1]
  BY DEF decide, decide_as
<1>2. SatTypeOK'
  <2> DEFINE n == Len(assignments)
  <2>1. /\ n \in Nat /\ DOMAIN assignments = 1..n /\ DOMAIN levels = 1..n
        /\ assignments \in [1..n -> {"none", "true", "false"}] /\ levels \in [1..n -> 0..decision_level]
    BY <1>t, SequenceIsFunction DEF SatTypeOK
  <2> HIDE DEF n
  <2>2. \A k \in 0..decision_level : k \in 0..(decision_level + 1)
    BY <1>0
  <2>3. assignments' \in [1..n -> {"none", "true", "false"}] /\ levels' \in [1..n -> 0..(decision_level + 1)]
    <3>1. v \in 1..n /\ decision_level + 1 \in 0..(decision_level + 1)
      BY <1>0, <2>1
    <3> QED BY <1>1, <2>1, <2>2, <3>1
  <2>4. /\ assignments' \in Seq({"none", "true", "false"}) /\ levels' \in Seq(0..(decision_level + 1))
        /\ Len(assignments') = n /\ Len(levels') = n /\ DOMAIN assignments' = DOMAIN assignments
    BY <2>1, <2>3, FunctionIsSequence, ZenonT(30)
  <2>5. decision_level + 1 \in Nat
    BY <1>0
  <2> QED BY <1>0, <1>t, <2>4, <2>5 DEF SatTypeOK
<1>3. SameClauses(clauses_held, clauses_given)'
  BY <1>0, <1>t DEF SameClauses
<1>4. Level0Follows'
  <2>1. DOMAIN assignments' = DOMAIN assignments
    BY <1>1
  <2>2. \A val : ClausesTrue(clauses_given, val)' <=> ClausesTrue(clauses_given, val)
    BY <1>0 DEF ClausesTrue, LitTrue
  <2>3. \A w \in DOMAIN assignments : levels'[w] = 0 => assignments'[w] = assignments[w] /\ levels[w] = 0
    <3>1. DOMAIN levels = DOMAIN assignments /\ decision_level + 1 # 0
      BY <1>0, <1>t DEF SatTypeOK
    <3> QED BY <1>1, <3>1
  <2> QED BY <1>0, <1>t, <2>1, <2>2, <2>3 DEF Level0Follows, ClausesTrue, LitTrue
<1> QED BY <1>0, <1>2, <1>3, <1>4 DEF SatInv, ConflictIsFalse, AnswersAreRight

LEMMA LearnAndBacktrackInv ==
    ASSUME SatInv, learn_and_backtrack
    PROVE  SatInv'
<1> DEFINE b == compute_backtrack_level
<1> DEFINE gone == {v \in DOMAIN levels : levels[v] > b}
<1>t. SatTypeOK /\ SameClauses(clauses_held, clauses_given) /\ Level0Follows
  BY DEF SatInv
<1>c. sat = "conflict" /\ \E i \in DOMAIN clauses_held : clauses_held[i] = conflict
  BY DEF SatInv, ConflictIsFalse, learn_and_backtrack
<1>b. b \in Nat
  BY <1>t, <1>c, BacktrackLevel
<1>0. /\ clauses_given' = clauses_given /\ clauses_held' = Learn(clauses_held, conflict)
      /\ decision_level' = b /\ sat' = "propagate"
      /\ assignments' = [v \in DOMAIN assignments |-> IF v \in gone THEN "none" ELSE assignments[v]]
      /\ levels' = [v \in DOMAIN levels |-> IF v \in gone THEN 0 ELSE levels[v]]
  BY DEF learn_and_backtrack
<1> HIDE DEF b
<1>1. clauses_held' \in Clauses /\ SameClauses(clauses_held', clauses_held)
  <2>1. clauses_held \in Clauses
    BY <1>t DEF SatTypeOK, Clauses, SatLiteral
  <2> QED BY <1>0, <1>c, <2>1, LearnKeeps
<1>2. SatTypeOK'
  <2> DEFINE n == Len(assignments)
  <2>1. /\ n \in Nat /\ DOMAIN assignments = 1..n /\ DOMAIN levels = 1..n
        /\ assignments \in [1..n -> {"none", "true", "false"}] /\ levels \in [1..n -> 0..decision_level]
    BY <1>t, SequenceIsFunction DEF SatTypeOK
  <2> HIDE DEF n
  <2>2. \A v \in 1..n : levels[v] \in Int /\ 0 <= levels[v] /\ (v \notin gone => levels[v] \in 0..b)
    BY <1>b, <2>1
  <2> HIDE DEF gone
  <2>3. assignments' \in [1..n -> {"none", "true", "false"}] /\ levels' \in [1..n -> 0..b]
    BY <1>0, <1>b, <2>1, <2>2
  <2>4. /\ assignments' \in Seq({"none", "true", "false"}) /\ levels' \in Seq(0..b)
        /\ Len(assignments') = n /\ Len(levels') = n /\ DOMAIN assignments' = DOMAIN assignments
    BY <2>1, <2>3, FunctionIsSequence
  <2> QED BY <1>0, <1>1, <1>b, <1>t, <2>4 DEF SatTypeOK, Clauses, SatLiteral
<1>3. SameClauses(clauses_held, clauses_given)'
  BY <1>0, <1>1, <1>t DEF SameClauses
<1>4. Level0Follows'
  <2>1. DOMAIN assignments' = DOMAIN assignments
    BY <1>0
  <2>2. \A val : ClausesTrue(clauses_given, val)' <=> ClausesTrue(clauses_given, val)
    BY <1>0 DEF ClausesTrue, LitTrue
  <2>3. \A v \in DOMAIN assignments :
          assignments'[v] # "none" /\ levels'[v] = 0 => assignments'[v] = assignments[v] /\ levels[v] = 0
    <3>1. DOMAIN levels = DOMAIN assignments
      BY <1>t DEF SatTypeOK
    <3> HIDE DEF gone
    <3> QED BY <1>0, <3>1
  <2> QED BY <1>0, <1>t, <2>1, <2>2, <2>3 DEF Level0Follows, ClausesTrue, LitTrue
<1> QED BY <1>0, <1>2, <1>3, <1>4 DEF SatInv, ConflictIsFalse, AnswersAreRight

LEMMA RefutedInv ==
    ASSUME SatInv, refuted
    PROVE  SatInv'
<1>0. /\ UNCHANGED <<clauses_given, clauses_held, assignments, levels, decision_level, conflict>>
      /\ sat = "conflict" /\ sat' = "unsatisfiable" /\ decision_level = 0
  BY DEF refuted
<1>t. SatTypeOK /\ SameClauses(clauses_held, clauses_given) /\ Level0Follows
  BY DEF SatInv
<1>1. SatTypeOK'
  BY <1>0, <1>t DEF SatTypeOK
<1>2. SameClauses(clauses_held, clauses_given)'
  BY <1>0, <1>t DEF SameClauses
<1>3. Level0Follows'
  BY <1>0, <1>t DEF Level0Follows, ClausesTrue, LitTrue
<1>4. PICK i \in DOMAIN clauses_held : clauses_held[i] = conflict /\ IsFalse(conflict)
  BY <1>0 DEF SatInv, ConflictIsFalse
<1>5. ConflictIsFalse'
  BY <1>0, <1>4 DEF ConflictIsFalse, IsFalse, Satisfied, Unassigned
<1>6. \A val \in SUBSET DOMAIN assignments : ~ClausesTrue(clauses_given, val)
  <2> SUFFICES ASSUME NEW val \in SUBSET DOMAIN assignments, ClausesTrue(clauses_given, val) PROVE FALSE
    OBVIOUS
  <2>1. PICK j \in DOMAIN clauses_held[i] : LitTrue(clauses_held[i][j], val)
    BY <1>t, HeldParts DEF ClausesTrue
  <2>2. /\ assignments[var_of(clauses_held[i][j])] # "none"
        /\ assignments[var_of(clauses_held[i][j])] # value_of(clauses_held[i][j])
    BY <1>4 DEF IsFalse, Satisfied, Unassigned
  <2>3. ~LitTrue(clauses_held[i][j], val)
    BY <1>0, <1>t, <2>2, HeldParts, Level0Says
  <2> QED BY <2>1, <2>3
<1>7. AnswersAreRight'
  BY <1>0, <1>6 DEF AnswersAreRight, ClausesTrue, LitTrue
<1> QED BY <1>0, <1>1, <1>2, <1>3, <1>5, <1>7 DEF SatInv

LEMMA StutterInv ==
    ASSUME SatInv, UNCHANGED satVars
    PROVE  SatInv'
<1>0. UNCHANGED <<clauses_given, clauses_held, assignments, levels, decision_level, conflict, sat>>
  BY DEF satVars
<1>1. SatTypeOK'
  BY <1>0 DEF SatInv, SatTypeOK
<1>2. SameClauses(clauses_held, clauses_given)' /\ (sat = "idle" => decision_level = 0)'
  BY <1>0 DEF SatInv, SameClauses
<1>3. Level0Follows'
  BY <1>0 DEF SatInv, Level0Follows, ClausesTrue, LitTrue
<1>4. ConflictIsFalse'
  BY <1>0 DEF SatInv, ConflictIsFalse, IsFalse, Satisfied, Unassigned
<1>5. AnswersAreRight'
  BY <1>0 DEF SatInv, AnswersAreRight, SolverModel, ClausesTrue, LitTrue
<1> QED BY <1>1, <1>2, <1>3, <1>4, <1>5 DEF SatInv

-----------------------------------------------------------------------------

LEMMA SatStep == SatInv /\ [SatNext]_satVars => SatInv'
<1> SUFFICES ASSUME SatInv, [SatNext]_satVars PROVE SatInv'
  OBVIOUS
<1>1. ASSUME NEW cs \in ClauseLists, solve_clauses(cs) PROVE SatInv'
  <2>1. cs \in Seq(Seq(Int \ {0}))
    BY ClauseListsAssumption
  <2> QED BY <1>1, <2>1, SolveClausesInv
<1>2. CASE unit_propagate
  <2>1. find_conflict \/ assign_units \/ end_of_propagation
    BY <1>2 DEF unit_propagate
  <2> QED BY <1>2, <2>1, FindConflictInv, AssignUnitsInv, EndOfPropagationInv
<1>3. CASE decide
  BY <1>3, DecideInv
<1>4. CASE learn_and_backtrack
  BY <1>4, LearnAndBacktrackInv
<1>5. CASE refuted
  BY <1>5, RefutedInv
<1>6. CASE UNCHANGED satVars
  BY <1>6, StutterInv
<1> QED BY <1>1, <1>2, <1>3, <1>4, <1>5, <1>6 DEF SatNext, dpll

\* In every state of the solver its data are well formed, what it holds are the clauses it
\* was given, a conflict is false, and level 0 follows from the clauses.
THEOREM SatInvAlways == SatSpec => []SatInv
<1>1. SatInit => SatInv
  BY InitInv
<1>2. SatInv /\ [SatNext]_satVars => SatInv'
  BY SatStep
<1> QED BY <1>1, <1>2, PTL DEF SatSpec

\* Whatever clauses the solver is given: when it says satisfiable its assignment makes all
\* of them true, and when it says unsatisfiable no assignment does.
THEOREM AnswersAreRightAlways == SatSpec => []AnswersAreRight
<1>1. SatInv => AnswersAreRight
  BY DEF SatInv
<1> QED BY <1>1, SatInvAlways, PTL

-----------------------------------------------------------------------------
(* Loops: a function of 0..n, each value made of the one before. *)

LEMMA LoopInduction ==
  ASSUME NEW n \in Nat, NEW G, 0 \in G, \A k \in 1..n : k - 1 \in G => k \in G
  PROVE  n \in G
<1> DEFINE S == 0..n
           m == [k \in S |-> k]
           parts == [k \in S |-> IF k = 0 THEN {} ELSE {k - 1}]
<1>1. Measured(S, m, parts)
  BY DEF Measured
<1>2. \A k \in S : parts[k] \subseteq G => k \in G
  OBVIOUS
<1> HIDE DEF m, parts, S
<1>3. S \subseteq G
  BY <1>1, <1>2, MeasureInduction
<1> QED BY <1>3 DEF S

Loop(n, E, x, step, f) ==
  f \in [0..n -> E] /\ f[0] = x /\ \A k \in 1..n : f[k] = step[<<k, f[k - 1]>>]

LEMMA LoopExists ==
  ASSUME NEW n \in Nat, NEW E, NEW x \in E, NEW step \in [(1..n) \X E -> E]
  PROVE  \E f : Loop(n, E, x, step, f)
<1> DEFINE S == 0..n
           m == [k \in S |-> k]
           parts == [k \in S |-> IF k = 0 THEN {} ELSE {k - 1}]
           rec == [a \in S \X [S -> E] |-> IF a[1] = 0 THEN x ELSE step[<<a[1], a[2][a[1] - 1]>>]]
<1>1. Measured(S, m, parts)
  BY DEF Measured
<1>2. rec \in [S \X [S -> E] -> E]
  OBVIOUS
<1>3. \A k \in S : \A g, h \in [S -> E] :
        (\A p \in parts[k] : g[p] = h[p]) => rec[<<k, g>>] = rec[<<k, h>>]
  OBVIOUS
<1>4. Recursion(S, parts, E, rec)
  <2> HIDE DEF S, rec, parts
  <2> QED BY <1>2, <1>3 DEF Recursion
<1>5. PICK f \in [S -> E] : \A k \in S : f[k] = rec[<<k, f>>]
  <2> HIDE DEF S, rec, parts, m
  <2> QED BY <1>1, <1>4, MeasureRecursion
<1>v. \A k \in S : rec[<<k, f>>] = IF k = 0 THEN x ELSE step[<<k, f[k - 1]>>]
  OBVIOUS
<1>6. f[0] = x
  <2>1. 0 \in S
    OBVIOUS
  <2> HIDE DEF rec
  <2> QED BY <1>5, <1>v, <2>1
<1>7. \A k \in 1..n : f[k] = step[<<k, f[k - 1]>>]
  <2>1. \A k \in 1..n : k \in S /\ k # 0
    OBVIOUS
  <2> HIDE DEF rec, S
  <2> QED BY <1>5, <1>v, <2>1
<1> QED BY <1>5, <1>6, <1>7 DEF Loop

-----------------------------------------------------------------------------
(* What terms say. *)

LEMMA LiteralsMeasured ==
  Measured(Literals, [t \in Literals |-> depth(t)], [t \in Literals |-> Components(t)])
BY LiteralsAssumption DEF Measured

LEMMA LiteralKinds ==
  ASSUME NEW t \in Literals
  PROVE  /\ t = [prems |-> t.prems, concl |-> t.concl] /\ t.prems \in Seq(Literals)
         /\ Literal(t.concl) \in Literals
         /\ is_imp(t) => /\ Literal(t.concl) \in Components(t)
                         /\ consequent(t) \in Literals
                         /\ \A i \in DOMAIN t.prems : t.prems[i] \in Components(t)
         /\ ~is_imp(t) => t.prems = <<>> /\ Literal(t.concl) = t
         /\ (~is_imp(t) /\ t.concl[1] \in {"conj", "disj", "equals", "eq"}) =>
              {t.concl[2], t.concl[3]} \subseteq Components(t)
         /\ Components(t) \subseteq Literals
<1>1. t = [prems |-> t.prems, concl |-> t.concl] /\ t.prems \in Seq(Literals) /\ Components(t) \subseteq Literals
  BY LiteralsAssumption
<1>2. CASE is_imp(t)
  BY <1>1, <1>2 DEF Components, Elems
<1>3. CASE ~is_imp(t)
  BY <1>1, <1>3 DEF Components, is_imp, Literal
<1> QED BY <1>1, <1>2, <1>3

TrueStep(t, g) ==
  IF is_imp(t)
  THEN {val \in Valuations :
          (\A i \in DOMAIN t.prems : val \in g[t.prems[i]]) => val \in g[Literal(t.concl)]}
  ELSE CASE t.concl[1] = "conj" -> g[t.concl[2]] \intersect g[t.concl[3]]
         [] t.concl[1] = "disj" -> g[t.concl[2]] \union g[t.concl[3]]
         [] t.concl[1] \in {"equals", "eq"} ->
              {val \in Valuations : val \in g[t.concl[2]] <=> val \in g[t.concl[3]]}
         [] t.concl[1] = "False" -> {}
         [] OTHER -> {val \in Valuations : t.concl[1] \in val}

LEMMA TrueStepType ==
  ASSUME NEW t \in Literals, NEW g \in [Literals -> SUBSET Valuations]
  PROVE  TrueStep(t, g) \in SUBSET Valuations
<1>1. CASE is_imp(t)
  BY <1>1 DEF TrueStep
<1>2. CASE ~is_imp(t) /\ t.concl[1] \in {"conj", "disj", "equals", "eq"}
  <2>1. g[t.concl[2]] \in SUBSET Valuations /\ g[t.concl[3]] \in SUBSET Valuations
    BY <1>2, LiteralKinds
  <2> QED BY <1>2, <2>1 DEF TrueStep
<1>3. CASE ~is_imp(t) /\ t.concl[1] \notin {"conj", "disj", "equals", "eq"}
  BY <1>3 DEF TrueStep
<1> QED BY <1>1, <1>2, <1>3

LEMMA TrueStepLocal ==
  ASSUME NEW t \in Literals, NEW g \in [Literals -> SUBSET Valuations],
         NEW h \in [Literals -> SUBSET Valuations], \A p \in Components(t) : g[p] = h[p]
  PROVE  TrueStep(t, g) = TrueStep(t, h)
<1>1. CASE is_imp(t)
  <2>1. g[Literal(t.concl)] = h[Literal(t.concl)] /\ \A i \in DOMAIN t.prems : g[t.prems[i]] = h[t.prems[i]]
    BY <1>1, LiteralKinds
  <2> QED BY <1>1, <2>1 DEF TrueStep
<1>2. CASE ~is_imp(t) /\ t.concl[1] \in {"conj", "disj", "equals", "eq"}
  <2>1. g[t.concl[2]] = h[t.concl[2]] /\ g[t.concl[3]] = h[t.concl[3]]
    BY <1>2, LiteralKinds
  <2> QED BY <1>2, <2>1 DEF TrueStep
<1>3. CASE ~is_imp(t) /\ t.concl[1] \notin {"conj", "disj", "equals", "eq"}
  BY <1>3 DEF TrueStep
<1> QED BY <1>1, <1>2, <1>3

LEMMA TrueDefined ==
  /\ true_for \in [Literals -> SUBSET Valuations]
  /\ \A t \in Literals : true_for[t] = TrueStep(t, true_for)
<1> DEFINE E == SUBSET Valuations
           m == [t \in Literals |-> depth(t)]
           parts == [t \in Literals |-> Components(t)]
           step == [a \in Literals \X [Literals -> E] |-> TrueStep(a[1], a[2])]
           Rhs(g) == [t \in Literals |-> TrueStep(t, g)]
<1>1. Recursion(Literals, parts, E, step)
  <2>1. step \in [Literals \X [Literals -> E] -> E]
    BY TrueStepType
  <2>2. ASSUME NEW t \in Literals, NEW g \in [Literals -> E], NEW h \in [Literals -> E],
               \A p \in parts[t] : g[p] = h[p]
        PROVE  step[<<t, g>>] = step[<<t, h>>]
    BY <2>2, TrueStepLocal
  <2>3. E # {}
    OBVIOUS
  <2> HIDE DEF E, parts, step
  <2> QED BY <2>1, <2>2, <2>3 DEF Recursion
<1>2. PICK f \in [Literals -> E] : \A t \in Literals : f[t] = step[<<t, f>>]
  <2> HIDE DEF E, parts, step, m
  <2>1. Measured(Literals, m, parts)
    BY LiteralsMeasured DEF m, parts
  <2> QED BY <1>1, <2>1, MeasureRecursion
<1>3. f = Rhs(f)
  BY <1>2
<1>4. \E g : g = Rhs(g)
  BY <1>3
<1>5. true_for = Rhs(true_for)
  BY <1>4 DEF true_for, TrueStep
<1>6. \A t \in Literals : true_for[t] = TrueStep(t, true_for)
  BY <1>5
<1>7. ASSUME NEW g, g = Rhs(g) PROVE g \in [Literals -> E]
  <2> DEFINE G == {t \in Literals : g[t] = f[t]}
  <2>1. ASSUME NEW t \in Literals, Components(t) \subseteq G PROVE t \in G
    <3> DEFINE gg == [u \in Literals |-> IF u \in Components(t) THEN g[u] ELSE {}]
    <3>1. gg \in [Literals -> E] /\ \A p \in Components(t) : gg[p] = f[p]
      BY <1>2, <2>1
    <3>2. TrueStep(t, gg) = TrueStep(t, f)
      <4> HIDE DEF gg
      <4> QED BY <3>1, <1>2, TrueStepLocal
    <3>3. TrueStep(t, gg) = TrueStep(t, g)
      BY LiteralKinds DEF TrueStep
    <3> QED BY <1>2, <1>7, <3>2, <3>3
  <2>2. Literals \subseteq G
    <3> HIDE DEF G
    <3>1. \A t \in Literals : parts[t] \subseteq G => t \in G
      BY <2>1
    <3>2. Measured(Literals, m, parts)
      BY LiteralsMeasured DEF m, parts
    <3> HIDE DEF m, parts
    <3> QED BY <3>1, <3>2, MeasureInduction
  <2>3. g = [t \in Literals |-> g[t]]
    <3> HIDE DEF E
    <3> QED BY <1>7
  <2> HIDE DEF Rhs
  <2> QED BY <1>2, <2>2, <2>3
<1>8. true_for \in [Literals -> E]
  <2> HIDE DEF Rhs, E
  <2> QED BY <1>5, <1>7
<1> QED BY <1>6, <1>8

Heads == {t.concl : t \in Literals}
Props == [prems : Seq(Literals), concl : Heads]
Theorems == [hyps : SUBSET Props, prop : Props]

LEMMA LiteralIsProp ==
  /\ Literals \subseteq Props
  /\ \A h \in Heads : Literal(h) \in Literals
  /\ False \in Literals
  /\ \A p \in Props : Literal(p.concl) \in Literals /\ p.prems \in Seq(Literals)
<1>1. \A h \in Heads : Literal(h) \in Literals
  BY LiteralKinds DEF Heads
<1>2. ASSUME NEW t \in Literals PROVE t \in Props
  <2>1. t = [prems |-> t.prems, concl |-> t.concl] /\ t.prems \in Seq(Literals) /\ t.concl \in Heads
    BY LiteralKinds DEF Heads
  <2> QED BY <2>1 DEF Props
<1> QED BY <1>1, <1>2, LiteralsAssumption DEF Props

LEMMA HoldsLiteral ==
  ASSUME NEW t \in Literals, NEW val \in Valuations
  PROVE  Holds(t, val) <=> val \in true_for[t]
<1>1. CASE is_imp(t)
  <2>1. true_for[t] = {v \in Valuations :
          (\A i \in DOMAIN t.prems : v \in true_for[t.prems[i]]) => v \in true_for[Literal(t.concl)]}
    BY <1>1, TrueDefined DEF TrueStep
  <2> QED BY <2>1 DEF Holds
<1>2. CASE ~is_imp(t)
  <2>1. t.prems = <<>> /\ Literal(t.concl) = t
    BY <1>2, LiteralKinds
  <2> QED BY <2>1 DEF Holds
<1> QED BY <1>1, <1>2

LEMMA FalseNeverHolds ==
  ASSUME NEW val \in Valuations
  PROVE  ~Holds(False, val) /\ val \notin true_for[False]
<1>1. False \in Literals /\ ~is_imp(False) /\ False.concl[1] = "False"
  BY LiteralsAssumption DEF False, Literal, is_imp
<1>2. true_for[False] = {}
  BY <1>1, TrueDefined DEF TrueStep
<1> QED BY <1>1, <1>2, HoldsLiteral

LEMMA EquationSides ==
  ASSUME NEW p \in Props, is_equation(p)
  PROVE  p.concl[2] \in Literals /\ p.concl[3] \in Literals
<1> DEFINE t == Literal(p.concl)
<1>1. t \in Literals /\ t.concl = p.concl /\ ~is_imp(t) /\ p.concl[1] = "equals"
  BY LiteralIsProp DEF Literal, is_imp, is_equation
<1> HIDE DEF t
<1> QED BY <1>1, LiteralKinds

\* The two sides of an equation hold together.
LEMMA EquationHolds ==
  ASSUME NEW p \in Props, is_equation(p), NEW val \in Valuations, Holds(p, val)
  PROVE  /\ p.concl[2] \in Literals /\ p.concl[3] \in Literals
         /\ val \in true_for[p.concl[2]] <=> val \in true_for[p.concl[3]]
<1> DEFINE t == Literal(p.concl)
<1>1. t \in Literals /\ t.concl = p.concl /\ ~is_imp(t)
  BY LiteralIsProp DEF Literal, is_imp
<1>2. p.prems = <<>> /\ p.concl[1] = "equals"
  BY DEF is_equation, is_imp
<1>3. {p.concl[2], p.concl[3]} \subseteq Literals
  <2> HIDE DEF t
  <2> QED BY <1>1, <1>2, LiteralKinds
<1>4. val \in true_for[t]
  BY <1>2 DEF Holds
<1>5. true_for[t] = {v \in Valuations : v \in true_for[p.concl[2]] <=> v \in true_for[p.concl[3]]}
  <2> HIDE DEF t
  <2> QED BY <1>1, <1>2, TrueDefined DEF TrueStep
<1> QED BY <1>3, <1>4, <1>5

LEMMA EliminationHolds ==
  ASSUME NEW p \in Props, is_imp(p)
  PROVE  /\ antecedent(p) \in Literals /\ consequent(p) \in Props
         /\ \A val \in Valuations :
              Holds(p, val) /\ val \in true_for[antecedent(p)] => Holds(consequent(p), val)
<1>1. p.prems \in Seq(Literals) /\ p.prems # <<>>
  BY DEF is_imp, Props
<1>2. antecedent(p) = p.prems[1] /\ p.prems[1] \in Literals /\ 1 \in DOMAIN p.prems
  BY <1>1 DEF antecedent
<1>3. consequent(p) \in Props
  BY <1>1 DEF consequent, Props
<1>4. ASSUME NEW val \in Valuations, Holds(p, val), val \in true_for[antecedent(p)]
      PROVE  Holds(consequent(p), val)
  <2> DEFINE q == consequent(p)
  <2>1. q.prems = Tail(p.prems) /\ q.concl = p.concl
    BY DEF consequent
  <2>2. SUFFICES ASSUME \A i \in DOMAIN q.prems : val \in true_for[q.prems[i]]
                 PROVE  val \in true_for[Literal(q.concl)]
    BY DEF Holds
  <2>3. ASSUME NEW i \in DOMAIN p.prems PROVE val \in true_for[p.prems[i]]
    <3>1. CASE i = 1
      BY <1>2, <1>4, <3>1
    <3>2. CASE i # 1
      <4>1. i - 1 \in DOMAIN Tail(p.prems) /\ Tail(p.prems)[i - 1] = p.prems[i]
        BY <1>1, <3>2
      <4> QED BY <2>1, <2>2, <4>1
    <3> QED BY <3>1, <3>2
  <2> QED BY <1>4, <2>1, <2>3 DEF Holds
<1> QED BY <1>2, <1>3, <1>4

LEMMA IntroductionHolds ==
  ASSUME NEW t \in Literals, NEW p \in Props
  PROVE  /\ Imp(t, p) \in Props
         /\ \A val \in Valuations : (val \in true_for[t] => Holds(p, val)) => Holds(Imp(t, p), val)
<1>1. p.prems \in Seq(Literals) /\ p.concl \in Heads
  BY DEF Props
<1>2. Imp(t, p) \in Props
  BY <1>1 DEF Imp, Props
<1>3. ASSUME NEW val \in Valuations, val \in true_for[t] => Holds(p, val) PROVE Holds(Imp(t, p), val)
  <2> DEFINE q == Imp(t, p)
  <2>1. q.prems = <<t>> \o p.prems /\ q.concl = p.concl
    BY DEF Imp
  <2>2. SUFFICES ASSUME \A i \in DOMAIN q.prems : val \in true_for[q.prems[i]]
                 PROVE  val \in true_for[Literal(q.concl)]
    BY DEF Holds
  <2>3. 1 \in DOMAIN q.prems /\ q.prems[1] = t
    BY <1>1, <2>1
  <2>4. ASSUME NEW i \in DOMAIN p.prems PROVE val \in true_for[p.prems[i]]
    <3>1. i + 1 \in DOMAIN q.prems /\ q.prems[i + 1] = p.prems[i]
      BY <1>1, <2>1
    <3> QED BY <2>2, <3>1
  <2> QED BY <1>3, <2>1, <2>2, <2>3, <2>4 DEF Holds
<1> QED BY <1>2, <1>3

\* The places of three sequences in a row.
InARow(S, x, y, z, s) ==
  /\ s \in Seq(S) /\ Len(s) = Len(x) + Len(y) + Len(z)
  /\ \A k \in 1..Len(x) : s[k] = x[k]
  /\ \A k \in 1..Len(y) : s[Len(x) + k] = y[k]
  /\ \A k \in 1..Len(z) : s[Len(x) + Len(y) + k] = z[k]
LEMMA ThreeInARow ==
  ASSUME NEW S, NEW x \in Seq(S), NEW y \in Seq(S), NEW z \in Seq(S)
  PROVE  InARow(S, x, y, z, x \o y \o z)
<1> DEFINE xy == x \o y
<1>1. /\ xy \in Seq(S) /\ Len(xy) = Len(x) + Len(y)
      /\ \A k \in 1..Len(x) : xy[k] = x[k]
      /\ \A k \in 1..Len(y) : xy[Len(x) + k] = y[k]
  OBVIOUS
<1> HIDE DEF xy
<1>2. /\ xy \o z \in Seq(S) /\ Len(xy \o z) = Len(xy) + Len(z)
      /\ \A k \in 1..Len(xy) : (xy \o z)[k] = xy[k]
      /\ \A k \in 1..Len(z) : (xy \o z)[Len(xy) + k] = z[k]
  <2>1. xy \in Seq(S)
    BY <1>1
  <2> QED BY <2>1
<1>l. Len(x) \in Nat /\ Len(y) \in Nat /\ Len(z) \in Nat
  OBVIOUS
<1>3. \A k \in 1..Len(x) : (xy \o z)[k] = x[k]
  BY <1>1, <1>2, <1>l
<1>4. \A k \in 1..Len(y) : (xy \o z)[Len(x) + k] = y[k]
  BY <1>1, <1>2, <1>l
<1> QED BY <1>1, <1>2, <1>3, <1>4 DEF xy, InARow

\* A sequence in the place of one element of another.
InThePlace(x, y, i) == SubSeq(x, 1, i - 1) \o y \o SubSeq(x, i + 1, Len(x))
Replaced(S, x, y, i, s) ==
  /\ s \in Seq(S)
  /\ \A k \in 1..Len(y) : i - 1 + k \in DOMAIN s /\ s[i - 1 + k] = y[k]
  /\ \A k \in 1..(i - 1) : k \in DOMAIN s /\ s[k] = x[k]
  /\ \A k \in (i + 1)..Len(x) : k - 1 + Len(y) \in DOMAIN s /\ s[k - 1 + Len(y)] = x[k]
LEMMA InThePlaceReplaces ==
  ASSUME NEW S, NEW x \in Seq(S), NEW y \in Seq(S), NEW i \in 1..Len(x)
  PROVE  Replaced(S, x, y, i, InThePlace(x, y, i))
<1> DEFINE s == InThePlace(x, y, i)
           front == SubSeq(x, 1, i - 1)
           back == SubSeq(x, i + 1, Len(x))
<1>1. /\ front \in Seq(S) /\ Len(front) = i - 1 /\ \A k \in 1..(i - 1) : front[k] = x[k]
      /\ back \in Seq(S) /\ Len(back) = Len(x) - i /\ \A k \in 1..(Len(x) - i) : back[k] = x[i + k]
  OBVIOUS
<1>2. s = front \o y \o back
  BY DEF InThePlace
<1> HIDE DEF s, front, back
<1>3. /\ s \in Seq(S) /\ Len(s) = Len(front) + Len(y) + Len(back)
      /\ \A k \in 1..Len(front) : s[k] = front[k]
      /\ \A k \in 1..Len(y) : s[Len(front) + k] = y[k]
      /\ \A k \in 1..Len(back) : s[Len(front) + Len(y) + k] = back[k]
  <2>1. front \in Seq(S) /\ back \in Seq(S)
    BY <1>1
  <2>2. InARow(S, front, y, back, s)
    BY <1>2, <2>1, ThreeInARow
  <2> QED BY <2>2 DEF InARow
<1>4. Len(x) \in Nat /\ Len(y) \in Nat /\ i \in 1..Len(x) /\ DOMAIN s = 1..Len(s)
  BY <1>3
<1>5. Len(s) = Len(x) - 1 + Len(y)
  BY <1>1, <1>3, <1>4
<1>6. \A k \in 1..Len(y) : i - 1 + k \in DOMAIN s /\ s[i - 1 + k] = y[k]
  BY <1>1, <1>3, <1>4, <1>5
<1>7. ASSUME NEW k \in 1..(i - 1) PROVE k \in DOMAIN s /\ s[k] = x[k]
  <2>1. k \in 1..Len(s)
    BY <1>4, <1>5
  <2>2. s[k] = front[k] /\ front[k] = x[k]
    BY <1>1, <1>3
  <2> QED BY <1>4, <2>1, <2>2
<1>8. ASSUME NEW k \in (i + 1)..Len(x) PROVE k - 1 + Len(y) \in DOMAIN s /\ s[k - 1 + Len(y)] = x[k]
  <2> DEFINE m == k - i
  <2>1. m \in 1..Len(back) /\ Len(front) + Len(y) + m = k - 1 + Len(y) /\ i + m = k
    BY <1>1, <1>4
  <2>2. s[Len(front) + Len(y) + m] = back[m] /\ back[m] = x[i + m]
    BY <1>1, <1>3, <2>1
  <2>3. k - 1 + Len(y) \in 1..Len(s)
    BY <1>4, <1>5
  <2> QED BY <1>4, <2>1, <2>2, <2>3
<1> QED BY <1>3, <1>6, <1>7, <1>8 DEF Replaced, s

\* The premises of p1 stand where its conclusion was a premise of p2.
LEMMA CompositionHolds ==
  ASSUME NEW p1 \in Props, NEW p2 \in Props, NEW i \in 1..Len(p2.prems), Literal(p1.concl) = p2.prems[i],
         NEW q, q = Chain(InThePlace(p2.prems, p1.prems, i), Literal(p2.concl))
  PROVE  q \in Props /\ \A val \in Valuations : Holds(p1, val) /\ Holds(p2, val) => Holds(q, val)
<1> DEFINE a == p1.prems
           b == p2.prems
           s == q.prems
<1>1. a \in Seq(Literals) /\ b \in Seq(Literals) /\ p2.concl \in Heads /\ i \in 1..Len(b)
  BY DEF Props
<1>2. s = InThePlace(b, a, i) /\ q.concl = p2.concl /\ q = [prems |-> s, concl |-> q.concl]
  BY DEF Chain, Literal
<1>3. /\ s \in Seq(Literals)
      /\ \A k \in 1..Len(a) : i - 1 + k \in DOMAIN s /\ s[i - 1 + k] = a[k]
      /\ \A k \in 1..(i - 1) : k \in DOMAIN s /\ s[k] = b[k]
      /\ \A k \in (i + 1)..Len(b) : k - 1 + Len(a) \in DOMAIN s /\ s[k - 1 + Len(a)] = b[k]
  <2>1. Replaced(Literals, b, a, i, s)
    BY <1>1, <1>2, InThePlaceReplaces
  <2> QED BY <2>1 DEF Replaced
<1>4. q \in Props
  BY <1>1, <1>2, <1>3 DEF Props
<1>5. ASSUME NEW val \in Valuations, Holds(p1, val), Holds(p2, val) PROVE Holds(q, val)
  <2>1. SUFFICES ASSUME \A k \in DOMAIN s : val \in true_for[s[k]]
                 PROVE  val \in true_for[Literal(q.concl)]
    BY DEF Holds
  <2>2. \A k \in DOMAIN a : val \in true_for[a[k]]
    <3>1. DOMAIN a = 1..Len(a)
      BY <1>1
    <3> HIDE DEF a, b, s
    <3> QED BY <1>3, <2>1, <3>1
  <2>3. val \in true_for[b[i]]
    BY <1>5, <2>2 DEF Holds
  <2>4. ASSUME NEW k \in DOMAIN b PROVE val \in true_for[b[k]]
    <3>l. k \in 1..(i - 1) \/ k = i \/ k \in (i + 1)..Len(b)
      BY <1>1
    <3> HIDE DEF a, b, s
    <3> QED BY <1>3, <2>1, <2>3, <3>l
  <2> QED BY <1>2, <1>5, <2>4 DEF Holds
<1> QED BY <1>4, <1>5

LEMMA SubstitutionHolds ==
  ASSUME NEW e \in Props, is_equation(e), NEW p \in Props, NEW i \in 1..Len(p.prems),
         e.concl[2] = p.prems[i], e.concl[3] \in Literals,
         NEW q, q = Chain([p.prems EXCEPT ![i] = e.concl[3]], Literal(p.concl))
  PROVE  q \in Props /\ \A val \in Valuations : Holds(e, val) /\ Holds(p, val) => Holds(q, val)
<1>1. p.prems \in Seq(Literals) /\ p.concl \in Heads
  BY DEF Props
<1>2. q.prems = [p.prems EXCEPT ![i] = e.concl[3]] /\ q.concl = p.concl /\ q = [prems |-> q.prems, concl |-> q.concl]
  BY DEF Chain, Literal
<1>3. q \in Props
  <2>1. q.prems \in Seq(Literals)
    BY <1>1, <1>2
  <2> QED BY <1>1, <1>2, <2>1 DEF Props
<1>4. ASSUME NEW val \in Valuations, Holds(e, val), Holds(p, val) PROVE Holds(q, val)
  <2>1. SUFFICES ASSUME \A k \in DOMAIN q.prems : val \in true_for[q.prems[k]]
                 PROVE  val \in true_for[Literal(q.concl)]
    BY DEF Holds
  <2>2. ASSUME NEW k \in DOMAIN p.prems PROVE val \in true_for[p.prems[k]]
    <3>1. k \in DOMAIN q.prems /\ (k # i => q.prems[k] = p.prems[k]) /\ (k = i => q.prems[k] = e.concl[3])
      BY <1>1, <1>2
    <3>2. val \in true_for[e.concl[2]] <=> val \in true_for[e.concl[3]]
      BY <1>4, EquationHolds
    <3> QED BY <2>1, <3>1, <3>2
  <2> QED BY <1>2, <1>4, <2>2 DEF Holds
<1> QED BY <1>3, <1>4

-----------------------------------------------------------------------------
(* The rules of the kernel keep to theorems that are true. *)

TrueClauses(H, V) == {th \in Theorems : th.hyps \subseteq H /\ \A val \in V : ThmTrue(th, val)}

LEMMA ThmIsTheorem ==
  ASSUME NEW hyps \in SUBSET Props, NEW p \in Props
  PROVE  Thm(hyps, p) \in Theorems /\ Thm(hyps, p).hyps = hyps /\ Thm(hyps, p).prop = p
BY DEF Thm, Theorems

LEMMA TheoremParts ==
  ASSUME NEW th \in Theorems
  PROVE  /\ th.hyps \subseteq Props /\ th.prop \in Props /\ premises(th) = th.prop.prems
         /\ premises(th) \in Seq(Literals) /\ conclusion(th) = Literal(th.prop.concl)
         /\ conclusion(th) \in Literals
<1>1. th.hyps \subseteq Props /\ th.prop \in Props
  BY DEF Theorems
<1> QED BY <1>1, LiteralIsProp DEF premises, conclusion

LEMMA AssumeTrue ==
  ASSUME NEW t \in Props, NEW H, t \in H, NEW V
  PROVE  assume(t) \in TrueClauses(H, V)
<1>1. assume(t) \in Theorems /\ assume(t).hyps = {t} /\ assume(t).prop = t
  BY ThmIsTheorem DEF assume
<1> QED BY <1>1 DEF TrueClauses, ThmTrue

LEMMA ElimTrue ==
  ASSUME NEW H, NEW V \in SUBSET Valuations, NEW major \in TrueClauses(H, V), NEW minor \in TrueClauses(H, V)
  PROVE  implies_elim(major, minor) \subseteq TrueClauses(H, V)
<1>1. major \in Theorems /\ minor \in Theorems /\ major.hyps \subseteq H /\ minor.hyps \subseteq H
  BY DEF TrueClauses
<1>2. CASE is_imp(major.prop) /\ antecedent(major.prop) = minor.prop
  <2> DEFINE r == Thm(major.hyps \union minor.hyps, consequent(major.prop))
  <2>1. minor.prop \in Literals /\ consequent(major.prop) \in Props
    BY <1>1, <1>2, TheoremParts, EliminationHolds
  <2>2. r \in Theorems /\ r.hyps = major.hyps \union minor.hyps /\ r.prop = consequent(major.prop)
    BY <1>1, <2>1, TheoremParts, ThmIsTheorem
  <2>3. ASSUME NEW val \in V, \A h \in r.hyps : Holds(h, val) PROVE Holds(r.prop, val)
    <3>1. ThmTrue(major, val) /\ ThmTrue(minor, val)
      BY DEF TrueClauses
    <3>2. Holds(major.prop, val) /\ Holds(minor.prop, val)
      BY <2>2, <2>3, <3>1 DEF ThmTrue
    <3> HIDE DEF r
    <3> QED BY <1>1, <1>2, <2>1, <2>2, <3>2, TheoremParts, HoldsLiteral, EliminationHolds
  <2>4. r \in TrueClauses(H, V)
    <3> HIDE DEF r
    <3> QED BY <1>1, <2>2, <2>3 DEF TrueClauses, ThmTrue
  <2> QED BY <1>2, <2>4 DEF implies_elim
<1>3. CASE ~(is_imp(major.prop) /\ antecedent(major.prop) = minor.prop)
  BY <1>3 DEF implies_elim
<1> QED BY <1>2, <1>3

LEMMA IntrTrue ==
  ASSUME NEW H, NEW V \in SUBSET Valuations, NEW t \in Literals, NEW th \in TrueClauses(H \union {t}, V)
  PROVE  implies_intr(t, th) \subseteq TrueClauses(H, V)
<1> DEFINE r == Thm(th.hyps \ {t}, Imp(t, th.prop))
<1>1. th \in Theorems /\ th.hyps \subseteq H \union {t}
  BY DEF TrueClauses
<1>2. th.hyps \subseteq Props /\ th.prop \in Props /\ Imp(t, th.prop) \in Props
  BY <1>1, TheoremParts, IntroductionHolds
<1>3. r \in Theorems /\ r.hyps = th.hyps \ {t} /\ r.prop = Imp(t, th.prop)
  <2>1. th.hyps \ {t} \in SUBSET Props
    BY <1>2
  <2> QED BY <1>2, <2>1, ThmIsTheorem
<1>4. ASSUME NEW val \in V, \A h \in r.hyps : Holds(h, val) PROVE Holds(r.prop, val)
  <2>1. ThmTrue(th, val)
    BY DEF TrueClauses
  <2>2. val \in true_for[t] => Holds(th.prop, val)
    BY <1>3, <1>4, <2>1, HoldsLiteral DEF ThmTrue
  <2> HIDE DEF r
  <2> QED BY <1>2, <1>3, <2>2, IntroductionHolds
<1>5. r \in TrueClauses(H, V)
  <2> HIDE DEF r
  <2> QED BY <1>1, <1>3, <1>4 DEF TrueClauses, ThmTrue
<1> QED BY <1>5 DEF implies_intr

LEMMA BicomposeTrue ==
  ASSUME NEW H, NEW V \in SUBSET Valuations, NEW th1 \in TrueClauses(H, V), NEW th2 \in TrueClauses(H, V),
         NEW i \in 1..Len(premises(th2))
  PROVE  bicompose(th1, th2, i) \subseteq TrueClauses(H, V)
<1> DEFINE q == Chain(InThePlace(premises(th2), premises(th1), i), conclusion(th2))
           r == Thm(th1.hyps \union th2.hyps, q)
<1>1. th1 \in Theorems /\ th2 \in Theorems /\ th1.hyps \subseteq H /\ th2.hyps \subseteq H
  BY DEF TrueClauses
<1>2. CASE conclusion(th1) = premises(th2)[i]
  <2>1. q \in Props /\ \A val \in Valuations : Holds(th1.prop, val) /\ Holds(th2.prop, val) => Holds(q, val)
    <3>1. q = Chain(InThePlace(th2.prop.prems, th1.prop.prems, i), Literal(th2.prop.concl))
      BY DEF premises, conclusion
    <3>2. th1.prop \in Props /\ th2.prop \in Props /\ i \in 1..Len(th2.prop.prems)
      BY <1>1, TheoremParts
    <3>3. Literal(th1.prop.concl) = th2.prop.prems[i]
      BY <1>2 DEF premises, conclusion
    <3> HIDE DEF q
    <3> QED BY <3>1, <3>2, <3>3, CompositionHolds
  <2>2. r \in Theorems /\ r.hyps = th1.hyps \union th2.hyps /\ r.prop = q
    <3>1. th1.hyps \union th2.hyps \in SUBSET Props
      BY <1>1, TheoremParts
    <3> HIDE DEF q
    <3> QED BY <2>1, <3>1, ThmIsTheorem
  <2> HIDE DEF q, r
  <2>3. ASSUME NEW val \in V, \A h \in r.hyps : Holds(h, val) PROVE Holds(r.prop, val)
    <3>1. ThmTrue(th1, val) /\ ThmTrue(th2, val)
      BY DEF TrueClauses
    <3> QED BY <2>1, <2>2, <2>3, <3>1 DEF ThmTrue
  <2>4. r \in TrueClauses(H, V)
    BY <1>1, <2>2, <2>3 DEF TrueClauses, ThmTrue
  <2>5. bicompose(th1, th2, i) = {r}
    BY <1>2 DEF bicompose, InThePlace, r, q
  <2> QED BY <2>4, <2>5
<1>3. CASE conclusion(th1) # premises(th2)[i]
  BY <1>3 DEF bicompose
<1> QED BY <1>2, <1>3

LEMMA SubstPremiseTrue ==
  ASSUME NEW H, NEW V \in SUBSET Valuations, NEW eq \in TrueClauses(H, V), NEW th \in TrueClauses(H, V),
         NEW i \in 1..Len(premises(th))
  PROVE  subst_premise(eq, th, i) \subseteq TrueClauses(H, V)
<1> DEFINE q == Chain([premises(th) EXCEPT ![i] = eq.prop.concl[3]], conclusion(th))
           r == Thm(eq.hyps \union th.hyps, q)
<1>1. eq \in Theorems /\ th \in Theorems /\ eq.hyps \subseteq H /\ th.hyps \subseteq H
  BY DEF TrueClauses
<1>2. CASE is_equation(eq.prop) /\ eq.prop.concl[2] = premises(th)[i]
  <2>0. eq.prop \in Props /\ th.prop \in Props /\ i \in 1..Len(th.prop.prems)
    BY <1>1, TheoremParts
  <2>1. q \in Props /\ \A val \in Valuations : Holds(eq.prop, val) /\ Holds(th.prop, val) => Holds(q, val)
    <3>1. q = Chain([th.prop.prems EXCEPT ![i] = eq.prop.concl[3]], Literal(th.prop.concl))
      BY DEF premises, conclusion
    <3>3. eq.prop.concl[2] = th.prop.prems[i]
      BY <1>2 DEF premises
    <3>4. eq.prop.concl[3] \in Literals
      BY <1>2, <2>0, EquationSides
    <3> HIDE DEF q
    <3> QED BY <1>2, <2>0, <3>1, <3>3, <3>4, SubstitutionHolds
  <2>2. r \in Theorems /\ r.hyps = eq.hyps \union th.hyps /\ r.prop = q
    <3>1. eq.hyps \union th.hyps \in SUBSET Props
      BY <1>1, TheoremParts
    <3> HIDE DEF q
    <3> QED BY <2>1, <3>1, ThmIsTheorem
  <2> HIDE DEF q, r
  <2>3. ASSUME NEW val \in V, \A h \in r.hyps : Holds(h, val) PROVE Holds(r.prop, val)
    <3>1. ThmTrue(eq, val) /\ ThmTrue(th, val)
      BY DEF TrueClauses
    <3> QED BY <2>1, <2>2, <2>3, <3>1 DEF ThmTrue
  <2>4. r \in TrueClauses(H, V)
    BY <1>1, <2>2, <2>3 DEF TrueClauses, ThmTrue
  <2>5. subst_premise(eq, th, i) = {r}
    BY <1>2 DEF subst_premise, r, q
  <2> QED BY <2>4, <2>5
<1>3. CASE ~(is_equation(eq.prop) /\ eq.prop.concl[2] = premises(th)[i])
  BY <1>3 DEF subst_premise
<1> QED BY <1>2, <1>3
-----------------------------------------------------------------------------
(* What is done over and over keeps to true theorems. *)

LEMMA EliminateStepTrue ==
  ASSUME NEW H, NEW V \in SUBSET Valuations, NEW a \in Literals, a \in H, NEW th \in TrueClauses(H, V)
  PROVE  EliminateStep(th, a) \in TrueClauses(H, V)
<1>1. assume(a) \in TrueClauses(H, V)
  BY LiteralIsProp, AssumeTrue
<1>2. implies_elim(th, assume(a)) \subseteq TrueClauses(H, V)
  BY <1>1, ElimTrue
<1>3. CASE th.prop # a /\ implies_elim(th, assume(a)) # {}
  <2>1. EliminateStep(th, a) \in implies_elim(th, assume(a))
    BY <1>3 DEF EliminateStep
  <2> QED BY <1>2, <2>1
<1>4. CASE th.prop = a
  BY <1>1, <1>4 DEF EliminateStep
<1>5. CASE th.prop # a /\ implies_elim(th, assume(a)) = {}
  BY <1>5 DEF EliminateStep
<1> QED BY <1>3, <1>4, <1>5

LEMMA EliminateFrontTrue ==
  ASSUME NEW H, NEW V \in SUBSET Valuations, NEW a \in Literals, a \in H, NEW th \in TrueClauses(H, V),
         NEW n \in Nat
  PROVE  EliminateFront(th, a, n) \in TrueClauses(H, V)
<1> DEFINE E == TrueClauses(H, V)
           Rhs(g) == [k \in 0..n |-> IF k = 0 THEN th ELSE EliminateStep(g[k - 1], a)]
           after == CHOOSE g : g = Rhs(g)
           step == [p \in (1..n) \X E |-> EliminateStep(p[2], a)]
<1>1. \A x \in E : EliminateStep(x, a) \in E
  BY EliminateStepTrue
<1>2. EliminateFront(th, a, n) = after[n]
  BY DEF EliminateFront
<1>3. step \in [(1..n) \X E -> E]
  BY <1>1
<1>4. PICK f : Loop(n, E, th, step, f)
  <2> HIDE DEF step, E
  <2>1. th \in E
    BY DEF E
  <2> QED BY <1>3, <2>1, LoopExists
<1>5. f = Rhs(f)
  <2> HIDE DEF E
  <2>1. f \in [0..n -> E] /\ f[0] = th /\ \A k \in 1..n : f[k] = step[<<k, f[k - 1]>>]
    BY <1>4 DEF Loop
  <2>2. \A k \in 1..n : f[k - 1] \in E
    BY <2>1
  <2>3. \A k \in 1..n : f[k] = EliminateStep(f[k - 1], a)
    BY <2>1, <2>2
  <2> QED BY <2>1, <2>3
<1>6. after = Rhs(after)
  <2> HIDE DEF Rhs
  <2> QED BY <1>5
<1> HIDE DEF after
<1>7. after[0] = th /\ \A k \in 1..n : after[k] = EliminateStep(after[k - 1], a)
  <2> DEFINE F == [k \in 0..n |-> IF k = 0 THEN th ELSE EliminateStep(after[k - 1], a)]
  <2>1. after = F
    BY <1>6
  <2>2. F[0] = th /\ \A k \in 1..n : F[k] = EliminateStep(after[k - 1], a)
    <3>1. 0 \in 0..n /\ \A k \in 1..n : k \in 0..n /\ k # 0
      OBVIOUS
    <3> QED BY <3>1
  <2> HIDE DEF F
  <2> QED BY <2>1, <2>2
<1> DEFINE G == {k \in 0..n : after[k] \in E}
<1>8. 0 \in G /\ \A k \in 1..n : k - 1 \in G => k \in G
  BY <1>1, <1>7
<1>9. n \in G
  <2> HIDE DEF G
  <2> QED BY <1>8, LoopInduction
<1> QED BY <1>2, <1>9

LEMMA FactorTrue ==
  ASSUME NEW H, NEW V \in SUBSET Valuations, NEW th \in TrueClauses(H, V), NEW i \in DOMAIN premises(th)
  PROVE  factor(th, i) \subseteq TrueClauses(H, V)
<1> DEFINE a == premises(th)[i]
           G == H \union {a}
<1>1. th \in Theorems /\ premises(th) \in Seq(Literals) /\ a \in Literals /\ Len(premises(th)) \in Nat
  <2>1. th \in Theorems
    BY DEF TrueClauses
  <2>2. premises(th) \in Seq(Literals)
    BY <2>1, TheoremParts
  <2> QED BY <2>1, <2>2
<1>2. th \in TrueClauses(G, V) /\ a \in G
  BY DEF TrueClauses
<1> HIDE DEF G
<1>3. EliminateFront(th, a, Len(premises(th))) \in TrueClauses(G, V)
  <2> HIDE DEF a
  <2> QED BY <1>1, <1>2, EliminateFrontTrue
<1>4. implies_intr(a, EliminateFront(th, a, Len(premises(th)))) \subseteq TrueClauses(H, V)
  <2> HIDE DEF a
  <2> QED BY <1>1, <1>3, IntrTrue DEF G
<1> QED BY <1>4 DEF factor

LEMMA FirstIsOne ==
  ASSUME NEW ids, ids \subseteq Nat, ids # {}
  PROVE  First(ids) \in ids
<1>1. \E i \in ids : \A j \in ids : i <= j
  BY LeastNumber
<1> QED BY <1>1 DEF First

-----------------------------------------------------------------------------
(* The prover keeps to good clauses, if the rules do: C are the good ones, *)
(* and no clause is forgotten.                                             *)

Provers(C, n) ==
  {pr \in [clauses : Seq(C), passive : SUBSET Nat, steps : Nat] :
     pr.passive \subseteq DOMAIN pr.clauses /\ n <= Len(pr.clauses)}

LEMMA ProverParts ==
  ASSUME NEW C, NEW n \in Nat, NEW cs \in Seq(C), NEW ps, ps \subseteq DOMAIN cs, NEW st \in Nat, n <= Len(cs),
         NEW pr, pr = [clauses |-> cs, passive |-> ps, steps |-> st]
  PROVE  pr \in Provers(C, n)
<1>1. DOMAIN cs = 1..Len(cs)
  OBVIOUS
<1>2. ps \in SUBSET Nat
  BY <1>1
<1> QED BY <1>2 DEF Provers

LEMMA AddClauseGood ==
  ASSUME NEW C, NEW n \in Nat, NEW pr \in Provers(C, n), NEW th \in C
  PROVE  add_clause(pr, th) \in Provers(C, n)
<1>1. /\ pr.clauses \in Seq(C) /\ pr.passive \subseteq DOMAIN pr.clauses /\ n <= Len(pr.clauses) /\ pr.steps \in Nat
      /\ pr = [clauses |-> pr.clauses, passive |-> pr.passive, steps |-> pr.steps]
  BY DEF Provers
<1> DEFINE cs == Append(pr.clauses, th)
           ps == pr.passive \union {Len(pr.clauses) + 1}
           r == [clauses |-> cs, passive |-> ps, steps |-> pr.steps]
<1>2. add_clause(pr, th) \in {pr, r}
  BY DEF add_clause
<1>3. cs \in Seq(C) /\ DOMAIN cs = 1..(Len(pr.clauses) + 1) /\ Len(cs) = Len(pr.clauses) + 1
      /\ DOMAIN pr.clauses = 1..Len(pr.clauses) /\ Len(pr.clauses) \in Nat
  BY <1>1
<1>4. ps \subseteq DOMAIN cs /\ n <= Len(cs)
  BY <1>1, <1>3
<1>5. r \in Provers(C, n)
  <2> HIDE DEF cs, ps
  <2> QED BY <1>1, <1>3, <1>4, ProverParts
<1> QED BY <1>2, <1>5

LEMMA AddNontrivialGood ==
  ASSUME NEW C, NEW n \in Nat, NEW pr \in Provers(C, n), NEW results \in SUBSET C
  PROVE  AddNontrivial(pr, results) \in Provers(C, n)
<1> DEFINE kept == {th \in results : ~is_trivial_clause(th)}
<1>1. CASE kept = {}
  BY <1>1 DEF AddNontrivial
<1>2. CASE kept # {}
  <2>1. (CHOOSE th \in kept : TRUE) \in C
    BY <1>2
  <2> QED BY <1>2, <2>1, AddClauseGood DEF AddNontrivial
<1> QED BY <1>1, <1>2

LEMMA AddAllGood ==
  ASSUME NEW C, NEW m \in Nat, NEW pr \in Provers(C, m), NEW ths \in Seq(C)
  PROVE  AddAll(pr, ths) \in Provers(C, m)
<1> DEFINE E == Provers(C, m)
           n == Len(ths)
           Rhs(g) == [k \in 0..n |-> IF k = 0 THEN pr ELSE add_clause(g[k - 1], ths[k])]
           after == CHOOSE g : g = Rhs(g)
           step == [p \in (1..n) \X E |-> add_clause(p[2], ths[p[1]])]
<1>0. n \in Nat /\ \A k \in 1..n : ths[k] \in C
  OBVIOUS
<1>1. \A k \in 1..n, x \in E : add_clause(x, ths[k]) \in E
  <2> HIDE DEF n
  <2> QED BY <1>0, AddClauseGood
<1>2. AddAll(pr, ths) = after[n]
  BY DEF AddAll
<1> HIDE DEF n
<1>3. step \in [(1..n) \X E -> E]
  <2> HIDE DEF E
  <2> QED BY <1>1
<1>4. PICK f : Loop(n, E, pr, step, f)
  <2> HIDE DEF step, E
  <2>1. pr \in E
    BY DEF E
  <2> QED BY <1>0, <1>3, <2>1, LoopExists
<1>5. f = Rhs(f)
  <2> HIDE DEF E
  <2>1. f \in [0..n -> E] /\ f[0] = pr /\ \A k \in 1..n : f[k] = step[<<k, f[k - 1]>>]
    BY <1>4 DEF Loop
  <2>2. \A k \in 1..n : f[k - 1] \in E
    BY <1>0, <2>1
  <2>3. \A k \in 1..n : f[k] = add_clause(f[k - 1], ths[k])
    BY <1>0, <2>1, <2>2
  <2> QED BY <2>1, <2>3
<1>6. after = Rhs(after)
  <2> HIDE DEF Rhs
  <2> QED BY <1>5
<1> HIDE DEF after
<1>7. after[0] = pr /\ \A k \in 1..n : after[k] = add_clause(after[k - 1], ths[k])
  <2> DEFINE F == [k \in 0..n |-> IF k = 0 THEN pr ELSE add_clause(after[k - 1], ths[k])]
  <2>1. after = F
    BY <1>6
  <2>2. F[0] = pr /\ \A k \in 1..n : F[k] = add_clause(after[k - 1], ths[k])
    <3>1. 0 \in 0..n /\ \A k \in 1..n : k \in 0..n /\ k # 0
      BY <1>0
    <3> QED BY <3>1
  <2> HIDE DEF F
  <2> QED BY <2>1, <2>2
<1> DEFINE G == {k \in 0..n : after[k] \in E}
<1>8. 0 \in G /\ \A k \in 1..n : k - 1 \in G => k \in G
  <2> HIDE DEF E
  <2>1. pr \in E
    BY DEF E
  <2> QED BY <1>0, <1>1, <1>7, <2>1
<1>9. n \in G
  <2> HIDE DEF G
  <2> QED BY <1>0, <1>8, LoopInduction
<1> QED BY <1>2, <1>9
LEMMA TriedGood ==
  ASSUME NEW C, NEW n \in Nat, NEW pr \in Provers(C, n)
  PROVE  Tried(pr) \in Provers(C, n)
<1>1. /\ pr.clauses \in Seq(C) /\ pr.passive \subseteq DOMAIN pr.clauses /\ n <= Len(pr.clauses) /\ pr.steps \in Nat
      /\ pr = [clauses |-> pr.clauses, passive |-> pr.passive, steps |-> pr.steps]
  BY DEF Provers
<1>2. Tried(pr) = [clauses |-> pr.clauses, passive |-> pr.passive, steps |-> pr.steps + 1]
  BY <1>1 DEF Tried
<1>3. pr.steps + 1 \in Nat
  BY <1>1
<1> QED BY <1>1, <1>2, <1>3, ProverParts

\* The inferences that can be asked for: the clauses are there, and the premise.
Attempts ==
  {a \in [rule : {"resolution", "paramodulation", "factoring"}, left : DOMAIN clauses,
          right : DOMAIN clauses, nth : Nat] :
     a.rule = "resolution" => a.nth \in 1..Len(premises(clauses[a.right]))}

LEMMA InferredTrue ==
  ASSUME NEW H, NEW V \in SUBSET Valuations, clauses \in Seq(TrueClauses(H, V)), NEW a \in Attempts
  PROVE  Inferred(a) \in SUBSET TrueClauses(H, V)
<1> DEFINE th1 == clauses[a.left]
           th2 == clauses[a.right]
<1>1. th1 \in TrueClauses(H, V) /\ th2 \in TrueClauses(H, V)
  BY DEF Attempts
<1>2. premises(th1) \in Seq(Literals) /\ premises(th2) \in Seq(Literals)
  BY <1>1, TheoremParts DEF TrueClauses
<1>3. CASE a.rule = "resolution"
  <2>1. a.nth \in 1..Len(premises(th2))
    BY <1>3 DEF Attempts
  <2>2. bicompose(th1, th2, a.nth) \subseteq TrueClauses(H, V)
    <3> HIDE DEF th1, th2
    <3> QED BY <1>1, <2>1, BicomposeTrue
  <2> QED BY <1>3, <2>2 DEF Inferred
<1>4. CASE a.rule = "paramodulation"
  <2>1. \A j \in DOMAIN premises(th2) : subst_premise(th1, th2, j) \subseteq TrueClauses(H, V)
    <3> HIDE DEF th1, th2
    <3> QED BY <1>1, <1>2, SubstPremiseTrue
  <2>2. a.rule # "resolution"
    BY <1>4
  <2> QED BY <1>4, <2>1, <2>2 DEF Inferred
<1>5. CASE a.rule \notin {"resolution", "paramodulation"}
  <2>1. \A p \in NthPair(Len(premises(th1)), a.nth) : p[1] \in DOMAIN premises(th1)
    BY <1>2 DEF NthPair, Pairs
  <2>2. \A i \in DOMAIN premises(th1) : factor(th1, i) \subseteq TrueClauses(H, V)
    <3> HIDE DEF th1, th2
    <3> QED BY <1>1, FactorTrue
  <2> QED BY <1>5, <2>1, <2>2 DEF Inferred
<1> QED BY <1>3, <1>4, <1>5

LEMMA InferGood ==
  ASSUME NEW H, NEW V \in SUBSET Valuations, clauses \in Seq(TrueClauses(H, V)), NEW a \in Attempts,
         NEW n \in Nat, NEW pr \in Provers(TrueClauses(H, V), n)
  PROVE  Infer(pr, a) \in Provers(TrueClauses(H, V), n)
BY TriedGood, InferredTrue, AddNontrivialGood DEF Infer

LEMMA TryAllGood ==
  ASSUME NEW H, NEW V \in SUBSET Valuations, clauses \in Seq(TrueClauses(H, V)),
         NEW m \in Nat, NEW pr \in Provers(TrueClauses(H, V), m), NEW attempts \in Seq(Attempts)
  PROVE  TryAll(pr, attempts) \in Provers(TrueClauses(H, V), m)
<1> DEFINE E == Provers(TrueClauses(H, V), m)
           n == Len(attempts)
           Turn(k, x) == IF k > 1 /\ Exhausted(x) THEN x ELSE Infer(x, attempts[k])
           Rhs(g) == [k \in 0..n |-> IF k = 0 THEN pr
                                     ELSE IF k > 1 /\ Exhausted(g[k - 1]) THEN g[k - 1]
                                     ELSE Infer(g[k - 1], attempts[k])]
           after == CHOOSE g : g = Rhs(g)
           step == [p \in (1..n) \X E |-> Turn(p[1], p[2])]
<1>0. n \in Nat /\ \A k \in 1..n : attempts[k] \in Attempts
  OBVIOUS
<1>1. \A k \in 1..n, x \in E : Turn(k, x) \in E
  <2> HIDE DEF n
  <2> QED BY <1>0, InferGood
<1>2. TryAll(pr, attempts) = after[n]
  BY DEF TryAll
<1> HIDE DEF n
<1>v. \A g : Rhs(g) = [k \in 0..n |-> IF k = 0 THEN pr ELSE Turn(k, g[k - 1])]
  OBVIOUS
<1> HIDE DEF Rhs, Turn
<1>3. step \in [(1..n) \X E -> E]
  <2> HIDE DEF E
  <2> QED BY <1>1
<1>4. PICK f : Loop(n, E, pr, step, f)
  <2> HIDE DEF step, E
  <2>1. pr \in E
    BY DEF E
  <2> QED BY <1>0, <1>3, <2>1, LoopExists
<1>5. f = Rhs(f)
  <2> HIDE DEF E
  <2>1. f \in [0..n -> E] /\ f[0] = pr /\ \A k \in 1..n : f[k] = step[<<k, f[k - 1]>>]
    BY <1>4 DEF Loop
  <2>2. \A k \in 1..n : f[k - 1] \in E
    BY <1>0, <2>1
  <2>3. \A k \in 1..n : f[k] = Turn(k, f[k - 1])
    BY <1>0, <2>1, <2>2
  <2> DEFINE rhs == [k \in 0..n |-> IF k = 0 THEN pr ELSE Turn(k, f[k - 1])]
  <2>4. f = rhs
    BY <1>0, <2>1, <2>3
  <2>5. Rhs(f) = rhs
    BY <1>v
  <2> QED BY <2>4, <2>5
<1>6. after = Rhs(after)
  BY <1>5
<1> HIDE DEF after
<1>7. after[0] = pr /\ \A k \in 1..n : after[k] = Turn(k, after[k - 1])
  <2> DEFINE F == [k \in 0..n |-> IF k = 0 THEN pr ELSE Turn(k, after[k - 1])]
  <2>1. after = F
    BY <1>6, <1>v
  <2>2. F[0] = pr /\ \A k \in 1..n : F[k] = Turn(k, after[k - 1])
    <3>1. 0 \in 0..n /\ \A k \in 1..n : k \in 0..n /\ k # 0
      BY <1>0
    <3> QED BY <3>1
  <2> HIDE DEF F
  <2> QED BY <2>1, <2>2
<1> DEFINE G == {k \in 0..n : after[k] \in E}
<1>8. 0 \in G /\ \A k \in 1..n : k - 1 \in G => k \in G
  <2> HIDE DEF E
  <2>1. pr \in E
    BY DEF E
  <2> QED BY <1>0, <1>1, <1>7, <2>1
<1>9. n \in G
  <2> HIDE DEF G
  <2> QED BY <1>0, <1>8, LoopInduction
<1> QED BY <1>2, <1>9

LEMMA AttemptIsOne ==
  ASSUME NEW rule \in {"resolution", "paramodulation", "factoring"}, NEW c1 \in DOMAIN clauses,
         NEW c2 \in DOMAIN clauses, NEW k \in Nat,
         rule = "resolution" => k \in 1..Len(premises(clauses[c2]))
  PROVE  Attempt(rule, c1, c2, k) \in Attempts
BY DEF Attempt, Attempts

LEMMA TryOneGood ==
  ASSUME NEW H, NEW V \in SUBSET Valuations, clauses \in Seq(TrueClauses(H, V)),
         NEW m \in Nat, NEW pr \in Provers(TrueClauses(H, V), m), NEW c1 \in DOMAIN clauses, NEW c2 \in DOMAIN clauses
  PROVE  /\ try_all_resolutions(pr, c1, c2) \in Provers(TrueClauses(H, V), m)
         /\ try_all_paramodulations(pr, c1, c2) \in Provers(TrueClauses(H, V), m)
         /\ try_factor(pr, c1) \in Provers(TrueClauses(H, V), m)
<1>0. \A c \in DOMAIN clauses : Len(premises(clauses[c])) \in Nat
  <2> SUFFICES ASSUME NEW c \in DOMAIN clauses PROVE Len(premises(clauses[c])) \in Nat
    OBVIOUS
  <2>1. clauses[c] \in Theorems
    BY DEF TrueClauses
  <2> QED BY <2>1, TheoremParts
<1>1. try_all_resolutions(pr, c1, c2) \in Provers(TrueClauses(H, V), m)
  <2> DEFINE n == Len(premises(clauses[c2]))
             as == [i \in 1..n |-> Attempt("resolution", c1, c2, i)]
  <2>1. as \in Seq(Attempts)
    <3>1. n \in Nat
      BY <1>0
    <3>2. \A i \in 1..n : Attempt("resolution", c1, c2, i) \in Attempts
      BY AttemptIsOne
    <3> HIDE DEF n
    <3> QED BY <3>1, <3>2
  <2> HIDE DEF as
  <2>2. TryAll(pr, as) \in Provers(TrueClauses(H, V), m)
    BY <2>1, TryAllGood
  <2> QED BY <2>2 DEF try_all_resolutions, as
<1>2. try_all_paramodulations(pr, c1, c2) \in Provers(TrueClauses(H, V), m)
  <2> DEFINE n == Len(premises(clauses[c1]))
             as == [i \in 1..n |-> Attempt("paramodulation", c1, c2, i)]
  <2>1. as \in Seq(Attempts)
    <3>1. n \in Nat
      BY <1>0
    <3>2. \A i \in 1..n : Attempt("paramodulation", c1, c2, i) \in Attempts
      BY AttemptIsOne
    <3> HIDE DEF n
    <3> QED BY <3>1, <3>2
  <2> HIDE DEF as
  <2>2. TryAll(pr, as) \in Provers(TrueClauses(H, V), m)
    BY <2>1, TryAllGood
  <2> QED BY <2>2 DEF try_all_paramodulations, as
<1>3. try_factor(pr, c1) \in Provers(TrueClauses(H, V), m)
  <2> DEFINE p == Len(premises(clauses[c1]))
             n == (p * (p - 1)) \div 2
             as == [k \in 1..n |-> Attempt("factoring", c1, c1, k)]
  <2>1. as \in Seq(Attempts)
    <3>1. n \in Nat
      <4>1. p \in Nat
        BY <1>0
      <4>2. p * (p - 1) \in Nat
        <5> HIDE DEF p
        <5>1. CASE p = 0
          BY <5>1
        <5>2. CASE p > 0
          <6>1. p - 1 \in Nat
            BY <4>1, <5>2
          <6> QED BY <4>1, <6>1
        <5> QED BY <4>1, <5>1, <5>2
      <4> DEFINE pp == p * (p - 1)
      <4> HIDE DEF pp
      <4>3. pp \div 2 \in Nat
        BY <4>2 DEF pp
      <4> QED BY <4>3 DEF pp
    <3>2. \A k \in 1..n : Attempt("factoring", c1, c1, k) \in Attempts
      BY AttemptIsOne
    <3> HIDE DEF n
    <3> QED BY <3>1, <3>2
  <2> HIDE DEF as
  <2>2. TryAll(pr, as) \in Provers(TrueClauses(H, V), m)
    BY <2>1, TryAllGood
  <2> QED BY <2>2 DEF try_factor, as
<1> QED BY <1>1, <1>2, <1>3

LEMMA TryBothGood ==
  ASSUME NEW H, NEW V \in SUBSET Valuations, clauses \in Seq(TrueClauses(H, V)),
         NEW m \in Nat, NEW pr \in Provers(TrueClauses(H, V), m), NEW given \in DOMAIN clauses, NEW id \in DOMAIN clauses
  PROVE  TryBoth(pr, given, id) \in Provers(TrueClauses(H, V), m)
<1> DEFINE p1 == try_all_resolutions(pr, given, id)
           p2 == try_all_resolutions(p1, id, given)
           p3 == try_all_paramodulations(p2, given, id)
           p4 == try_all_paramodulations(p3, id, given)
           E == Provers(TrueClauses(H, V), m)
<1>1. p1 \in E
  BY TryOneGood
<1>2. p2 \in E
  <2> HIDE DEF p1
  <2> QED BY <1>1, TryOneGood
<1>3. p3 \in E
  <2> HIDE DEF p2
  <2> QED BY <1>2, TryOneGood
<1>4. p4 \in E
  <2> HIDE DEF p3
  <2> QED BY <1>3, TryOneGood
<1>5. TryBoth(pr, given, id) \in {pr, p4}
  BY DEF TryBoth
<1> QED BY <1>4, <1>5

LEMMA InferWithGood ==
  ASSUME NEW H, NEW V \in SUBSET Valuations, clauses \in Seq(TrueClauses(H, V)), active \in Seq(DOMAIN clauses),
         NEW m \in Nat, NEW pr \in Provers(TrueClauses(H, V), m), NEW given \in DOMAIN clauses
  PROVE  InferWith(given, pr) \in Provers(TrueClauses(H, V), m)
<1> DEFINE E == Provers(TrueClauses(H, V), m)
           others == Append(active, given)
           n == Len(others)
           Rhs(g) == [k \in 0..n |-> IF k = 0 THEN pr ELSE TryBoth(g[k - 1], given, others[k])]
           after == CHOOSE g : g = Rhs(g)
           step == [p \in (1..n) \X E |-> TryBoth(p[2], given, others[p[1]])]
<1>0. n \in Nat /\ \A k \in 1..n : others[k] \in DOMAIN clauses
  <2>1. others \in Seq(DOMAIN clauses)
    OBVIOUS
  <2> HIDE DEF others
  <2> QED BY <2>1
<1>2. InferWith(given, pr) = try_factor(after[n], given)
  BY DEF InferWith
<1> HIDE DEF n, others
<1>1. \A k \in 1..n, x \in E : TryBoth(x, given, others[k]) \in E
  BY <1>0, TryBothGood
<1>3. step \in [(1..n) \X E -> E]
  <2> HIDE DEF E
  <2> QED BY <1>1
<1>4. PICK f : Loop(n, E, pr, step, f)
  <2> HIDE DEF step, E
  <2>1. pr \in E
    BY DEF E
  <2> QED BY <1>0, <1>3, <2>1, LoopExists
<1>5. f = Rhs(f)
  <2> HIDE DEF E
  <2>1. f \in [0..n -> E] /\ f[0] = pr /\ \A k \in 1..n : f[k] = step[<<k, f[k - 1]>>]
    BY <1>4 DEF Loop
  <2>2. \A k \in 1..n : f[k - 1] \in E
    BY <1>0, <2>1
  <2>3. \A k \in 1..n : f[k] = TryBoth(f[k - 1], given, others[k])
    BY <1>0, <2>1, <2>2
  <2> QED BY <1>0, <2>1, <2>3
<1>6. after = Rhs(after)
  <2> HIDE DEF Rhs
  <2> QED BY <1>5
<1> HIDE DEF after
<1>7. after[0] = pr /\ \A k \in 1..n : after[k] = TryBoth(after[k - 1], given, others[k])
  <2> DEFINE F == [k \in 0..n |-> IF k = 0 THEN pr ELSE TryBoth(after[k - 1], given, others[k])]
  <2>1. after = F
    BY <1>6
  <2>2. F[0] = pr /\ \A k \in 1..n : F[k] = TryBoth(after[k - 1], given, others[k])
    <3>1. 0 \in 0..n /\ \A k \in 1..n : k \in 0..n /\ k # 0
      BY <1>0
    <3> QED BY <3>1
  <2> HIDE DEF F
  <2> QED BY <2>1, <2>2
<1> DEFINE G == {k \in 0..n : after[k] \in E}
<1>8. 0 \in G /\ \A k \in 1..n : k - 1 \in G => k \in G
  <2> HIDE DEF E
  <2>1. pr \in E
    BY DEF E
  <2>2. ASSUME NEW k \in 1..n, k - 1 \in G PROVE k \in G
    <3>1. after[k] \in E
      BY <1>1, <1>7, <2>2
    <3> QED BY <1>0, <3>1
  <2> QED BY <1>0, <1>7, <2>1, <2>2
<1>9. n \in G
  <2> HIDE DEF G
  <2> QED BY <1>0, <1>8, LoopInduction
<1>10. after[n] \in E
  BY <1>9
<1> QED BY <1>2, <1>10, TryOneGood
-----------------------------------------------------------------------------
(* The clauses of the negated goal. *)

Assumed(goal) == {Imp(goal, False)} \union {negated_clauses(goal)[i].prop : i \in DOMAIN negated_clauses(goal)}

\* What the assumptions on the problems say of a goal.
Deniable(goal) ==
  /\ goal \in Literals /\ Imp(goal, False) \in Literals
  /\ is_imp(goal) => Imp(consequent(goal), False) \in Literals

LEMMA ChainOfOne ==
  ASSUME NEW a \in Literals
  PROVE  ChainOf(<<a>>) = a
<1>1. a = [prems |-> a.prems, concl |-> a.concl] /\ a.prems \in Seq(Literals)
  BY LiteralsAssumption
<1>2. Front(<<a>>) = <<>> /\ Last(<<a>>) = a
  BY DEF Front, Last
<1>3. <<>> \o a.prems = a.prems
  BY <1>1
<1> QED BY <1>1, <1>2, <1>3 DEF ChainOf

LEMMA ChainOfTwo ==
  ASSUME NEW a \in Literals
  PROVE  ChainOf(<<a, False>>) = Imp(a, False)
<1> DEFINE s == <<a, False>>
<1>1. s \in Seq({a, False}) /\ Len(s) = 2 /\ s[1] = a /\ s[2] = False
  OBVIOUS
<1>2. <<a>> \in Seq({a, False}) /\ Len(<<a>>) = 1 /\ <<a>>[1] = a
  OBVIOUS
<1>3. SubSeq(s, 1, 1) = <<a>>
  <2> HIDE DEF s
  <2>1. SubSeq(s, 1, 1) \in Seq({a, False}) /\ Len(SubSeq(s, 1, 1)) = 1 /\ SubSeq(s, 1, 1)[1] = a
    BY <1>1
  <2> HIDE DEF s
  <2>2. \A i \in 1..1 : i = 1
    OBVIOUS
  <2> QED BY <1>2, <2>1, <2>2, SeqEqual
<1>4. Front(s) = <<a>> /\ Last(s) = False
  <2> HIDE DEF s
  <2> QED BY <1>1, <1>3 DEF Front, Last
<1> QED BY <1>4 DEF ChainOf, Imp

LEMMA DenialShape ==
  ASSUME NEW goal \in Literals
  PROVE  LET t == Imp(goal, False) IN t.prems = <<goal>> /\ t.concl = <<"False">>
BY DEF Imp, False, Literal

LEMMA NegatedImplication ==
  ASSUME NEW goal \in Literals, is_imp(goal)
  PROVE  negated_clauses(goal)
           = [k \in 1..2 |-> IF k = 1 THEN assume(ChainOf(<<antecedent(goal)>>))
                             ELSE assume(ChainOf(<<consequent(goal), False>>))]
<1> DEFINE t == Imp(goal, False)
           nested == {i \in DOMAIN t.prems : is_imp(t.prems[i])}
           Inner(k) == t.prems[CHOOSE i \in Nth(nested, k) : TRUE]
           cnf == [k \in 1..(2 * Cardinality(nested)) |->
                     IF k % 2 = 1 THEN <<antecedent(Inner((k + 1) \div 2))>>
                     ELSE <<consequent(Inner(k \div 2)), False>>]
           cnf2 == [k \in 1..2 |-> IF k = 1 THEN <<antecedent(goal)>> ELSE <<consequent(goal), False>>]
<1>1. t.prems = <<goal>> /\ t.concl = False.concl
  BY DenialShape DEF False, Literal
<1>2. nested = {1}
  <2> HIDE DEF t
  <2> QED BY <1>1
<1>3. Cardinality(nested) = 1
  BY <1>2, FS_Singleton
<1>4. Inner(1) = goal
  <2>1. \A i \in {1} : {j \in {1} : j < i} = {}
    OBVIOUS
  <2>2. Nth({1}, 1) = {1}
    BY <2>1, FS_EmptySet DEF Nth
  <2>3. (CHOOSE i \in {1} : TRUE) = 1
    OBVIOUS
  <2>4. Inner(1) = t.prems[1]
    <3> HIDE DEF t, nested
    <3> QED BY <1>2, <2>2, <2>3
  <2> QED BY <1>1, <2>4
<1>5. to_cnf(t) = cnf
  <2>1. t.concl = False.concl /\ nested # {}
    BY <1>1, <1>2
  <2> HIDE DEF t
  <2> QED BY <2>1 DEF to_cnf
<1> HIDE DEF t, nested
<1>6. cnf = cnf2
  <2>1. 2 * Cardinality(nested) = 2
    BY <1>3
  <2>2. \A k \in 1..2 : (k = 1 => k % 2 = 1 /\ (k + 1) \div 2 = 1) /\ (k # 1 => k % 2 # 1 /\ k \div 2 = 1)
    <3>1. ASSUME NEW k \in Nat, k = 1 PROVE k % 2 = 1
      BY <3>1, SMTT(30)
    <3>2. ASSUME NEW k \in Nat, k = 2 PROVE k % 2 # 1
      BY <3>2, SMTT(30)
    <3>3. ASSUME NEW k \in Nat, k = 2 PROVE k \div 2 = 1
      BY <3>3, SMTT(30)
    <3>4. \A k \in 1..2 : k \in Nat /\ (k = 1 \/ k = 2)
      BY SMTT(30)
    <3>5. \A k \in 1..2 : k = 1 => k + 1 = 2 /\ k + 1 \in Nat
      BY <3>4, SMTT(30)
    <3> QED BY <3>1, <3>2, <3>3, <3>4, <3>5
  <2> HIDE DEF Inner
  <2> QED BY <1>4, <2>1, <2>2
<1>7. negated_clauses(goal) = [i \in DOMAIN cnf2 |-> clause_to_thm(cnf2[i])]
  <2> HIDE DEF cnf, cnf2
  <2> QED BY <1>5, <1>6 DEF negated_clauses, t
<1> QED BY <1>7 DEF clause_to_thm

LEMMA AppendTwo ==
  ASSUME NEW a, NEW b
  PROVE  Append(<<a>>, b) = <<a, b>>
<1>1. <<a>> \in Seq({a, b}) /\ Len(<<a>>) = 1 /\ <<a>>[1] = a
  OBVIOUS
<1>2. <<a, b>> \in Seq({a, b}) /\ Len(<<a, b>>) = 2 /\ <<a, b>>[1] = a /\ <<a, b>>[2] = b
  OBVIOUS
<1>3. Append(<<a>>, b) \in Seq({a, b}) /\ Len(Append(<<a>>, b)) = 2
      /\ Append(<<a>>, b)[1] = a /\ Append(<<a>>, b)[2] = b
  BY <1>1
<1>4. \A i \in 1..2 : i = 1 \/ i = 2
  OBVIOUS
<1> QED BY <1>2, <1>3, <1>4, SeqEqual

LEMMA NegatedOther ==
  ASSUME NEW goal \in Literals, ~is_imp(goal)
  PROVE  negated_clauses(goal) = [k \in 1..1 |-> assume(ChainOf(<<goal, False>>))]
<1> DEFINE t == Imp(goal, False)
           nested == {i \in DOMAIN t.prems : is_imp(t.prems[i])}
<1>1. t.prems = <<goal>> /\ t.concl = <<"False">> /\ Literal(t.concl) = False
  BY DenialShape DEF False, Literal
<1>2. nested = {}
  <2> HIDE DEF t
  <2> QED BY <1>1
<1>3. to_cnf(t) = <<Append(t.prems, Literal(t.concl))>>
  <2>1. t.concl[1] # "conj"
    BY <1>1
  <2> HIDE DEF t
  <2> QED BY <1>2, <2>1 DEF to_cnf
<1>4. to_cnf(t) = << <<goal, False>> >>
  <2>1. Append(<<goal>>, False) = <<goal, False>>
    BY AppendTwo
  <2> HIDE DEF t
  <2> QED BY <1>1, <1>3, <2>1
<1>5. negated_clauses(goal) = [i \in 1..1 |-> clause_to_thm(<<goal, False>>)]
  BY <1>4 DEF negated_clauses
<1> QED BY <1>5 DEF clause_to_thm

LEMMA NegatedGoal ==
  ASSUME NEW goal, Deniable(goal)
  PROVE  /\ DOMAIN negated_clauses(goal) \in {1..1, 1..2}
         /\ \A i \in DOMAIN negated_clauses(goal) :
              LET t == negated_clauses(goal)[i].prop
              IN t \in Literals /\ negated_clauses(goal)[i] = assume(t)
         /\ Assumed(goal) \subseteq Literals
         /\ \A val \in Valuations : ~Holds(goal, val) => \A t \in Assumed(goal) : Holds(t, val)
<1> DEFINE nc == negated_clauses(goal)
<1>0. goal \in Literals /\ goal \in Props /\ Imp(goal, False) \in Literals
  BY LiteralIsProp DEF Deniable
<1>a. \A u : assume(u).prop = u
  BY DEF assume, Thm
<1>d. ASSUME NEW u \in Props, NEW val \in Valuations, ~Holds(u, val), u \in Literals
      PROVE  Holds(Imp(u, False), val)
  BY <1>d, IntroductionHolds, LiteralIsProp, HoldsLiteral
<1>1. CASE is_imp(goal)
  <2>1. nc = [k \in 1..2 |-> IF k = 1 THEN assume(antecedent(goal)) ELSE assume(Imp(consequent(goal), False))]
    <3>1. antecedent(goal) \in Literals /\ consequent(goal) \in Literals
      BY <1>0, <1>1, LiteralKinds, EliminationHolds
    <3> QED BY <1>0, <1>1, <3>1, NegatedImplication, ChainOfOne, ChainOfTwo
  <2>2. antecedent(goal) \in Literals /\ consequent(goal) \in Literals /\ Imp(consequent(goal), False) \in Literals
    BY <1>0, <1>1, LiteralKinds, EliminationHolds DEF Deniable
  <2>3. ASSUME NEW val \in Valuations, ~Holds(goal, val)
        PROVE  Holds(antecedent(goal), val) /\ Holds(Imp(consequent(goal), False), val)
    <3>1. ~Holds(consequent(goal), val)
      <4>1. SUFFICES ASSUME Holds(consequent(goal), val) PROVE Holds(goal, val)
        BY <2>3
      <4>2. goal.prems \in Seq(Literals) /\ goal.prems # <<>>
        BY <1>0, <1>1, LiteralKinds DEF is_imp
      <4>3. consequent(goal).prems = Tail(goal.prems) /\ consequent(goal).concl = goal.concl
        BY DEF consequent
      <4>4. SUFFICES ASSUME \A i \in DOMAIN goal.prems : val \in true_for[goal.prems[i]]
                     PROVE  val \in true_for[Literal(goal.concl)]
        BY DEF Holds
      <4>5. \A i \in DOMAIN Tail(goal.prems) : i + 1 \in DOMAIN goal.prems /\ Tail(goal.prems)[i] = goal.prems[i + 1]
        BY <4>2
      <4>6. \A i \in DOMAIN consequent(goal).prems : val \in true_for[consequent(goal).prems[i]]
        BY <4>3, <4>4, <4>5
      <4> QED BY <4>1, <4>3, <4>6 DEF Holds
    <3>2. val \in true_for[antecedent(goal)]
      <4>1. \A i \in DOMAIN goal.prems : val \in true_for[goal.prems[i]]
        BY <2>3 DEF Holds
      <4>2. 1 \in DOMAIN goal.prems /\ antecedent(goal) = goal.prems[1]
        BY <1>0, <1>1, LiteralKinds DEF is_imp, antecedent
      <4> QED BY <4>1, <4>2
    <3>3. Holds(Imp(consequent(goal), False), val)
      BY <1>d, <2>2, <3>1, LiteralIsProp
    <3> QED BY <2>2, <3>2, <3>3, HoldsLiteral
  <2>4. DOMAIN nc = 1..2 /\ nc[1] = assume(antecedent(goal)) /\ nc[2] = assume(Imp(consequent(goal), False))
    BY <2>1
  <2>5. Assumed(goal) = {Imp(goal, False), antecedent(goal), Imp(consequent(goal), False)}
    <3>1. \A i \in DOMAIN nc : i = 1 \/ i = 2
      BY <2>4
    <3>2. {1, 2} = DOMAIN nc
      BY <2>4
    <3>3. nc[1].prop = antecedent(goal) /\ nc[2].prop = Imp(consequent(goal), False)
      BY <1>a, <2>4
    <3> HIDE DEF nc
    <3>4. {nc[i].prop : i \in DOMAIN nc} = {antecedent(goal), Imp(consequent(goal), False)}
      BY <3>2, <3>3
    <3> QED BY <3>4 DEF Assumed, nc
  <2>6. \A i \in DOMAIN nc : nc[i].prop \in Literals /\ nc[i] = assume(nc[i].prop)
    <3>1. \A i \in DOMAIN nc : i = 1 \/ i = 2
      BY <2>4
    <3> HIDE DEF nc
    <3> QED BY <1>a, <2>2, <2>4, <3>1
  <2>7. \A val \in Valuations : ~Holds(goal, val) => \A t \in Assumed(goal) : Holds(t, val)
    BY <1>0, <1>d, <2>3, <2>5
  <2> QED BY <1>0, <2>2, <2>4, <2>5, <2>6, <2>7
<1>2. CASE ~is_imp(goal)
  <2>1. DOMAIN nc = 1..1 /\ nc[1] = assume(Imp(goal, False))
    <3>1. nc = [k \in 1..1 |-> assume(ChainOf(<<goal, False>>))]
      BY <1>0, <1>2, NegatedOther
    <3>2. ChainOf(<<goal, False>>) = Imp(goal, False)
      BY <1>0, ChainOfTwo
    <3>3. 1 \in 1..1
      OBVIOUS
    <3> HIDE DEF nc
    <3> QED BY <3>1, <3>2, <3>3
  <2>2. \A i \in DOMAIN nc : nc[i].prop \in Literals /\ nc[i] = assume(nc[i].prop)
    <3>1. \A i \in DOMAIN nc : i = 1
      BY <2>1
    <3> HIDE DEF nc
    <3> QED BY <1>0, <1>a, <2>1, <3>1
  <2>3. Assumed(goal) = {Imp(goal, False)}
    <3>1. DOMAIN nc = {1} /\ nc[1].prop = Imp(goal, False)
      BY <1>a, <2>1
    <3> HIDE DEF nc
    <3> QED BY <3>1 DEF Assumed, nc
  <2>4. \A val \in Valuations : ~Holds(goal, val) => \A t \in Assumed(goal) : Holds(t, val)
    BY <1>0, <1>d, <2>3
  <2> QED BY <1>0, <2>1, <2>2, <2>3, <2>4
<1> QED BY <1>1, <1>2
-----------------------------------------------------------------------------
(* A proof from outside is replayed with the same rules. *)

LEMMA FirstOfOne ==
  ASSUME NEW C, NEW results \in Seq(SUBSET C)
  PROVE  FirstOf(results) \subseteq C
<1> DEFINE some == {i \in DOMAIN results : results[i] # {}}
<1>1. some \subseteq Nat /\ some \subseteq DOMAIN results /\ \A i \in DOMAIN results : results[i] \subseteq C
  OBVIOUS
<1>2. CASE some = {}
  BY <1>2 DEF FirstOf
<1>3. CASE some # {}
  <2>1. First(some) \in some
    <3> HIDE DEF some
    <3> QED BY <1>1, <1>3, FirstIsOne
  <2>2. results[First(some)] \subseteq C
    BY <1>1, <2>1
  <2> QED BY <1>3, <2>2 DEF FirstOf
<1> QED BY <1>2, <1>3

LEMMA ReplayRulesTrue ==
  ASSUME NEW H, NEW V \in SUBSET Valuations, NEW th1 \in TrueClauses(H, V), NEW th2 \in TrueClauses(H, V)
  PROVE  /\ resolution(th1, th2) \subseteq TrueClauses(H, V)
         /\ paramodulation(th1, th2) \subseteq TrueClauses(H, V)
         /\ factoring(th1) \subseteq TrueClauses(H, V)
         /\ subst_premise(th1, th2, 1) \subseteq TrueClauses(H, V)
<1> DEFINE C == TrueClauses(H, V)
           n1 == Len(premises(th1))
           n2 == Len(premises(th2))
<1>1. n1 \in Nat /\ n2 \in Nat /\ DOMAIN premises(th1) = 1..n1 /\ DOMAIN premises(th2) = 1..n2
  <2>1. premises(th1) \in Seq(Literals) /\ premises(th2) \in Seq(Literals)
    BY TheoremParts DEF TrueClauses
  <2> QED BY <2>1
<1>2. resolution(th1, th2) \subseteq C
  <2> DEFINE x == [i \in 1..n2 |-> bicompose(th1, th2, i)]
             y == [i \in 1..n1 |-> bicompose(th2, th1, i)]
  <2>1. \A i \in 1..n2 : bicompose(th1, th2, i) \subseteq C
    BY BicomposeTrue
  <2>2. \A i \in 1..n1 : bicompose(th2, th1, i) \subseteq C
    BY BicomposeTrue
  <2> HIDE DEF C, n1, n2
  <2>3. x \in Seq(SUBSET C) /\ y \in Seq(SUBSET C)
    BY <1>1, <2>1, <2>2
  <2>4. resolution(th1, th2) = FirstOf(x \o y)
    BY <1>1 DEF resolution
  <2> HIDE DEF x, y
  <2>5. x \o y \in Seq(SUBSET C)
    BY <2>3
  <2> QED BY <2>4, <2>5, FirstOfOne
<1>3. subst_premise(th1, th2, 1) \subseteq C
  <2>1. CASE n2 = 0
    BY <1>1, <2>1 DEF subst_premise
  <2>2. CASE n2 # 0
    <3>1. 1 \in 1..n2
      BY <1>1, <2>2
    <3> QED BY <3>1, SubstPremiseTrue
  <2> QED BY <2>1, <2>2
<1>4. paramodulation(th1, th2) \subseteq C
  <2> DEFINE x == [i \in 1..n2 |-> subst_premise(th1, th2, i)]
  <2>1. \A i \in 1..n2 : subst_premise(th1, th2, i) \subseteq C
    BY SubstPremiseTrue
  <2>2. paramodulation(th1, th2) \in {FirstOf(x), {}}
    BY <1>1 DEF paramodulation
  <2> HIDE DEF C, n1, n2
  <2>3. x \in Seq(SUBSET C)
    BY <1>1, <2>1
  <2> HIDE DEF x
  <2> QED BY <2>2, <2>3, FirstOfOne
<1>5. factoring(th1) \subseteq C
  <2> DEFINE m == n1 - 1
             x == [j \in 1..m |-> bicompose(th1, th1, j + 1)]
  <2>1. \A j \in 1..m : bicompose(th1, th1, j + 1) \subseteq C
    <3> SUFFICES ASSUME NEW j \in 1..m PROVE bicompose(th1, th1, j + 1) \subseteq C
      OBVIOUS
    <3>1. j + 1 \in 1..n1
      BY <1>1
    <3> DEFINE i == j + 1
    <3> HIDE DEF i
    <3>2. bicompose(th1, th1, i) \subseteq C
      BY <3>1, BicomposeTrue DEF i
    <3> QED BY <3>2 DEF i
  <2>2. factoring(th1) = FirstOf(x)
    BY DEF factoring
  <2> HIDE DEF C
  <2>3. x \in Seq(SUBSET C)
    <3>1. CASE n1 = 0
      <4>1. 1..m = {}
        BY <3>1
      <4> HIDE DEF m
      <4>2. x = <<>>
        BY <4>1
      <4> HIDE DEF x
      <4> QED BY <4>2
    <3>2. CASE n1 # 0
      <4>1. m \in Nat
        BY <1>1, <3>2
      <4> HIDE DEF m
      <4> QED BY <2>1, <4>1
    <3> QED BY <3>1, <3>2
  <2> HIDE DEF x
  <2> QED BY <2>2, <2>3, FirstOfOne
<1> QED BY <1>2, <1>3, <1>4, <1>5

LEMMA ReplayTrue ==
  ASSUME NEW H, NEW V \in SUBSET Valuations, NEW firsts \in SUBSET TrueClauses(H, V),
         NEW seconds \in SUBSET TrueClauses(H, V), NEW rule
  PROVE  /\ replay_rule(rule, firsts, seconds) \subseteq TrueClauses(H, V)
         /\ reconstruct_rule(rule, firsts, seconds) \subseteq TrueClauses(H, V)
<1> DEFINE C == TrueClauses(H, V)
<1>1. \A th1 \in firsts, th2 \in seconds : resolution(th1, th2) \subseteq C
  BY ReplayRulesTrue
<1>2. \A th1 \in firsts, th2 \in seconds : paramodulation(th1, th2) \subseteq C
  BY ReplayRulesTrue
<1>3. \A th1 \in firsts : factoring(th1) \subseteq C
  BY ReplayRulesTrue
<1>4. \A th1 \in firsts, th2 \in seconds : subst_premise(th1, th2, 1) \subseteq C
  BY ReplayRulesTrue
<1>5. \A th1 \in firsts, th2 \in seconds : implies_elim(th1, th2) \subseteq C
  BY ElimTrue
<1> HIDE DEF C
<1>f. firsts \subseteq C
  BY DEF C
<1>6. replay_rule(rule, firsts, seconds) \subseteq C
  <2>1. CASE rule = "resolution" /\ seconds # {}
    BY <1>1, <2>1 DEF replay_rule
  <2>2. CASE rule = "paramodulation" /\ seconds # {}
    BY <1>2, <2>2 DEF replay_rule
  <2>3. CASE rule = "factoring"
    BY <1>3, <2>3 DEF replay_rule
  <2>4. CASE ~(rule = "resolution" /\ seconds # {}) /\ ~(rule = "paramodulation" /\ seconds # {}) /\ rule # "factoring"
    BY <1>f, <2>4 DEF replay_rule
  <2> QED BY <2>1, <2>2, <2>3, <2>4
<1>7. reconstruct_rule(rule, firsts, seconds) \subseteq C
  <2>1. CASE rule = "resolution" /\ seconds # {}
    BY <1>5, <2>1 DEF reconstruct_rule
  <2>2. CASE rule = "paramodulation" /\ seconds # {}
    BY <1>4, <2>2 DEF reconstruct_rule
  <2>4. CASE ~(rule = "resolution" /\ seconds # {}) /\ ~(rule = "paramodulation" /\ seconds # {})
    BY <1>f, <2>4 DEF reconstruct_rule
  <2> QED BY <2>1, <2>2, <2>4
<1> QED BY <1>6, <1>7 DEF C

LEMMA DischargeTrue ==
  ASSUME NEW goal, Deniable(goal), NEW V \in SUBSET Valuations, NEW th \in TrueClauses(Assumed(goal), V)
  PROVE  discharge(th, goal) \in TrueClauses(Assumed(goal), V)
<1> DEFINE negated == negated_clauses(goal)
           H == Assumed(goal)
           props == [i \in DOMAIN negated |-> negated[i].prop]
           candidates == <<Imp(goal, False)>> \o props
           used == {i \in DOMAIN candidates : candidates[i] \in th.hyps}
<1>1. DOMAIN negated \in {1..1, 1..2} /\ H \subseteq Literals
  BY NegatedGoal
<1>2. props \in Seq(H)
  <2>1. \A i \in DOMAIN negated : negated[i].prop \in H
    BY DEF Assumed
  <2> HIDE DEF negated, H
  <2> QED BY <1>1, <2>1
<1>3. candidates \in Seq(H)
  <2>1. Imp(goal, False) \in H
    BY DEF Assumed
  <2>2. <<Imp(goal, False)>> \in Seq(H)
    BY <2>1
  <2> HIDE DEF props, H
  <2> QED BY <1>2, <2>2
<1>4. discharge(th, goal) = IF used = {} THEN th
                            ELSE CHOOSE r \in implies_intr(candidates[First(used)], th) : TRUE
  BY DEF discharge
<1> HIDE DEF candidates
<1>5. CASE used # {}
  <2> DEFINE t == candidates[First(used)]
  <2>1. used \subseteq Nat /\ used \subseteq DOMAIN candidates
    BY <1>3
  <2>2. First(used) \in used
    <3> HIDE DEF used
    <3> QED BY <1>5, <2>1, FirstIsOne
  <2>3. t \in th.hyps /\ t \in Literals
    BY <1>1, <1>3, <2>1, <2>2
  <2> HIDE DEF t, used
  <2>4. H \union {t} = H
    <3>1. th.hyps \subseteq H
      BY DEF TrueClauses
    <3> QED BY <2>3, <3>1
  <2>5. implies_intr(t, th) \subseteq TrueClauses(H, V)
    BY <2>3, <2>4, IntrTrue
  <2>6. implies_intr(t, th) # {}
    BY <2>3 DEF implies_intr
  <2> QED BY <1>4, <1>5, <2>5, <2>6 DEF t
<1>6. CASE used = {}
  BY <1>4, <1>6
<1> QED BY <1>5, <1>6
-----------------------------------------------------------------------------
(* The invariant. *)

ModelsOf(pb) == {val \in Valuations : \A i \in DOMAIN pb.premises : Holds(pb.premises[i], val)}
Good(pb) == TrueClauses(Assumed(pb.goal), ModelsOf(pb))
ProofStep == [name : Nat, rule : STRING, uses : Seq(Nat)]

SearchInv ==
  /\ clauses \in Seq(Good(problem)) /\ active \in Seq(DOMAIN clauses)
  /\ passive \in SUBSET DOMAIN clauses /\ steps \in Nat
ReplayInv ==
  /\ script \in Seq(ProofStep) /\ at \in Nat
  /\ proven \in Seq([name : Nat, thm : Good(problem)]) /\ (at > 0 => proven # <<>>)
  /\ metis \in {"replaying", "reconstructing"} => script # <<>>
ProblemInv ==
  /\ metis \in {"idle", "proving", "refuted", "replaying", "reconstructing", "given up", "returned"}
  /\ problem.premises \in Seq(Literals)
  /\ metis # "idle" => Deniable(problem.goal)
  /\ metis = "idle" => clauses = <<>> /\ active = <<>> /\ proven = <<>>
AnswerInv ==
  /\ metis = "refuted" => Contradictions # {}
  /\ metis = "returned" => returned \in Good(problem)
EntailedInv == ProblemInv /\ SearchInv /\ ReplayInv /\ AnswerInv

LEMMA GoodIsTrue ==
  ASSUME ProblemInv
  PROVE  /\ Models = ModelsOf(problem) /\ ModelsOf(problem) \in SUBSET Valuations
         /\ \A th \in Good(problem), val \in Models : ThmTrue(th, val)
BY DEF Models, ModelsOf, Good, TrueClauses

\* A problem of the model is one the invariant can start from.
LEMMA ProblemParts ==
  ASSUME NEW pb \in Problems
  PROVE  /\ pb.premises \in Seq(Literals) /\ Deniable(pb.goal)
         /\ \A sc \in pb.proofs : sc \in Seq(ProofStep)
BY ProblemsAssumption DEF Deniable, ProofStep

\* The premises, as theorems and by name.
LEMMA PremisesOfGood ==
  ASSUME NEW pb, pb.premises \in Seq(Literals)
  PROVE  /\ PremiseThms(pb) \in Seq(Good(pb))
         /\ NamedPremises(pb) \in Seq([name : Nat, thm : Good(pb)])
<1> DEFINE V == ModelsOf(pb)
           H == Assumed(pb.goal)
           n == Len(pb.premises)
<1>1. pb.premises \in Seq(Literals) /\ n \in Nat /\ DOMAIN pb.premises = 1..n
  OBVIOUS
<1>2. ASSUME NEW i \in 1..n PROVE Thm({}, pb.premises[i]) \in Good(pb)
  <2> DEFINE p == pb.premises[i]
             th == Thm({}, p)
  <2>1. p \in Props
    BY <1>1, LiteralIsProp
  <2>2. th \in Theorems /\ th.hyps = {} /\ th.prop = p
    <3> HIDE DEF p
    <3> QED BY <2>1, ThmIsTheorem
  <2>3. \A val \in V : Holds(p, val)
    BY <1>1 DEF ModelsOf
  <2> HIDE DEF th, p
  <2>4. th \in TrueClauses(H, V)
    BY <2>2, <2>3 DEF TrueClauses, ThmTrue
  <2> QED BY <2>4 DEF Good, th, p
<1>3. PremiseThms(pb) \in Seq(Good(pb))
  <2>1. PremiseThms(pb) = [i \in 1..n |-> Thm({}, pb.premises[i])]
    BY <1>1 DEF PremiseThms
  <2> QED BY <1>1, <1>2, <2>1
<1>4. NamedPremises(pb) \in Seq([name : Nat, thm : Good(pb)])
  <2> DEFINE named(i) == [name |-> i, thm |-> Thm({}, pb.premises[i])]
             N == [name : Nat, thm : Good(pb)]
  <2>1. NamedPremises(pb) = [i \in 1..n |-> named(i)]
    BY <1>1 DEF NamedPremises
  <2>2. \A i \in 1..n : named(i) \in N
    BY <1>2
  <2> HIDE DEF named, N, n
  <2>3. NamedPremises(pb) \in Seq(N)
    BY <1>1, <2>1, <2>2
  <2> QED BY <2>3 DEF N
<1> QED BY <1>3, <1>4

LEMMA PremisesGood ==
  ASSUME NEW pb \in Problems
  PROVE  /\ PremiseThms(pb) \in Seq(Good(pb))
         /\ negated_clauses(pb.goal) \in Seq(Good(pb))
         /\ assume(Imp(pb.goal, False)) \in Good(pb)
         /\ NamedPremises(pb) \in Seq([name : Nat, thm : Good(pb)])
<1> DEFINE V == ModelsOf(pb)
           H == Assumed(pb.goal)
           nc == negated_clauses(pb.goal)
<1>1. pb.premises \in Seq(Literals) /\ Deniable(pb.goal)
  BY ProblemParts
<1>2. PremiseThms(pb) \in Seq(Good(pb)) /\ NamedPremises(pb) \in Seq([name : Nat, thm : Good(pb)])
  BY <1>1, PremisesOfGood
<1>5. \A t \in H : t \in Literals /\ assume(t) \in TrueClauses(H, V)
  BY <1>1, NegatedGoal, LiteralIsProp, AssumeTrue
<1>6. assume(Imp(pb.goal, False)) \in Good(pb)
  BY <1>5 DEF Good, Assumed
<1>7. nc \in Seq(Good(pb))
  <2>1. \A i \in DOMAIN nc : nc[i].prop \in H
    BY DEF Assumed
  <2>2. \A i \in DOMAIN nc : nc[i] = assume(nc[i].prop)
    BY <1>1, NegatedGoal
  <2>3. \A i \in DOMAIN nc : nc[i] \in Good(pb)
    <3> HIDE DEF nc, H, V
    <3> QED BY <1>5, <2>1, <2>2 DEF Good, H, V
  <2>4. DOMAIN nc \in {1..1, 1..2} /\ nc = [i \in DOMAIN nc |-> nc[i]]
    <3>1. DOMAIN nc \in {1..1, 1..2}
      BY <1>1, NegatedGoal
    <3>2. nc = [i \in DOMAIN nc |-> nc[i]]
      BY DEF negated_clauses
    <3> QED BY <3>1, <3>2
  <2> DEFINE m == IF DOMAIN nc = 1..1 THEN 1 ELSE 2
  <2>5. m \in Nat /\ DOMAIN nc = 1..m
    BY <2>4
  <2> HIDE DEF nc, m
  <2> QED BY <2>3, <2>4, <2>5
<1> QED BY <1>2, <1>6, <1>7

LEMMA StartGood ==
  ASSUME NEW pb \in Problems, NEW ths \in Seq(Good(pb))
  PROVE  AddAll(NewProver, ths) \in Provers(Good(pb), 0)
<1>1. NewProver \in Provers(Good(pb), 0)
  <2> DEFINE none == <<>>
  <2>1. none \in Seq(Good(pb)) /\ {} \subseteq DOMAIN none /\ 0 <= Len(none) /\ 0 \in Nat
    OBVIOUS
  <2>2. NewProver = [clauses |-> none, passive |-> {}, steps |-> 0]
    BY DEF NewProver
  <2> HIDE DEF none
  <2> QED BY <2>1, <2>2, ProverParts
<1> QED BY <1>1, AddAllGood

LEMMA ProverBecomes ==
  ASSUME NEW C, NEW n \in Nat, NEW pr \in Provers(C, n), Becomes(pr)
  PROVE  clauses' \in Seq(C) /\ passive' \in SUBSET DOMAIN clauses' /\ steps' \in Nat /\ n <= Len(clauses')
BY DEF Provers, Becomes

\* Whatever a problem starts with, the invariant holds.
LEMMA StartingInv ==
  ASSUME EntailedInv, metis = "idle", NEW pb \in Problems, problem' = pb, StartProving(pb),
         UNCHANGED <<active, script, at, proven, returned>>
  PROVE  EntailedInv'
<1> DEFINE ths == PremiseThms(pb) \o negated_clauses(pb.goal)
<1>1. ths \in Seq(Good(pb))
  <2>1. PremiseThms(pb) \in Seq(Good(pb)) /\ negated_clauses(pb.goal) \in Seq(Good(pb))
    BY PremisesGood
  <2> QED BY <2>1
<1>2. AddAll(NewProver, ths) \in Provers(Good(pb), 0) /\ Becomes(AddAll(NewProver, ths)) /\ metis' = "proving"
  <2>1. Becomes(AddAll(NewProver, ths)) /\ metis' = "proving"
    BY DEF StartProving
  <2> HIDE DEF ths
  <2> QED BY <1>1, <2>1, StartGood
<1> HIDE DEF ths
<1>3. clauses' \in Seq(Good(pb)) /\ passive' \in SUBSET DOMAIN clauses' /\ steps' \in Nat
  BY <1>2, ProverBecomes
<1>4. active = <<>> /\ proven = <<>> /\ script \in Seq(ProofStep) /\ at \in Nat /\ (at > 0 => proven # <<>>)
  BY DEF EntailedInv, ProblemInv, ReplayInv
<1>5. SearchInv'
  BY <1>3, <1>4 DEF SearchInv
<1>6. ReplayInv'
  <2>1. proven' \in Seq([name : Nat, thm : Good(pb)])
    BY <1>4
  <2> QED BY <1>2, <1>4, <2>1 DEF ReplayInv
<1>7. ProblemInv' /\ AnswerInv'
  BY <1>2, ProblemParts DEF ProblemInv, AnswerInv
<1> QED BY <1>5, <1>6, <1>7 DEF EntailedInv
LEMMA EntailedInit == MetisInit => EntailedInv
<1> SUFFICES ASSUME MetisInit PROVE EntailedInv
  OBVIOUS
<1> DEFINE none == <<>>
<1>1. \A C : none \in Seq(C)
  OBVIOUS
<1>2. ProblemInv
  BY <1>1 DEF MetisInit, ProblemInv
<1>3. SearchInv
  BY <1>1 DEF MetisInit, SearchInv
<1>4. ReplayInv
  BY <1>1 DEF MetisInit, ReplayInv
<1>5. AnswerInv
  BY DEF MetisInit, AnswerInv
<1> QED BY <1>2, <1>3, <1>4, <1>5 DEF EntailedInv

LEMMA AtpStartInv ==
  ASSUME EntailedInv, metis = "idle", NEW pb \in Problems, NEW sc \in pb.proofs, reconstruct_atp_proof(pb, sc)
  PROVE  EntailedInv'
<1>0. problem' = pb /\ UNCHANGED <<active, script, at, proven, returned>>
  BY DEF reconstruct_atp_proof
<1>1. CASE sc = <<>>
  <2>1. StartProving(pb)
    BY <1>1 DEF reconstruct_atp_proof
  <2> QED BY <1>0, <2>1, StartingInv
<1>2. CASE sc # <<>>
  <2> DEFINE ths == Append(PremiseThms(pb), assume(Imp(pb.goal, False)))
  <2>1. ths \in Seq(Good(pb))
    <3>1. PremiseThms(pb) \in Seq(Good(pb)) /\ assume(Imp(pb.goal, False)) \in Good(pb)
      BY PremisesGood
    <3> QED BY <3>1
  <2>2. Becomes(AddAll(NewProver, ths)) /\ metis' = "proving"
    BY <1>2 DEF reconstruct_atp_proof
  <2> HIDE DEF ths
  <2>3. clauses' \in Seq(Good(pb)) /\ passive' \in SUBSET DOMAIN clauses' /\ steps' \in Nat
    BY <2>1, <2>2, StartGood, ProverBecomes
  <2>4. active = <<>> /\ proven = <<>> /\ script \in Seq(ProofStep) /\ at \in Nat /\ (at > 0 => proven # <<>>)
    BY DEF EntailedInv, ProblemInv, ReplayInv
  <2>5. SearchInv'
    BY <1>0, <2>3, <2>4 DEF SearchInv
  <2>6. ReplayInv'
    <3>1. proven' \in Seq([name : Nat, thm : Good(pb)])
      BY <1>0, <2>4
    <3> QED BY <1>0, <2>2, <2>4, <3>1 DEF ReplayInv
  <2>7. ProblemInv' /\ AnswerInv'
    BY <1>0, <2>2, ProblemParts DEF ProblemInv, AnswerInv
  <2> QED BY <2>5, <2>6, <2>7 DEF EntailedInv
<1> QED BY <1>1, <1>2

\* What a reconstruction starts with.
LEMMA StepsInv ==
  ASSUME NEW pb, problem' = pb, NEW how \in {"replaying", "reconstructing"},
         NEW sc \in Seq(ProofStep), sc # <<>>, StartSteps(pb, sc, how),
         NamedPremises(pb) \in Seq([name : Nat, thm : Good(pb)])
  PROVE  ReplayInv' /\ AnswerInv' /\ metis' = how
BY DEF StartSteps, ReplayInv, AnswerInv

LEMMA AtpReplayInv ==
  ASSUME EntailedInv, metis = "idle", NEW pb \in Problems, NEW sc \in pb.proofs, reconstruct_from_atp(pb, sc)
  PROVE  EntailedInv'
<1>0. problem' = pb /\ UNCHANGED <<active, returned>>
  BY DEF reconstruct_from_atp
<1>1. CASE sc = <<>>
  <2>1. StartProving(pb) /\ UNCHANGED <<script, at, proven>>
    BY <1>1 DEF reconstruct_from_atp
  <2> QED BY <1>0, <2>1, StartingInv
<1>2. CASE sc # <<>>
  <2>1. StartSteps(pb, sc, "replaying") /\ UNCHANGED <<clauses, passive, steps>>
    BY <1>2 DEF reconstruct_from_atp
  <2>2. sc \in Seq(ProofStep) /\ pb.premises \in Seq(Literals) /\ Deniable(pb.goal)
    BY ProblemParts
  <2>3. ReplayInv' /\ AnswerInv' /\ metis' = "replaying"
    BY <1>0, <1>2, <2>1, <2>2, PremisesGood, StepsInv
  <2>4. clauses = <<>> /\ active = <<>> /\ passive \in SUBSET DOMAIN clauses /\ steps \in Nat
    BY DEF EntailedInv, ProblemInv, SearchInv
  <2>5. SearchInv'
    BY <1>0, <2>1, <2>4 DEF SearchInv
  <2>6. ProblemInv'
    BY <1>0, <2>2, <2>3 DEF ProblemInv
  <2> QED BY <2>3, <2>5, <2>6 DEF EntailedInv
<1> QED BY <1>1, <1>2

LEMMA GivenClauseInv ==
  ASSUME EntailedInv, NEW given \in passive, given_clause(given)
  PROVE  EntailedInv'
<1> DEFINE C == Good(problem)
           n == Len(clauses)
           taken == [Prover EXCEPT !.passive = @ \ {given}]
           pr == InferWith(given, Tried(taken))
<1>0. UNCHANGED <<problem, script, at, proven, returned>> /\ active' = Append(active, given) /\ metis = "proving"
  BY DEF given_clause
<1>1. /\ clauses \in Seq(C) /\ active \in Seq(DOMAIN clauses) /\ passive \in SUBSET DOMAIN clauses
      /\ steps \in Nat /\ n \in Nat /\ given \in DOMAIN clauses
  BY DEF EntailedInv, SearchInv
<1>2. taken \in Provers(C, n)
  <2> DEFINE rest == passive \ {given}
  <2>1. taken = [clauses |-> clauses, passive |-> rest, steps |-> steps]
    BY DEF Prover
  <2>2. rest \subseteq DOMAIN clauses /\ n <= Len(clauses)
    BY <1>1
  <2> HIDE DEF rest, taken, C
  <2> QED BY <1>1, <2>1, <2>2, ProverParts
<1>3. Tried(taken) \in Provers(C, n)
  <2> HIDE DEF taken, C, n
  <2> QED BY <1>1, <1>2, TriedGood
<1>4. pr \in Provers(C, n)
  <2> DEFINE H == Assumed(problem.goal)
             V == ModelsOf(problem)
  <2>1. C = TrueClauses(H, V) /\ V \in SUBSET Valuations
    BY DEF Good, ModelsOf
  <2> HIDE DEF H, V, C, taken
  <2> QED BY <1>1, <1>3, <2>1, InferWithGood
<1>5. /\ Becomes(pr)
      /\ metis' = IF \E i \in DOMAIN pr.clauses : IsContradiction(pr.clauses[i]) THEN "refuted"
                  ELSE IF Len(pr.clauses) > max_clauses THEN "given up"
                  ELSE "proving"
  BY DEF given_clause
<1> HIDE DEF pr, taken
<1>6. clauses' \in Seq(C) /\ passive' \in SUBSET DOMAIN clauses' /\ steps' \in Nat /\ n <= Len(clauses')
  BY <1>1, <1>4, <1>5, ProverBecomes
<1>7. active' \in Seq(DOMAIN clauses')
  <2>1. DOMAIN clauses = 1..n /\ DOMAIN clauses' = 1..Len(clauses') /\ Len(clauses') \in Nat
    BY <1>1, <1>6
  <2>2. DOMAIN clauses \subseteq DOMAIN clauses'
    BY <1>1, <1>6, <2>1
  <2>3. active \in Seq(DOMAIN clauses') /\ given \in DOMAIN clauses'
    <3> HIDE DEF n
    <3> QED BY <1>1, <2>2
  <2> QED BY <1>0, <2>3
<1>8. SearchInv'
  BY <1>0, <1>6, <1>7 DEF SearchInv
<1>9. metis' \in {"proving", "refuted", "given up"}
  BY <1>5
<1>10. ReplayInv'
  <2>1. ReplayInv /\ Good(problem)' = Good(problem')
    BY DEF EntailedInv, Good, TrueClauses, ModelsOf, Assumed, Theorems
  <2> QED BY <1>0, <1>9, <2>1 DEF ReplayInv
<1>11. ProblemInv'
  BY <1>0, <1>9 DEF EntailedInv, ProblemInv
<1>12. AnswerInv'
  <2>1. metis' = "refuted" => \E i \in DOMAIN pr.clauses : IsContradiction(pr.clauses[i])
    BY <1>5
  <2>2. clauses' = pr.clauses
    BY <1>5 DEF Becomes
  <2>3. Contradictions' = {i \in DOMAIN clauses' : IsContradiction(clauses'[i])}
    BY DEF Contradictions, IsContradiction
  <2>4. metis' = "refuted" => Contradictions' # {}
    BY <2>1, <2>2, <2>3
  <2>5. metis' # "returned"
    BY <1>9
  <2> QED BY <2>4, <2>5 DEF AnswerInv
<1> QED BY <1>8, <1>10, <1>11, <1>12 DEF EntailedInv
LEMMA EndLoopInv ==
  ASSUME EntailedInv, end_loop
  PROVE  EntailedInv'
<1>1. UNCHANGED <<problem, clauses, active, passive, steps, script, at, proven, returned>>
  BY DEF end_loop
<1>2. metis = "proving" /\ metis' \in {"refuted", "given up"} /\ (metis' = "refuted" => Contradictions # {})
  BY DEF end_loop
<1>3. SearchInv'
  BY <1>1 DEF EntailedInv, SearchInv
<1>4. ReplayInv'
  BY <1>1, <1>2 DEF EntailedInv, ReplayInv
<1>5. ProblemInv'
  BY <1>1, <1>2 DEF EntailedInv, ProblemInv
<1>6. AnswerInv'
  BY <1>1, <1>2 DEF AnswerInv, Contradictions
<1> QED BY <1>3, <1>4, <1>5, <1>6 DEF EntailedInv

LEMMA ExtractInv ==
  ASSUME EntailedInv, extract_proof
  PROVE  EntailedInv'
<1>1. UNCHANGED <<problem, clauses, active, passive, steps, script, at, proven>>
  BY DEF extract_proof
<1>2. metis = "refuted" /\ metis' = "returned"
      /\ returned' = discharge(clauses[First(Contradictions)], problem.goal)
  BY DEF extract_proof
<1>3. SearchInv'
  BY <1>1 DEF EntailedInv, SearchInv
<1>4. ReplayInv'
  BY <1>1, <1>2 DEF EntailedInv, ReplayInv
<1>5. ProblemInv'
  BY <1>1, <1>2 DEF EntailedInv, ProblemInv
<1>6. First(Contradictions) \in DOMAIN clauses
  <2>1. Contradictions # {} /\ Contradictions \subseteq DOMAIN clauses /\ clauses \in Seq(Good(problem))
    BY <1>2 DEF EntailedInv, AnswerInv, SearchInv, Contradictions
  <2>2. Contradictions \subseteq Nat
    BY <2>1
  <2> QED BY <2>1, <2>2, FirstIsOne
<1>7. returned' \in Good(problem)
  <2> DEFINE th == clauses[First(Contradictions)]
  <2>1. th \in Good(problem) /\ Deniable(problem.goal)
    BY <1>2, <1>6 DEF EntailedInv, SearchInv, ProblemInv
  <2>2. ModelsOf(problem) \in SUBSET Valuations
    BY DEF ModelsOf
  <2> HIDE DEF th
  <2>3. discharge(th, problem.goal) \in Good(problem)
    BY <2>1, <2>2, DischargeTrue DEF Good
  <2> QED BY <1>2, <2>3 DEF th
<1>8. AnswerInv'
  BY <1>1, <1>2, <1>7 DEF AnswerInv
<1> QED BY <1>3, <1>4, <1>5, <1>8 DEF EntailedInv

\* What is left when only the replay moves on.
LEMMA ReplayMoves ==
  ASSUME EntailedInv, UNCHANGED <<problem, clauses, active, passive, steps>>,
         metis \in {"replaying", "reconstructing"},
         metis' \in {"replaying", "reconstructing", "given up", "returned"}
  PROVE  ProblemInv' /\ SearchInv'
BY DEF EntailedInv, ProblemInv, SearchInv

LEMMA NamedElements ==
  ASSUME NEW N, NEW s \in Seq(N), NEW i \in DOMAIN s
  PROVE  s[i] \in N
OBVIOUS

LEMMA UsedGood ==
  ASSUME ReplayInv, NEW step \in ProofStep, NEW n \in Nat
  PROVE  Used(step, n) \in SUBSET Good(problem)
<1>1. proven \in Seq([name : Nat, thm : Good(problem)])
  BY DEF ReplayInv
<1>2. ASSUME NEW nm, Known(nm) # {} PROVE proven[First(Known(nm))].thm \in Good(problem)
  <2>1. Known(nm) \subseteq DOMAIN proven
    BY DEF Known
  <2>2. Known(nm) \subseteq Nat
    BY <1>1, <2>1
  <2>3. First(Known(nm)) \in DOMAIN proven
    BY <1>2, <2>1, <2>2, FirstIsOne
  <2>4. proven[First(Known(nm))] \in [name : Nat, thm : Good(problem)]
    BY <1>1, <2>3, NamedElements
  <2> QED BY <2>4
<1> DEFINE known == {i \in DOMAIN step.uses : Known(step.uses[i]) # {}}
<1>3. Nth(known, n) \subseteq known
  BY DEF Nth
<1>4. \A i \in known : proven[First(Known(step.uses[i]))].thm \in Good(problem)
  BY <1>2
<1>5. Used(step, n) = {proven[First(Known(step.uses[i]))].thm : i \in Nth(known, n)}
  BY DEF Used
<1> HIDE DEF known
<1> QED BY <1>3, <1>4, <1>5

LEMMA NextStepGood ==
  ASSUME ReplayInv, at < Len(script)
  PROVE  /\ NextStep \in ProofStep
         /\ Replayed \in SUBSET Good(problem) /\ Reconstructed \in SUBSET Good(problem)
<1>1. NextStep \in ProofStep
  <2>1. script \in Seq(ProofStep) /\ at \in Nat
    BY DEF ReplayInv
  <2>2. at + 1 \in DOMAIN script
    BY <2>1
  <2> QED BY <2>1, <2>2 DEF NextStep
<1> DEFINE firsts == Used(NextStep, 1)
           seconds == Used(NextStep, 2)
           H == Assumed(problem.goal)
           V == ModelsOf(problem)
<1>2. firsts \in SUBSET TrueClauses(H, V) /\ seconds \in SUBSET TrueClauses(H, V) /\ V \in SUBSET Valuations
  BY <1>1, UsedGood DEF Good, ModelsOf
<1> HIDE DEF firsts, seconds, H, V
<1>3. /\ replay_rule(NextStep.rule, firsts, seconds) \subseteq TrueClauses(H, V)
      /\ reconstruct_rule(NextStep.rule, firsts, seconds) \subseteq TrueClauses(H, V)
  BY <1>2, ReplayTrue
<1> QED BY <1>1, <1>3 DEF Replayed, Reconstructed, Good, firsts, seconds, H, V

LEMMA TakeInv ==
  ASSUME EntailedInv, problem' = problem, metis \in {"replaying", "reconstructing"},
         NEW results \in SUBSET Good(problem), Take(results), NextStep \in ProofStep
  PROVE  ReplayInv' /\ AnswerInv'
<1> DEFINE N == [name : Nat, thm : Good(problem)]
<1>0. ReplayInv
  BY DEF EntailedInv
<1>1. PICK th \in results : proven' = <<[name |-> NextStep.name, thm |-> th]>> \o proven
  BY DEF Take
<1>2. proven' \in Seq(N) /\ proven' # <<>>
  <2>1. [name |-> NextStep.name, thm |-> th] \in N
    BY DEF ProofStep
  <2>2. proven \in Seq(N)
    BY <1>0 DEF ReplayInv
  <2> DEFINE r == [name |-> NextStep.name, thm |-> th]
  <2> HIDE DEF N, r
  <2>3. <<r>> \o proven \in Seq(N) /\ Len(<<r>> \o proven) # 0
    BY <2>1, <2>2 DEF r
  <2>4. <<r>> \o proven # <<>>
    BY <2>3
  <2> QED BY <1>1, <2>3, <2>4 DEF r
<1>3. at' = at + 1 /\ metis' = metis /\ script' = script
  BY DEF Take
<1>4. ReplayInv'
  BY <1>0, <1>2, <1>3 DEF ReplayInv
<1>5. AnswerInv'
  BY <1>3 DEF AnswerInv
<1> QED BY <1>4, <1>5

\* The second reconstruction starts from the premises again.
LEMMA AgainInv ==
  ASSUME EntailedInv, problem' = problem, metis = "replaying",
         StartSteps(problem, script, "reconstructing")
  PROVE  ReplayInv' /\ AnswerInv' /\ metis' = "reconstructing"
<1>1. script \in Seq(ProofStep) /\ script # <<>>
  BY DEF EntailedInv, ReplayInv
<1>2. NamedPremises(problem) \in Seq([name : Nat, thm : Good(problem)])
  BY PremisesOfGood DEF EntailedInv, ProblemInv
<1> QED BY <1>1, <1>2, StepsInv

LEMMA ReplayStepInv ==
  ASSUME EntailedInv, replay_step
  PROVE  EntailedInv'
<1>1. UNCHANGED <<problem, clauses, active, passive, steps, returned>> /\ metis = "replaying" /\ at < Len(script)
  BY DEF replay_step
<1>2. CASE Replayed = {}
  <2>1. ReplayInv' /\ AnswerInv' /\ metis' = "reconstructing"
    BY <1>1, <1>2, AgainInv DEF replay_step
  <2> QED BY <1>1, <2>1, ReplayMoves DEF EntailedInv
<1>3. CASE Replayed # {}
  <2>1. Take(Replayed) /\ NextStep \in ProofStep /\ Replayed \in SUBSET Good(problem)
    BY <1>1, <1>3, NextStepGood DEF replay_step, EntailedInv
  <2>2. ReplayInv' /\ AnswerInv' /\ metis' = metis
    <3>1. metis' = metis
      BY <2>1 DEF Take
    <3> QED BY <1>1, <2>1, <3>1, TakeInv
  <2> QED BY <1>1, <2>2, ReplayMoves DEF EntailedInv
<1> QED BY <1>2, <1>3

\* The theorem the last step gave.
LEMMA LastProven ==
  ASSUME EntailedInv, metis \in {"replaying", "reconstructing"}, at = Len(script)
  PROVE  proven[1].thm \in Good(problem)
<1>1. script \in Seq(ProofStep) /\ script # <<>> /\ (at > 0 => proven # <<>>)
      /\ proven \in Seq([name : Nat, thm : Good(problem)])
  BY DEF EntailedInv, ReplayInv
<1>2. proven # <<>>
  BY <1>1
<1>3. 1 \in DOMAIN proven
  BY <1>1, <1>2
<1>4. proven[1] \in [name : Nat, thm : Good(problem)]
  BY <1>1, <1>3, NamedElements
<1> QED BY <1>4

LEMMA ReplayEndsInv ==
  ASSUME EntailedInv, replay_ends
  PROVE  EntailedInv'
<1>1. UNCHANGED <<problem, clauses, active, passive, steps>> /\ metis = "replaying" /\ at = Len(script)
  BY DEF replay_ends
<1>2. CASE MatchGoal(proven[1].thm, problem.goal) = {}
  <2>1. ReplayInv' /\ AnswerInv' /\ metis' = "reconstructing"
    BY <1>1, <1>2, AgainInv DEF replay_ends
  <2> QED BY <1>1, <2>1, ReplayMoves DEF EntailedInv
<1>3. CASE MatchGoal(proven[1].thm, problem.goal) # {}
  <2>1. metis' = "returned" /\ returned' = proven[1].thm /\ UNCHANGED <<script, at, proven>>
    BY <1>3 DEF replay_ends
  <2>2. ReplayInv'
    BY <1>1, <2>1 DEF EntailedInv, ReplayInv
  <2>3. AnswerInv'
    BY <1>1, <2>1, LastProven DEF AnswerInv
  <2> QED BY <1>1, <2>1, <2>2, <2>3, ReplayMoves DEF EntailedInv
<1> QED BY <1>2, <1>3

LEMMA ReconstructStepInv ==
  ASSUME EntailedInv, reconstruct_step
  PROVE  EntailedInv'
<1>1. UNCHANGED <<problem, clauses, active, passive, steps, returned>> /\ metis = "reconstructing" /\ at < Len(script)
  BY DEF reconstruct_step
<1>2. CASE Reconstructed = {}
  <2>1. metis' = "given up" /\ UNCHANGED <<script, at, proven>>
    BY <1>2 DEF reconstruct_step
  <2>2. ReplayInv' /\ AnswerInv'
    BY <1>1, <2>1 DEF EntailedInv, ReplayInv, AnswerInv
  <2> QED BY <1>1, <2>1, <2>2, ReplayMoves DEF EntailedInv
<1>3. CASE Reconstructed # {}
  <2>1. Take(Reconstructed) /\ NextStep \in ProofStep /\ Reconstructed \in SUBSET Good(problem)
    BY <1>1, <1>3, NextStepGood DEF reconstruct_step, EntailedInv
  <2>2. ReplayInv' /\ AnswerInv' /\ metis' = metis
    <3>1. metis' = metis
      BY <2>1 DEF Take
    <3> QED BY <1>1, <2>1, <3>1, TakeInv
  <2> QED BY <1>1, <2>2, ReplayMoves DEF EntailedInv
<1> QED BY <1>2, <1>3

LEMMA ReconstructEndsInv ==
  ASSUME EntailedInv, reconstruct_ends
  PROVE  EntailedInv'
<1>1. UNCHANGED <<problem, clauses, active, passive, steps, script, at, proven>>
      /\ metis = "reconstructing" /\ at = Len(script) /\ metis' = "returned" /\ returned' = proven[1].thm
  BY DEF reconstruct_ends
<1>2. ReplayInv'
  BY <1>1 DEF EntailedInv, ReplayInv
<1>3. AnswerInv'
  BY <1>1, LastProven DEF AnswerInv
<1> QED BY <1>1, <1>2, <1>3, ReplayMoves DEF EntailedInv

LEMMA EntailedStep == EntailedInv /\ [MetisNext]_metisVars => EntailedInv'
<1> SUFFICES ASSUME EntailedInv, [MetisNext]_metisVars PROVE EntailedInv'
  OBVIOUS
<1>1. ASSUME metis = "idle", NEW pb \in Problems, prove(pb) \/ sledgehammer_prove_lcf(pb) PROVE EntailedInv'
  <2>1. problem' = pb /\ StartProving(pb) /\ UNCHANGED <<active, script, at, proven, returned>>
    BY <1>1 DEF prove, sledgehammer_prove_lcf
  <2> QED BY <1>1, <2>1, StartingInv
<1>2. ASSUME metis = "idle", NEW pb \in Problems, NEW sc \in pb.proofs,
             reconstruct_from_atp(pb, sc) \/ reconstruct_atp_proof(pb, sc)
      PROVE  EntailedInv'
  BY <1>2, AtpReplayInv, AtpStartInv
<1>3. ASSUME NEW given \in passive, given_clause(given) PROVE EntailedInv'
  BY <1>3, GivenClauseInv
<1>4. CASE UNCHANGED metisVars
  <2>1. UNCHANGED <<problem, clauses, active, passive, steps, script, at, proven, metis, returned>>
    BY <1>4 DEF metisVars
  <2>2. ProblemInv' /\ SearchInv'
    BY <2>1 DEF EntailedInv, ProblemInv, SearchInv
  <2>3. ReplayInv'
    BY <2>1 DEF EntailedInv, ReplayInv
  <2>4. AnswerInv'
    BY <2>1 DEF EntailedInv, AnswerInv, Contradictions
  <2> QED BY <2>2, <2>3, <2>4 DEF EntailedInv
<1> QED BY <1>1, <1>2, <1>3, <1>4, EndLoopInv, ExtractInv, ReplayStepInv, ReplayEndsInv, ReconstructStepInv,
           ReconstructEndsInv DEF MetisNext

LEMMA EntailedInvIsEnough == EntailedInv => FoundIsEntailed
<1> SUFFICES ASSUME EntailedInv, NEW val \in Models
             PROVE  /\ \A i \in DOMAIN clauses : ThmTrue(clauses[i], val)
                    /\ \A i \in DOMAIN proven : ThmTrue(proven[i].thm, val)
                    /\ metis = "returned" => ThmTrue(returned, val)
                    /\ metis = "refuted" => Holds(problem.goal, val)
  BY DEF FoundIsEntailed
<1>1. \A th \in Good(problem) : ThmTrue(th, val)
  BY GoodIsTrue DEF EntailedInv
<1>2. \A i \in DOMAIN clauses : clauses[i] \in Good(problem)
  BY DEF EntailedInv, SearchInv
<1>3. \A i \in DOMAIN proven : proven[i].thm \in Good(problem)
  <2>1. proven \in Seq([name : Nat, thm : Good(problem)])
    BY DEF EntailedInv, ReplayInv
  <2>2. \A i \in DOMAIN proven : proven[i] \in [name : Nat, thm : Good(problem)]
    BY <2>1, NamedElements
  <2> QED BY <2>2
<1>4. metis = "returned" => returned \in Good(problem)
  BY DEF EntailedInv, AnswerInv
<1>5. ASSUME metis = "refuted", ~Holds(problem.goal, val) PROVE FALSE
  <2>1. PICK i \in DOMAIN clauses : clauses[i].prop = False
    BY <1>5 DEF EntailedInv, AnswerInv, Contradictions, IsContradiction
  <2>2. clauses[i].hyps \subseteq Assumed(problem.goal) /\ ThmTrue(clauses[i], val)
    BY <1>1, <1>2 DEF Good, TrueClauses
  <2>3. val \in Valuations /\ Deniable(problem.goal)
    BY <1>5 DEF Models, EntailedInv, ProblemInv
  <2>4. \A t \in Assumed(problem.goal) : Holds(t, val)
    BY <1>5, <2>3, NegatedGoal
  <2>5. Holds(False, val)
    BY <2>1, <2>2, <2>4 DEF ThmTrue
  <2> QED BY <2>3, <2>5, FalseNeverHolds
<1> QED BY <1>1, <1>2, <1>3, <1>4, <1>5

\* At every step, the clauses that are kept, the theorems of a replayed proof and the
\* theorem that is returned are true wherever the premises are; and when the negated goal
\* is refuted, the goal is true there.
THEOREM FoundEntailed == MetisSpec => []FoundIsEntailed
<1>1. MetisInit => EntailedInv
  BY EntailedInit
<1>2. EntailedInv /\ [MetisNext]_metisVars => EntailedInv'
  BY EntailedStep
<1>3. EntailedInv => FoundIsEntailed
  BY EntailedInvIsEnough
<1> QED BY <1>1, <1>2, <1>3, PTL DEF MetisSpec

-----------------------------------------------------------------------------
(* Formulas. *)

SubtermsOf == [t \in FormulaTerms |-> Subterms(t)]

LEMMA FormulasMeasured == Measured(FormulaTerms, [t \in FormulaTerms |-> size(t)], SubtermsOf)
BY FormulasAssumption DEF Measured, SubtermsOf

LEMMA FormulaKinds ==
  ASSUME NEW t \in FormulaTerms
  PROVE  /\ Len(t) \in {1, 2, 3}
         /\ Len(t) = 1 => t = <<t[1]>> /\ t[1] \in FormulaAtoms /\ t[1] \notin Connectives
         /\ Len(t) = 2 => t = <<t[1], t[2]>> /\ t[1] \in {"not", "Ex"} /\ Subterms(t) = {t[2]}
         /\ Len(t) = 3 => /\ t = <<t[1], t[2], t[3]>> /\ t[1] \in {"imp", "conj", "disj", "app"}
                          /\ Subterms(t) = {t[2], t[3]}
         /\ Subterms(t) \subseteq FormulaTerms
<1>1. Subterms(t) \subseteq FormulaTerms
  BY FormulasAssumption
<1>2. CASE Len(t) = 1 /\ t = <<t[1]>> /\ t[1] \notin Connectives
  BY <1>1, <1>2 DEF FormulaAtoms
<1>3. CASE Len(t) = 2 /\ t = <<t[1], t[2]>> /\ t[1] \in {"not", "Ex"}
  BY <1>1, <1>3 DEF Subterms
<1>4. CASE Len(t) = 3 /\ t = <<t[1], t[2], t[3]>> /\ t[1] \in {"imp", "conj", "disj", "app"}
  <2>1. 2..Len(t) = {2, 3}
    BY <1>4
  <2>2. Subterms(t) = {t[2], t[3]}
    BY <2>1 DEF Subterms
  <2> QED BY <1>1, <1>4, <2>2
<1> QED BY <1>2, <1>3, <1>4, FormulasAssumption

\* What holds of a formula when it holds of its parts holds of all.
LEMMA FormulaInduction ==
  ASSUME NEW G, \A t \in FormulaTerms : Subterms(t) \subseteq G => t \in G
  PROVE  FormulaTerms \subseteq G
<1> DEFINE m == [t \in FormulaTerms |-> size(t)]
<1>1. Measured(FormulaTerms, m, SubtermsOf)
  BY FormulasMeasured
<1>2. \A t \in FormulaTerms : SubtermsOf[t] \subseteq G => t \in G
  BY DEF SubtermsOf
<1> HIDE DEF m
<1> QED BY <1>1, <1>2, MeasureInduction

LEMMA FormulaRecursion ==
  ASSUME NEW E, NEW step, Recursion(FormulaTerms, SubtermsOf, E, step)
  PROVE  \E f \in [FormulaTerms -> E] : f = [t \in FormulaTerms |-> step[<<t, f>>]]
<1> DEFINE m == [t \in FormulaTerms |-> size(t)]
<1>1. Measured(FormulaTerms, m, SubtermsOf)
  BY FormulasMeasured
<1> HIDE DEF m
<1>2. PICK f \in [FormulaTerms -> E] : \A t \in FormulaTerms : f[t] = step[<<t, f>>]
  BY <1>1, MeasureRecursion
<1>3. f = [t \in FormulaTerms |-> step[<<t, f>>]]
  BY <1>2
<1> QED BY <1>2, <1>3

-----------------------------------------------------------------------------
(* The functions of formulas. *)

QuantifiersStep(t, g) ==
  CASE Len(t) = 1 -> 0
    [] t[1] = "Ex" -> 1
    [] t[1] = "not" -> g[t[2]]
    [] OTHER -> g[t[2]] + g[t[3]]

LEMMA QuantifiersStepFacts ==
  ASSUME NEW t \in FormulaTerms, NEW g \in [FormulaTerms -> Nat]
  PROVE  /\ QuantifiersStep(t, g) \in Nat
         /\ \A h \in [FormulaTerms -> Nat] :
              (\A u \in Subterms(t) : g[u] = h[u]) => QuantifiersStep(t, g) = QuantifiersStep(t, h)
<1>1. CASE Len(t) = 1
  BY <1>1, FormulaKinds DEF QuantifiersStep, Connectives
<1>2. CASE Len(t) = 2
  BY <1>2, FormulaKinds DEF QuantifiersStep
<1>3. CASE Len(t) = 3
  <2>1. t[2] \in FormulaTerms /\ t[3] \in FormulaTerms /\ Subterms(t) = {t[2], t[3]} /\ t[1] \notin {"Ex", "not"}
    BY <1>3, FormulaKinds
  <2>2. \A h \in [FormulaTerms -> Nat] : QuantifiersStep(t, h) = h[t[2]] + h[t[3]]
    BY <1>3, <2>1 DEF QuantifiersStep
  <2> QED BY <2>1, <2>2
<1> QED BY <1>1, <1>2, <1>3, FormulaKinds

LEMMA QuantifiersType == quantifiers \in [FormulaTerms -> Nat]
<1> DEFINE step == [a \in FormulaTerms \X [FormulaTerms -> Nat] |-> QuantifiersStep(a[1], a[2])]
           Rhs(g) == [t \in FormulaTerms |-> QuantifiersStep(t, g)]
<1>1. Recursion(FormulaTerms, SubtermsOf, Nat, step)
  <2>1. step \in [FormulaTerms \X [FormulaTerms -> Nat] -> Nat]
    BY QuantifiersStepFacts
  <2>2. \A t \in FormulaTerms : \A g, h \in [FormulaTerms -> Nat] :
          (\A u \in SubtermsOf[t] : g[u] = h[u]) => step[<<t, g>>] = step[<<t, h>>]
    BY QuantifiersStepFacts DEF SubtermsOf
  <2> HIDE DEF step
  <2> QED BY <2>1, <2>2 DEF Recursion
<1>2. PICK f \in [FormulaTerms -> Nat] : f = [t \in FormulaTerms |-> step[<<t, f>>]]
  <2> HIDE DEF step
  <2> QED BY <1>1, FormulaRecursion
<1>3. f = Rhs(f)
  BY <1>2
<1>4. quantifiers = Rhs(quantifiers)
  <2>1. \E g : g = Rhs(g)
    BY <1>3
  <2> QED BY <2>1 DEF quantifiers, QuantifiersStep
<1> DEFINE G == {t \in FormulaTerms : quantifiers[t] \in Nat}
<1>5. ASSUME NEW t \in FormulaTerms, Subterms(t) \subseteq G PROVE t \in G
  <2>1. quantifiers[t] = QuantifiersStep(t, quantifiers)
    BY <1>4
  <2>2. CASE Len(t) = 1
    BY <2>1, <2>2, FormulaKinds DEF QuantifiersStep, Connectives
  <2>3. CASE Len(t) = 2
    BY <1>5, <2>1, <2>3, FormulaKinds DEF QuantifiersStep
  <2>4. CASE Len(t) = 3
    <3>1. quantifiers[t[2]] \in Nat /\ quantifiers[t[3]] \in Nat /\ t[1] \notin {"Ex", "not"}
      BY <1>5, <2>4, FormulaKinds
    <3> QED BY <2>1, <2>4, <3>1 DEF QuantifiersStep
  <2> QED BY <2>2, <2>3, <2>4, FormulaKinds
<1>6. FormulaTerms \subseteq G
  <2> HIDE DEF G
  <2> QED BY <1>5, FormulaInduction
<1>7. quantifiers = [t \in FormulaTerms |-> quantifiers[t]]
  <2> HIDE DEF Rhs
  <2>1. Rhs(quantifiers) = [t \in FormulaTerms |-> Rhs(quantifiers)[t]]
    BY DEF Rhs
  <2> QED BY <1>4, <2>1
<1> QED BY <1>6, <1>7

ModelsStep(t, g) ==
  CASE Len(t) = 1 -> {val \in Interpretations : t[1] \in val}
    [] t[1] = "not" -> Interpretations \ g[t[2]]
    [] t[1] = "conj" -> g[t[2]] \intersect g[t[3]]
    [] t[1] = "disj" -> g[t[2]] \union g[t[3]]
    [] t[1] = "imp" -> (Interpretations \ g[t[2]]) \union g[t[3]]
    [] OTHER -> {}

LEMMA ModelsStepFacts ==
  ASSUME NEW t \in FormulaTerms, NEW g \in [FormulaTerms -> SUBSET Interpretations]
  PROVE  /\ ModelsStep(t, g) \in SUBSET Interpretations
         /\ \A h : (\A u \in Subterms(t) : g[u] = h[u]) => ModelsStep(t, g) = ModelsStep(t, h)
<1> HIDE DEF Interpretations
<1>1. CASE Len(t) = 1
  BY <1>1, FormulaKinds DEF ModelsStep, Connectives
<1>2. CASE Len(t) = 2
  BY <1>2, FormulaKinds DEF ModelsStep
<1>3. CASE Len(t) = 3
  <2>1. /\ g[t[2]] \in SUBSET Interpretations /\ g[t[3]] \in SUBSET Interpretations
        /\ t[1] \in {"imp", "conj", "disj", "app"} /\ Subterms(t) = {t[2], t[3]}
    BY <1>3, FormulaKinds
  <2>2. ModelsStep(t, g) \in SUBSET Interpretations
    BY <1>3, <2>1 DEF ModelsStep
  <2>3. ASSUME NEW h, \A u \in Subterms(t) : g[u] = h[u] PROVE ModelsStep(t, g) = ModelsStep(t, h)
    <3>1. g[t[2]] = h[t[2]] /\ g[t[3]] = h[t[3]]
      BY <2>1, <2>3
    <3> QED BY <1>3, <2>1, <3>1 DEF ModelsStep
  <2> QED BY <2>2, <2>3
<1> QED BY <1>1, <1>2, <1>3, FormulaKinds

LEMMA ModelsDefined ==
  /\ models \in [FormulaTerms -> SUBSET Interpretations]
  /\ \A t \in FormulaTerms : models[t] = ModelsStep(t, models)
<1> DEFINE E == SUBSET Interpretations
           step == [a \in FormulaTerms \X [FormulaTerms -> E] |-> ModelsStep(a[1], a[2])]
           Rhs(g) == [t \in FormulaTerms |-> ModelsStep(t, g)]
<1>1. Recursion(FormulaTerms, SubtermsOf, E, step)
  <2>1. step \in [FormulaTerms \X [FormulaTerms -> E] -> E]
    BY ModelsStepFacts
  <2>2. \A t \in FormulaTerms : \A g, h \in [FormulaTerms -> E] :
          (\A u \in SubtermsOf[t] : g[u] = h[u]) => step[<<t, g>>] = step[<<t, h>>]
    BY ModelsStepFacts DEF SubtermsOf
  <2>3. E # {}
    OBVIOUS
  <2> HIDE DEF step, E
  <2> QED BY <2>1, <2>2, <2>3 DEF Recursion
<1>2. PICK f \in [FormulaTerms -> E] : f = [t \in FormulaTerms |-> step[<<t, f>>]]
  <2> HIDE DEF step, E
  <2> QED BY <1>1, FormulaRecursion
<1>3. f = Rhs(f)
  BY <1>2
<1>4. models = Rhs(models)
  <2>1. \E g : g = Rhs(g)
    BY <1>3
  <2> QED BY <2>1 DEF models, ModelsStep
<1>5. \A t \in FormulaTerms : models[t] = ModelsStep(t, models) /\ f[t] = ModelsStep(t, f)
  BY <1>3, <1>4
<1> DEFINE G == {t \in FormulaTerms : f[t] = models[t]}
<1>6. ASSUME NEW t \in FormulaTerms, Subterms(t) \subseteq G PROVE t \in G
  <2>1. \A u \in Subterms(t) : f[u] = models[u]
    BY <1>6
  <2>2. ModelsStep(t, f) = ModelsStep(t, models)
    BY <1>2, <2>1, ModelsStepFacts
  <2> QED BY <1>5, <2>2
<1>7. FormulaTerms \subseteq G
  <2> HIDE DEF G
  <2> QED BY <1>6, FormulaInduction
<1>8. models = [t \in FormulaTerms |-> models[t]]
  <2>1. Rhs(models) = [t \in FormulaTerms |-> Rhs(models)[t]]
    OBVIOUS
  <2> HIDE DEF Rhs
  <2> QED BY <1>4, <2>1
<1>9. models \in [FormulaTerms -> E]
  <2> HIDE DEF E
  <2> QED BY <1>2, <1>7, <1>8
<1> QED BY <1>5, <1>9

PlainStep(t, g) ==
  Len(t) = 1 \/ (t[1] \in {"imp", "conj", "disj", "not"} /\ \A u \in Subterms(t) : g[u])

LEMMA PlainDefined == \A t \in FormulaTerms : plain[t] <=> PlainStep(t, plain)
<1> DEFINE step == [a \in FormulaTerms \X [FormulaTerms -> BOOLEAN] |-> PlainStep(a[1], a[2])]
           Rhs(g) == [t \in FormulaTerms |-> PlainStep(t, g)]
<1>1. Recursion(FormulaTerms, SubtermsOf, BOOLEAN, step)
  <2>1. step \in [FormulaTerms \X [FormulaTerms -> BOOLEAN] -> BOOLEAN]
    BY DEF PlainStep
  <2>2. ASSUME NEW t \in FormulaTerms, NEW g \in [FormulaTerms -> BOOLEAN], NEW h \in [FormulaTerms -> BOOLEAN],
               \A u \in SubtermsOf[t] : g[u] = h[u]
        PROVE  step[<<t, g>>] = step[<<t, h>>]
    BY <2>2 DEF SubtermsOf, PlainStep
  <2> HIDE DEF step
  <2> QED BY <2>1, <2>2 DEF Recursion
<1>2. PICK f \in [FormulaTerms -> BOOLEAN] : f = [t \in FormulaTerms |-> step[<<t, f>>]]
  <2> HIDE DEF step
  <2> QED BY <1>1, FormulaRecursion
<1>3. f = Rhs(f)
  BY <1>2
<1>4. plain = Rhs(plain)
  <2>1. \E g : g = Rhs(g)
    BY <1>3
  <2> QED BY <2>1 DEF plain, PlainStep
<1> QED BY <1>4

-----------------------------------------------------------------------------
(* A plain formula has nothing to make a constant for. *)

SkolemStep(t, counter, g) ==
  CASE Len(t) = 1 -> t
    [] t[1] = "Ex" -> <<"app", t[2], <<SkolemNames[counter + 1]>>>>
    [] t[1] = "not" -> <<"not", g[<<t[2], counter>>]>>
    [] OTHER -> <<t[1], g[<<t[2], counter>>], g[<<t[3], counter + quantifiers[t[2]]>>]>>

LEMMA SkolemStepLocal ==
  ASSUME NEW t \in FormulaTerms, NEW c \in Nat, NEW g, NEW h,
         \A u \in Subterms(t) : \A d \in Nat : g[<<u, d>>] = h[<<u, d>>]
  PROVE  SkolemStep(t, c, g) = SkolemStep(t, c, h)
<1>1. CASE Len(t) = 1
  BY <1>1, FormulaKinds DEF SkolemStep, Connectives
<1>2. CASE Len(t) = 2
  <2>1. g[<<t[2], c>>] = h[<<t[2], c>>] /\ t[1] \in {"not", "Ex"}
    BY <1>2, FormulaKinds
  <2> QED BY <1>2, <2>1 DEF SkolemStep
<1>3. CASE Len(t) = 3
  <2>1. t[2] \in Subterms(t) /\ t[3] \in Subterms(t) /\ t[1] \notin {"not", "Ex"} /\ t[2] \in FormulaTerms
    BY <1>3, FormulaKinds
  <2>2. c + quantifiers[t[2]] \in Nat
    BY <2>1, QuantifiersType
  <2>3. g[<<t[2], c>>] = h[<<t[2], c>>] /\ g[<<t[3], c + quantifiers[t[2]]>>] = h[<<t[3], c + quantifiers[t[2]]>>]
    BY <2>1, <2>2
  <2> QED BY <1>3, <2>1, <2>3 DEF SkolemStep
<1> QED BY <1>1, <1>2, <1>3, FormulaKinds

\* What skolemize_rec says of itself is so: the values are made from the smallest formulas on.
LEMMA SkolemDefined ==
  \A t \in FormulaTerms : \A c \in Nat : skolemize_rec[<<t, c>>] = SkolemStep(t, c, skolemize_rec)
<1> DEFINE S == FormulaTerms \X Nat
           Rhs(g) == [p \in S |-> SkolemStep(p[1], p[2], g)]
           Upto(n, f) == \A t \in FormulaTerms : size(t) < n => \A c \in Nat : f[<<t, c>>] = SkolemStep(t, c, f)
<1>s. \A t \in FormulaTerms : size(t) \in Nat /\ \A u \in Subterms(t) : u \in FormulaTerms /\ size(u) < size(t)
  BY FormulasAssumption, FormulaKinds
<1>1. \A n \in Nat : \E f : Upto(n, f)
  <2> DEFINE T == {n \in Nat : ~\E f : Upto(n, f)}
  <2> SUFFICES ASSUME T # {} PROVE FALSE
    OBVIOUS
  <2>1. PICK n \in T : \A k \in T : n <= k
    <3> HIDE DEF Upto
    <3> QED BY LeastNumber
  <2>2. n # 0
    <3>1. Upto(0, <<>>)
      BY <1>s
    <3> QED BY <3>1
  <2>3. n - 1 \in Nat /\ n - 1 \notin T
    <3> HIDE DEF Upto
    <3> QED BY <2>1, <2>2
  <2>4. PICK f : Upto(n - 1, f)
    <3> HIDE DEF Upto
    <3> QED BY <2>3
  <2> DEFINE g == Rhs(f)
  <2>5. \A t \in FormulaTerms : \A c \in Nat : g[<<t, c>>] = SkolemStep(t, c, f)
    OBVIOUS
  <2> HIDE DEF Rhs, g
  <2>6. ASSUME NEW t \in FormulaTerms, size(t) < n, NEW c \in Nat PROVE g[<<t, c>>] = SkolemStep(t, c, g)
    <3>1. \A u \in Subterms(t) : u \in FormulaTerms /\ size(u) < n - 1
      BY <1>s, <2>1, <2>6
    <3>2. ASSUME NEW u \in Subterms(t), NEW d \in Nat PROVE f[<<u, d>>] = g[<<u, d>>]
      <4>1. u \in FormulaTerms /\ size(u) < n - 1
        BY <3>1
      <4>2. f[<<u, d>>] = SkolemStep(u, d, f)
        BY <2>4, <4>1
      <4>3. g[<<u, d>>] = SkolemStep(u, d, f)
        BY <2>5, <4>1
      <4> QED BY <4>2, <4>3
    <3>3. SkolemStep(t, c, f) = SkolemStep(t, c, g)
      <4> HIDE DEF Upto, S
      <4> QED BY <2>6, <3>2, SkolemStepLocal
    <3> QED BY <2>5, <3>3
  <2>7. Upto(n, g)
    BY <2>6
  <2> HIDE DEF Upto
  <2> QED BY <2>1, <2>7
<1>2. ASSUME NEW m \in Nat, NEW n \in Nat, NEW f, NEW g, Upto(m, f), Upto(n, g), NEW t \in FormulaTerms
      PROVE  size(t) < m /\ size(t) < n => \A c \in Nat : f[<<t, c>>] = g[<<t, c>>]
  <2> DEFINE G == {u \in FormulaTerms : size(u) < m /\ size(u) < n => \A c \in Nat : f[<<u, c>>] = g[<<u, c>>]}
  <2>1. ASSUME NEW u \in FormulaTerms, Subterms(u) \subseteq G PROVE u \in G
    <3> SUFFICES ASSUME size(u) < m, size(u) < n, NEW c \in Nat PROVE f[<<u, c>>] = g[<<u, c>>]
      OBVIOUS
    <3>1. ASSUME NEW w \in Subterms(u), NEW d \in Nat PROVE f[<<w, d>>] = g[<<w, d>>]
      <4>1. w \in G /\ w \in FormulaTerms /\ size(w) \in Nat /\ size(u) \in Nat /\ size(w) < size(u)
        BY <1>s, <2>1
      <4>2. size(w) < m /\ size(w) < n
        BY <4>1
      <4> QED BY <4>1, <4>2
    <3>2. SkolemStep(u, c, f) = SkolemStep(u, c, g)
      <4> HIDE DEF Upto, S
      <4> QED BY <3>1, SkolemStepLocal
    <3> QED BY <1>2, <3>2
  <2>2. FormulaTerms \subseteq G
    <3> HIDE DEF G
    <3> QED BY <2>1, FormulaInduction
  <2> QED BY <2>2
<1> DEFINE some(n) == CHOOSE f : Upto(n, f)
           all == [p \in S |-> some(size(p[1]) + 1)[p]]
<1>3. \A n \in Nat : Upto(n, some(n))
  <2> HIDE DEF Upto
  <2> QED BY <1>1
<1> HIDE DEF some
<1>4. \A t \in FormulaTerms : \A c \in Nat : all[<<t, c>>] = some(size(t) + 1)[<<t, c>>]
  OBVIOUS
<1> HIDE DEF all
<1>5. ASSUME NEW t \in FormulaTerms, NEW c \in Nat PROVE all[<<t, c>>] = SkolemStep(t, c, all)
  <2> DEFINE n == size(t) + 1
             f == some(n)
  <2>1. n \in Nat /\ size(t) < n /\ Upto(n, f)
    BY <1>3, <1>s
  <2>2. ASSUME NEW u \in Subterms(t), NEW d \in Nat PROVE f[<<u, d>>] = all[<<u, d>>]
    <3>1. u \in FormulaTerms /\ size(u) \in Nat /\ size(u) < n /\ size(u) < size(u) + 1 /\ size(u) + 1 \in Nat
      BY <1>s, <2>1
    <3>2. Upto(size(u) + 1, some(size(u) + 1))
      BY <1>3, <3>1
    <3> HIDE DEF Upto, n, f
    <3>3. f[<<u, d>>] = some(size(u) + 1)[<<u, d>>]
      BY <1>2, <2>1, <3>1, <3>2
    <3> QED BY <1>4, <3>1, <3>3
  <2>3. f[<<t, c>>] = SkolemStep(t, c, f)
    BY <2>1
  <2> HIDE DEF f, Upto
  <2>4. SkolemStep(t, c, f) = SkolemStep(t, c, all)
    BY <2>2, SkolemStepLocal
  <2> QED BY <1>4, <2>3, <2>4 DEF f, n
<1>6. all = Rhs(all)
  <2>1. \A p \in S : all[p] = SkolemStep(p[1], p[2], all)
    BY <1>5
  <2>2. all = [p \in S |-> all[p]]
    BY DEF all
  <2> HIDE DEF S
  <2> QED BY <2>1, <2>2
<1>7. skolemize_rec = Rhs(skolemize_rec)
  <2>1. \E g : g = Rhs(g)
    BY <1>6
  <2> QED BY <2>1 DEF skolemize_rec, SkolemStep
<1> QED BY <1>7

LEMMA PlainIsItself ==
  ASSUME NEW t \in FormulaTerms, plain[t]
  PROVE  skolemize(t) = t
<1> DEFINE G == {u \in FormulaTerms : plain[u] => \A c \in Nat : skolemize_rec[<<u, c>>] = u}
<1>1. ASSUME NEW u \in FormulaTerms, Subterms(u) \subseteq G PROVE u \in G
  <2> SUFFICES ASSUME plain[u], NEW c \in Nat PROVE SkolemStep(u, c, skolemize_rec) = u
    BY SkolemDefined
  <2>0. PlainStep(u, plain)
    BY PlainDefined
  <2>1. CASE Len(u) = 1
    BY <2>1, FormulaKinds DEF SkolemStep, Connectives
  <2>2. CASE Len(u) = 2
    <3>1. u[1] = "not" /\ plain[u[2]] /\ u = <<u[1], u[2]>> /\ u[2] \in Subterms(u)
      BY <2>0, <2>2, FormulaKinds DEF PlainStep
    <3>2. skolemize_rec[<<u[2], c>>] = u[2]
      BY <1>1, <3>1
    <3> QED BY <2>2, <3>1, <3>2 DEF SkolemStep
  <2>3. CASE Len(u) = 3
    <3>1. /\ u[1] \notin {"not", "Ex"} /\ plain[u[2]] /\ plain[u[3]] /\ u = <<u[1], u[2], u[3]>>
          /\ u[2] \in Subterms(u) /\ u[3] \in Subterms(u) /\ u[2] \in FormulaTerms
      BY <2>0, <2>3, FormulaKinds DEF PlainStep
    <3>2. c + quantifiers[u[2]] \in Nat
      BY <3>1, QuantifiersType
    <3>3. skolemize_rec[<<u[2], c>>] = u[2] /\ skolemize_rec[<<u[3], c + quantifiers[u[2]]>>] = u[3]
      BY <1>1, <3>1, <3>2
    <3> QED BY <2>3, <3>1, <3>3 DEF SkolemStep
  <2> QED BY <2>1, <2>2, <2>3, FormulaKinds
<1>2. FormulaTerms \subseteq G
  <2> HIDE DEF G
  <2> QED BY <1>1, FormulaInduction
<1> QED BY <1>2 DEF skolemize
-----------------------------------------------------------------------------
(* The variables' names. *)

Distinct(names) == \A i, j \in DOMAIN names : names[i] = names[j] => i = j
Extended(ms, ns) == \A i \in DOMAIN ms : i \in DOMAIN ns /\ ns[i] = ms[i]

LEMMA AtomIdType ==
  ASSUME NEW t, NEW names \in Seq(FormulaTerms)
  PROVE  /\ AtomId(t, names) \in Nat \ {0}
         /\ IsIn(t, names) => AtomId(t, names) \in DOMAIN names /\ names[AtomId(t, names)] = t
<1>1. CASE IsIn(t, names)
  <2>1. \E i : i \in DOMAIN names /\ names[i] = t
    BY <1>1 DEF IsIn
  <2>2. AtomId(t, names) \in DOMAIN names /\ names[AtomId(t, names)] = t
    BY <1>1, <2>1 DEF AtomId
  <2> QED BY <2>2
<1>2. CASE ~IsIn(t, names)
  BY <1>2 DEF AtomId
<1> QED BY <1>1, <1>2

LEMMA AtomIdStays ==
  ASSUME NEW t, NEW ms \in Seq(FormulaTerms), NEW ns \in Seq(FormulaTerms), Distinct(ns), Extended(ms, ns), IsIn(t, ms)
  PROVE  IsIn(t, ns) /\ AtomId(t, ns) = AtomId(t, ms)
<1>1. AtomId(t, ms) \in DOMAIN ms /\ ms[AtomId(t, ms)] = t
  BY AtomIdType
<1>2. AtomId(t, ms) \in DOMAIN ns /\ ns[AtomId(t, ms)] = t
  BY <1>1 DEF Extended
<1>3. IsIn(t, ns)
  BY <1>2 DEF IsIn
<1>4. AtomId(t, ns) \in DOMAIN ns /\ ns[AtomId(t, ns)] = t
  BY <1>3, AtomIdType
<1> QED BY <1>2, <1>3, <1>4 DEF Distinct

LEMMA WithAtomFacts ==
  ASSUME NEW t \in FormulaTerms, NEW names \in Seq(FormulaTerms)
  PROVE  /\ WithAtom(t, names) \in Seq(FormulaTerms)
         /\ IsIn(t, WithAtom(t, names))
         /\ Extended(names, WithAtom(t, names))
         /\ Distinct(names) => Distinct(WithAtom(t, names)) /\ AtomId(t, WithAtom(t, names)) = AtomId(t, names)
<1>1. CASE IsIn(t, names)
  BY <1>1 DEF WithAtom, Extended
<1>2. CASE ~IsIn(t, names)
  <2> DEFINE ns == Append(names, t)
             n == Len(names) + 1
  <2>1. WithAtom(t, names) = ns
    BY <1>2 DEF WithAtom
  <2>2. /\ ns \in Seq(FormulaTerms) /\ DOMAIN ns = 1..n /\ ns[n] = t /\ DOMAIN names = 1..(n - 1)
        /\ n \in Nat \ {0} /\ \A i \in 1..(n - 1) : ns[i] = names[i]
    BY AppendProperties
  <2>3. \A i \in DOMAIN names : names[i] # t
    BY <1>2 DEF IsIn
  <2>4. AtomId(t, names) = n
    BY <1>2 DEF AtomId
  <2> HIDE DEF ns, n
  <2>5. IsIn(t, ns) /\ Extended(names, ns)
    BY <2>2 DEF IsIn, Extended
  <2>6. ASSUME Distinct(names) PROVE Distinct(ns)
    <3> SUFFICES ASSUME NEW i \in 1..n, NEW j \in 1..n, ns[i] = ns[j] PROVE i = j
      BY <2>2 DEF Distinct
    <3>1. CASE i = n \/ j = n
      BY <2>2, <2>3, <3>1
    <3>2. CASE i # n /\ j # n
      <4>1. i \in DOMAIN names /\ j \in DOMAIN names /\ names[i] = names[j]
        BY <2>2, <3>2
      <4> QED BY <2>6, <4>1 DEF Distinct
    <3> QED BY <3>1, <3>2
  <2>7. ASSUME Distinct(names) PROVE AtomId(t, ns) = n
    <3>1. AtomId(t, ns) \in DOMAIN ns /\ ns[AtomId(t, ns)] = t
      BY <2>2, <2>5, AtomIdType
    <3>2. n \in DOMAIN ns /\ ns[n] = t
      BY <2>2
    <3> QED BY <2>6, <2>7, <3>1, <3>2 DEF Distinct
  <2> QED BY <2>1, <2>2, <2>4, <2>5, <2>6, <2>7
<1> QED BY <1>1, <1>2

LEMMA ExtendedTwice ==
  ASSUME NEW ls, NEW ms, NEW ns, Extended(ls, ms), Extended(ms, ns)
  PROVE  Extended(ls, ns)
BY DEF Extended

LEMMA NamedFacts ==
  ASSUME NEW cs, NEW names
  PROVE  /\ Named(cs, names).clauses = cs /\ Named(cs, names).names = names
         /\ (cs \in Seq(Seq(Int \ {0})) /\ names \in Seq(FormulaTerms)) => Named(cs, names) \in States
BY DEF Named, States

-----------------------------------------------------------------------------
(* What the clauses of a connective say. *)

ClauseTrue(c, A) == \E j \in DOMAIN c : LitTrue(c[j], A)

LEMMA ShortClauses ==
  ASSUME NEW x, NEW y, NEW z, NEW A
  PROVE  /\ ClauseTrue(<<x>>, A) <=> LitTrue(x, A)
         /\ ClauseTrue(<<x, y>>, A) <=> LitTrue(x, A) \/ LitTrue(y, A)
         /\ ClauseTrue(<<x, y, z>>, A) <=> LitTrue(x, A) \/ LitTrue(y, A) \/ LitTrue(z, A)
<1>1. DOMAIN <<x>> = {1} /\ DOMAIN <<x, y>> = {1, 2} /\ DOMAIN <<x, y, z>> = {1, 2, 3}
  OBVIOUS
<1>2. <<x>>[1] = x /\ <<x, y>>[1] = x /\ <<x, y>>[2] = y
  OBVIOUS
<1>3. <<x, y, z>>[1] = x /\ <<x, y, z>>[2] = y /\ <<x, y, z>>[3] = z
  OBVIOUS
<1> QED BY <1>1, <1>2, <1>3 DEF ClauseTrue

LEMMA FewClauses ==
  ASSUME NEW c, NEW d, NEW e, NEW A
  PROVE  /\ ClausesTrue(<<c, d>>, A) <=>
              ClauseTrue(c, A) /\ ClauseTrue(d, A)
         /\ ClausesTrue(<<c, d, e>>, A) <=>
              /\ ClauseTrue(c, A)
              /\ ClauseTrue(d, A)
              /\ ClauseTrue(e, A)
<1>1. DOMAIN <<c, d>> = {1, 2} /\ DOMAIN <<c, d, e>> = {1, 2, 3}
  OBVIOUS
<1>2. <<c, d>>[1] = c /\ <<c, d>>[2] = d
  OBVIOUS
<1>3. <<c, d, e>>[1] = c /\ <<c, d, e>>[2] = d /\ <<c, d, e>>[3] = e
  OBVIOUS
<1> QED BY <1>1, <1>2, <1>3 DEF ClausesTrue, ClauseTrue

LEMMA NumberTrue ==
  ASSUME NEW v \in Nat \ {0}, NEW A
  PROVE  (LitTrue(v, A) <=> v \in A) /\ (LitTrue(-v, A) <=> v \notin A)
<1>1. v > 0 /\ ~(-v > 0) /\ -(-v) = v
  OBVIOUS
<1> QED BY <1>1 DEF LitTrue

\* The clauses of a connective are true where its variable is what the connective makes of
\* the other two.
LEMMA DefiningSays ==
  ASSUME NEW v \in Nat \ {0}, NEW va \in Nat \ {0}, NEW vb \in Nat \ {0}, NEW A
  PROVE  /\ ClausesTrue(Defining("imp", v, va, vb), A) <=> (v \in A <=> (va \in A => vb \in A))
         /\ ClausesTrue(Defining("disj", v, va, vb), A) <=> (v \in A <=> (va \in A \/ vb \in A))
         /\ ClausesTrue(Defining("conj", v, va, vb), A) <=> (v \in A <=> (va \in A /\ vb \in A))
         /\ ClausesTrue(Defining("not", v, va, vb), A) <=> (v \in A <=> va \notin A)
<1>n. /\ (LitTrue(v, A) <=> v \in A) /\ (LitTrue(-v, A) <=> v \notin A)
      /\ (LitTrue(va, A) <=> va \in A) /\ (LitTrue(-va, A) <=> va \notin A)
      /\ (LitTrue(vb, A) <=> vb \in A) /\ (LitTrue(-vb, A) <=> vb \notin A)
  BY NumberTrue
<1>1. ClausesTrue(<<<<-v, -va, vb>>, <<va, v>>, <<-vb, v>>>>, A) <=> (v \in A <=> (va \in A => vb \in A))
  <2>1. ClauseTrue(<<-v, -va, vb>>, A) <=> v \notin A \/ va \notin A \/ vb \in A
    BY <1>n, ShortClauses
  <2>2. ClauseTrue(<<va, v>>, A) <=> va \in A \/ v \in A
    BY <1>n, ShortClauses
  <2>3. ClauseTrue(<<-vb, v>>, A) <=> vb \notin A \/ v \in A
    BY <1>n, ShortClauses
  <2> QED BY <2>1, <2>2, <2>3, FewClauses
<1>2. ClausesTrue(<<<<-v, va, vb>>, <<-va, v>>, <<-vb, v>>>>, A) <=> (v \in A <=> (va \in A \/ vb \in A))
  <2>1. ClauseTrue(<<-v, va, vb>>, A) <=> v \notin A \/ va \in A \/ vb \in A
    BY <1>n, ShortClauses
  <2>2. ClauseTrue(<<-va, v>>, A) <=> va \notin A \/ v \in A
    BY <1>n, ShortClauses
  <2>3. ClauseTrue(<<-vb, v>>, A) <=> vb \notin A \/ v \in A
    BY <1>n, ShortClauses
  <2> QED BY <2>1, <2>2, <2>3, FewClauses
<1>3. ClausesTrue(<<<<-v, va>>, <<-v, vb>>, <<-va, -vb, v>>>>, A) <=> (v \in A <=> (va \in A /\ vb \in A))
  <2>1. ClauseTrue(<<-v, va>>, A) <=> v \notin A \/ va \in A
    BY <1>n, ShortClauses
  <2>2. ClauseTrue(<<-v, vb>>, A) <=> v \notin A \/ vb \in A
    BY <1>n, ShortClauses
  <2>3. ClauseTrue(<<-va, -vb, v>>, A) <=> va \notin A \/ vb \notin A \/ v \in A
    BY <1>n, ShortClauses
  <2> QED BY <2>1, <2>2, <2>3, FewClauses
<1>4. ClausesTrue(<<<<-v, -va>>, <<v, va>>>>, A) <=> (v \in A <=> va \notin A)
  <2>1. ClauseTrue(<<-v, -va>>, A) <=> v \notin A \/ va \notin A
    BY <1>n, ShortClauses
  <2>2. ClauseTrue(<<v, va>>, A) <=> v \in A \/ va \in A
    BY <1>n, ShortClauses
  <2> QED BY <2>1, <2>2, FewClauses
<1>d. /\ Defining("imp", v, va, vb) = <<<<-v, -va, vb>>, <<va, v>>, <<-vb, v>>>>
      /\ Defining("disj", v, va, vb) = <<<<-v, va, vb>>, <<-va, v>>, <<-vb, v>>>>
      /\ Defining("conj", v, va, vb) = <<<<-v, va>>, <<-v, vb>>, <<-va, -vb, v>>>>
      /\ Defining("not", v, va, vb) = <<<<-v, -va>>, <<v, va>>>>
  BY DEF Defining
<1> QED BY <1>1, <1>2, <1>3, <1>4, <1>d

LEMMA DefiningType ==
  ASSUME NEW c, NEW v \in Nat \ {0}, NEW va \in Nat \ {0}, NEW vb \in Nat \ {0}
  PROVE  Defining(c, v, va, vb) \in Seq(Seq(Int \ {0}))
<1> DEFINE L == Int \ {0}
<1>1. v \in L /\ va \in L /\ vb \in L /\ -v \in L /\ -va \in L /\ -vb \in L
  OBVIOUS
<1> HIDE DEF L
<1>2. \A x, y, z \in L : <<x, y>> \in Seq(L) /\ <<x, y, z>> \in Seq(L)
  OBVIOUS
<1>3. \A x, y, z \in Seq(L) : <<x, y>> \in Seq(Seq(L)) /\ <<x, y, z>> \in Seq(Seq(L))
  OBVIOUS
<1>4. Defining(c, v, va, vb) \in Seq(Seq(L))
  <2>1. <<<<-v, -va, vb>>, <<va, v>>, <<-vb, v>>>> \in Seq(Seq(L))
    BY <1>1, <1>2, <1>3
  <2>2. <<<<-v, va, vb>>, <<-va, v>>, <<-vb, v>>>> \in Seq(Seq(L))
    BY <1>1, <1>2, <1>3
  <2>3. <<<<-v, va>>, <<-v, vb>>, <<-va, -vb, v>>>> \in Seq(Seq(L))
    BY <1>1, <1>2, <1>3
  <2>4. <<<<-v, -va>>, <<v, va>>>> \in Seq(Seq(L))
    BY <1>1, <1>2, <1>3
  <2> QED BY <2>1, <2>2, <2>3, <2>4 DEF Defining
<1> QED BY <1>4 DEF L

LEMMA TrueTogether ==
  ASSUME NEW T, NEW cs \in Seq(T), NEW ds \in Seq(T), NEW A
  PROVE  ClausesTrue(cs \o ds, A) <=> ClausesTrue(cs, A) /\ ClausesTrue(ds, A)
<1> DEFINE m == Len(cs)
           n == Len(ds)
<1>1. /\ m \in Nat /\ n \in Nat /\ DOMAIN cs = 1..m /\ DOMAIN ds = 1..n /\ DOMAIN (cs \o ds) = 1..(m + n)
      /\ \A i \in 1..(m + n) : (cs \o ds)[i] = IF i <= m THEN cs[i] ELSE ds[i - m]
  BY ConcatProperties
<1>2. \A es : ClausesTrue(es, A) <=> \A i \in DOMAIN es : ClauseTrue(es[i], A)
  BY DEF ClausesTrue, ClauseTrue
<1> HIDE DEF m, n
<1>3. ASSUME ClausesTrue(cs \o ds, A) PROVE ClausesTrue(cs, A) /\ ClausesTrue(ds, A)
  <2>1. \A i \in 1..m : i \in 1..(m + n) /\ (cs \o ds)[i] = cs[i]
    BY <1>1
  <2>2. \A i \in 1..n : m + i \in 1..(m + n) /\ (cs \o ds)[m + i] = ds[i]
    BY <1>1
  <2> QED BY <1>1, <1>2, <1>3, <2>1, <2>2
<1>4. ASSUME ClausesTrue(cs, A), ClausesTrue(ds, A) PROVE ClausesTrue(cs \o ds, A)
  <2>1. ASSUME NEW i \in 1..(m + n) PROVE ClauseTrue((cs \o ds)[i], A)
    <3>1. CASE i <= m
      <4>1. (cs \o ds)[i] = cs[i] /\ i \in DOMAIN cs
        BY <1>1, <3>1
      <4> QED BY <1>2, <1>4, <4>1
    <3>2. CASE ~(i <= m)
      <4>1. (cs \o ds)[i] = ds[i - m] /\ i - m \in DOMAIN ds
        BY <1>1, <3>2
      <4> QED BY <1>2, <1>4, <4>1
    <3> QED BY <3>1, <3>2
  <2> QED BY <1>1, <1>2, <2>1
<1> QED BY <1>3, <1>4
-----------------------------------------------------------------------------
(* tseitin_rec.  After the parts the formula gets a variable of its own.   *)

Completed(t, b) ==
  Named(b.clauses \o Defining(t[1], AtomId(t, b.names), AtomId(t[2], b.names), AtomId(t[Len(t)], b.names)),
        WithAtom(t, b.names))

TseitinStep(t, st, g) ==
  IF Len(t) = 1 THEN Named(st.clauses, WithAtom(t, st.names))
  ELSE LET a == g[<<t[2], st>>]
           b == IF Len(t) = 2 THEN a ELSE g[<<t[3], a>>]
       IN Completed(t, b)

LEMMA StateParts ==
  ASSUME NEW st \in States
  PROVE  st.clauses \in Seq(Seq(Int \ {0})) /\ st.names \in Seq(FormulaTerms)
BY DEF States

LEMMA CompletedType ==
  ASSUME NEW t \in FormulaTerms, NEW b \in States
  PROVE  Completed(t, b) \in States
<1> DEFINE T == Seq(Int \ {0})
           d == Defining(t[1], AtomId(t, b.names), AtomId(t[2], b.names), AtomId(t[Len(t)], b.names))
<1>1. b.clauses \in Seq(T) /\ b.names \in Seq(FormulaTerms)
  BY StateParts
<1>2. d \in Seq(T)
  <2>1. /\ AtomId(t, b.names) \in Nat \ {0} /\ AtomId(t[2], b.names) \in Nat \ {0}
        /\ AtomId(t[Len(t)], b.names) \in Nat \ {0}
    BY <1>1, AtomIdType
  <2> QED BY <2>1, DefiningType
<1>3. b.clauses \o d \in Seq(T)
  <2> HIDE DEF d, T
  <2> QED BY <1>1, <1>2
<1>4. WithAtom(t, b.names) \in Seq(FormulaTerms)
  BY <1>1, WithAtomFacts
<1> QED BY <1>3, <1>4, NamedFacts DEF Completed

TseitinArgs == FormulaTerms \X States

LEMMA TseitinStepFacts ==
  ASSUME NEW t \in FormulaTerms, NEW st \in States, NEW g \in [TseitinArgs -> States]
  PROVE  /\ TseitinStep(t, st, g) \in States
         /\ \A h : (\A u \in Subterms(t) : \A s \in States : g[<<u, s>>] = h[<<u, s>>]) =>
              TseitinStep(t, st, g) = TseitinStep(t, st, h)
<1>g. \A u \in FormulaTerms : \A s \in States : g[<<u, s>>] \in States
  BY DEF TseitinArgs
<1>1. CASE Len(t) = 1
  <2>1. WithAtom(t, st.names) \in Seq(FormulaTerms) /\ st.clauses \in Seq(Seq(Int \ {0}))
    BY StateParts, WithAtomFacts
  <2>2. Named(st.clauses, WithAtom(t, st.names)) \in States
    BY <2>1, NamedFacts
  <2> QED BY <1>1, <2>2 DEF TseitinStep
<1>2. CASE Len(t) = 2
  <2>1. t[2] \in Subterms(t) /\ g[<<t[2], st>>] \in States
    BY <1>2, <1>g, FormulaKinds
  <2>2. Completed(t, g[<<t[2], st>>]) \in States
    BY <2>1, CompletedType
  <2>3. \A h : TseitinStep(t, st, h) = Completed(t, h[<<t[2], st>>])
    BY <1>2 DEF TseitinStep
  <2> QED BY <2>1, <2>2, <2>3
<1>3. CASE Len(t) = 3
  <2> DEFINE a == g[<<t[2], st>>]
  <2>1. t[2] \in Subterms(t) /\ t[3] \in Subterms(t) /\ a \in States /\ g[<<t[3], a>>] \in States
    BY <1>3, <1>g, FormulaKinds
  <2>2. Completed(t, g[<<t[3], a>>]) \in States
    BY <2>1, CompletedType
  <2>3. \A h : TseitinStep(t, st, h) = Completed(t, h[<<t[3], h[<<t[2], st>>]>>])
    BY <1>3 DEF TseitinStep
  <2>4. ASSUME NEW h, \A u \in Subterms(t) : \A s \in States : g[<<u, s>>] = h[<<u, s>>]
        PROVE  TseitinStep(t, st, g) = TseitinStep(t, st, h)
    <3>1. h[<<t[2], st>>] = a /\ h[<<t[3], a>>] = g[<<t[3], a>>]
      BY <2>1, <2>4
    <3> QED BY <2>3, <3>1
  <2> QED BY <2>2, <2>3, <2>4
<1> QED BY <1>1, <1>2, <1>3, FormulaKinds

LEMMA TseitinDefined ==
  \A t \in FormulaTerms : \A st \in States : tseitin_rec[<<t, st>>] = TseitinStep(t, st, tseitin_rec)
<1> DEFINE m == [p \in TseitinArgs |-> size(p[1])]
           parts == [p \in TseitinArgs |-> Subterms(p[1]) \X States]
           step == [a \in TseitinArgs \X [TseitinArgs -> States] |-> TseitinStep(a[1][1], a[1][2], a[2])]
           Rhs(g) == [p \in TseitinArgs |-> TseitinStep(p[1], p[2], g)]
<1>1. Measured(TseitinArgs, m, parts)
  <2>1. m \in [TseitinArgs -> Nat]
    BY FormulasAssumption DEF TseitinArgs
  <2>2. parts \in [TseitinArgs -> SUBSET TseitinArgs]
    BY FormulaKinds DEF TseitinArgs
  <2>3. \A p \in TseitinArgs : \A q \in parts[p] : m[q] < m[p]
    BY FormulasAssumption, FormulaKinds DEF TseitinArgs
  <2> HIDE DEF m, parts
  <2> QED BY <2>1, <2>2, <2>3 DEF Measured
<1>2. Recursion(TseitinArgs, parts, States, step)
  <2>1. States # {}
    <3>1. <<>> \in Seq(Seq(Int \ {0})) /\ <<>> \in Seq(FormulaTerms)
      OBVIOUS
    <3>2. Named(<<>>, <<>>) \in States
      BY <3>1, NamedFacts
    <3> QED BY <3>2
  <2>2. step \in [TseitinArgs \X [TseitinArgs -> States] -> States]
    BY TseitinStepFacts DEF TseitinArgs
  <2>3. ASSUME NEW p \in TseitinArgs, NEW g \in [TseitinArgs -> States], NEW h \in [TseitinArgs -> States],
               \A q \in parts[p] : g[q] = h[q]
        PROVE  step[<<p, g>>] = step[<<p, h>>]
    <3>1. p[1] \in FormulaTerms /\ p[2] \in States
      BY DEF TseitinArgs
    <3>2. \A u \in Subterms(p[1]) : \A s \in States : g[<<u, s>>] = h[<<u, s>>]
      BY <2>3
    <3>3. TseitinStep(p[1], p[2], g) = TseitinStep(p[1], p[2], h)
      BY <3>1, <3>2, TseitinStepFacts
    <3> QED BY <3>3
  <2> HIDE DEF step, parts
  <2> QED BY <2>1, <2>2, <2>3 DEF Recursion
<1>3. PICK f \in [TseitinArgs -> States] : \A p \in TseitinArgs : f[p] = step[<<p, f>>]
  <2> HIDE DEF step, parts, m
  <2> QED BY <1>1, <1>2, MeasureRecursion
<1>4. f = Rhs(f)
  <2>1. f = [p \in TseitinArgs |-> step[<<p, f>>]]
    <3> HIDE DEF step
    <3> QED BY <1>3
  <2>2. \A p \in TseitinArgs : step[<<p, f>>] = TseitinStep(p[1], p[2], f)
    BY <1>3
  <2> HIDE DEF step
  <2> QED BY <2>1, <2>2
<1>5. tseitin_rec = Rhs(tseitin_rec)
  <2>1. \E g : g = Rhs(g)
    BY <1>4
  <2> QED BY <2>1 DEF tseitin_rec, TseitinStep, TseitinArgs, Completed
<1> QED BY <1>5 DEF TseitinArgs
-----------------------------------------------------------------------------
(* What the clauses made of a formula say. *)

\* The numbers in A are the variables that are true.
Reads(names, A, val) ==
  \A a \in FormulaAtoms : IsIn(<<a>>, names) => (AtomId(<<a>>, names) \in A <=> a \in val)
Describes(names, A, val) == \A i \in DOMAIN names : i \in A <=> val \in models[names[i]]

\* st with t: where the clauses are true, the variable of t has its value; and they can be
\* made true for any value of the atoms.
Encoded(t, st, r) ==
  /\ r \in States /\ Distinct(r.names) /\ Extended(st.names, r.names) /\ IsIn(t, r.names)
  /\ \A A, val : val \in Interpretations /\ ClausesTrue(r.clauses, A) =>
       /\ ClausesTrue(st.clauses, A)
       /\ Reads(r.names, A, val) => (AtomId(t, r.names) \in A <=> val \in models[t])
  /\ \A A, val : val \in Interpretations /\ ClausesTrue(st.clauses, A) /\ Describes(r.names, A, val) =>
       ClausesTrue(r.clauses, A)

LEMMA ReadsBefore ==
  ASSUME NEW ms \in Seq(FormulaTerms), NEW ns \in Seq(FormulaTerms), Distinct(ns), Extended(ms, ns), NEW A, NEW val
  PROVE  /\ Reads(ns, A, val) => Reads(ms, A, val)
         /\ Describes(ns, A, val) => Describes(ms, A, val)
<1>1. ASSUME Reads(ns, A, val) PROVE Reads(ms, A, val)
  <2> SUFFICES ASSUME NEW a \in FormulaAtoms, IsIn(<<a>>, ms) PROVE AtomId(<<a>>, ms) \in A <=> a \in val
    BY DEF Reads
  <2>1. IsIn(<<a>>, ns) /\ AtomId(<<a>>, ns) = AtomId(<<a>>, ms)
    BY AtomIdStays
  <2> QED BY <1>1, <2>1 DEF Reads
<1>2. ASSUME Describes(ns, A, val) PROVE Describes(ms, A, val)
  BY <1>2 DEF Describes, Extended
<1> QED BY <1>1, <1>2

\* A formula has a variable of its own, and clauses that relate it to those of its first part
\* and its last.
RootOf(t, b, z, r) ==
  /\ AtomId(t, b.names) \in Nat \ {0} /\ AtomId(t[2], b.names) \in Nat \ {0} /\ AtomId(z, b.names) \in Nat \ {0}
  /\ r \in States /\ Distinct(r.names) /\ Extended(b.names, r.names) /\ IsIn(t, r.names)
  /\ AtomId(t, r.names) = AtomId(t, b.names)
  /\ \A A : ClausesTrue(r.clauses, A) <=>
       /\ ClausesTrue(b.clauses, A)
       /\ ClausesTrue(Defining(t[1], AtomId(t, b.names), AtomId(t[2], b.names), AtomId(z, b.names)), A)
  /\ \A A, val : Describes(r.names, A, val) =>
       /\ AtomId(t, b.names) \in A <=> val \in models[t]
       /\ AtomId(t[2], b.names) \in A <=> val \in models[t[2]]
       /\ AtomId(z, b.names) \in A <=> val \in models[z]

LEMMA CompletedFacts ==
  ASSUME NEW t \in FormulaTerms, Len(t) # 1, NEW b \in States, Distinct(b.names), IsIn(t[2], b.names),
         NEW z, z = t[Len(t)], IsIn(z, b.names), NEW r, r = Completed(t, b)
  PROVE  RootOf(t, b, z, r)
<1> DEFINE v == AtomId(t, b.names)
           va == AtomId(t[2], b.names)
           vb == AtomId(z, b.names)
           d == Defining(t[1], v, va, vb)
           ns == WithAtom(t, b.names)
           T == Seq(Int \ {0})
<1>b. b.clauses \in Seq(T) /\ b.names \in Seq(FormulaTerms)
  BY StateParts
<1>1. v \in Nat \ {0} /\ va \in Nat \ {0} /\ vb \in Nat \ {0}
  BY <1>b, AtomIdType
<1>2. d \in Seq(T)
  BY <1>1, DefiningType
<1>3. r \in States
  BY CompletedType
<1>4. r.names = ns /\ r.clauses = b.clauses \o d
  BY NamedFacts DEF Completed
<1>5. ns \in Seq(FormulaTerms) /\ IsIn(t, ns) /\ Extended(b.names, ns) /\ Distinct(ns) /\ AtomId(t, ns) = v
  BY <1>b, WithAtomFacts
<1> HIDE DEF d, ns, T, v, va, vb
<1>6. \A A : ClausesTrue(r.clauses, A) <=> ClausesTrue(b.clauses, A) /\ ClausesTrue(d, A)
  BY <1>b, <1>2, <1>4, TrueTogether
<1>7. ASSUME NEW A, NEW val, Describes(ns, A, val)
      PROVE  (v \in A <=> val \in models[t]) /\ (va \in A <=> val \in models[t[2]]) /\ (vb \in A <=> val \in models[z])
  <2>1. v \in DOMAIN ns /\ ns[v] = t
    BY <1>5, AtomIdType
  <2>2. va \in DOMAIN b.names /\ b.names[va] = t[2] /\ vb \in DOMAIN b.names /\ b.names[vb] = z
    BY <1>b, AtomIdType DEF va, vb
  <2>3. va \in DOMAIN ns /\ ns[va] = t[2] /\ vb \in DOMAIN ns /\ ns[vb] = z
    BY <1>5, <2>2 DEF Extended
  <2> QED BY <1>7, <2>1, <2>3 DEF Describes
<1> QED BY <1>1, <1>3, <1>4, <1>5, <1>6, <1>7 DEF v, va, vb, d, RootOf

LEMMA AtomEncoded ==
  ASSUME NEW t \in FormulaTerms, Len(t) = 1, NEW st \in States, Distinct(st.names)
  PROVE  Encoded(t, st, tseitin_rec[<<t, st>>])
<1> DEFINE r == tseitin_rec[<<t, st>>]
           ns == WithAtom(t, st.names)
<1>1. st.clauses \in Seq(Seq(Int \ {0})) /\ st.names \in Seq(FormulaTerms)
  BY StateParts
<1>2. ns \in Seq(FormulaTerms) /\ IsIn(t, ns) /\ Extended(st.names, ns) /\ Distinct(ns)
  BY <1>1, WithAtomFacts
<1>3. r = Named(st.clauses, ns)
  BY TseitinDefined DEF TseitinStep
<1>4. r \in States /\ r.clauses = st.clauses /\ r.names = ns
  BY <1>1, <1>2, <1>3, NamedFacts
<1>5. t = <<t[1]>> /\ t[1] \in FormulaAtoms /\ models[t] = {val \in Interpretations : t[1] \in val}
  BY FormulaKinds, ModelsDefined DEF ModelsStep, Connectives
<1> HIDE DEF r, ns
<1>6. ASSUME NEW A, NEW val \in Interpretations, Reads(ns, A, val)
      PROVE  AtomId(t, ns) \in A <=> val \in models[t]
  BY <1>2, <1>5, <1>6 DEF Reads
<1> QED BY <1>2, <1>4, <1>6 DEF Encoded, r

LEMMA NegationEncoded ==
  ASSUME NEW t \in FormulaTerms, Len(t) = 2, t[1] = "not", NEW st \in States, Distinct(st.names),
         Encoded(t[2], st, tseitin_rec[<<t[2], st>>])
  PROVE  Encoded(t, st, tseitin_rec[<<t, st>>])
<1> DEFINE a == tseitin_rec[<<t[2], st>>]
           r == tseitin_rec[<<t, st>>]
           v == AtomId(t, a.names)
           va == AtomId(t[2], a.names)
           d == Defining(t[1], v, va, va)
<1>1. r = Completed(t, a)
  <2>1. r = TseitinStep(t, st, tseitin_rec)
    BY TseitinDefined
  <2>2. TseitinStep(t, st, tseitin_rec) = Completed(t, a)
    BY DEF TseitinStep
  <2> QED BY <2>1, <2>2
<1>2. a \in States /\ Distinct(a.names) /\ IsIn(t[2], a.names) /\ Extended(st.names, a.names)
  BY DEF Encoded
<1>3. \A A, val : val \in Interpretations => (val \in models[t] <=> val \notin models[t[2]])
  BY ModelsDefined DEF ModelsStep
<1>4. /\ v \in Nat \ {0} /\ va \in Nat \ {0}
      /\ r \in States /\ Distinct(r.names) /\ Extended(a.names, r.names) /\ IsIn(t, r.names)
      /\ AtomId(t, r.names) = v
      /\ \A A : ClausesTrue(r.clauses, A) <=> ClausesTrue(a.clauses, A) /\ ClausesTrue(d, A)
      /\ \A A, val : Describes(r.names, A, val) => (v \in A <=> val \in models[t]) /\ (va \in A <=> val \in models[t[2]])
  <2>1. t[2] = t[Len(t)] /\ Len(t) # 1
    OBVIOUS
  <2>2. RootOf(t, a, t[2], r)
    <3> HIDE DEF a, r
    <3> QED BY <1>1, <1>2, <2>1, CompletedFacts
  <2> HIDE DEF a, r
  <2> QED BY <2>2 DEF RootOf
<1>5. \A A : ClausesTrue(d, A) <=> (v \in A <=> va \notin A)
  BY <1>4, DefiningSays
<1>6. a.names \in Seq(FormulaTerms) /\ r.names \in Seq(FormulaTerms)
  BY <1>2, <1>4, StateParts
<1>7. \A A, val : (Reads(r.names, A, val) => Reads(a.names, A, val)) /\ (Describes(r.names, A, val) => Describes(a.names, A, val))
  BY <1>4, <1>6, ReadsBefore
<1>e. /\ \A A, val : val \in Interpretations /\ ClausesTrue(a.clauses, A) =>
           /\ ClausesTrue(st.clauses, A)
           /\ Reads(a.names, A, val) => (va \in A <=> val \in models[t[2]])
      /\ \A A, val : val \in Interpretations /\ ClausesTrue(st.clauses, A) /\ Describes(a.names, A, val) =>
           ClausesTrue(a.clauses, A)
  BY DEF Encoded
<1> HIDE DEF a, r, v, va, d
<1>8. ASSUME NEW A, NEW val \in Interpretations, ClausesTrue(r.clauses, A)
      PROVE  ClausesTrue(st.clauses, A) /\ (Reads(r.names, A, val) => (v \in A <=> val \in models[t]))
  <2>1. ClausesTrue(a.clauses, A) /\ (v \in A <=> va \notin A)
    BY <1>4, <1>5, <1>8
  <2>2. ClausesTrue(st.clauses, A)
    BY <1>e, <2>1
  <2>3. Reads(r.names, A, val) => (va \in A <=> val \in models[t[2]])
    BY <1>e, <1>7, <2>1
  <2> QED BY <1>3, <2>1, <2>2, <2>3
<1>9. ASSUME NEW A, NEW val \in Interpretations, ClausesTrue(st.clauses, A), Describes(r.names, A, val)
      PROVE  ClausesTrue(r.clauses, A)
  <2>1. ClausesTrue(a.clauses, A)
    BY <1>e, <1>7, <1>9
  <2>2. v \in A <=> va \notin A
    BY <1>3, <1>4, <1>9
  <2> QED BY <1>4, <1>5, <2>1, <2>2
<1>10. Extended(st.names, r.names)
  BY <1>2, <1>4, ExtendedTwice
<1> QED BY <1>4, <1>8, <1>9, <1>10 DEF Encoded, r
\* What the connective makes of the values of the parts.
Joins(c, p, q) == CASE c = "imp" -> (p => q) [] c = "disj" -> (p \/ q) [] OTHER -> (p /\ q)

LEMMA ConnectiveEncoded ==
  ASSUME NEW t \in FormulaTerms, Len(t) = 3, t[1] \in {"imp", "conj", "disj"}, NEW st \in States, Distinct(st.names),
         NEW a, a = tseitin_rec[<<t[2], st>>], Encoded(t[2], st, a),
         NEW b, b = tseitin_rec[<<t[3], a>>], Encoded(t[3], a, b)
  PROVE  Encoded(t, st, tseitin_rec[<<t, st>>])
<1> DEFINE r == tseitin_rec[<<t, st>>]
           v == AtomId(t, b.names)
           va == AtomId(t[2], b.names)
           vb == AtomId(t[3], b.names)
           d == Defining(t[1], v, va, vb)
<1>l. t[3] = t[Len(t)] /\ Len(t) # 1
  OBVIOUS
<1>1. r = Completed(t, b)
  <2>1. r = TseitinStep(t, st, tseitin_rec)
    BY TseitinDefined
  <2>2. TseitinStep(t, st, tseitin_rec) = Completed(t, b)
    BY DEF TseitinStep
  <2> QED BY <2>1, <2>2
<1>2. /\ a \in States /\ Distinct(a.names) /\ IsIn(t[2], a.names) /\ Extended(st.names, a.names)
      /\ b \in States /\ Distinct(b.names) /\ IsIn(t[3], b.names) /\ Extended(a.names, b.names)
  BY DEF Encoded
<1>3. a.names \in Seq(FormulaTerms) /\ b.names \in Seq(FormulaTerms)
  BY <1>2, StateParts
<1>4. IsIn(t[2], b.names) /\ va = AtomId(t[2], a.names)
  BY <1>2, <1>3, AtomIdStays
<1>5. \A A, val : val \in Interpretations =>
        (val \in models[t] <=> Joins(t[1], val \in models[t[2]], val \in models[t[3]]))
  <2>1. t[2] \in FormulaTerms /\ t[3] \in FormulaTerms
    BY FormulaKinds
  <2>2. models[t[2]] \in SUBSET Interpretations /\ models[t[3]] \in SUBSET Interpretations /\ models[t] = ModelsStep(t, models)
    BY <2>1, ModelsDefined
  <2> QED BY <2>2 DEF ModelsStep, Joins
<1>6. /\ v \in Nat \ {0} /\ va \in Nat \ {0} /\ vb \in Nat \ {0}
      /\ r \in States /\ Distinct(r.names) /\ Extended(b.names, r.names) /\ IsIn(t, r.names)
      /\ AtomId(t, r.names) = v
      /\ \A A : ClausesTrue(r.clauses, A) <=> ClausesTrue(b.clauses, A) /\ ClausesTrue(d, A)
      /\ \A A, val : Describes(r.names, A, val) =>
           (v \in A <=> val \in models[t]) /\ (va \in A <=> val \in models[t[2]]) /\ (vb \in A <=> val \in models[t[3]])
  <2>1. RootOf(t, b, t[3], r)
    <3> HIDE DEF r
    <3> QED BY <1>l, <1>1, <1>2, <1>4, CompletedFacts
  <2> HIDE DEF r
  <2> QED BY <2>1 DEF RootOf
<1>7. \A A : ClausesTrue(d, A) <=> (v \in A <=> Joins(t[1], va \in A, vb \in A))
  <2> HIDE DEF v, va, vb
  <2>1. CASE t[1] = "imp"
    BY <1>6, <2>1, DefiningSays DEF Joins
  <2>2. CASE t[1] = "disj"
    BY <1>6, <2>2, DefiningSays DEF Joins
  <2>3. CASE t[1] = "conj"
    BY <1>6, <2>3, DefiningSays DEF Joins
  <2> QED BY <2>1, <2>2, <2>3
<1>8. r.names \in Seq(FormulaTerms)
  BY <1>6, StateParts
<1>9. \A A, val : /\ Reads(r.names, A, val) => Reads(b.names, A, val) /\ Reads(a.names, A, val)
                  /\ Describes(r.names, A, val) => Describes(b.names, A, val) /\ Describes(a.names, A, val)
  BY <1>2, <1>3, <1>6, <1>8, ReadsBefore
<1>e. /\ \A A, val : val \in Interpretations /\ ClausesTrue(a.clauses, A) =>
           /\ ClausesTrue(st.clauses, A)
           /\ Reads(a.names, A, val) => (va \in A <=> val \in models[t[2]])
      /\ \A A, val : val \in Interpretations /\ ClausesTrue(st.clauses, A) /\ Describes(a.names, A, val) =>
           ClausesTrue(a.clauses, A)
  BY <1>4 DEF Encoded
<1>f. /\ \A A, val : val \in Interpretations /\ ClausesTrue(b.clauses, A) =>
           /\ ClausesTrue(a.clauses, A)
           /\ Reads(b.names, A, val) => (vb \in A <=> val \in models[t[3]])
      /\ \A A, val : val \in Interpretations /\ ClausesTrue(a.clauses, A) /\ Describes(b.names, A, val) =>
           ClausesTrue(b.clauses, A)
  BY DEF Encoded
<1> HIDE DEF r, v, va, vb, d
<1>j. \A p, q, x, y \in BOOLEAN : (p <=> x) /\ (q <=> y) => (Joins(t[1], p, q) <=> Joins(t[1], x, y))
  BY DEF Joins
<1>10. ASSUME NEW A, NEW val \in Interpretations, (va \in A) <=> val \in models[t[2]], (vb \in A) <=> val \in models[t[3]]
       PROVE  Joins(t[1], va \in A, vb \in A) <=> val \in models[t]
  BY <1>5, <1>10 DEF Joins
<1>11. ASSUME NEW A, NEW val \in Interpretations, ClausesTrue(r.clauses, A)
       PROVE  ClausesTrue(st.clauses, A) /\ (Reads(r.names, A, val) => (v \in A <=> val \in models[t]))
  <2>1. ClausesTrue(b.clauses, A) /\ (v \in A <=> Joins(t[1], va \in A, vb \in A))
    BY <1>6, <1>7, <1>11
  <2>2. ClausesTrue(a.clauses, A)
    BY <1>f, <2>1
  <2>3. ClausesTrue(st.clauses, A)
    BY <1>e, <2>2
  <2>4. ASSUME Reads(r.names, A, val) PROVE (va \in A <=> val \in models[t[2]]) /\ (vb \in A <=> val \in models[t[3]])
    BY <1>e, <1>f, <1>9, <2>1, <2>2, <2>4
  <2> QED BY <1>10, <2>1, <2>3, <2>4
<1>12. ASSUME NEW A, NEW val \in Interpretations, ClausesTrue(st.clauses, A), Describes(r.names, A, val)
       PROVE  ClausesTrue(r.clauses, A)
  <2>1. ClausesTrue(a.clauses, A)
    BY <1>e, <1>9, <1>12
  <2>2. ClausesTrue(b.clauses, A)
    BY <1>f, <1>9, <1>12, <2>1
  <2>3. v \in A <=> Joins(t[1], va \in A, vb \in A)
    BY <1>6, <1>10, <1>12
  <2> QED BY <1>6, <1>7, <2>2, <2>3
<1>13. Extended(st.names, r.names)
  BY <1>2, <1>6, ExtendedTwice
<1> QED BY <1>6, <1>11, <1>12, <1>13 DEF Encoded, r

LEMMA PlainIsEncoded ==
  ASSUME NEW t \in FormulaTerms, plain[t], NEW st \in States, Distinct(st.names)
  PROVE  Encoded(t, st, tseitin_rec[<<t, st>>])
<1> DEFINE G == {u \in FormulaTerms : plain[u] =>
                   \A s \in States : Distinct(s.names) => Encoded(u, s, tseitin_rec[<<u, s>>])}
<1>1. ASSUME NEW u \in FormulaTerms, Subterms(u) \subseteq G PROVE u \in G
  <2> SUFFICES ASSUME plain[u], NEW s \in States, Distinct(s.names)
               PROVE  Encoded(u, s, tseitin_rec[<<u, s>>])
    OBVIOUS
  <2>0. PlainStep(u, plain)
    BY PlainDefined
  <2>1. CASE Len(u) = 1
    BY <2>1, AtomEncoded
  <2>2. CASE Len(u) = 2
    <3>1. u[1] = "not" /\ plain[u[2]] /\ u[2] \in Subterms(u)
      BY <2>0, <2>2, FormulaKinds DEF PlainStep
    <3>2. Encoded(u[2], s, tseitin_rec[<<u[2], s>>])
      BY <1>1, <3>1
    <3> HIDE DEF G
    <3> QED BY <2>2, <3>1, <3>2, NegationEncoded
  <2>3. CASE Len(u) = 3
    <3> DEFINE a == tseitin_rec[<<u[2], s>>]
               b == tseitin_rec[<<u[3], a>>]
    <3>1. u[1] \in {"imp", "conj", "disj"} /\ plain[u[2]] /\ u[2] \in G /\ plain[u[3]] /\ u[3] \in G
      BY <1>1, <2>0, <2>3, FormulaKinds DEF PlainStep
    <3>2. Encoded(u[2], s, a)
      BY <3>1
    <3>3. a \in States /\ Distinct(a.names)
      BY <3>2 DEF Encoded
    <3>4. Encoded(u[3], a, b)
      BY <3>1, <3>3
    <3> HIDE DEF G
    <3> QED BY <2>3, <3>1, <3>2, <3>4, ConnectiveEncoded
  <2> QED BY <2>1, <2>2, <2>3, FormulaKinds
<1>2. FormulaTerms \subseteq G
  <2> HIDE DEF G
  <2> QED BY <1>1, FormulaInduction
<1> QED BY <1>2
\* The clauses made of a plain formula can be made true when the formula can.
LEMMA TransformIsRight ==
  ASSUME NEW t \in FormulaTerms, plain[t]
  PROVE  /\ tseitin_transform(t) \in Seq(Seq(Int \ {0}))
         /\ (\E A : ClausesTrue(tseitin_transform(t), A)) <=> models[t] # {}
<1> DEFINE st == Named(<<>>, <<>>)
           r == tseitin_rec[<<t, st>>]
           v == AtomId(t, r.names)
           T == Seq(Int \ {0})
           cs == tseitin_transform(t)
<1>1. st \in States /\ st.clauses = <<>> /\ st.names = <<>>
  <2>1. <<>> \in Seq(Seq(Int \ {0})) /\ <<>> \in Seq(FormulaTerms)
    OBVIOUS
  <2> QED BY <2>1, NamedFacts
<1>2. Distinct(st.names) /\ \A A : ClausesTrue(st.clauses, A)
  <2>1. DOMAIN <<>> = {}
    OBVIOUS
  <2> QED BY <1>1, <2>1 DEF Distinct, ClausesTrue
<1>3. Encoded(t, st, r)
  <2> HIDE DEF st
  <2> QED BY <1>1, <1>2, PlainIsEncoded
<1>4. r.clauses \in Seq(T) /\ r.names \in Seq(FormulaTerms) /\ IsIn(t, r.names)
  <2> HIDE DEF r, T
  <2>1. r \in States /\ IsIn(t, r.names)
    BY <1>3 DEF Encoded
  <2> QED BY <2>1, StateParts DEF T
<1>5. v \in Nat \ {0} /\ v \in DOMAIN r.names /\ r.names[v] = t
  <2> HIDE DEF r
  <2> QED BY <1>4, AtomIdType
<1>6. cs = Append(r.clauses, <<v>>)
  BY PlainIsItself DEF tseitin_transform
<1>7. cs = r.clauses \o <<<<v>>>> /\ <<<<v>>>> \in Seq(T)
  <2> HIDE DEF r, v, cs
  <2>1. <<v>> \in T
    BY <1>5
  <2> HIDE DEF T
  <2>2. Append(r.clauses, <<v>>) = r.clauses \o <<<<v>>>>
    BY <1>4, <2>1, AppendIsConcat
  <2> QED BY <1>6, <2>1, <2>2
<1>8. cs \in Seq(T)
  <2> HIDE DEF r, v, cs, T
  <2> QED BY <1>4, <1>7
<1>9. ASSUME NEW A PROVE ClausesTrue(cs, A) <=> ClausesTrue(r.clauses, A) /\ v \in A
  <2>1. ClausesTrue(<<<<v>>>>, A) <=> ClauseTrue(<<v>>, A)
    <3>1. DOMAIN <<<<v>>>> = {1} /\ <<<<v>>>>[1] = <<v>>
      OBVIOUS
    <3> QED BY <3>1 DEF ClausesTrue, ClauseTrue
  <2> HIDE DEF r, v, cs, T
  <2>2. ClauseTrue(<<v>>, A) <=> v \in A
    BY <1>5, ShortClauses, NumberTrue
  <2>3. ClausesTrue(cs, A) <=> ClausesTrue(r.clauses, A) /\ ClausesTrue(<<<<v>>>>, A)
    BY <1>4, <1>7, TrueTogether
  <2> QED BY <2>1, <2>2, <2>3
<1> HIDE DEF r, v, cs, st
<1>10. ASSUME NEW A, ClausesTrue(cs, A) PROVE models[t] # {}
  <2> DEFINE val == {a \in FormulaAtoms : IsIn(<<a>>, r.names) /\ AtomId(<<a>>, r.names) \in A}
  <2>1. val \in Interpretations /\ Reads(r.names, A, val)
    BY DEF Interpretations, Reads
  <2>2. ClausesTrue(r.clauses, A) /\ v \in A
    BY <1>9, <1>10
  <2> HIDE DEF val
  <2>3. val \in models[t]
    BY <1>3, <2>1, <2>2 DEF Encoded, v
  <2> QED BY <2>3
<1>11. ASSUME NEW val \in models[t] PROVE \E A : ClausesTrue(cs, A)
  <2> DEFINE A == {i \in DOMAIN r.names : val \in models[r.names[i]]}
  <2>1. Describes(r.names, A, val) /\ v \in A
    BY <1>5 DEF Describes
  <2>2. val \in Interpretations
    BY ModelsDefined
  <2> HIDE DEF A
  <2>3. ClausesTrue(r.clauses, A)
    BY <1>2, <1>3, <2>1, <2>2 DEF Encoded
  <2> QED BY <1>9, <2>1, <2>3
<1> QED BY <1>8, <1>10, <1>11 DEF cs, T

-----------------------------------------------------------------------------
(* The solver on a formula. *)

\* Once a plain formula is being solved, the solver has its clauses.
FormulaInv ==
  /\ formula.how = "given" \/ formula \in Formulas
  /\ sat = "idle" => formula.how = "given" /\ SatInv
  /\ (sat # "idle" /\ formula.how = "tseitin" /\ plain[formula.term]) =>
       SatInv /\ clauses_given = tseitin_transform(formula.term)

LEMMA FormulaInvInit == ClausifyInit => FormulaInv
BY InitInv DEF ClausifyInit, FormulaInv

LEMMA DpllKeeps ==
  ASSUME dpll
  PROVE  sat # "idle" /\ sat' # "idle" /\ clauses_given' = clauses_given
<1>1. CASE unit_propagate
  BY <1>1 DEF unit_propagate, find_conflict, assign_units, end_of_propagation
<1>2. CASE decide
  BY <1>2 DEF decide, decide_as
<1>3. CASE learn_and_backtrack
  BY <1>3 DEF learn_and_backtrack
<1>4. CASE refuted
  BY <1>4 DEF refuted
<1> QED BY <1>1, <1>2, <1>3, <1>4 DEF dpll

LEMMA SolveFormulaInv ==
  ASSUME FormulaInv, NEW f \in Formulas, solve_formula(f)
  PROVE  FormulaInv'
<1> DEFINE cs == IF f.how = "tseitin" THEN tseitin_transform(f.term) ELSE hol_to_cnf(f.term)
<1>1. sat = "idle" /\ solve_clauses(cs) /\ formula' = f
  BY DEF solve_formula
<1>2. sat' # "idle" /\ clauses_given' = cs /\ SatInv
  BY <1>1 DEF solve_clauses, FormulaInv
<1>3. ASSUME f.how = "tseitin", plain[f.term] PROVE SatInv' /\ clauses_given' = tseitin_transform(f.term)
  <2>1. f.term \in FormulaTerms
    BY FormulasAssumption
  <2>2. cs = tseitin_transform(f.term)
    BY <1>3
  <2>3. cs \in Seq(Seq(Int \ {0}))
    BY <1>3, <2>1, <2>2, TransformIsRight
  <2> HIDE DEF cs
  <2> QED BY <1>1, <1>2, <2>2, <2>3, SolveClausesInv
<1> HIDE DEF cs
<1> QED BY <1>1, <1>2, <1>3 DEF FormulaInv

LEMMA FormulaStep == FormulaInv /\ [ClausifyNext]_clausifyVars => FormulaInv'
<1> SUFFICES ASSUME FormulaInv, [ClausifyNext]_clausifyVars PROVE FormulaInv'
  OBVIOUS
<1>1. ASSUME NEW f \in Formulas, solve_formula(f) PROVE FormulaInv'
  BY <1>1, SolveFormulaInv
<1>2. ASSUME NEW cs \in ClauseLists, solve_clauses(cs), UNCHANGED formula PROVE FormulaInv'
  <2>1. formula.how = "given" /\ sat' # "idle"
    BY <1>2 DEF FormulaInv, solve_clauses
  <2> QED BY <1>2, <2>1 DEF FormulaInv
<1>3. CASE dpll /\ UNCHANGED formula
  <2>1. sat # "idle" /\ sat' # "idle" /\ clauses_given' = clauses_given
    BY <1>3, DpllKeeps
  <2>2. SatInv => SatInv'
    BY <1>3, SatStep DEF SatNext
  <2> QED BY <1>3, <2>1, <2>2 DEF FormulaInv
<1>4. CASE UNCHANGED clausifyVars
  <2>1. UNCHANGED satVars /\ formula' = formula
    BY <1>4 DEF clausifyVars
  <2>2. SatInv => SatInv'
    BY <2>1, StutterInv
  <2>3. sat' = sat /\ clauses_given' = clauses_given
    BY <2>1 DEF satVars
  <2> QED BY <2>1, <2>2, <2>3 DEF FormulaInv
<1> QED BY <1>1, <1>2, <1>3, <1>4 DEF ClausifyNext, SatNext

\* The variables without a place in the table of assignments do not matter.
LEMMA TrueWithinTable ==
  ASSUME SatInv, NEW A, ClausesTrue(clauses_given, A)
  PROVE  ClausesTrue(clauses_given, A \intersect DOMAIN assignments)
<1> DEFINE B == A \intersect DOMAIN assignments
<1>1. ASSUME NEW i \in DOMAIN clauses_given, NEW j \in DOMAIN clauses_given[i]
      PROVE  LitTrue(clauses_given[i][j], A) <=> LitTrue(clauses_given[i][j], B)
  <2>1. var_of(clauses_given[i][j]) \in DOMAIN assignments
    BY DEF SatInv, SatTypeOK
  <2> QED BY <2>1 DEF LitTrue, var_of
<1> HIDE DEF B
<1>2. ClausesTrue(clauses_given, B)
  BY <1>1 DEF ClausesTrue
<1> QED BY <1>2 DEF B

LEMMA FormulaInvIsEnough == FormulaInv => FormulaAnswersAreRight
<1> SUFFICES ASSUME FormulaInv, sat \in {"satisfiable", "unsatisfiable"}, formula.how = "tseitin", plain[formula.term]
             PROVE  sat = "satisfiable" <=> models[formula.term] # {}
  BY DEF FormulaAnswersAreRight
<1>1. SatInv /\ clauses_given = tseitin_transform(formula.term) /\ formula \in Formulas
  BY DEF FormulaInv
<1>2. formula.term \in FormulaTerms
  BY <1>1, FormulasAssumption
<1>3. (\E A : ClausesTrue(clauses_given, A)) <=> models[formula.term] # {}
  BY <1>1, <1>2, TransformIsRight
<1>4. AnswersAreRight
  BY <1>1 DEF SatInv
<1>5. CASE sat = "satisfiable"
  BY <1>3, <1>4, <1>5 DEF AnswersAreRight
<1>6. CASE sat = "unsatisfiable"
  <2>1. ASSUME NEW A, ClausesTrue(clauses_given, A) PROVE FALSE
    <3>1. ClausesTrue(clauses_given, A \intersect DOMAIN assignments)
      BY <1>1, <2>1, TrueWithinTable
    <3> QED BY <1>4, <1>6, <3>1 DEF AnswersAreRight
  <2> QED BY <1>3, <1>6, <2>1
<1> QED BY <1>5, <1>6

\* Whatever formulas the solver is given: made into clauses with a variable for each part,
\* a plain formula is found satisfiable if some interpretation makes it true, and is found
\* unsatisfiable if none does.
THEOREM FormulaAnswersAlways == ClausifySpec => []FormulaAnswersAreRight
<1>1. FormulaInv /\ [ClausifyNext]_clausifyVars => FormulaInv'
  BY FormulaStep
<1>2. ClausifyInit => FormulaInv
  BY FormulaInvInit
<1>3. FormulaInv => FormulaAnswersAreRight
  BY FormulaInvIsEnough
<1> QED BY <1>1, <1>2, <1>3, PTL DEF ClausifySpec
================================================================================
