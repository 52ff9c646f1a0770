----------------------------- MODULE LinarithProofs -----------------------------
(***************************************************************************)
(* Proofs about linear arithmetic, for all variables, terms and goals.     *)
(*                                                                         *)
(* Terms are followed by induction over their height, sums over variables  *)
(* by induction over the variables; both come from one lemma about sets    *)
(* with a measure.  An elimination adds inequations with factors that are  *)
(* not negative, so that whoever meets the constraints stated meets those  *)
(* that are left: when these contradict each other, nobody meets the       *)
(* premises and the negated goal.                                          *)
(***************************************************************************)
EXTENDS Linarith, FiniteSetTheorems, SequenceTheorems, WellFoundedInduction, TLAPS

-----------------------------------------------------------------------------
(* Induction and recursion along a measure. *)

Smaller == {ss \in Nat \X Nat : ss[1] < ss[2]}

LEMMA LeastNumber ==
  ASSUME NEW T, T \subseteq Nat, T # {}
  PROVE  \E n \in T : \A k \in T : n <= k
<1>1. IsWellFoundedOn(Smaller, Nat)
  <2>1. IsWellFoundedOn(OpToRel(<, Nat), Nat)
    BY NatLessThanWellFounded
  <2>2. OpToRel(<, Nat) = Smaller
    BY DEF OpToRel, Smaller
  <2> QED BY <2>1, <2>2
<1>2. PICK n \in T : \A k \in T : ~(<<k, n>> \in Smaller)
  BY <1>1, WFMin
<1>3. \A k \in T : ~(k < n)
  BY <1>2 DEF Smaller
<1> QED BY <1>3

\* Each element of S has parts in S of smaller measure.
Measured(S, m, parts) ==
  /\ m \in [S -> Nat] /\ parts \in [S -> SUBSET S]
  /\ \A s \in S : \A p \in parts[s] : m[p] < m[s]

LEMMA MeasureInduction ==
  ASSUME NEW S, NEW m, NEW parts, Measured(S, m, parts),
         NEW G, \A s \in S : parts[s] \subseteq G => s \in G
  PROVE  S \subseteq G
<1> SUFFICES ASSUME S \ G # {} PROVE FALSE
  OBVIOUS
<1> DEFINE T == {m[s] : s \in S \ G}
<1>1. T \subseteq Nat /\ T # {}
  BY DEF Measured
<1>2. PICK n \in T : \A k \in T : n <= k
  <2> HIDE DEF T
  <2> QED BY <1>1, LeastNumber
<1>3. PICK s \in S \ G : m[s] = n
  OBVIOUS
<1>4. ASSUME NEW p \in parts[s], p \notin G PROVE FALSE
  <2>1. p \in S /\ m[p] < m[s] /\ m[p] \in Nat /\ m[s] \in Nat
    BY <1>3 DEF Measured
  <2>2. m[s] <= m[p]
    BY <1>2, <1>3, <1>4, <2>1
  <2> QED BY <2>1, <2>2
<1> QED BY <1>3, <1>4

\* What step makes of an element depends on what is given to its parts.
Recursion(S, parts, E, step) ==
  /\ E # {} /\ step \in [S \X [S -> E] -> E]
  /\ \A s \in S : \A g, h \in [S -> E] :
       (\A p \in parts[s] : g[p] = h[p]) => step[<<s, g>>] = step[<<s, h>>]

LEMMA MeasureRecursion ==
  ASSUME NEW S, NEW m, NEW parts, Measured(S, m, parts), NEW E, NEW step,
         Recursion(S, parts, E, step)
  PROVE  \E f \in [S -> E] : \A s \in S : f[s] = step[<<s, f>>]
<1> DEFINE Upto(n, f) == f \in [S -> E] /\ \A s \in S : m[s] < n => f[s] = step[<<s, f>>]
<1>m. \A s \in S : m[s] \in Nat /\ parts[s] \subseteq S /\ \A p \in parts[s] : p \in S /\ m[p] \in Nat /\ m[p] < m[s]
  BY DEF Measured
<1>e. /\ E # {} /\ step \in [S \X [S -> E] -> E]
      /\ \A s \in S : \A g, h \in [S -> E] :
           (\A p \in parts[s] : g[p] = h[p]) => step[<<s, g>>] = step[<<s, h>>]
  BY DEF Recursion
<1>1. \A n \in Nat : \E f : Upto(n, f)
  <2> DEFINE T == {n \in Nat : ~\E f : Upto(n, f)}
  <2> SUFFICES ASSUME T # {} PROVE FALSE
    OBVIOUS
  <2>1. PICK n \in T : \A k \in T : n <= k
    BY LeastNumber
  <2>2. n # 0
    <3>1. PICK e : e \in E
      BY <1>e
    <3>2. Upto(0, [s \in S |-> e])
      BY <1>m, <3>1
    <3> QED BY <3>2
  <2>3. n - 1 \in Nat /\ n - 1 \notin T
    BY <2>1, <2>2
  <2>4. PICK f : Upto(n - 1, f)
    BY <2>3
  <2> DEFINE g == [s \in S |-> IF m[s] < n - 1 THEN f[s] ELSE step[<<s, f>>]]
  <2>5. g \in [S -> E]
    BY <1>e, <2>4
  <2>6. ASSUME NEW s \in S, m[s] < n PROVE g[s] = step[<<s, g>>]
    <3>1. g[s] = step[<<s, f>>]
      BY <2>4
    <3>2. \A p \in parts[s] : f[p] = g[p]
      BY <1>m, <2>1, <2>6
    <3>3. step[<<s, f>>] = step[<<s, g>>]
      <4> HIDE DEF g
      <4> QED BY <1>e, <2>4, <2>5, <3>2
    <3> QED BY <3>1, <3>3
  <2>7. Upto(n, g)
    <3> HIDE DEF g
    <3> QED BY <2>5, <2>6
  <2> QED BY <2>7
<1>2. \A n \in Nat : \A f, g : Upto(n, f) /\ Upto(n, g) => \A s \in S : m[s] < n => f[s] = g[s]
  <2> SUFFICES ASSUME NEW n \in Nat, NEW f, NEW g, Upto(n, f), Upto(n, g)
               PROVE  \A s \in S : m[s] < n => f[s] = g[s]
    OBVIOUS
  <2> DEFINE G == {s \in S : m[s] < n => f[s] = g[s]}
  <2>1. ASSUME NEW s \in S, parts[s] \subseteq G PROVE s \in G
    <3> SUFFICES ASSUME m[s] < n PROVE f[s] = g[s]
      OBVIOUS
    <3>1. \A p \in parts[s] : m[p] < n
      BY <1>m
    <3>2. \A p \in parts[s] : f[p] = g[p]
      BY <2>1, <3>1
    <3>3. step[<<s, f>>] = step[<<s, g>>]
      BY <1>e, <3>2
    <3> QED BY <3>3
  <2>2. S \subseteq G
    <3> HIDE DEF G
    <3> QED BY <2>1, MeasureInduction
  <2> QED BY <2>2
<1>3. \A k \in Nat, n \in Nat : \A f : k <= n /\ Upto(n, f) => Upto(k, f)
  BY <1>m
<1> DEFINE C(n) == CHOOSE f : Upto(n, f)
           F == [s \in S |-> C(m[s] + 1)[s]]
<1>4. \A n \in Nat : Upto(n, C(n))
  BY <1>1
<1>5. F \in [S -> E]
  <2> SUFFICES ASSUME NEW s \in S PROVE C(m[s] + 1)[s] \in E
    OBVIOUS
  <2>1. m[s] + 1 \in Nat
    BY <1>m
  <2>2. Upto(m[s] + 1, C(m[s] + 1))
    <3> HIDE DEF Upto, C
    <3> QED BY <1>4, <2>1
  <2> HIDE DEF C
  <2> QED BY <2>2
<1>6. ASSUME NEW s \in S PROVE F[s] = step[<<s, F>>]
  <2> DEFINE f == C(m[s] + 1)
  <2>1. Upto(m[s] + 1, f) /\ m[s] + 1 \in Nat /\ m[s] < m[s] + 1
    <3>1. m[s] + 1 \in Nat /\ m[s] < m[s] + 1
      BY <1>m
    <3> HIDE DEF Upto, C
    <3> QED BY <1>4, <3>1
  <2>2. ASSUME NEW p \in parts[s] PROVE F[p] = f[p]
    <3> DEFINE h == C(m[p] + 1)
    <3>1. p \in S /\ m[p] + 1 \in Nat /\ m[p] < m[p] + 1 /\ m[p] + 1 <= m[s] + 1
      BY <1>m
    <3>2. Upto(m[p] + 1, h)
      BY <1>4, <3>1
    <3>3. F[p] = h[p]
      BY <3>1
    <3> HIDE DEF h, f, C, F
    <3>4. Upto(m[p] + 1, f)
      BY <1>3, <2>1, <3>1
    <3>5. h[p] = f[p]
      <4> HIDE DEF Upto
      <4> QED BY <1>2, <3>1, <3>2, <3>4
    <3> QED BY <3>3, <3>5
  <2>3. F[s] = f[s]
    OBVIOUS
  <2> HIDE DEF F, f, C
  <2>4. f[s] = step[<<s, f>>] /\ f \in [S -> E]
    BY <2>1
  <2>5. step[<<s, F>>] = step[<<s, f>>]
    BY <1>e, <1>5, <2>2, <2>4
  <2> QED BY <2>3, <2>4, <2>5
<1> HIDE DEF F
<1> QED BY <1>5, <1>6

-----------------------------------------------------------------------------
(* Functions of terms. *)

LEMMA TermsMeasured ==
  Measured(Terms, [t \in Terms |-> height(t)], [t \in Terms |-> Parts(t)])
BY TermsAssumption DEF Measured

LEMMA TermInduction ==
  ASSUME NEW G, \A t \in Terms : Parts(t) \subseteq G => t \in G
  PROVE  Terms \subseteq G
<1> DEFINE m == [t \in Terms |-> height(t)]
           parts == [t \in Terms |-> Parts(t)]
<1>1. Measured(Terms, m, parts)
  BY TermsMeasured
<1>2. \A t \in Terms : parts[t] \subseteq G => t \in G
  OBVIOUS
<1> HIDE DEF m, parts
<1> QED BY <1>1, <1>2, MeasureInduction

LEMMA TermRecursion ==
  ASSUME NEW E, NEW step, Recursion(Terms, [t \in Terms |-> Parts(t)], E, step)
  PROVE  \E f : f = [t \in Terms |-> step[<<t, f>>]] /\ f \in [Terms -> E]
<1> DEFINE m == [t \in Terms |-> height(t)]
           parts == [t \in Terms |-> Parts(t)]
<1>1. Measured(Terms, m, parts)
  BY TermsMeasured
<1>2. Recursion(Terms, parts, E, step)
  OBVIOUS
<1> HIDE DEF m, parts
<1>3. PICK f \in [Terms -> E] : \A t \in Terms : f[t] = step[<<t, f>>]
  BY <1>1, <1>2, MeasureRecursion
<1>4. f = [t \in Terms |-> step[<<t, f>>]]
  BY <1>3
<1> QED BY <1>3, <1>4

LEMMA TermKinds ==
  ASSUME NEW t \in Terms
  PROVE  /\ t[1] = "num" => t[2] \in Int
         /\ t[1] = "var" => t[2] \in Names
         /\ t[1] = "Suc" => t[2] \in Parts(t)
         /\ t[1] \in {"plus", "minus", "times"} => t[2] \in Parts(t) /\ t[3] \in Parts(t)
         /\ Parts(t) \subseteq Terms
BY TermsAssumption DEF Parts

LEMMA LinearDefined ==
  ASSUME NEW t \in Terms
  PROVE  linear[t] = CASE t[1] \in {"num", "var"} -> TRUE
                       [] t[1] = "Suc" -> linear[t[2]]
                       [] t[1] \in {"plus", "minus"} -> linear[t[2]] /\ linear[t[3]]
                       [] OTHER -> FALSE
<1> DEFINE step == [a \in Terms \X [Terms -> BOOLEAN] |->
                      CASE a[1][1] \in {"num", "var"} -> TRUE
                        [] a[1][1] = "Suc" -> a[2][a[1][2]]
                        [] a[1][1] \in {"plus", "minus"} -> a[2][a[1][2]] /\ a[2][a[1][3]]
                        [] OTHER -> FALSE]
<1>1. step \in [Terms \X [Terms -> BOOLEAN] -> BOOLEAN]
  BY TermKinds
<1>2. \A u \in Terms : \A g, h \in [Terms -> BOOLEAN] :
        (\A p \in Parts(u) : g[p] = h[p]) => step[<<u, g>>] = step[<<u, h>>]
  BY TermKinds
<1>r. Recursion(Terms, [u \in Terms |-> Parts(u)], BOOLEAN, step)
  <2> HIDE DEF step
  <2> QED BY <1>1, <1>2 DEF Recursion
<1>3. PICK f : f = [u \in Terms |-> step[<<u, f>>]] /\ f \in [Terms -> BOOLEAN]
  <2> HIDE DEF step
  <2> QED BY <1>r, TermRecursion
<1> DEFINE Rhs(g) == [u \in Terms |-> CASE u[1] \in {"num", "var"} -> TRUE
                                         [] u[1] = "Suc" -> g[u[2]]
                                         [] u[1] \in {"plus", "minus"} -> g[u[2]] /\ g[u[3]]
                                         [] OTHER -> FALSE]
<1>4. f = Rhs(f)
  <2>1. \A u \in Terms : step[<<u, f>>] = Rhs(f)[u]
    BY <1>3
  <2>2. Rhs(f) = [u \in Terms |-> Rhs(f)[u]]
    OBVIOUS
  <2> HIDE DEF Rhs, step
  <2> QED BY <1>3, <2>1, <2>2
<1>5. \E g : g = Rhs(g)
  <2> HIDE DEF Rhs
  <2> QED BY <1>4
<1>6. linear = Rhs(linear)
  BY <1>5 DEF linear
<1> QED BY <1>6

-----------------------------------------------------------------------------
(* Expressions. *)

LinExprs == [constant : Int, coeffs : [Names -> Int]]

LEMMA IntegerProducts ==
  /\ \A i, j \in Int : i * j \in Int
  /\ \A p, q, i, j, k \in Int : (i * p + j * q) * k = p * (i * k) + q * (j * k)
  /\ \A i, j, k \in Int : i * j - i * k = i * (j - k)
OBVIOUS

LEMMA LinExprType ==
  /\ \A k \in Int : constant(k) \in LinExprs
  /\ \A x \in Names : var(x) \in LinExprs
  /\ \A a, b \in LinExprs : add(a, b) \in LinExprs /\ sub(a, b) \in LinExprs
  /\ \A a \in LinExprs, k \in Int : scale(a, k) \in LinExprs
<1>1. \A k \in Int, c \in [Names -> Int] : LinExpr(k, c) \in LinExprs
  BY DEF LinExpr, LinExprs
<1>2. \A a \in LinExprs : a.constant \in Int /\ a.coeffs \in [Names -> Int]
  BY DEF LinExprs
<1>3. \A a, b \in LinExprs : add(a, b) \in LinExprs
  <2> SUFFICES ASSUME NEW a \in LinExprs, NEW b \in LinExprs PROVE add(a, b) \in LinExprs
    OBVIOUS
  <2> DEFINE c == [x \in Names |-> a.coeffs[x] + b.coeffs[x]]
  <2>1. a.constant + b.constant \in Int /\ c \in [Names -> Int]
    BY <1>2
  <2> HIDE DEF c
  <2>2. LinExpr(a.constant + b.constant, c) \in LinExprs
    BY <1>1, <2>1
  <2> QED BY <2>2 DEF add, c
<1>4. \A a \in LinExprs, k \in Int : scale(a, k) \in LinExprs
  <2> SUFFICES ASSUME NEW a \in LinExprs, NEW k \in Int PROVE scale(a, k) \in LinExprs
    OBVIOUS
  <2> DEFINE c == [x \in Names |-> a.coeffs[x] * k]
  <2>1. a.constant * k \in Int /\ c \in [Names -> Int]
    BY <1>2, IntegerProducts
  <2> HIDE DEF c
  <2>2. LinExpr(a.constant * k, c) \in LinExprs
    BY <1>1, <2>1
  <2> QED BY <2>2 DEF scale, c
<1>5. \A a, b \in LinExprs : sub(a, b) \in LinExprs
  BY <1>3, <1>4 DEF sub
<1> QED BY <1>1, <1>3, <1>4, <1>5 DEF constant, var

LEMMA ExpressionDefined ==
  /\ expression \in [Terms -> LinExprs]
  /\ \A t \in Terms : /\ t[1] = "num" => expression[t] = constant(t[2])
                      /\ t[1] = "var" => expression[t] = var(t[2])
                      /\ t[1] = "Suc" => expression[t] = add(expression[t[2]], constant(1))
                      /\ t[1] = "plus" => expression[t] = add(expression[t[2]], expression[t[3]])
                      /\ t[1] = "minus" => expression[t] = sub(expression[t[2]], expression[t[3]])
<1> DEFINE step == [a \in Terms \X [Terms -> LinExprs] |->
                      CASE a[1][1] = "num" -> constant(a[1][2])
                        [] a[1][1] = "var" -> var(a[1][2])
                        [] a[1][1] = "Suc" -> add(a[2][a[1][2]], constant(1))
                        [] a[1][1] = "plus" -> add(a[2][a[1][2]], a[2][a[1][3]])
                        [] a[1][1] = "minus" -> sub(a[2][a[1][2]], a[2][a[1][3]])
                        [] OTHER -> constant(0)]
           Rhs(g) == [u \in Terms |-> CASE u[1] = "num" -> constant(u[2])
                                        [] u[1] = "var" -> var(u[2])
                                        [] u[1] = "Suc" -> add(g[u[2]], constant(1))
                                        [] u[1] = "plus" -> add(g[u[2]], g[u[3]])
                                        [] u[1] = "minus" -> sub(g[u[2]], g[u[3]])
                                        [] OTHER -> constant(0)]
<1>1. step \in [Terms \X [Terms -> LinExprs] -> LinExprs]
  BY TermKinds, LinExprType
<1>2. \A u \in Terms : \A g, h \in [Terms -> LinExprs] :
        (\A p \in Parts(u) : g[p] = h[p]) => step[<<u, g>>] = step[<<u, h>>]
  BY TermKinds
<1>3. Recursion(Terms, [u \in Terms |-> Parts(u)], LinExprs, step)
  <2>1. constant(0) \in LinExprs
    BY LinExprType
  <2> HIDE DEF step
  <2> QED BY <1>1, <1>2, <2>1 DEF Recursion
<1>4. PICK f : f = [u \in Terms |-> step[<<u, f>>]] /\ f \in [Terms -> LinExprs]
  <2> HIDE DEF step
  <2> QED BY <1>3, TermRecursion
<1>5. f = Rhs(f)
  <2>1. \A u \in Terms : step[<<u, f>>] = Rhs(f)[u]
    BY <1>4
  <2>2. Rhs(f) = [u \in Terms |-> Rhs(f)[u]]
    OBVIOUS
  <2> HIDE DEF Rhs, step
  <2> QED BY <1>4, <2>1, <2>2
<1>6. \E g : g = Rhs(g)
  <2> HIDE DEF Rhs
  <2> QED BY <1>5
<1>7. expression = Rhs(expression)
  BY <1>6 DEF expression
<1> DEFINE G == {u \in Terms : expression[u] \in LinExprs}
<1>8. ASSUME NEW u \in Terms, Parts(u) \subseteq G PROVE u \in G
  <2>1. Rhs(expression)[u] \in LinExprs
    BY <1>8, TermKinds, LinExprType
  <2> HIDE DEF Rhs
  <2> QED BY <1>7, <2>1
<1>9. Terms \subseteq G
  <2> HIDE DEF G
  <2> QED BY <1>8, TermInduction
<1>10. expression = [u \in Terms |-> expression[u]]
  BY <1>7
<1> QED BY <1>7, <1>9, <1>10

-----------------------------------------------------------------------------
(* Values of terms, and which of them subtract. *)

NatVals == [Names -> Nat]

LEMMA ValueDefined ==
  /\ value \in [Terms -> [NatVals -> Nat]]
  /\ \A t \in Terms, val \in NatVals :
       /\ t[1] = "num" => value[t][val] = t[2]
       /\ t[1] = "var" => value[t][val] = val[t[2]]
       /\ t[1] = "Suc" => value[t][val] = value[t[2]][val] + 1
       /\ t[1] = "plus" => value[t][val] = value[t[2]][val] + value[t[3]][val]
<1> DEFINE At(u, g, val) ==
             CASE u[1] = "num" -> u[2]
               [] u[1] = "var" -> val[u[2]]
               [] u[1] = "Suc" -> g[u[2]][val] + 1
               [] u[1] = "plus" -> g[u[2]][val] + g[u[3]][val]
               [] u[1] = "minus" -> IF g[u[2]][val] > g[u[3]][val]
                                    THEN g[u[2]][val] - g[u[3]][val] ELSE 0
               [] u[1] = "times" -> g[u[2]][val] * g[u[3]][val]
               [] OTHER -> 0
           E == [NatVals -> Nat]
           step == [a \in Terms \X [Terms -> E] |-> [val \in NatVals |-> At(a[1], a[2], val)]]
           Rhs(g) == [u \in Terms |-> [val \in [Names -> Nat] |->
             CASE u[1] = "num" -> u[2]
               [] u[1] = "var" -> val[u[2]]
               [] u[1] = "Suc" -> g[u[2]][val] + 1
               [] u[1] = "plus" -> g[u[2]][val] + g[u[3]][val]
               [] u[1] = "minus" -> IF g[u[2]][val] > g[u[3]][val]
                                    THEN g[u[2]][val] - g[u[3]][val] ELSE 0
               [] u[1] = "times" -> g[u[2]][val] * g[u[3]][val]
               [] OTHER -> 0]]
<1>1. \A g : \A u \in Terms, val \in NatVals :
        (\A p \in Parts(u) : g[p] \in E) => At(u, g, val) \in Nat
  <2> SUFFICES ASSUME NEW u \in Terms, NEW g, NEW val \in NatVals, \A p \in Parts(u) : g[p] \in E
               PROVE  At(u, g, val) \in Nat
    OBVIOUS
  <2>1. \A p \in Parts(u) : g[p][val] \in Nat
    OBVIOUS
  <2>2. \A i, j \in Nat : i + 1 \in Nat /\ i + j \in Nat /\ (i > j => i - j \in Nat)
    OBVIOUS
  <2>3. \A i, j \in Nat : i * j \in Nat
    OBVIOUS
  <2>4. u[1] = "num" => u[2] \in Nat
    BY TermsAssumption
  <2>5. u[1] = "var" => val[u[2]] \in Nat
    BY TermKinds DEF NatVals
  <2>6. CASE u[1] \in {"num", "var"}
    BY <2>4, <2>5, <2>6
  <2>7. CASE u[1] = "Suc"
    BY <2>1, <2>2, <2>7, TermKinds
  <2>8. CASE u[1] = "plus"
    BY <2>1, <2>2, <2>8, TermKinds
  <2>9. CASE u[1] = "minus"
    BY <2>1, <2>2, <2>9, TermKinds
  <2>10. CASE u[1] = "times"
    BY <2>1, <2>3, <2>10, TermKinds
  <2>11. CASE u[1] \notin {"num", "var", "Suc", "plus", "minus", "times"}
    BY <2>11
  <2> QED BY <2>6, <2>7, <2>8, <2>9, <2>10, <2>11
<1>2. step \in [Terms \X [Terms -> E] -> E]
  <2>1. ASSUME NEW a \in Terms \X [Terms -> E]
        PROVE  [val \in NatVals |-> At(a[1], a[2], val)] \in E
    <3>1. \A p \in Parts(a[1]) : a[2][p] \in E
      <4> HIDE DEF E
      <4> QED BY TermKinds
    <3>2. \A val \in NatVals : At(a[1], a[2], val) \in Nat
      <4> HIDE DEF At, E
      <4> QED BY <1>1, <3>1
    <3> HIDE DEF At
    <3> QED BY <3>2
  <2> HIDE DEF At, E
  <2> QED BY <2>1
<1>3. \A u \in Terms : \A g, h \in [Terms -> E] :
        (\A p \in Parts(u) : g[p] = h[p]) => step[<<u, g>>] = step[<<u, h>>]
  <2> SUFFICES ASSUME NEW u \in Terms, NEW g \in [Terms -> E], NEW h \in [Terms -> E],
                      \A p \in Parts(u) : g[p] = h[p]
               PROVE  step[<<u, g>>] = step[<<u, h>>]
    OBVIOUS
  <2>1. \A val \in NatVals : At(u, g, val) = At(u, h, val)
    <3> HIDE DEF E
    <3> QED BY TermKinds
  <2> HIDE DEF At, E
  <2> QED BY <2>1
<1>4. Recursion(Terms, [u \in Terms |-> Parts(u)], E, step)
  <2>1. [val \in NatVals |-> 0] \in E
    OBVIOUS
  <2> HIDE DEF step, E
  <2> QED BY <1>2, <1>3, <2>1 DEF Recursion
<1>5. PICK f : f = [u \in Terms |-> step[<<u, f>>]] /\ f \in [Terms -> E]
  <2> HIDE DEF step, E
  <2> QED BY <1>4, TermRecursion
<1>6. f = Rhs(f)
  <2>1. ASSUME NEW u \in Terms PROVE step[<<u, f>>] = Rhs(f)[u]
    <3>1. <<u, f>> \in Terms \X [Terms -> E]
      BY <1>5
    <3>2. step[<<u, f>>] = [val \in NatVals |-> At(u, f, val)]
      <4> HIDE DEF At, E
      <4> QED BY <3>1
    <3>3. Rhs(f)[u] = [val \in NatVals |-> At(u, f, val)]
      BY DEF NatVals
    <3> HIDE DEF step, At, Rhs, E
    <3> QED BY <3>2, <3>3
  <2>2. Rhs(f) = [u \in Terms |-> Rhs(f)[u]]
    OBVIOUS
  <2> HIDE DEF Rhs, step, E
  <2> QED BY <1>5, <2>1, <2>2
<1>7. \E g : g = Rhs(g)
  <2> HIDE DEF Rhs
  <2> QED BY <1>6
<1>8. value = Rhs(value)
  BY <1>7 DEF value
<1>9. \A u \in Terms : value[u] = [val \in NatVals |-> At(u, value, val)]
  BY <1>8 DEF NatVals
<1> DEFINE G == {u \in Terms : value[u] \in E}
<1>10. ASSUME NEW u \in Terms, Parts(u) \subseteq G PROVE u \in G
  <2>1. \A p \in Parts(u) : value[p] \in E
    BY <1>10
  <2>2. \A val \in NatVals : At(u, value, val) \in Nat
    <3> HIDE DEF At, E
    <3> QED BY <1>1, <2>1
  <2> HIDE DEF At
  <2> QED BY <1>9, <2>2
<1>11. Terms \subseteq G
  <2> HIDE DEF G
  <2> QED BY <1>10, TermInduction
<1>12. value \in [Terms -> E]
  <2>1. value = [u \in Terms |-> value[u]]
    BY <1>8
  <2> QED BY <1>11, <2>1
<1>13. \A t \in Terms, val \in NatVals : value[t][val] = At(t, value, val)
  <2> HIDE DEF At
  <2> QED BY <1>9
<1> QED BY <1>12, <1>13

LEMMA SubtractsDefined ==
  ASSUME NEW t \in Terms
  PROVE  /\ subtracts[t] = (t[1] = "minus" \/ \E p \in Parts(t) : subtracts[p])
         /\ subtracts[t] \in BOOLEAN
<1> DEFINE step == [a \in Terms \X [Terms -> BOOLEAN] |-> a[1][1] = "minus" \/ \E p \in Parts(a[1]) : a[2][p]]
           Rhs(g) == [u \in Terms |-> u[1] = "minus" \/ \E p \in Parts(u) : g[p]]
<1>1. step \in [Terms \X [Terms -> BOOLEAN] -> BOOLEAN]
  OBVIOUS
<1>2. \A u \in Terms : \A g, h \in [Terms -> BOOLEAN] :
        (\A p \in Parts(u) : g[p] = h[p]) => step[<<u, g>>] = step[<<u, h>>]
  OBVIOUS
<1>3. Recursion(Terms, [u \in Terms |-> Parts(u)], BOOLEAN, step)
  <2> HIDE DEF step
  <2> QED BY <1>1, <1>2 DEF Recursion
<1>4. PICK f : f = [u \in Terms |-> step[<<u, f>>]] /\ f \in [Terms -> BOOLEAN]
  <2> HIDE DEF step
  <2> QED BY <1>3, TermRecursion
<1>5. f = Rhs(f)
  <2>1. \A u \in Terms : step[<<u, f>>] = Rhs(f)[u]
    BY <1>4
  <2>2. Rhs(f) = [u \in Terms |-> Rhs(f)[u]]
    OBVIOUS
  <2> HIDE DEF Rhs, step
  <2> QED BY <1>4, <2>1, <2>2
<1>6. \E g : g = Rhs(g)
  <2> HIDE DEF Rhs
  <2> QED BY <1>5
<1>7. subtracts = Rhs(subtracts)
  BY <1>6 DEF subtracts
<1> QED BY <1>7

-----------------------------------------------------------------------------
(* Sums over the variables. *)

Count == Len(ArithVars)
Rows == [1..Count -> Int]

LEMMA CountType ==
  /\ Count \in Nat /\ DOMAIN ArithVars = 1..Count
  /\ \A n \in 1..Count : ArithVars[n] \in Names
BY VarsAssumption DEF Count, Names

LEMMA IndexInduction ==
  ASSUME NEW G, 0 \in G, \A n \in 1..Count : n - 1 \in G => n \in G
  PROVE  0..Count \subseteq G
<1> DEFINE S == 0..Count
           m == [n \in S |-> n]
           parts == [n \in S |-> IF n = 0 THEN {} ELSE {n - 1}]
<1>1. Measured(S, m, parts)
  BY CountType DEF Measured
<1>2. \A n \in S : parts[n] \subseteq G => n \in G
  BY CountType
<1> HIDE DEF m, parts, S
<1>3. S \subseteq G
  BY <1>1, <1>2, MeasureInduction
<1> QED BY <1>3 DEF S

LEMMA TotalDefined ==
  /\ total \in [0..Count -> [Rows -> Int]]
  /\ \A f \in Rows : total[0][f] = 0
  /\ \A n \in 1..Count, f \in Rows : total[n][f] = total[n - 1][f] + f[n]
<1> DEFINE S == 0..Count
           E == [Rows -> Int]
           m == [n \in S |-> n]
           parts == [n \in S |-> IF n = 0 THEN {} ELSE {n - 1}]
           step == [a \in S \X [S -> E] |-> [f \in Rows |-> IF a[1] = 0 THEN 0 ELSE a[2][a[1] - 1][f] + f[a[1]]]]
           Rhs(g) == [n \in 0..Len(ArithVars) |->
                        [f \in [1..Len(ArithVars) -> Int] |-> IF n = 0 THEN 0 ELSE g[n - 1][f] + f[n]]]
<1>1. Measured(S, m, parts)
  BY CountType DEF Measured
<1>2. \A n \in S : n # 0 => n - 1 \in S /\ \A f \in Rows : f[n] \in Int
  BY CountType DEF Rows
<1>3. step \in [S \X [S -> E] -> E]
  <2>1. ASSUME NEW a \in S \X [S -> E]
        PROVE  [f \in Rows |-> IF a[1] = 0 THEN 0 ELSE a[2][a[1] - 1][f] + f[a[1]]] \in E
    <3>1. ASSUME NEW f \in Rows, a[1] # 0 PROVE a[2][a[1] - 1][f] + f[a[1]] \in Int
      <4>1. f[a[1]] \in Int /\ a[1] - 1 \in S
        BY <1>2, <3>1
      <4>2. a[2][a[1] - 1][f] \in Int
        <5> HIDE DEF S
        <5> QED BY <4>1
      <4> QED BY <4>1, <4>2
    <3> QED BY <3>1
  <2> HIDE DEF S, E
  <2> QED BY <2>1
<1>4. \A n \in S : \A g, h \in [S -> E] :
        (\A p \in parts[n] : g[p] = h[p]) => step[<<n, g>>] = step[<<n, h>>]
  <2> HIDE DEF E
  <2> QED OBVIOUS
<1>5. Recursion(S, parts, E, step)
  <2>1. [f \in Rows |-> 0] \in E
    OBVIOUS
  <2> HIDE DEF S, E, step, parts
  <2> QED BY <1>3, <1>4, <2>1 DEF Recursion
<1>6. PICK g \in [S -> E] : \A n \in S : g[n] = step[<<n, g>>]
  <2> HIDE DEF S, E, step, parts, m
  <2> QED BY <1>1, <1>5, MeasureRecursion
<1>7. g = Rhs(g)
  <2>1. \A n \in S : step[<<n, g>>] = Rhs(g)[n]
    BY DEF Rows, Count
  <2>2. Rhs(g) = [n \in S |-> Rhs(g)[n]]
    BY DEF Count
  <2> HIDE DEF Rhs, step, S, E
  <2> QED BY <1>6, <2>1, <2>2
<1>8. \E h : h = Rhs(h)
  <2> HIDE DEF Rhs
  <2> QED BY <1>7
<1>9. total = Rhs(total)
  BY <1>8 DEF total
<1>10. \A n \in S, f \in Rows : total[n][f] = IF n = 0 THEN 0 ELSE total[n - 1][f] + f[n]
  <2>1. \A n \in S, f \in Rows : Rhs(total)[n][f] = IF n = 0 THEN 0 ELSE total[n - 1][f] + f[n]
    BY DEF Rows, Count
  <2> HIDE DEF Rhs, S
  <2> QED BY <1>9, <2>1
<1>11. \A n \in S : (\A f \in Rows : total[n][f] \in Int) => total[n] \in E
  <2>1. \A n \in S : Rhs(total)[n] = [f \in Rows |-> Rhs(total)[n][f]]
    BY DEF Rows, Count
  <2>2. \A n \in S : total[n] = [f \in Rows |-> total[n][f]]
    <3> HIDE DEF Rhs, S
    <3> QED BY <1>9, <2>1
  <2> QED BY <2>2
<1> DEFINE G == {n \in S : total[n] \in E}
<1>12. 0 \in G
  <2>1. 0 \in S /\ \A f \in Rows : total[0][f] = 0
    BY <1>10, CountType
  <2> HIDE DEF E, S
  <2> QED BY <1>11, <2>1
<1>13. ASSUME NEW n \in 1..Count, n - 1 \in G PROVE n \in G
  <2>1. \A f \in Rows : total[n][f] \in Int
    BY <1>2, <1>10, <1>13
  <2>2. n \in S
    BY CountType
  <2> HIDE DEF E, S
  <2> QED BY <1>11, <2>1, <2>2
<1>14. S \subseteq G
  <2> HIDE DEF G
  <2> QED BY <1>12, <1>13, IndexInduction
<1>15. total \in [S -> E]
  <2>1. total = [n \in S |-> total[n]]
    BY <1>9 DEF Count
  <2> QED BY <1>14, <2>1
<1> QED BY <1>10, <1>15, CountType

LEMMA TotalType ==
  ASSUME NEW f \in Rows, NEW n \in 0..Count
  PROVE  total[n][f] \in Int
BY TotalDefined

LEMMA TotalCombines ==
  ASSUME NEW f \in Rows, NEW g \in Rows, NEW h \in Rows, NEW p \in Int, NEW q \in Int,
         \A n \in 1..Count : h[n] = p * f[n] + q * g[n]
  PROVE  total[Count][h] = p * total[Count][f] + q * total[Count][g]
<1> DEFINE G == {n \in 0..Count : total[n][h] = p * total[n][f] + q * total[n][g]}
<1>1. 0 \in G
  BY TotalDefined, CountType
<1>2. ASSUME NEW n \in 1..Count, n - 1 \in G PROVE n \in G
  <2> DEFINE a == total[n - 1][f]
             b == total[n - 1][g]
  <2>1. a \in Int /\ b \in Int /\ f[n] \in Int /\ g[n] \in Int
    <3>1. n - 1 \in 0..Count
      BY CountType
    <3>2. a \in Int /\ b \in Int
      BY <3>1, TotalType
    <3> QED BY <3>2 DEF Rows
  <2>2. /\ total[n][f] = a + f[n] /\ total[n][g] = b + g[n]
        /\ total[n][h] = (p * a + q * b) + (p * f[n] + q * g[n])
    BY <1>2, TotalDefined
  <2>3. \A i, j \in Int : (p * a + q * b) + (p * i + q * j) = p * (a + i) + q * (b + j)
    <3> HIDE DEF a, b
    <3> QED BY <2>1
  <2> HIDE DEF a, b
  <2>4. total[n][h] = p * (a + f[n]) + q * (b + g[n])
    BY <2>1, <2>2, <2>3
  <2> QED BY <2>2, <2>4, CountType
<1>3. 0..Count \subseteq G
  <2> HIDE DEF G
  <2> QED BY <1>1, <1>2, IndexInduction
<1> QED BY <1>3, CountType

LEMMA TotalDiffersAt ==
  ASSUME NEW f \in Rows, NEW g \in Rows, NEW i \in 1..Count, \A n \in 1..Count : n # i => f[n] = g[n]
  PROVE  total[Count][f] = total[Count][g] + (f[i] - g[i])
<1> DEFINE G == {n \in 0..Count : total[n][f] = total[n][g] + (IF n < i THEN 0 ELSE f[i] - g[i])}
<1>1. 0 \in G
  BY TotalDefined, CountType
<1>2. ASSUME NEW n \in 1..Count, n - 1 \in G PROVE n \in G
  <2>1. total[n - 1][f] \in Int /\ total[n - 1][g] \in Int /\ f[n] \in Int /\ g[n] \in Int
    <3>1. n - 1 \in 0..Count
      BY CountType
    <3>2. f[n] \in Int /\ g[n] \in Int
      BY DEF Rows
    <3> QED BY <3>1, <3>2, TotalType
  <2>2. total[n][f] = total[n - 1][f] + f[n] /\ total[n][g] = total[n - 1][g] + g[n]
    BY TotalDefined
  <2>3. CASE n = i
    BY <1>2, <2>1, <2>2, <2>3, CountType
  <2>4. CASE n # i
    <3>1. f[n] = g[n] /\ f[i] \in Int /\ g[i] \in Int
      BY <2>4 DEF Rows
    <3> QED BY <1>2, <2>1, <2>2, <2>4, <3>1, CountType
  <2> QED BY <2>3, <2>4
<1>3. 0..Count \subseteq G
  <2> HIDE DEF G
  <2> QED BY <1>1, <1>2, IndexInduction
<1> QED BY <1>3, CountType

-----------------------------------------------------------------------------
(* What an expression comes to. *)

Vals == [Names -> Int]
Row(e, val) == [n \in 1..Count |-> e.coeffs[ArithVars[n]] * val[ArithVars[n]]]
ExprSum(e, val) == e.constant + total[Count][Row(e, val)]

LEMMA RowType ==
  ASSUME NEW e \in LinExprs, NEW val \in Vals
  PROVE  Row(e, val) \in Rows
<1>1. \A n \in 1..Count : e.coeffs[ArithVars[n]] \in Int /\ val[ArithVars[n]] \in Int
  BY CountType DEF LinExprs, Vals
<1> QED BY <1>1, IntegerProducts DEF Row, Rows

LEMMA ExprSumType ==
  ASSUME NEW e \in LinExprs, NEW val \in Vals
  PROVE  ExprSum(e, val) \in Int
BY RowType, TotalType, CountType DEF ExprSum, LinExprs

LEMMA SumOfIsExprSum ==
  ASSUME NEW c, NEW val
  PROVE  SumOf(c, val) = ExprSum(c.e, val)
BY DEF SumOf, ExprSum, Row, Count, coefficient

LEMMA ExprSumCombines ==
  ASSUME NEW a \in LinExprs, NEW b \in LinExprs, NEW p \in Int, NEW q \in Int, NEW val \in Vals
  PROVE  ExprSum(add(scale(a, p), scale(b, q)), val) = p * ExprSum(a, val) + q * ExprSum(b, val)
<1> DEFINE c == add(scale(a, p), scale(b, q))
<1>1. /\ c \in LinExprs
      /\ c.constant = a.constant * p + b.constant * q
      /\ \A x \in Names : c.coeffs[x] = a.coeffs[x] * p + b.coeffs[x] * q
  <2>1. c \in LinExprs
    BY LinExprType
  <2> QED BY <2>1 DEF add, scale, LinExpr
<1> HIDE DEF c
<1>2. /\ a.constant \in Int /\ b.constant \in Int
      /\ \A x \in Names : a.coeffs[x] \in Int /\ b.coeffs[x] \in Int /\ val[x] \in Int
  BY DEF LinExprs, Vals
<1>3. \A n \in 1..Count : Row(c, val)[n] = p * Row(a, val)[n] + q * Row(b, val)[n]
  <2> SUFFICES ASSUME NEW n \in 1..Count
               PROVE  Row(c, val)[n] = p * Row(a, val)[n] + q * Row(b, val)[n]
    OBVIOUS
  <2> DEFINE x == ArithVars[n]
  <2>1. x \in Names
    BY CountType
  <2>2. (a.coeffs[x] * p + b.coeffs[x] * q) * val[x] = p * (a.coeffs[x] * val[x]) + q * (b.coeffs[x] * val[x])
    BY <1>2, <2>1, IntegerProducts
  <2>3. /\ Row(c, val)[n] = c.coeffs[x] * val[x] /\ Row(a, val)[n] = a.coeffs[x] * val[x]
        /\ Row(b, val)[n] = b.coeffs[x] * val[x]
    BY DEF Row
  <2> HIDE DEF x
  <2> QED BY <1>1, <2>1, <2>2, <2>3
<1>4. total[Count][Row(c, val)] = p * total[Count][Row(a, val)] + q * total[Count][Row(b, val)]
  BY <1>1, <1>3, RowType, TotalCombines
<1>5. total[Count][Row(a, val)] \in Int /\ total[Count][Row(b, val)] \in Int
  BY RowType, TotalType, CountType
<1>6. \A i, j, k, l \in Int : (i * p + j * q) + (p * k + q * l) = p * (i + k) + q * (j + l)
  OBVIOUS
<1> DEFINE j == total[Count][Row(a, val)]
           k == total[Count][Row(b, val)]
<1>7. (a.constant * p + b.constant * q) + (p * j + q * k) = p * (a.constant + j) + q * (b.constant + k)
  <2> HIDE DEF j, k
  <2> QED BY <1>2, <1>5, <1>6 DEF j, k
<1>8. ExprSum(c, val) = (a.constant * p + b.constant * q) + (p * j + q * k)
  <2> HIDE DEF j, k
  <2> QED BY <1>1, <1>4 DEF ExprSum, j, k
<1>9. ExprSum(a, val) = a.constant + j /\ ExprSum(b, val) = b.constant + k
  BY DEF ExprSum
<1> HIDE DEF j, k
<1>10. ExprSum(c, val) = p * ExprSum(a, val) + q * ExprSum(b, val)
  BY <1>7, <1>8, <1>9
<1> QED BY <1>10 DEF c

LEMMA ScaleByOne ==
  ASSUME NEW a \in LinExprs
  PROVE  scale(a, 1) = a
<1>1. a.coeffs = [x \in Names |-> a.coeffs[x] * 1]
  BY DEF LinExprs
<1>2. a.constant * 1 = a.constant
  BY DEF LinExprs
<1>3. a = [constant |-> a.constant, coeffs |-> a.coeffs]
  BY DEF LinExprs
<1> QED BY <1>1, <1>2, <1>3 DEF scale, LinExpr

LEMMA ExprSumOfSums ==
  ASSUME NEW a \in LinExprs, NEW b \in LinExprs, NEW val \in Vals
  PROVE  /\ ExprSum(add(a, b), val) = ExprSum(a, val) + ExprSum(b, val)
         /\ ExprSum(sub(a, b), val) = ExprSum(a, val) - ExprSum(b, val)
<1>1. ExprSum(a, val) \in Int /\ ExprSum(b, val) \in Int
  BY ExprSumType
<1>2. ExprSum(add(a, b), val) = 1 * ExprSum(a, val) + 1 * ExprSum(b, val)
  BY ExprSumCombines, ScaleByOne
<1>3. ExprSum(sub(a, b), val) = 1 * ExprSum(a, val) + (-1) * ExprSum(b, val)
  BY ExprSumCombines, ScaleByOne DEF sub
<1> QED BY <1>1, <1>2, <1>3

LEMMA TotalOfZeros ==
  ASSUME NEW f \in Rows, \A n \in 1..Count : f[n] = 0
  PROVE  total[Count][f] = 0
<1>1. \A n \in 1..Count : f[n] = 0 * f[n] + 0 * f[n]
  OBVIOUS
<1>2. total[Count][f] = 0 * total[Count][f] + 0 * total[Count][f]
  BY <1>1, TotalCombines
<1>3. total[Count][f] \in Int
  BY TotalType, CountType
<1> QED BY <1>2, <1>3

LEMMA ExprSumOfNothing ==
  ASSUME NEW e \in LinExprs, NEW val \in Vals, \A x \in Names : e.coeffs[x] = 0
  PROVE  ExprSum(e, val) = e.constant
<1>1. \A n \in 1..Count : Row(e, val)[n] = 0
  BY CountType DEF Row, Vals
<1>2. total[Count][Row(e, val)] = 0
  BY <1>1, RowType, TotalOfZeros
<1> QED BY <1>2 DEF ExprSum, LinExprs

LEMMA ExprSumOfConstant ==
  ASSUME NEW k \in Int, NEW val \in Vals
  PROVE  ExprSum(constant(k), val) = k
BY ExprSumOfNothing, LinExprType DEF constant, LinExpr

\* How the value changes when that of one variable does.
LEMMA ExprSumWith ==
  ASSUME NEW e \in LinExprs, NEW val \in Vals, NEW x \in Names, NEW k \in Int
  PROVE  ExprSum(e, [val EXCEPT ![x] = k]) = ExprSum(e, val) + e.coeffs[x] * (k - val[x])
<1> DEFINE new == [val EXCEPT ![x] = k]
<1>1. new \in Vals /\ new[x] = k /\ \A y \in Names : y # x => new[y] = val[y]
  BY DEF Vals
<1> HIDE DEF new
<1>2. PICK i \in 1..Count : ArithVars[i] = x /\ \A n \in 1..Count : n # i => ArithVars[n] # x
  BY VarsAssumption DEF Names, Count
<1>3. \A n \in 1..Count : n # i => Row(e, new)[n] = Row(e, val)[n]
  BY <1>1, <1>2, CountType DEF Row
<1>4. Row(e, new)[i] = e.coeffs[x] * k /\ Row(e, val)[i] = e.coeffs[x] * val[x]
  BY <1>1, <1>2 DEF Row
<1>5. total[Count][Row(e, new)] = total[Count][Row(e, val)] + (Row(e, new)[i] - Row(e, val)[i])
  BY <1>1, <1>3, RowType, TotalDiffersAt
<1>6. e.coeffs[x] \in Int /\ val[x] \in Int /\ e.constant \in Int
  BY DEF LinExprs, Vals
<1>7. e.coeffs[x] * k - e.coeffs[x] * val[x] = e.coeffs[x] * (k - val[x])
  BY <1>6, IntegerProducts
<1>8. e.coeffs[x] * (k - val[x]) \in Int /\ total[Count][Row(e, val)] \in Int
  <2>1. total[Count][Row(e, val)] \in Int
    BY RowType, TotalType, CountType
  <2>2. k - val[x] \in Int
    BY <1>6
  <2> QED BY <1>6, <2>1, <2>2, IntegerProducts
<1>9. total[Count][Row(e, new)] = total[Count][Row(e, val)] + e.coeffs[x] * (k - val[x])
  BY <1>4, <1>5, <1>7
<1> QED BY <1>6, <1>8, <1>9 DEF ExprSum, new

LEMMA ExprSumOfVar ==
  ASSUME NEW x \in Names, NEW val \in Vals
  PROVE  ExprSum(var(x), val) = val[x]
<1> DEFINE new == [val EXCEPT ![x] = 0]
<1>1. var(x) \in LinExprs /\ var(x).coeffs[x] = 1 /\ var(x).constant = 0 /\ val[x] \in Int
  BY LinExprType DEF Vals, var, LinExpr
<1>2. new \in Vals /\ new[x] = 0
  BY DEF Vals
<1>3. ASSUME NEW n \in 1..Count PROVE Row(var(x), new)[n] = 0
  <2>1. new[ArithVars[n]] \in Int /\ (ArithVars[n] = x => new[ArithVars[n]] = 0)
    BY <1>2, CountType DEF Vals
  <2>2. ArithVars[n] # x => var(x).coeffs[ArithVars[n]] = 0
    BY CountType DEF var, LinExpr
  <2> HIDE DEF new
  <2> QED BY <1>1, <2>1, <2>2 DEF Row
<1>4. ExprSum(var(x), new) = 0
  <2> HIDE DEF new
  <2>1. total[Count][Row(var(x), new)] = 0
    BY <1>1, <1>2, <1>3, RowType, TotalOfZeros
  <2> QED BY <1>1, <2>1 DEF ExprSum
<1>5. ExprSum(var(x), new) = ExprSum(var(x), val) + 1 * (0 - val[x])
  BY <1>1, ExprSumWith
<1>6. ExprSum(var(x), val) \in Int
  BY <1>1, ExprSumType
<1> QED BY <1>1, <1>4, <1>5, <1>6

-----------------------------------------------------------------------------
(* What statements say, and what their constraints say. *)

Statements == STRING \X Terms \X Terms
Constraints == {le_zero(e) : e \in LinExprs}

\* An expression made of a term without subtraction comes to the value of the term.
LEMMA ExpressionIsValue ==
  ASSUME NEW t \in Terms, linear[t], ~subtracts[t], NEW val \in NatVals
  PROVE  ExprSum(expression[t], val) = value[t][val]
<1> DEFINE G == {u \in Terms : linear[u] /\ ~subtracts[u] => ExprSum(expression[u], val) = value[u][val]}
<1>v. val \in Vals
  BY DEF Vals, NatVals
<1>1. ASSUME NEW u \in Terms, Parts(u) \subseteq G PROVE u \in G
  <2> SUFFICES ASSUME linear[u], ~subtracts[u] PROVE ExprSum(expression[u], val) = value[u][val]
    OBVIOUS
  <2>1. /\ u[1] \in {"num", "var", "Suc", "plus"}
        /\ u[1] = "Suc" => linear[u[2]]
        /\ u[1] = "plus" => linear[u[2]] /\ linear[u[3]]
    BY LinearDefined, SubtractsDefined
  <2>2. \A p \in Parts(u) : p \in Terms /\ ~subtracts[p] /\ (linear[p] => ExprSum(expression[p], val) = value[p][val])
    BY <1>1, SubtractsDefined
  <2> HIDE DEF G
  <2>3. \A p \in Terms : expression[p] \in LinExprs
    BY ExpressionDefined
  <2>4. CASE u[1] = "num"
    BY <2>4, <1>v, TermKinds, ExpressionDefined, ValueDefined, ExprSumOfConstant
  <2>5. CASE u[1] = "var"
    BY <2>5, <1>v, TermKinds, ExpressionDefined, ValueDefined, ExprSumOfVar
  <2>6. CASE u[1] = "Suc"
    <3>1. u[2] \in Terms /\ ExprSum(expression[u[2]], val) = value[u[2]][val]
      BY <2>1, <2>2, <2>6, TermKinds
    <3>2. ExprSum(expression[u], val) = ExprSum(expression[u[2]], val) + ExprSum(constant(1), val)
      <4>1. constant(1) \in LinExprs
        BY LinExprType
      <4>2. expression[u] = add(expression[u[2]], constant(1))
        BY <2>6, ExpressionDefined
      <4> QED BY <1>v, <2>3, <3>1, <4>1, <4>2, ExprSumOfSums
    <3>3. ExprSum(constant(1), val) = 1
      BY <1>v, ExprSumOfConstant
    <3>4. value[u][val] = value[u[2]][val] + 1
      BY <2>6, ValueDefined
    <3> QED BY <3>1, <3>2, <3>3, <3>4
  <2>7. CASE u[1] = "plus"
    <3>1. /\ u[2] \in Terms /\ ExprSum(expression[u[2]], val) = value[u[2]][val]
          /\ u[3] \in Terms /\ ExprSum(expression[u[3]], val) = value[u[3]][val]
      BY <2>1, <2>2, <2>7, TermKinds
    <3>2. ExprSum(expression[u], val) = ExprSum(expression[u[2]], val) + ExprSum(expression[u[3]], val)
      BY <1>v, <2>3, <2>7, <3>1, ExpressionDefined, ExprSumOfSums
    <3>3. value[u][val] = value[u[2]][val] + value[u[3]][val]
      BY <2>7, ValueDefined
    <3> QED BY <3>1, <3>2, <3>3
  <2> QED BY <2>1, <2>4, <2>5, <2>6, <2>7
<1>2. Terms \subseteq G
  <2> HIDE DEF G
  <2> QED BY <1>1, TermInduction
<1> QED BY <1>2

LEMMA ConstraintFields ==
  ASSUME NEW e
  PROVE  le_zero(e).e = e /\ ~le_zero(e).is_strict /\ le_zero(e).strict_count = 0
<1>1. le_zero(e) = [e |-> e, is_strict |-> FALSE, strict_count |-> 0]
  <2>1. (0 > 0) = FALSE
    OBVIOUS
  <2> QED BY <2>1 DEF le_zero, Constraint
<1> QED BY <1>1

LEMMA ConstraintType ==
  ASSUME NEW c \in Constraints
  PROVE  c.e \in LinExprs /\ ~c.is_strict /\ c.strict_count = 0 /\ c = le_zero(c.e)
<1>1. PICK e \in LinExprs : c = le_zero(e)
  BY DEF Constraints
<1> QED BY <1>1, ConstraintFields

LEMMA MeetsMeans ==
  ASSUME NEW cs \in SUBSET Constraints, NEW val
  PROVE  Meets(val, cs) <=> \A c \in cs : ExprSum(c.e, val) <= 0
BY ConstraintType, SumOfIsExprSum DEF Meets

\* a <= b + k as a constraint.
LEMMA DifferenceMeans ==
  ASSUME NEW a \in LinExprs, NEW b \in LinExprs, NEW val \in Vals
  PROVE  /\ sub(a, b) \in LinExprs /\ sub(succ(a), b) \in LinExprs
         /\ ExprSum(sub(a, b), val) = ExprSum(a, val) - ExprSum(b, val)
         /\ ExprSum(sub(succ(a), b), val) = (ExprSum(a, val) + 1) - ExprSum(b, val)
<1>1. succ(a) \in LinExprs /\ sub(a, b) \in LinExprs
  BY LinExprType DEF succ
<1>2. ExprSum(succ(a), val) = ExprSum(a, val) + 1
  BY ExprSumOfSums, ExprSumOfConstant, LinExprType DEF succ
<1> QED BY <1>1, <1>2, ExprSumOfSums, LinExprType

LEMMA AtomType ==
  ASSUME NEW s \in Statements, IsAtom(s)
  PROVE  /\ term_to_atom(s).rel = s[1] /\ s[1] \in Relations
         /\ term_to_atom(s).lhs = expression[s[2]] /\ term_to_atom(s).lhs \in LinExprs
         /\ term_to_atom(s).rhs = expression[s[3]] /\ term_to_atom(s).rhs \in LinExprs
BY ExpressionDefined DEF Statements, IsAtom, term_to_atom, term_to_lin_expr

LEMMA ConstraintsAre ==
  ASSUME NEW a
  PROVE  /\ a.rel = "eq" => /\ atom_to_constraints(a) = <<le_zero(sub(a.lhs, a.rhs)), le_zero(sub(a.rhs, a.lhs))>>
                            /\ negate_goal(a, "Nat") = <<le_zero(sub(succ(a.lhs), a.rhs)), le_zero(sub(succ(a.rhs), a.lhs))>>
         /\ a.rel = "less" => /\ atom_to_constraints(a) = <<le_zero(sub(succ(a.lhs), a.rhs))>>
                              /\ negate_goal(a, "Nat") = <<le_zero(sub(a.rhs, a.lhs))>>
         /\ a.rel = "less_eq" => /\ atom_to_constraints(a) = <<le_zero(sub(a.lhs, a.rhs))>>
                                 /\ negate_goal(a, "Nat") = <<le_zero(sub(succ(a.rhs), a.lhs))>>
BY DEF atom_to_constraints, negate_goal

LEMMA AtomConstraints ==
  ASSUME NEW s \in Statements, IsAtom(s)
  PROVE  /\ Elements(atom_to_constraints(term_to_atom(s))) \in SUBSET Constraints
         /\ IsFiniteSet(Elements(atom_to_constraints(term_to_atom(s))))
         /\ Elements(negate_goal(term_to_atom(s), "Nat")) \in SUBSET Constraints
         /\ IsFiniteSet(Elements(negate_goal(term_to_atom(s), "Nat")))
<1> DEFINE a == term_to_atom(s)
<1>1. \A e, f :
        Elements(<<le_zero(e)>>) = {le_zero(e)} /\ Elements(<<le_zero(e), le_zero(f)>>) = {le_zero(e), le_zero(f)}
  BY DEF Elements
<1>2. \A e \in LinExprs, f \in LinExprs :
        /\ {le_zero(e)} \in SUBSET Constraints /\ {le_zero(e), le_zero(f)} \in SUBSET Constraints
        /\ IsFiniteSet({le_zero(e)}) /\ IsFiniteSet({le_zero(e), le_zero(f)})
  <2>1. \A c, d : IsFiniteSet({c}) /\ IsFiniteSet({c, d})
    <3> TAKE c, d
    <3>1. {c, d} = {c} \union {d}
      OBVIOUS
    <3>2. IsFiniteSet({c}) /\ IsFiniteSet({d})
      BY FS_Singleton
    <3>3. IsFiniteSet({c} \union {d})
      BY <3>2, FS_AddElement
    <3> QED BY <3>1, <3>2, <3>3
  <2>2. \A e \in LinExprs : le_zero(e) \in Constraints
    BY DEF Constraints
  <2> QED BY <2>1, <2>2
<1>3. /\ a.rel \in {"eq", "less", "less_eq"} /\ a.lhs \in LinExprs /\ a.rhs \in LinExprs
      /\ sub(a.lhs, a.rhs) \in LinExprs /\ sub(a.rhs, a.lhs) \in LinExprs
      /\ sub(succ(a.lhs), a.rhs) \in LinExprs /\ sub(succ(a.rhs), a.lhs) \in LinExprs
  BY AtomType, LinExprType DEF Relations, succ
<1> HIDE DEF a
<1>4. Elements(atom_to_constraints(a)) \in SUBSET Constraints /\ IsFiniteSet(Elements(atom_to_constraints(a)))
  <2>1. CASE a.rel = "eq"
    <3>1. atom_to_constraints(a) = <<le_zero(sub(a.lhs, a.rhs)), le_zero(sub(a.rhs, a.lhs))>>
      BY <2>1, ConstraintsAre
    <3>2. Elements(atom_to_constraints(a)) = {le_zero(sub(a.lhs, a.rhs)), le_zero(sub(a.rhs, a.lhs))}
      BY <1>1, <3>1
    <3> QED BY <1>2, <1>3, <3>2
  <2>2. CASE a.rel = "less"
    BY <1>1, <1>2, <1>3, <2>2, ConstraintsAre
  <2>3. CASE a.rel = "less_eq"
    BY <1>1, <1>2, <1>3, <2>3, ConstraintsAre
  <2> QED BY <1>3, <2>1, <2>2, <2>3
<1>5. Elements(negate_goal(a, "Nat")) \in SUBSET Constraints /\ IsFiniteSet(Elements(negate_goal(a, "Nat")))
  <2>1. CASE a.rel = "eq"
    <3>1. negate_goal(a, "Nat") = <<le_zero(sub(succ(a.lhs), a.rhs)), le_zero(sub(succ(a.rhs), a.lhs))>>
      BY <2>1, ConstraintsAre
    <3>2. Elements(negate_goal(a, "Nat")) = {le_zero(sub(succ(a.lhs), a.rhs)), le_zero(sub(succ(a.rhs), a.lhs))}
      BY <1>1, <3>1
    <3> QED BY <1>2, <1>3, <3>2
  <2>2. CASE a.rel = "less"
    BY <1>1, <1>2, <1>3, <2>2, ConstraintsAre
  <2>3. CASE a.rel = "less_eq"
    BY <1>1, <1>2, <1>3, <2>3, ConstraintsAre
  <2> QED BY <1>3, <2>1, <2>2, <2>3
<1> QED BY <1>4, <1>5 DEF a

LEMMA AtomSays ==
  ASSUME NEW s \in Statements, IsAtom(s), ~HasMinus(s[2]), ~HasMinus(s[3]), NEW val \in NatVals
  PROVE  /\ Says(s, val) => Meets(val, Elements(atom_to_constraints(term_to_atom(s))))
         /\ s[1] # "eq" /\ ~Says(s, val) => Meets(val, Elements(negate_goal(term_to_atom(s), "Nat")))
<1> DEFINE at == term_to_atom(s)
           a == value[s[2]][val]
           b == value[s[3]][val]
<1>1. at.lhs \in LinExprs /\ at.rhs \in LinExprs /\ at.rel = s[1] /\ s[1] \in {"eq", "less", "less_eq"}
  BY AtomType DEF Relations
<1>2. s[2] \in Terms /\ s[3] \in Terms /\ val \in Vals
  BY DEF Statements, NatVals, Vals
<1>3. a \in Nat /\ b \in Nat
  BY <1>2, ValueDefined
<1>4. ExprSum(at.lhs, val) = a /\ ExprSum(at.rhs, val) = b
  BY <1>2, AtomType, ExpressionIsValue DEF IsAtom, IsLinear, HasMinus
<1>5. /\ ExprSum(sub(at.lhs, at.rhs), val) = a - b /\ ExprSum(sub(at.rhs, at.lhs), val) = b - a
      /\ ExprSum(sub(succ(at.lhs), at.rhs), val) = (a + 1) - b
      /\ ExprSum(sub(succ(at.rhs), at.lhs), val) = (b + 1) - a
  <2> HIDE DEF at, a, b
  <2> QED BY <1>1, <1>2, <1>4, DifferenceMeans
<1>6. /\ s[1] = "eq" => (Says(s, val) <=> a = b)
      /\ s[1] = "less" => (Says(s, val) <=> a < b)
      /\ s[1] = "less_eq" => (Says(s, val) <=> a <= b)
  BY DEF Says, Value
<1>7. \A e, f : /\ Meets(val, Elements(<<le_zero(e)>>)) <=> ExprSum(e, val) <= 0
                /\ Meets(val, Elements(<<le_zero(e), le_zero(f)>>)) <=> ExprSum(e, val) <= 0 /\ ExprSum(f, val) <= 0
  <2> TAKE e, f
  <2>1. Elements(<<le_zero(e)>>) = {le_zero(e)} /\ Elements(<<le_zero(e), le_zero(f)>>) = {le_zero(e), le_zero(f)}
    BY DEF Elements
  <2> QED BY <2>1, ConstraintFields, SumOfIsExprSum DEF Meets
<1> HIDE DEF at, a, b
<1>8. Says(s, val) => Meets(val, Elements(atom_to_constraints(at)))
  <2>1. CASE s[1] = "eq"
    <3>1. atom_to_constraints(at) = <<le_zero(sub(at.lhs, at.rhs)), le_zero(sub(at.rhs, at.lhs))>>
      BY <1>1, <2>1, ConstraintsAre
    <3>2. Meets(val, Elements(atom_to_constraints(at))) <=> ExprSum(sub(at.lhs, at.rhs), val) <= 0 /\ ExprSum(sub(at.rhs, at.lhs), val) <= 0
      BY <1>7, <3>1
    <3> QED BY <1>3, <1>5, <1>6, <2>1, <3>2
  <2>2. CASE s[1] = "less"
    <3>1. atom_to_constraints(at) = <<le_zero(sub(succ(at.lhs), at.rhs))>>
      BY <1>1, <2>2, ConstraintsAre
    <3>2. Meets(val, Elements(atom_to_constraints(at))) <=> ExprSum(sub(succ(at.lhs), at.rhs), val) <= 0
      BY <1>7, <3>1
    <3> QED BY <1>3, <1>5, <1>6, <2>2, <3>2
  <2>3. CASE s[1] = "less_eq"
    <3>1. atom_to_constraints(at) = <<le_zero(sub(at.lhs, at.rhs))>>
      BY <1>1, <2>3, ConstraintsAre
    <3>2. Meets(val, Elements(atom_to_constraints(at))) <=> ExprSum(sub(at.lhs, at.rhs), val) <= 0
      BY <1>7, <3>1
    <3> QED BY <1>3, <1>5, <1>6, <2>3, <3>2
  <2> QED BY <1>1, <2>1, <2>2, <2>3
<1>9. s[1] # "eq" /\ ~Says(s, val) => Meets(val, Elements(negate_goal(at, "Nat")))
  <2>1. CASE s[1] = "less"
    <3>1. negate_goal(at, "Nat") = <<le_zero(sub(at.rhs, at.lhs))>>
      BY <1>1, <2>1, ConstraintsAre
    <3>2. Meets(val, Elements(negate_goal(at, "Nat"))) <=> ExprSum(sub(at.rhs, at.lhs), val) <= 0
      BY <1>7, <3>1
    <3> QED BY <1>3, <1>5, <1>6, <2>1, <3>2
  <2>2. CASE s[1] = "less_eq"
    <3>1. negate_goal(at, "Nat") = <<le_zero(sub(succ(at.rhs), at.lhs))>>
      BY <1>1, <2>2, ConstraintsAre
    <3>2. Meets(val, Elements(negate_goal(at, "Nat"))) <=> ExprSum(sub(succ(at.rhs), at.lhs), val) <= 0
      BY <1>7, <3>1
    <3> QED BY <1>3, <1>5, <1>6, <2>2, <3>2
  <2> QED BY <1>1, <2>1, <2>2
<1> QED BY <1>8, <1>9 DEF at

-----------------------------------------------------------------------------
(* Elimination of a variable. *)

LEMMA CoefficientType ==
  ASSUME NEW c \in Constraints, NEW x \in Names
  PROVE  coefficient(c, x) \in Int /\ coefficient(c, x) = c.e.coeffs[x]
BY ConstraintType DEF LinExprs, coefficient

LEMMA Combined ==
  ASSUME NEW lower \in Constraints, NEW upper \in Constraints, NEW x \in Names
  PROVE  /\ combine_bounds(lower, upper, x) \in Constraints
         /\ coefficient(combine_bounds(lower, upper, x), x) = 0
         /\ \A val \in Vals : ExprSum(combine_bounds(lower, upper, x).e, val) =
              coefficient(upper, x) * ExprSum(lower.e, val) + (-coefficient(lower, x)) * ExprSum(upper.e, val)
<1> DEFINE p == coefficient(upper, x)
           l == coefficient(lower, x)
           q == -l
           e == add(scale(lower.e, p), scale(upper.e, q))
<1>1. p \in Int /\ l \in Int /\ q \in Int /\ lower.e \in LinExprs /\ upper.e \in LinExprs
  BY CoefficientType, ConstraintType
<1>2. combine_bounds(lower, upper, x) = le_zero(e)
  <2>1. lower.strict_count + upper.strict_count = 0
    BY ConstraintType
  <2> QED BY <2>1 DEF combine_bounds, le_zero
<1>3. e \in LinExprs /\ e.coeffs[x] = l * p + p * (-l)
  <2>1. e \in LinExprs
    <3> HIDE DEF p, q
    <3> QED BY <1>1, LinExprType
  <2>2. lower.e.coeffs[x] = l /\ upper.e.coeffs[x] = p
    BY CoefficientType
  <2>3. e.coeffs[x] = lower.e.coeffs[x] * p + upper.e.coeffs[x] * q
    <3> HIDE DEF p, q
    <3> QED BY DEF add, scale, LinExpr
  <2> QED BY <2>1, <2>2, <2>3
<1>4. l * p + p * (-l) = 0
  <2> HIDE DEF p, l
  <2> QED BY <1>1
<1>5. \A val \in Vals : ExprSum(e, val) = p * ExprSum(lower.e, val) + q * ExprSum(upper.e, val)
  <2> HIDE DEF p, q
  <2> QED BY <1>1, ExprSumCombines
<1> HIDE DEF e
<1>6. le_zero(e) \in Constraints /\ le_zero(e).e = e
  BY <1>3, ConstraintFields DEF Constraints
<1> HIDE DEF p, l
<1>7. coefficient(le_zero(e), x) = 0
  BY <1>3, <1>4, <1>6 DEF coefficient
<1> QED BY <1>2, <1>5, <1>6, <1>7 DEF p, l

LEMMA EliminatedType ==
  ASSUME NEW cs \in SUBSET Constraints, NEW x \in Names
  PROVE  /\ eliminate_var(cs, x) \in SUBSET Constraints
         /\ \A c \in eliminate_var(cs, x) : coefficient(c, x) = 0
BY Combined DEF eliminate_var

LEMMA EliminatedFinite ==
  ASSUME NEW cs \in SUBSET Constraints, IsFiniteSet(cs), NEW x \in Names
  PROVE  IsFiniteSet(eliminate_var(cs, x))
<1> DEFINE uppers == {c \in cs : coefficient(c, x) > 0}
           lowers == {c \in cs : coefficient(c, x) < 0}
           zeros == {c \in cs : coefficient(c, x) = 0}
           pairs == lowers \X uppers
           f == [ss \in pairs |-> combine_bounds(ss[1], ss[2], x)]
           T == {combine_bounds(lower, upper, x) : lower \in lowers, upper \in uppers}
<1>1. IsFiniteSet(zeros) /\ IsFiniteSet(lowers) /\ IsFiniteSet(uppers)
  BY FS_Subset
<1>2. IsFiniteSet(pairs)
  BY <1>1, FS_Product
<1>3. f \in Surjection(pairs, T)
  <2>1. \A ss \in pairs : combine_bounds(ss[1], ss[2], x) \in T
    OBVIOUS
  <2>2. f \in [pairs -> T]
    <3> HIDE DEF T, pairs
    <3> QED BY <2>1
  <2>3. ASSUME NEW t \in T PROVE \E ss \in pairs : f[ss] = t
    <3>1. PICK lower \in lowers, upper \in uppers : t = combine_bounds(lower, upper, x)
      OBVIOUS
    <3>2. <<lower, upper>> \in pairs /\ f[<<lower, upper>>] = t
      BY <3>1
    <3> QED BY <3>2
  <2> HIDE DEF f, pairs, T
  <2> QED BY <2>2, <2>3 DEF Surjection
<1>4. IsFiniteSet(T)
  <2> HIDE DEF f, pairs, T
  <2> QED BY <1>2, <1>3, FS_Surjection
<1>5. IsFiniteSet(zeros \union T)
  <2> HIDE DEF zeros, T
  <2> QED BY <1>1, <1>4, FS_Union
<1> QED BY <1>5 DEF eliminate_var

\* Without the variable its value does not matter.
LEMMA IndependentSum ==
  ASSUME NEW c \in Constraints, NEW x \in Names, coefficient(c, x) = 0, NEW val \in Vals, NEW k \in Int
  PROVE  ExprSum(c.e, [val EXCEPT ![x] = k]) = ExprSum(c.e, val)
<1>1. /\ c.e \in LinExprs /\ c.e.coeffs[x] = 0 /\ k - val[x] \in Int
  BY ConstraintType, CoefficientType DEF Vals
<1>2. ExprSum(c.e, [val EXCEPT ![x] = k]) = ExprSum(c.e, val) + c.e.coeffs[x] * (k - val[x])
  BY <1>1, ExprSumWith
<1>3. ExprSum(c.e, val) \in Int
  BY <1>1, ExprSumType
<1> QED BY <1>1, <1>2, <1>3

\* Whoever meets the constraints meets what an elimination makes of them.
LEMMA EliminationKeeps ==
  ASSUME NEW cs \in SUBSET Constraints, NEW x \in Names, NEW val \in Vals, Meets(val, cs)
  PROVE  Meets(val, eliminate_var(cs, x))
<1>1. \A c \in cs : ExprSum(c.e, val) <= 0 /\ ExprSum(c.e, val) \in Int /\ coefficient(c, x) \in Int
  BY MeetsMeans, ConstraintType, ExprSumType, CoefficientType
<1>2. \A p, q, i, j \in Int : p > 0 /\ q > 0 /\ i <= 0 /\ j <= 0 => p * i + q * j <= 0
  <2>1. \A p, i \in Int : p > 0 /\ i <= 0 => p * i <= 0 /\ p * i \in Int
    OBVIOUS
  <2>2. \A i, j \in Int : i <= 0 /\ j <= 0 => i + j <= 0
    OBVIOUS
  <2> QED BY <2>1, <2>2
<1>3. ASSUME NEW lower \in cs, NEW upper \in cs, coefficient(lower, x) < 0, coefficient(upper, x) > 0
      PROVE  ExprSum(combine_bounds(lower, upper, x).e, val) <= 0
  <2>1. ExprSum(combine_bounds(lower, upper, x).e, val) =
          coefficient(upper, x) * ExprSum(lower.e, val) + (-coefficient(lower, x)) * ExprSum(upper.e, val)
    BY Combined
  <2>2. -coefficient(lower, x) \in Int /\ -coefficient(lower, x) > 0
    BY <1>1, <1>3
  <2> QED BY <1>1, <1>2, <1>3, <2>1, <2>2
<1>4. \A c \in eliminate_var(cs, x) : ExprSum(c.e, val) <= 0
  BY <1>1, <1>3 DEF eliminate_var
<1> QED BY <1>4, EliminatedType, MeetsMeans

LEMMA LeastOf ==
  ASSUME NEW S, IsFiniteSet(S), S # {}, NEW f \in [S -> Int]
  PROVE  \E s \in S : \A r \in S : f[s] <= f[r]
<1> DEFINE Least(R) == \E s \in R : \A r \in R : f[s] <= f[r]
           Bad == {R \in SUBSET S : R # {} /\ ~Least(R)}
           T == {Cardinality(R) : R \in Bad}
<1> SUFFICES ASSUME Bad # {} PROVE FALSE
  OBVIOUS
<1>1. \A R \in SUBSET S : IsFiniteSet(R) /\ Cardinality(R) \in Nat
  BY FS_Subset, FS_CardinalityType
<1>2. PICK n \in T : \A k \in T : n <= k
  <2>1. T \subseteq Nat /\ T # {}
    BY <1>1
  <2> HIDE DEF T
  <2> QED BY <2>1, LeastNumber
<1>3. PICK R \in Bad : Cardinality(R) = n
  OBVIOUS
<1>4. PICK s \in R : TRUE
  OBVIOUS
<1> DEFINE Q == R \ {s}
<1>5. Q \in SUBSET S /\ Cardinality(Q) < n /\ Cardinality(Q) \in Nat /\ n \in Nat
  <2>1. R \in SUBSET S
    OBVIOUS
  <2>2. IsFiniteSet(R) /\ Cardinality(R) \in Nat
    BY <1>1, <2>1
  <2>3. Cardinality(R \ {s}) = Cardinality(R) - 1
    BY <1>4, <2>2, FS_RemoveElement
  <2>4. Q \in SUBSET S
    BY <2>1
  <2>5. Cardinality(Q) \in Nat
    BY <1>1, <2>4
  <2> QED BY <1>3, <2>2, <2>3, <2>4, <2>5
<1>6. Q \notin Bad
  <2> SUFFICES ASSUME Q \in Bad PROVE FALSE
    OBVIOUS
  <2>1. Cardinality(Q) \in T
    <3> HIDE DEF Bad, Q
    <3> QED OBVIOUS
  <2> HIDE DEF T, Bad, Q
  <2> QED BY <1>2, <1>5, <2>1
<1>7. Q # {}
  <2> SUFFICES ASSUME Q = {} PROVE FALSE
    OBVIOUS
  <2>1. R = {s} /\ f[s] \in Int
    BY <1>4
  <2>2. Least(R)
    BY <2>1
  <2> QED BY <2>2
<1>8. PICK m \in Q : \A r \in Q : f[m] <= f[r]
  BY <1>5, <1>6, <1>7
<1>9. \A r \in R : f[r] \in Int
  OBVIOUS
<1>10. CASE f[m] <= f[s]
  BY <1>8, <1>10
<1>11. CASE f[s] < f[m]
  BY <1>4, <1>8, <1>9, <1>11
<1> QED BY <1>4, <1>8, <1>9, <1>10, <1>11

\* With units for coefficients the tightest bound gives the variable a value again.
LEMMA EliminationAddsNothing ==
  ASSUME NEW cs \in SUBSET Constraints, IsFiniteSet(cs), NEW x \in Names, NEW val \in Vals,
         \A c \in cs : coefficient(c, x) \in {-1, 0, 1}, Meets(val, eliminate_var(cs, x))
  PROVE  \E k \in Bounds(cs, x, val) : k \in Int /\ Meets([val EXCEPT ![x] = k], cs)
<1> DEFINE rest == [val EXCEPT ![x] = 0]
           r(c) == ExprSum(c.e, rest)
           uppers == {c \in cs : coefficient(c, x) = 1}
           lowers == {c \in cs : coefficient(c, x) = -1}
<1>1. rest \in Vals /\ rest[x] = 0 /\ \A k \in Int : [val EXCEPT ![x] = k] = [rest EXCEPT ![x] = k]
  BY DEF Vals
<1>2. \A c \in cs : c.e \in LinExprs /\ r(c) \in Int /\ c.e.coeffs[x] = coefficient(c, x)
  <2> HIDE DEF rest
  <2> QED BY <1>1, ConstraintType, ExprSumType, CoefficientType
<1>3. \A c \in cs, k \in Int : ExprSum(c.e, [val EXCEPT ![x] = k]) = r(c) + coefficient(c, x) * k
  <2> SUFFICES ASSUME NEW c \in cs, NEW k \in Int
               PROVE  ExprSum(c.e, [rest EXCEPT ![x] = k]) = r(c) + coefficient(c, x) * k
    BY <1>1
  <2> HIDE DEF rest
  <2> QED BY <1>1, <1>2, ExprSumWith
<1>4. \A c \in cs : coefficient(c, x) = 0 => r(c) <= 0
  <2> SUFFICES ASSUME NEW c \in cs, coefficient(c, x) = 0 PROVE r(c) <= 0
    OBVIOUS
  <2>1. ExprSum(c.e, val) <= 0
    BY EliminatedType, MeetsMeans DEF eliminate_var
  <2> QED BY <2>1, IndependentSum
<1>5. \A l \in lowers, u \in uppers : r(l) + r(u) <= 0
  <2> SUFFICES ASSUME NEW l \in lowers, NEW u \in uppers PROVE r(l) + r(u) <= 0
    OBVIOUS
  <2> DEFINE c == combine_bounds(l, u, x)
  <2>1. c \in eliminate_var(cs, x)
    BY DEF eliminate_var
  <2>2. ExprSum(c.e, val) <= 0
    BY <2>1, EliminatedType, MeetsMeans
  <2>3. ExprSum(c.e, rest) <= 0
    BY <2>1, <2>2, EliminatedType, IndependentSum
  <2>4. ExprSum(c.e, rest) = 1 * ExprSum(l.e, rest) + 1 * ExprSum(u.e, rest)
    <3>1. coefficient(u, x) = 1 /\ -coefficient(l, x) = 1
      <4>1. coefficient(u, x) = 1 /\ coefficient(l, x) = -1
        OBVIOUS
      <4>2. \A i \in Int : i + 1 = 0 => -i = 1
        OBVIOUS
      <4>3. coefficient(l, x) \in Int /\ coefficient(l, x) + 1 = 0
        BY <4>1
      <4> HIDE DEF lowers
      <4> QED BY <4>1, <4>2, <4>3
    <3> HIDE DEF rest
    <3> QED BY <1>1, <3>1, Combined
  <2> HIDE DEF rest, c
  <2> QED BY <1>2, <2>3, <2>4
<1>6. /\ 0 \in Bounds(cs, x, val)
      /\ \A c \in cs : coefficient(c, x) # 0 => -coefficient(c, x) * r(c) \in Bounds(cs, x, val)
  BY SumOfIsExprSum DEF Bounds
<1> HIDE DEF rest, r
<1>7. ASSUME NEW k \in Int, \A u \in uppers : k <= -r(u), \A l \in lowers : r(l) <= k
      PROVE  Meets([val EXCEPT ![x] = k], cs)
  <2>1. ASSUME NEW c \in cs PROVE ExprSum(c.e, [val EXCEPT ![x] = k]) <= 0
    <3>1. ExprSum(c.e, [val EXCEPT ![x] = k]) = r(c) + coefficient(c, x) * k /\ r(c) \in Int
      BY <1>2, <1>3
    <3>2. CASE coefficient(c, x) = 0
      BY <1>4, <3>1, <3>2
    <3>3. CASE coefficient(c, x) = 1
      BY <1>7, <3>1, <3>3
    <3>4. CASE coefficient(c, x) = -1
      BY <1>7, <3>1, <3>4
    <3> QED BY <3>2, <3>3, <3>4
  <2> QED BY <2>1, MeetsMeans
<1>8. IsFiniteSet(lowers) /\ IsFiniteSet(uppers)
  BY FS_Subset
<1>9. CASE lowers # {}
  <2> DEFINE f == [c \in lowers |-> -r(c)]
  <2>1. f \in [lowers -> Int]
    BY <1>2
  <2>2. PICK l \in lowers : \A c \in lowers : f[l] <= f[c]
    <3> HIDE DEF f, lowers
    <3> QED BY <1>8, <1>9, <2>1, LeastOf
  <2>3. \A c \in lowers : r(c) <= r(l)
    BY <1>2, <2>2
  <2>4. \A u \in uppers : r(l) <= -r(u)
    BY <1>2, <1>5
  <2>5. r(l) \in Int /\ r(l) \in Bounds(cs, x, val)
    BY <1>2, <1>6
  <2> QED BY <1>7, <2>3, <2>4, <2>5
<1>10. CASE lowers = {} /\ uppers # {}
  <2> DEFINE f == [c \in uppers |-> -r(c)]
  <2>1. f \in [uppers -> Int]
    BY <1>2
  <2>2. PICK u \in uppers : \A c \in uppers : f[u] <= f[c]
    <3> HIDE DEF f, uppers
    <3> QED BY <1>8, <1>10, <2>1, LeastOf
  <2>3. \A c \in uppers : -r(u) <= -r(c)
    BY <2>2
  <2>4. -r(u) \in Int /\ -r(u) \in Bounds(cs, x, val)
    BY <1>2, <1>6
  <2> QED BY <1>7, <1>10, <2>3, <2>4
<1>11. CASE lowers = {} /\ uppers = {}
  BY <1>6, <1>7, <1>11
<1> QED BY <1>9, <1>10, <1>11

-----------------------------------------------------------------------------
(* The invariant. *)

\* The constraints of the premises and of the negated goal.
Lines(st) == Append(PremiseConstraints(st), negate_goal(term_to_atom(st[1]), "Nat"))
Stated(st) == UNION {Elements(Lines(st)[i]) : i \in DOMAIN Lines(st)}

\* A solution of what is stated solves what is left.
Eliminating(st, cs, vs) ==
  /\ IsAtom(st[1]) /\ cs \in SUBSET Constraints /\ IsFiniteSet(cs) /\ vs \in Seq(Names)
  /\ \A val \in Vals : Meets(val, Stated(st)) => Meets(val, cs)

\* What is stated has no solution, and only an equation or a goal without premises gives a
\* theorem with hypotheses: the goal itself, when it is no equation.
Refuted(st) == IsAtom(st[1]) /\ \A val \in Vals : ~Meets(val, Stated(st))
Assumes(st, th) == st[1][1] = "eq" \/ \A h \in th.hyps : h = st[1] /\ Len(st) = 1

ArithInv ==
  /\ subgoals \in Seq(Statements)
  /\ arith \in {"idle", "eliminating", "entailed", "fallback", "closed"}
  /\ arith \in {"idle", "eliminating", "entailed"} => theorem = NoTheorem
  /\ arith = "eliminating" => subgoals # <<>> /\ Eliminating(subgoals, constraints, to_eliminate)
  /\ arith = "entailed" => subgoals # <<>> /\ Refuted(subgoals)
  /\ arith = "closed" /\ subgoals # <<>> => Refuted(subgoals) /\ Assumes(subgoals, theorem)

LEMMA LinesAre ==
  ASSUME NEW st \in Seq(Statements), st # <<>>
  PROVE  /\ DOMAIN Lines(st) = 1..Len(st) /\ Len(st) \in Nat \ {0}
         /\ \A i \in 2..Len(st) : Lines(st)[i - 1] = IF IsAtom(st[i]) THEN atom_to_constraints(term_to_atom(st[i])) ELSE <<>>
         /\ Lines(st)[Len(st)] = negate_goal(term_to_atom(st[1]), "Nat")
<1>1. Len(st) \in Nat /\ Len(st) # 0
  BY EmptySeq
<1> DEFINE p == PremiseConstraints(st)
           neg == negate_goal(term_to_atom(st[1]), "Nat")
<1>2. /\ Len(p) = Len(st) - 1 /\ DOMAIN p = 1..(Len(st) - 1)
      /\ \A i \in 1..(Len(st) - 1) :
           p[i] = IF IsAtom(st[i + 1]) THEN atom_to_constraints(term_to_atom(st[i + 1])) ELSE <<>>
  BY <1>1 DEF PremiseConstraints
<1>3. p \in Seq({p[i] : i \in 1..(Len(st) - 1)})
  <2> DEFINE n == Len(st) - 1
             S == {p[i] : i \in 1..n}
  <2>1. n \in Nat /\ p = [i \in 1..n |-> p[i]]
    BY <1>1 DEF PremiseConstraints
  <2>2. \A i \in 1..n : p[i] \in S
    OBVIOUS
  <2>3. ASSUME NEW k \in Nat, NEW X, NEW f \in [1..k -> X] PROVE f \in Seq(X)
    BY <2>3
  <2> HIDE DEF p, n, S
  <2>4. p \in [1..n -> S]
    BY <2>1, <2>2
  <2>5. p \in Seq(S)
    BY <2>1, <2>3, <2>4
  <2> QED BY <2>5 DEF n, S
<1> HIDE DEF p, neg
<1>4. /\ Len(Append(p, neg)) = Len(st) /\ DOMAIN Append(p, neg) = 1..Len(st)
      /\ Append(p, neg)[Len(st)] = neg /\ \A i \in 1..(Len(st) - 1) : Append(p, neg)[i] = p[i]
  BY <1>1, <1>2, <1>3
<1>5. Lines(st) = Append(p, neg)
  BY DEF Lines, p, neg
<1>6. \A i \in 2..Len(st) : i - 1 \in 1..(Len(st) - 1) /\ (i - 1) + 1 = i
  BY <1>1
<1> QED BY <1>1, <1>2, <1>4, <1>5, <1>6 DEF neg

LEMMA StatedType ==
  ASSUME NEW st \in Seq(Statements), st # <<>>, IsAtom(st[1])
  PROVE  Stated(st) \in SUBSET Constraints /\ IsFiniteSet(Stated(st))
<1> DEFINE part == [i \in 1..Len(st) |-> Elements(Lines(st)[i])]
           T == {part[i] : i \in 1..Len(st)}
<1>1. \A i \in 1..Len(st) : st[i] \in Statements
  BY LinesAre
<1>2. \A i \in 1..Len(st) : Elements(Lines(st)[i]) \in SUBSET Constraints /\ IsFiniteSet(Elements(Lines(st)[i]))
  <2> SUFFICES ASSUME NEW i \in 1..Len(st)
               PROVE  Elements(Lines(st)[i]) \in SUBSET Constraints /\ IsFiniteSet(Elements(Lines(st)[i]))
    OBVIOUS
  <2>1. Elements(<<>>) = {}
    BY DEF Elements
  <2>2. CASE i = Len(st)
    BY <1>1, <2>2, LinesAre, AtomConstraints
  <2>3. CASE i # Len(st)
    <3>1. i + 1 \in 2..Len(st) /\ (i + 1) - 1 = i /\ st[i + 1] \in Statements
      BY <1>1, <2>3, LinesAre
    <3>2. Lines(st)[i] = IF IsAtom(st[i + 1]) THEN atom_to_constraints(term_to_atom(st[i + 1])) ELSE <<>>
      BY <3>1, LinesAre
    <3> QED BY <2>1, <3>1, <3>2, AtomConstraints, FS_EmptySet
  <2> QED BY <2>2, <2>3
<1>3. Stated(st) = UNION T
  BY LinesAre DEF Stated
<1>4. IsFiniteSet(1..Len(st))
  BY LinesAre, FS_Interval
<1>5. part \in Surjection(1..Len(st), T)
  BY DEF Surjection
<1>6. IsFiniteSet(T)
  <2> HIDE DEF part, T
  <2> QED BY <1>4, <1>5, FS_Surjection
<1>7. \A s \in T : IsFiniteSet(s) /\ s \in SUBSET Constraints
  BY <1>2
<1>8. IsFiniteSet(UNION T) /\ UNION T \in SUBSET Constraints
  <2> HIDE DEF part, T
  <2> QED BY <1>6, <1>7, FS_UNION
<1> QED BY <1>3, <1>8

\* Natural numbers that meet the premises and not the goal solve what is stated.
LEMMA StatedSays ==
  ASSUME NEW st \in Seq(Statements), st # <<>>, IsAtom(st[1]), st[1][1] # "eq", NEW val \in NatVals,
         \A i \in DOMAIN st : IsAtom(st[i]) => ~HasMinus(st[i][2]) /\ ~HasMinus(st[i][3]),
         \A i \in 2..Len(st) : IsAtom(st[i]) => Says(st[i], val), ~Says(st[1], val)
  PROVE  Meets(val, Stated(st))
<1>1. \A i \in 1..Len(st) : st[i] \in Statements /\ i \in DOMAIN st
  BY LinesAre
<1>2. ASSUME NEW i \in 1..Len(st) PROVE Meets(val, Elements(Lines(st)[i]))
  <2>1. Meets(val, Elements(<<>>))
    BY DEF Meets, Elements
  <2>2. CASE i = Len(st)
    <3>1. st[1] \in Statements /\ 1 \in DOMAIN st
      BY <1>1, LinesAre
    <3> QED BY <2>2, <3>1, LinesAre, AtomSays
  <2>3. CASE i # Len(st)
    <3>1. i + 1 \in 2..Len(st) /\ i + 1 \in 1..Len(st) /\ (i + 1) - 1 = i
      BY <2>3, LinesAre
    <3>2. Lines(st)[i] = IF IsAtom(st[i + 1]) THEN atom_to_constraints(term_to_atom(st[i + 1])) ELSE <<>>
      BY <3>1, LinesAre
    <3>3. CASE IsAtom(st[i + 1])
      BY <1>1, <3>1, <3>2, <3>3, AtomSays
    <3>4. CASE ~IsAtom(st[i + 1])
      BY <2>1, <3>2, <3>4
    <3> QED BY <3>3, <3>4
  <2> QED BY <2>2, <2>3
<1>3. \A c \in Stated(st) : \E i \in 1..Len(st) : c \in Elements(Lines(st)[i])
  BY LinesAre DEF Stated
<1> QED BY <1>2, <1>3 DEF Meets

LEMMA VariablesType ==
  ASSUME NEW css, NEW vs \in collect_variables(css)
  PROVE  vs \in Seq(Names)
<1> DEFINE S == {x \in Names : \E i \in DOMAIN css : Mentions(css[i], x)}
<1>1. IsFiniteSet(1..Count)
  BY CountType, FS_Interval
<1>2. ArithVars \in Surjection(1..Count, Names)
  BY VarsAssumption DEF Surjection, Names, Count
<1>3. IsFiniteSet(Names)
  BY <1>1, <1>2, FS_Surjection
<1>4. IsFiniteSet(S) /\ S \subseteq Names
  BY <1>3, FS_Subset
<1>5. Cardinality(S) \in Nat
  BY <1>4, FS_CardinalityType
<1>6. vs \in [1..Cardinality(S) -> S]
  BY DEF collect_variables, SetToSeqs
<1> HIDE DEF S
<1> QED BY <1>4, <1>5, <1>6

LEMMA ContradictionRefutes ==
  ASSUME NEW cs \in SUBSET Constraints, is_contradiction(cs), NEW val \in Vals
  PROVE  ~Meets(val, cs)
<1>1. \A c \in cs : ~c.is_strict /\ c.e \in LinExprs
  BY ConstraintType
<1>2. PICK c \in cs : HasNoVars(c) /\ c.e.constant > 0
  BY <1>1 DEF is_contradiction, is_pair_contradiction
<1>3. ExprSum(c.e, val) = c.e.constant
  BY <1>1, <1>2, ExprSumOfNothing DEF HasNoVars, coefficient
<1> QED BY <1>1, <1>2, <1>3, MeetsMeans DEF LinExprs

LEMMA ProofsAssume ==
  ASSUME NEW st \in Seq(Statements), st # <<>>, IsAtom(st[1]), NEW th \in prove_entailment(st)
  PROVE  Assumes(st, th)
<1> SUFFICES ASSUME st[1][1] # "eq" PROVE \A h \in th.hyps : h = st[1] /\ Len(st) = 1
  BY DEF Assumes
<1>1. term_to_atom(st[1]).rel # "eq"
  BY DEF term_to_atom
<1>2. CASE Len(st) = 1
  <2>1. th \in try_direct_entailment(st)
    BY <1>1, <1>2 DEF prove_entailment
  <2>2. th = [hyps |-> {st[1]}, subgoals |-> <<>>]
    BY <1>2, <2>1 DEF try_direct_entailment
  <2> QED BY <1>2, <2>2
<1>3. CASE Len(st) # 1
  <2>1. th = NoTheorem
    BY <1>1, <1>3 DEF prove_entailment
  <2> QED BY <2>1 DEF NoTheorem
<1> QED BY <1>2, <1>3

LEMMA ArithInvInit == ArithInit => ArithInv
<1>1. <<>> \in Seq(Statements)
  OBVIOUS
<1> QED BY <1>1 DEF ArithInit, ArithInv

LEMMA ArithInvNext == ArithInv /\ [ArithNext]_arithVars => ArithInv'
<1> SUFFICES ASSUME ArithInv, [ArithNext]_arithVars PROVE ArithInv'
  OBVIOUS
<1>1. ASSUME NEW st \in ArithGoals, arith = "idle", arith_tac(st) PROVE ArithInv'
  <2>1. st \in Seq(Statements) /\ subgoals' = st /\ theorem' = NoTheorem
    BY <1>1, GoalsAssumption DEF arith_tac, ArithInv, Statements
  <2>2. CASE st = <<>>
    <3>1. arith' = "closed"
      BY <1>1, <2>2 DEF arith_tac
    <3> QED BY <2>1, <2>2, <3>1 DEF ArithInv
  <2>3. CASE st # <<>> /\ ~IsAtom(st[1])
    <3>1. arith' = "fallback"
      BY <1>1, <2>3 DEF arith_tac
    <3> QED BY <2>1, <3>1 DEF ArithInv
  <2>4. CASE st # <<>> /\ IsAtom(st[1])
    <3>1. /\ constraints' = UNION {Elements(Lines(st)[i]) : i \in DOMAIN Lines(st)}
          /\ to_eliminate' \in collect_variables(Lines(st)) /\ arith' = "eliminating"
      BY <1>1, <2>4 DEF arith_tac, Lines
    <3>2. constraints' = Stated(st)
      BY <3>1 DEF Stated
    <3>3. constraints' \in SUBSET Constraints /\ IsFiniteSet(constraints')
      BY <2>1, <2>4, <3>2, StatedType
    <3>4. to_eliminate' \in Seq(Names)
      BY <3>1, VariablesType
    <3>5. Eliminating(st, constraints', to_eliminate')
      BY <2>4, <3>2, <3>3, <3>4 DEF Eliminating
    <3>6. Eliminating(subgoals', constraints', to_eliminate')
      BY <2>1, <3>5
    <3> QED BY <2>1, <2>4, <3>1, <3>6 DEF ArithInv
  <2> QED BY <2>2, <2>3, <2>4
<1>2. CASE eliminate
  <2>1. /\ subgoals \in Seq(Statements) /\ subgoals # <<>> /\ Eliminating(subgoals, constraints, to_eliminate)
        /\ theorem = NoTheorem /\ arith = "eliminating" /\ to_eliminate # <<>>
        /\ subgoals' = subgoals /\ arith' = arith /\ theorem' = theorem
        /\ constraints' = eliminate_var(constraints, Head(to_eliminate)) /\ to_eliminate' = Tail(to_eliminate)
    BY <1>2 DEF eliminate, ArithInv
  <2>2. Head(to_eliminate) \in Names /\ Tail(to_eliminate) \in Seq(Names)
    BY <2>1 DEF Eliminating
  <2>3. constraints' \in SUBSET Constraints /\ IsFiniteSet(constraints')
    BY <2>1, <2>2, EliminatedType, EliminatedFinite DEF Eliminating
  <2>4. \A val \in Vals : Meets(val, Stated(subgoals)) => Meets(val, constraints')
    BY <2>1, <2>2, EliminationKeeps DEF Eliminating
  <2>5. Eliminating(subgoals, constraints', to_eliminate')
    BY <2>1, <2>2, <2>3, <2>4 DEF Eliminating
  <2>6. Eliminating(subgoals', constraints', to_eliminate')
    BY <2>1, <2>5
  <2> QED BY <2>1, <2>6 DEF ArithInv
<1>3. CASE give_up
  BY <1>3 DEF give_up, ArithInv
<1>4. CASE check_entailment
  <2>1. /\ subgoals \in Seq(Statements) /\ subgoals # <<>> /\ Eliminating(subgoals, constraints, to_eliminate)
        /\ theorem = NoTheorem /\ subgoals' = subgoals /\ theorem' = theorem
    BY <1>4 DEF check_entailment, ArithInv
  <2>2. CASE is_contradiction(constraints)
    <3>1. arith' = "entailed"
      BY <1>4, <2>2 DEF check_entailment
    <3>2. Refuted(subgoals)
      BY <2>1, <2>2, ContradictionRefutes DEF Eliminating, Refuted
    <3>3. Refuted(subgoals')
      BY <2>1, <3>2
    <3> QED BY <2>1, <3>1, <3>3 DEF ArithInv
  <2>3. CASE ~is_contradiction(constraints)
    <3>1. arith' = "fallback"
      BY <1>4, <2>3 DEF check_entailment
    <3> QED BY <2>1, <3>1 DEF ArithInv
  <2> QED BY <2>2, <2>3
<1>5. CASE solve
  <2>1. /\ subgoals \in Seq(Statements) /\ subgoals # <<>> /\ Refuted(subgoals) /\ subgoals' = subgoals
    BY <1>5 DEF solve, ArithInv
  <2>2. CASE \E th \in prove_entailment(subgoals) : arith' = "closed" /\ theorem' = th
    <3>1. PICK th \in prove_entailment(subgoals) : arith' = "closed" /\ theorem' = th
      BY <2>2
    <3>2. Assumes(subgoals, th)
      BY <2>1, ProofsAssume DEF Refuted
    <3>3. Refuted(subgoals') /\ Assumes(subgoals', theorem')
      BY <2>1, <3>1, <3>2
    <3> QED BY <2>1, <3>1, <3>3 DEF ArithInv
  <2>3. CASE arith' = "fallback"
    BY <2>1, <2>3 DEF ArithInv
  <2> QED BY <1>5, <2>2, <2>3 DEF solve
<1>6. CASE UNCHANGED arithVars
  BY <1>6 DEF arithVars, ArithInv
<1> QED BY <1>1, <1>2, <1>3, <1>4, <1>5, <1>6 DEF ArithNext

\* While variables are eliminated, a solution of the constraints of the premises and of the
\* negated goal solves the constraints left, and a goal is taken for entailed only when
\* those have no solution.
THEOREM ArithInvAlways == ArithSpec => []ArithInv
<1> QED BY ArithInvInit, ArithInvNext, PTL DEF ArithSpec

-----------------------------------------------------------------------------
(* The properties. *)

\* Eliminating a variable loses no integer solution, and adds none when the coefficients of
\* the variable are units.
THEOREM EliminationIsExactAlways == ArithSpec => EliminationIsExact
<1> DEFINE Exact == eliminate =>
             LET x == Head(to_eliminate)
                 units == \A c \in constraints : coefficient(c, x) \in {-1, 0, 1}
             IN \A val \in [Names -> -Largest..Largest] :
                  /\ \A k \in -Largest..Largest :
                       Meets([val EXCEPT ![x] = k], constraints) => Meets(val, constraints')
                  /\ units /\ Meets(val, constraints') =>
                       \E k \in Bounds(constraints, x, val) : Meets([val EXCEPT ![x] = k], constraints)
<1>1. ArithInv => Exact
  <2> SUFFICES ASSUME ArithInv, eliminate PROVE Exact
    OBVIOUS
  <2> DEFINE x == Head(to_eliminate)
  <2>1. /\ constraints \in SUBSET Constraints /\ IsFiniteSet(constraints) /\ x \in Names
        /\ constraints' = eliminate_var(constraints, x)
    BY DEF eliminate, ArithInv, Eliminating
  <2> HIDE DEF x
  <2>2. ASSUME NEW val \in [Names -> -Largest..Largest], NEW k \in -Largest..Largest,
               Meets([val EXCEPT ![x] = k], constraints)
        PROVE  Meets(val, constraints')
    <3>1. val \in Vals /\ k \in Int /\ [val EXCEPT ![x] = k] \in Vals
      <4>1. -Largest..Largest \subseteq Int
        BY LargestAssumption
      <4> QED BY <2>1, <4>1 DEF Vals
    <3>2. Meets([val EXCEPT ![x] = k], constraints')
      BY <2>1, <2>2, <3>1, EliminationKeeps
    <3>3. \A c \in constraints' : c \in Constraints /\ coefficient(c, x) = 0
      BY <2>1, EliminatedType
    <3>4. \A c \in constraints' : ExprSum(c.e, [val EXCEPT ![x] = k]) = ExprSum(c.e, val)
      BY <2>1, <3>1, <3>3, IndependentSum
    <3>5. constraints' \in SUBSET Constraints
      BY <3>3
    <3>6. \A c \in constraints' : ExprSum(c.e, [val EXCEPT ![x] = k]) <= 0
      BY <3>2, <3>5, MeetsMeans
    <3>7. \A c \in constraints' : ExprSum(c.e, val) <= 0
      BY <3>4, <3>6
    <3> QED BY <3>5, <3>7, MeetsMeans
  <2>3. ASSUME NEW val \in [Names -> -Largest..Largest], \A c \in constraints : coefficient(c, x) \in {-1, 0, 1},
               Meets(val, constraints')
        PROVE  \E k \in Bounds(constraints, x, val) : Meets([val EXCEPT ![x] = k], constraints)
    <3>1. val \in Vals
      BY LargestAssumption DEF Vals
    <3> QED BY <2>1, <2>3, <3>1, EliminationAddsNothing
  <2> QED BY <2>2, <2>3 DEF x
<1>2. ArithInv => [Exact]_arithVars
  <2> HIDE DEF Exact
  <2> QED BY <1>1
<1>3. ArithSpec => [][Exact]_arithVars
  <2> HIDE DEF Exact
  <2> QED BY <1>2, ArithInvAlways, PTL DEF ArithSpec
<1> QED BY <1>3 DEF EliminationIsExact

\* A goal that is an order without subtraction is taken for entailed only when it holds of
\* all natural numbers the later subgoals hold of, and what a theorem assumes for it holds.
THEOREM EntailedGoalsHoldAlways == ArithSpec => []EntailedGoalsHold
<1>1. ArithInv => EntailedGoalsHold
  <2> SUFFICES ASSUME ArithInv, arith \in {"entailed", "closed"}, subgoals # <<>>, subgoals[1][1] # "eq",
                      \A i \in DOMAIN subgoals :
                        IsAtom(subgoals[i]) => ~HasMinus(subgoals[i][2]) /\ ~HasMinus(subgoals[i][3]),
                      NEW val \in [Names -> 0..Largest]
               PROVE  /\ (\A i \in 2..Len(subgoals) : IsAtom(subgoals[i]) => Says(subgoals[i], val)) => Says(subgoals[1], val)
                      /\ \A h \in theorem.hyps : Says(h, val)
    BY DEF EntailedGoalsHold
  <2>1. subgoals \in Seq(Statements) /\ Refuted(subgoals) /\ Assumes(subgoals, theorem)
    <3>1. NoTheorem.hyps = {}
      BY DEF NoTheorem
    <3> QED BY <3>1 DEF ArithInv, Assumes
  <2>2. val \in NatVals /\ val \in Vals
    BY LargestAssumption DEF NatVals, Vals
  <2>3. (\A i \in 2..Len(subgoals) : IsAtom(subgoals[i]) => Says(subgoals[i], val)) => Says(subgoals[1], val)
    BY <2>1, <2>2, StatedSays DEF Refuted
  <2>4. ASSUME NEW h \in theorem.hyps PROVE Says(h, val)
    <3>1. h = subgoals[1] /\ Len(subgoals) = 1
      BY <2>1 DEF Assumes
    <3>2. \A i \in 2..Len(subgoals) : FALSE
      BY <3>1
    <3> QED BY <2>3, <3>1, <3>2
  <2> QED BY <2>3, <2>4
<1> QED BY <1>1, ArithInvAlways, PTL
=================================================================================
