------------------------------ MODULE IsarProofs ------------------------------
(***************************************************************************)
(* Proofs about IsarSystem, for every set of names and statements, every   *)
(* method and every nesting of blocks.                                     *)
(*                                                                         *)
(* The invariant says of every proof state that it is a stack of nodes     *)
(* whose goals were stated and whose goals above the lemma's are being     *)
(* proved (Stack), and of the theory processor that what it has recorded   *)
(* without hypotheses is the triviality of a statement (Recorded).         *)
(***************************************************************************)
EXTENDS IsarSystem, TLAPS, SequenceTheorems, WellFoundedInduction

Stated(g) ==
    /\ g = [kind |-> g.kind, stmt |-> g.stmt, using |-> g.using, thm |-> g.thm, refines |-> g.refines]
    /\ g.stmt \in Stmt

IsNode(n) ==
    /\ n = [facts |-> n.facts, mode |-> n.mode, goal |-> n.goal]
    /\ n.goal = Isar!NoGoal \/ Stated(n.goal)

\* A node at position i: above the lemma's, an open goal is being proved.
FitsAt(n, i) == IsNode(n) /\ (i > 2 /\ n.goal # Isar!NoGoal => n.mode = "Backward")

IsSeq(s) == \E S : s \in Seq(S)

Stack(p) == IsSeq(p) /\ Len(p) > 0 /\ \A i \in 1..Len(p) : FitsAt(p[i], i)
-----------------------------------------------------------------------------
(* Sequences. *)

LEMMA SeqFacts ==
  ASSUME NEW s, IsSeq(s)
  PROVE  Len(s) \in Nat /\ DOMAIN s = 1..Len(s)
BY LenProperties DEF IsSeq

LEMMA AppendSeq ==
  ASSUME NEW s, IsSeq(s), NEW x
  PROVE  /\ IsSeq(Append(s, x))
         /\ Len(Append(s, x)) = Len(s) + 1
         /\ \A i \in 1..Len(s) : Append(s, x)[i] = s[i]
         /\ Append(s, x)[Len(s) + 1] = x
<1>1. PICK S : s \in Seq(S)
  BY DEF IsSeq
<1>2. s \in Seq(S \cup {x}) /\ x \in S \cup {x}
  BY <1>1, SeqMonotonic
<1> QED BY <1>2, AppendProperties DEF IsSeq

LEMMA ExceptIsSeq ==
  ASSUME NEW s, IsSeq(s), NEW i \in 1..Len(s), NEW x
  PROVE  /\ IsSeq([s EXCEPT ![i] = x])
         /\ Len([s EXCEPT ![i] = x]) = Len(s)
         /\ \A j \in 1..Len(s) : [s EXCEPT ![i] = x][j] = IF j = i THEN x ELSE s[j]
<1>1. PICK S : s \in Seq(S)
  BY DEF IsSeq
<1>2. s \in Seq(S \cup {x}) /\ x \in S \cup {x}
  BY <1>1, SeqMonotonic
<1> QED BY <1>2, ExceptSeq DEF IsSeq

LEMMA ExceptTwice ==
  ASSUME NEW s, IsSeq(s), NEW i \in 1..Len(s), NEW x, NEW y
  PROVE  LET q == [s EXCEPT ![i] = x]
         IN  Len(q) = Len(s) /\ q[i] = x /\ [q EXCEPT ![i] = y] = [s EXCEPT ![i] = y]
<1> DEFINE q == [s EXCEPT ![i] = x]
<1>1. Len(q) = Len(s) /\ \A j \in 1..Len(s) : q[j] = IF j = i THEN x ELSE s[j]
  BY ExceptIsSeq
<1>2. q[i] = x
  BY <1>1
<1>3. [q EXCEPT ![i] = y] = [s EXCEPT ![i] = y]
  OBVIOUS
<1> QED BY <1>1, <1>2, <1>3

LEMMA CutSeq ==
  ASSUME NEW s, IsSeq(s), NEW k \in 1..Len(s)
  PROVE  /\ IsSeq(SubSeq(s, 1, k))
         /\ Len(SubSeq(s, 1, k)) = k
         /\ \A i \in 1..k : SubSeq(s, 1, k)[i] = s[i]
<1>1. PICK S : s \in Seq(S)
  BY DEF IsSeq
<1>2. Len(s) \in Nat /\ k <= Len(s)
  BY SeqFacts
<1>3. \A i \in 1..k : s[i] \in S
  BY <1>1, <1>2, ElementOfSeq
<1> QED BY <1>1, <1>2, <1>3, SubSeqProperties DEF IsSeq

\* A set of positions that is not empty has a greatest member.
LEMMA Greatest ==
  ASSUME NEW n \in Nat, NEW W, W \subseteq 1..n, W # {}
  PROVE  \E i \in W : \A j \in W : j <= i
<1> DEFINE T == {n - i : i \in W}
           R == OpToRel(<, Nat)
<1>1. \A i \in W : i \in Nat /\ n - i \in Nat
  OBVIOUS
<1>2. T \subseteq Nat /\ T # {}
  BY <1>1
<1>3. PICK x \in T : \A y \in T : ~(<<y, x>> \in R)
  <2>1. IsWellFoundedOn(R, Nat)
    BY NatLessThanWellFounded
  <2> HIDE DEF R, T
  <2> QED BY <1>2, <2>1, WFMin
<1>4. \A y \in T : ~(y < x)
  BY <1>2, <1>3 DEF OpToRel
<1>5. PICK i \in W : x = n - i
  OBVIOUS
<1>6. ASSUME NEW j \in W PROVE j <= i
  <2>1. ~(n - j < n - i)
    BY <1>4, <1>5
  <2>2. i \in Nat /\ j \in Nat
    BY <1>1
  <2> HIDE DEF R, T
  <2> QED BY <2>1, <2>2
<1> QED BY <1>6
-----------------------------------------------------------------------------
(* The three ways a stack changes. *)

LEMMA StackFacts ==
  ASSUME NEW p, Stack(p)
  PROVE  /\ IsSeq(p)
         /\ Len(p) \in Nat \ {0}
         /\ Len(p) \in 1..Len(p)
         /\ DOMAIN p = 1..Len(p)
         /\ \A i \in 1..Len(p) : FitsAt(p[i], i)
BY SeqFacts DEF Stack

LEMMA ReplaceNode ==
  ASSUME NEW p, Stack(p), NEW i \in 1..Len(p), NEW n, FitsAt(n, i)
  PROVE  Stack([p EXCEPT ![i] = n])
BY StackFacts, ExceptIsSeq, SMTT(30) DEF Stack

LEMMA PushNode ==
  ASSUME NEW p, Stack(p), NEW n, FitsAt(n, Len(p) + 1)
  PROVE  Stack(Append(p, n))
<1>1. Len(p) \in Nat /\ \A i \in 1..Len(p) + 1 : i \in 1..Len(p) \/ i = Len(p) + 1
  BY StackFacts
<1> QED BY <1>1, StackFacts, AppendSeq DEF Stack

LEMMA CutStack ==
  ASSUME NEW p, Stack(p), NEW k \in 1..Len(p)
  PROVE  Stack(SubSeq(p, 1, k))
<1>1. k \in Nat /\ k > 0 /\ \A i \in 1..k : i \in 1..Len(p)
  BY StackFacts
<1> QED BY <1>1, StackFacts, CutSeq DEF Stack
-----------------------------------------------------------------------------
(* What the commands are made of. *)

LEMMA FreshNode == \A i : FitsAt(Isar!ProofNode, i) /\ Isar!ProofNode.goal = Isar!NoGoal
BY DEF FitsAt, IsNode, Isar!ProofNode

LEMMA GoalKept ==
  ASSUME NEW g, Stated(g), NEW x
  PROVE  /\ Stated([g EXCEPT !.thm = x])
         /\ Stated([g EXCEPT !.using = x])
         /\ g # Isar!NoGoal
<1>1. Stated([g EXCEPT !.thm = x]) /\ Stated([g EXCEPT !.using = x])
  BY DEF Stated
<1>2. g # Isar!NoGoal
  BY ProcessorAssumption DEF Stated, Isar!NoGoal
<1> QED BY <1>1, <1>2

LEMMA InitStack == Stack(Isar!init)
<1>1. IsSeq(Isar!init) /\ Len(Isar!init) = 1 /\ Isar!init[1] = Isar!ProofNode
  <2>1. Isar!init \in Seq({Isar!ProofNode})
    BY DEF Isar!init
  <2> QED BY <2>1 DEF IsSeq, Isar!init
<1> QED BY <1>1, FreshNode DEF Stack

\* A node, and a node with one of its parts replaced.
LEMMA NodeParts ==
  ASSUME NEW n, IsNode(n), NEW x
  PROVE  /\ [n EXCEPT !.facts = x] = [facts |-> x, mode |-> n.mode, goal |-> n.goal]
         /\ [n EXCEPT !.mode = x] = [facts |-> n.facts, mode |-> x, goal |-> n.goal]
         /\ [n EXCEPT !.goal = x] = [facts |-> n.facts, mode |-> n.mode, goal |-> x]
<1> DEFINE f == n.facts
           m == n.mode
           g == n.goal
<1>1. n = [facts |-> f, mode |-> m, goal |-> g]
  BY DEF IsNode
<1> HIDE DEF f, m, g
<1>2. /\ [n EXCEPT !.facts = x] = [facts |-> x, mode |-> m, goal |-> g]
      /\ [n EXCEPT !.mode = x] = [facts |-> f, mode |-> x, goal |-> g]
      /\ [n EXCEPT !.goal = x] = [facts |-> f, mode |-> m, goal |-> x]
  BY <1>1
<1> QED BY <1>2 DEF f, m, g

LEMMA NodeFits ==
  ASSUME NEW f, NEW m, NEW g, NEW i,
         g = Isar!NoGoal \/ Stated(g),
         i > 2 /\ g # Isar!NoGoal => m = "Backward"
  PROVE  FitsAt([facts |-> f, mode |-> m, goal |-> g], i)
BY DEF FitsAt, IsNode

LEMMA EnterStack ==
  ASSUME NEW p, Stack(p), NEW m,
         m = "Backward" \/ Len(p) <= 2 \/ p[Len(p)].goal = Isar!NoGoal
  PROVE  Stack(Isar!enter(p, m))
<1> DEFINE n == [p[Len(p)] EXCEPT !.mode = m]
<1>1. IsNode(p[Len(p)]) /\ Len(p) \in Nat /\ Len(p) \in 1..Len(p)
  BY StackFacts DEF FitsAt
<1>2. n = [facts |-> p[Len(p)].facts, mode |-> m, goal |-> p[Len(p)].goal]
  BY <1>1, NodeParts
<1>3. Isar!enter(p, m) = [p EXCEPT ![Len(p)] = n]
  BY DEF Isar!enter
<1> HIDE DEF n
<1>4. FitsAt(n, Len(p))
  <2>1. p[Len(p)].goal = Isar!NoGoal \/ Stated(p[Len(p)].goal)
    BY <1>1 DEF IsNode
  <2>2. Len(p) > 2 /\ p[Len(p)].goal # Isar!NoGoal => m = "Backward"
    BY <1>1
  <2> QED BY <1>2, <2>1, <2>2, NodeFits
<1>5. Stack([p EXCEPT ![Len(p)] = n])
  BY <1>1, <1>4, ReplaceNode
<1> QED BY <1>3, <1>5

LEMMA FactsStack ==
  ASSUME NEW p, Stack(p), NEW thms
  PROVE  Stack(Isar!set_facts(p, thms)) /\ Stack(Isar!reset_facts(p))
<1>1. ASSUME NEW x PROVE Stack([p EXCEPT ![Len(p)].facts = x])
  <2> DEFINE n == [p[Len(p)] EXCEPT !.facts = x]
  <2>1. FitsAt(p[Len(p)], Len(p)) /\ Len(p) \in 1..Len(p)
    BY StackFacts
  <2>2. n = [facts |-> x, mode |-> p[Len(p)].mode, goal |-> p[Len(p)].goal]
    BY <2>1, NodeParts DEF FitsAt
  <2>3. [p EXCEPT ![Len(p)].facts = x] = [p EXCEPT ![Len(p)] = n]
    OBVIOUS
  <2> HIDE DEF n
  <2>4. FitsAt(n, Len(p))
    BY <2>1, <2>2, NodeFits DEF FitsAt, IsNode
  <2>5. Stack([p EXCEPT ![Len(p)] = n])
    BY <2>1, <2>4, ReplaceNode
  <2> QED BY <2>3, <2>5
<1>2. Stack(Isar!set_facts(p, thms))
  BY <1>1 DEF Isar!set_facts
<1>3. Stack(Isar!reset_facts(p))
  BY <1>1 DEF Isar!reset_facts
<1> QED BY <1>2, <1>3

\* The top node is given a goal, or none.
LEMMA SetGoalStack ==
  ASSUME NEW p, Stack(p), NEW g,
         g = Isar!NoGoal \/ (Stated(g) /\ (Len(p) <= 2 \/ p[Len(p)].mode = "Backward"))
  PROVE  Stack(Isar!set_goal(p, g))
<1> DEFINE n == [p[Len(p)] EXCEPT !.goal = g]
<1>1. IsNode(p[Len(p)]) /\ Len(p) \in Nat /\ Len(p) \in 1..Len(p)
  BY StackFacts DEF FitsAt
<1>2. n = [facts |-> p[Len(p)].facts, mode |-> p[Len(p)].mode, goal |-> g]
  BY <1>1, NodeParts
<1>3. Isar!set_goal(p, g) = [p EXCEPT ![Len(p)] = n]
  BY DEF Isar!set_goal
<1> HIDE DEF n
<1>4. FitsAt(n, Len(p))
  <2>1. Len(p) > 2 /\ g # Isar!NoGoal => p[Len(p)].mode = "Backward"
    BY <1>1
  <2> QED BY <1>2, <2>1, NodeFits
<1>5. Stack([p EXCEPT ![Len(p)] = n])
  BY <1>1, <1>4, ReplaceNode
<1> QED BY <1>3, <1>5

LEMMA ResetGoalStack ==
  ASSUME NEW p, Stack(p)
  PROVE  Stack(Isar!reset_goal(p))
<1>1. PICK g : g = Isar!NoGoal
  OBVIOUS
<1>2. g = Isar!NoGoal \/ (Stated(g) /\ (Len(p) <= 2 \/ p[Len(p)].mode = "Backward"))
  BY <1>1
<1>3. Stack(Isar!set_goal(p, g))
  BY <1>2, SetGoalStack
<1> QED BY <1>1, <1>3 DEF Isar!reset_goal

\* What a method makes of a goal leaves its statement.
LEMMA GoalThmStack ==
  ASSUME NEW p, Stack(p), NEW i \in 1..Len(p), p[i].goal # Isar!NoGoal, NEW x
  PROVE  /\ Stack(Isar!set_goal_thm(p, i, x))
         /\ Stack([p EXCEPT ![i].goal.using = x])
<1>1. FitsAt(p[i], i) /\ IsNode(p[i]) /\ Stated(p[i].goal)
  BY StackFacts DEF FitsAt, IsNode
<1>2. ASSUME NEW g, Stated(g)
      PROVE  Stack([p EXCEPT ![i] = [p[i] EXCEPT !.goal = g]])
  <2> DEFINE n == [p[i] EXCEPT !.goal = g]
  <2>1. n = [facts |-> p[i].facts, mode |-> p[i].mode, goal |-> g]
    BY <1>1, NodeParts
  <2> HIDE DEF n
  <2>2. i > 2 /\ g # Isar!NoGoal => p[i].mode = "Backward"
    BY <1>1 DEF FitsAt
  <2>3. FitsAt(n, i)
    BY <1>2, <2>1, <2>2, NodeFits
  <2>4. Stack([p EXCEPT ![i] = n])
    BY <2>3, ReplaceNode
  <2> QED BY <2>4 DEF n
<1> DEFINE a == [p[i].goal EXCEPT !.thm = x]
           b == [p[i].goal EXCEPT !.using = x]
<1>3. Stated(a) /\ Stated(b)
  BY <1>1, GoalKept
<1>4. /\ Isar!set_goal_thm(p, i, x) = [p EXCEPT ![i] = [p[i] EXCEPT !.goal = a]]
      /\ [p EXCEPT ![i].goal.using = x] = [p EXCEPT ![i] = [p[i] EXCEPT !.goal = b]]
  BY DEF Isar!set_goal_thm
<1> HIDE DEF a, b
<1>5. /\ Stack([p EXCEPT ![i] = [p[i] EXCEPT !.goal = a]])
      /\ Stack([p EXCEPT ![i] = [p[i] EXCEPT !.goal = b]])
  BY <1>2, <1>3
<1> QED BY <1>4, <1>5

LEMMA FindGoal ==
  ASSUME NEW p, Stack(p)
  PROVE  \/ Isar!find_goal(p) = 0
         \/ /\ Isar!find_goal(p) \in 1..Len(p)
            /\ p[Isar!find_goal(p)].goal # Isar!NoGoal
<1> DEFINE W == {i \in DOMAIN p : p[i].goal # Isar!NoGoal}
<1>1. W \subseteq 1..Len(p) /\ Len(p) \in Nat
  BY StackFacts
<1>2. W # {} => \E i \in W : \A j \in W : j <= i
  <2> HIDE DEF W
  <2> QED BY <1>1, Greatest
<1>3. Isar!find_goal(p) = IF W = {} THEN 0 ELSE CHOOSE i \in W : \A j \in W : j <= i
  BY DEF Isar!find_goal
<1>4. W # {} => (CHOOSE i \in W : \A j \in W : j <= i) \in W
  <2> HIDE DEF W
  <2> QED BY <1>2
<1> QED BY <1>1, <1>3, <1>4

\* The top of a stack; where it is not Backward it has no goal but a lemma's.
LEMMA TopFacts ==
  ASSUME NEW p, Stack(p)
  PROVE  /\ Isar!top(p) = p[Len(p)]
         /\ Isar!mode(p) = p[Len(p)].mode
         /\ Isar!mode(p) # "Backward" => Len(p) <= 2 \/ p[Len(p)].goal = Isar!NoGoal
<1>1. Isar!top(p) = p[Len(p)]
  BY DEF Isar!top, Isar!Last
<1>2. Isar!mode(p) = p[Len(p)].mode
  BY <1>1 DEF Isar!mode
<1>3. FitsAt(p[Len(p)], Len(p)) /\ Len(p) \in Nat
  BY StackFacts
<1>4. Isar!mode(p) # "Backward" => Len(p) <= 2 \/ p[Len(p)].goal = Isar!NoGoal
  BY <1>2, <1>3 DEF FitsAt
<1> QED BY <1>1, <1>2, <1>4

LEMMA FrontStack ==
  ASSUME NEW p, Stack(p), Len(p) > 1
  PROVE  /\ Stack(Isar!Front(p))
         /\ Len(Isar!Front(p)) = Len(p) - 1
<1>1. Len(p) \in Nat /\ Len(p) - 1 \in 1..Len(p)
  BY StackFacts
<1>2. Isar!Front(p) = SubSeq(p, 1, Len(p) - 1)
  BY DEF Isar!Front
<1>3. Stack(SubSeq(p, 1, Len(p) - 1)) /\ Len(SubSeq(p, 1, Len(p) - 1)) = Len(p) - 1
  BY <1>1, CutStack, StackFacts, CutSeq
<1> QED BY <1>2, <1>3

\* Mode and goal of the top node are set together, in either order.
LEMMA ModeAndGoal ==
  ASSUME NEW p, Stack(p), NEW m, NEW g,
         g = Isar!NoGoal \/ Stated(g),
         Len(p) > 2 /\ g # Isar!NoGoal => m = "Backward"
  PROVE  /\ Stack(Isar!set_goal(Isar!enter(p, m), g))
         /\ Stack(Isar!enter(Isar!set_goal(p, g), m))
<1> DEFINE L == Len(p)
           f == p[L].facts
           a == [facts |-> f, mode |-> m, goal |-> p[L].goal]
           b == [facts |-> f, mode |-> p[L].mode, goal |-> g]
           n == [facts |-> f, mode |-> m, goal |-> g]
<1>1. L \in 1..L /\ IsSeq(p) /\ IsNode(p[L])
  BY StackFacts DEF FitsAt
<1>2. FitsAt(n, L)
  BY NodeFits
<1>3. /\ [p[L] EXCEPT !.mode = m] = a
      /\ [p[L] EXCEPT !.goal = g] = b
  BY <1>1, NodeParts
<1>4. /\ [a EXCEPT !.goal = g] = n
      /\ [b EXCEPT !.mode = m] = n
  OBVIOUS
<1> HIDE DEF a, b, n, f
<1>5. ASSUME NEW x, NEW q, q = [p EXCEPT ![L] = x]
      PROVE  Len(q) = L /\ q[L] = x /\ [q EXCEPT ![L] = n] = [p EXCEPT ![L] = n]
  <2>1. L \in 1..Len(p) /\ IsSeq(p)
    BY <1>1
  <2> HIDE DEF L
  <2>2. LET r == [p EXCEPT ![L] = x]
        IN  Len(r) = Len(p) /\ r[L] = x /\ [r EXCEPT ![L] = n] = [p EXCEPT ![L] = n]
    BY <2>1, ExceptTwice, ZenonT(30)
  <2> QED BY <1>5, <2>2 DEF L
<1>6. Stack([p EXCEPT ![L] = n])
  BY <1>1, <1>2, ReplaceNode
<1>7. Stack(Isar!set_goal(Isar!enter(p, m), g))
  <2> DEFINE q == Isar!enter(p, m)
  <2>1. q = [p EXCEPT ![L] = a]
    BY <1>3 DEF Isar!enter
  <2> HIDE DEF q
  <2>2. Isar!set_goal(q, g) = [q EXCEPT ![Len(q)] = [q[Len(q)] EXCEPT !.goal = g]]
    BY DEF Isar!set_goal
  <2>3. Len(q) = L /\ q[L] = a /\ [q EXCEPT ![L] = n] = [p EXCEPT ![L] = n]
    BY <2>1, <1>5
  <2>4. Isar!set_goal(q, g) = [p EXCEPT ![L] = n]
    BY <2>2, <2>3, <1>4
  <2>5. Stack(Isar!set_goal(q, g))
    BY <2>4, <1>6
  <2> QED BY <2>5 DEF q
<1>8. Stack(Isar!enter(Isar!set_goal(p, g), m))
  <2> DEFINE q == Isar!set_goal(p, g)
  <2>1. q = [p EXCEPT ![L] = b]
    BY <1>3 DEF Isar!set_goal
  <2> HIDE DEF q
  <2>2. Isar!enter(q, m) = [q EXCEPT ![Len(q)] = [q[Len(q)] EXCEPT !.mode = m]]
    BY DEF Isar!enter
  <2>3. Len(q) = L /\ q[L] = b /\ [q EXCEPT ![L] = n] = [p EXCEPT ![L] = n]
    BY <2>1, <1>5
  <2>4. Isar!enter(q, m) = [p EXCEPT ![L] = n]
    BY <2>2, <2>3, <1>4
  <2>5. Stack(Isar!enter(q, m))
    BY <2>4, <1>6
  <2> QED BY <2>5 DEF q
<1> QED BY <1>7, <1>8
-----------------------------------------------------------------------------
(* Every command leaves a stack, whether or not it panics. *)

LEMMA Results ==
  ASSUME NEW p
  PROVE  /\ Isar!Returned(p).p = p /\ Isar!Panicked(p).p = p
         /\ Isar!Returned(p).ok = TRUE /\ Isar!Panicked(p).ok = FALSE
BY DEF Isar!Returned, Isar!Panicked

LEMMA InForwardStack ==
  ASSUME NEW p, Stack(p), NEW r,
         Len(p) <= 2 \/ p[Len(p)].goal = Isar!NoGoal => Stack(r.p)
  PROVE  Stack(Isar!InForward(p, r).p)
<1>1. CASE Isar!mode(p) = "Backward"
  BY <1>1, Results DEF Isar!InForward, Isar!Unless
<1>2. CASE Isar!mode(p) # "Backward"
  <2>1. Stack(r.p)
    BY <1>2, TopFacts
  <2>2. Isar!InForward(p, r) = r
    BY <1>2 DEF Isar!InForward, Isar!Unless
  <2> QED BY <2>1, <2>2
<1> QED BY <1>1, <1>2

LEMMA InBackwardStack ==
  ASSUME NEW p, Stack(p), NEW r, Stack(r.p)
  PROVE  Stack(Isar!InBackward(p, r).p)
BY Results DEF Isar!InBackward, Isar!Unless

LEMMA ChainStack ==
  ASSUME NEW p, Stack(p)
  PROVE  Stack(Isar!chain(p).p)
<1> DEFINE r == Isar!Returned(Isar!enter(p, "Chain"))
<1>0. \A m : Len(p) <= 2 \/ p[Len(p)].goal = Isar!NoGoal => Stack(Isar!enter(p, m))
  BY EnterStack
<1>3. r.p = Isar!enter(p, "Chain")
  BY Results
<1> HIDE DEF r
<1>1. Len(p) <= 2 \/ p[Len(p)].goal = Isar!NoGoal => Stack(r.p)
  BY <1>0, <1>3
<1>2. Stack(Isar!InForward(p, r).p)
  BY <1>1, InForwardStack
<1> QED BY <1>2 DEF r, Isar!chain

LEMMA CloseBlockStack ==
  ASSUME NEW p, Stack(p)
  PROVE  Stack(Isar!close_block(p).p)
<1>1. CASE Len(p) <= 1
  BY <1>1, Results DEF Isar!close_block
<1>2. CASE ~(Len(p) <= 1)
  <2>1. Stack(Isar!Front(p))
    BY <1>2, StackFacts, FrontStack
  <2> QED BY <1>2, <2>1, Results DEF Isar!close_block
<1> QED BY <1>1, <1>2

LEMMA CloseToStack ==
  ASSUME NEW p, Stack(p), NEW l \in Nat \ {0}
  PROVE  Stack(Isar!close_to(p, l)) /\ Len(Isar!close_to(p, l)) <= l
<1>1. CASE Len(p) > l
  <2>1. l \in 1..Len(p)
    BY <1>1, StackFacts
  <2>2. Isar!close_to(p, l) = SubSeq(p, 1, l)
    BY <1>1 DEF Isar!close_to
  <2>3. Stack(SubSeq(p, 1, l)) /\ Len(SubSeq(p, 1, l)) = l
    BY <2>1, CutStack, CutSeq, StackFacts
  <2> QED BY <2>2, <2>3
<1>2. CASE ~(Len(p) > l)
  BY <1>2, StackFacts DEF Isar!close_to
<1> QED BY <1>1, <1>2

LEMMA OpenBlockStack ==
  ASSUME NEW p, Stack(p)
  PROVE  Stack(Isar!open_block(p))
BY PushNode, FreshNode DEF Isar!open_block

LEMMA ResetFactsStack ==
  ASSUME NEW p, Stack(p)
  PROVE  Stack(Isar!reset_facts(p)) /\ Stack(Isar!Returned(Isar!reset_facts(p)).p)
<1>1. \A thms : Stack(Isar!reset_facts(p))
  BY FactsStack
<1> QED BY <1>1, Results

LEMMA SetFactsChain ==
  ASSUME NEW p, Stack(p), NEW thms
  PROVE  Stack(Isar!chain(Isar!set_facts(p, thms)).p)
BY FactsStack, ChainStack

LEMMA ContextStack ==
  ASSUME NEW p, Stack(p)
  PROVE  /\ Stack(Isar!fix(p).p)
         /\ Stack(Isar!assume_props(p).p)
         /\ Stack(Isar!note(p).p)
         /\ Stack(Isar!let_bind(p).p)
         /\ Stack(Isar!obtain(p).p)
<1>1. ASSUME NEW q, Stack(q) PROVE Stack(Isar!fix(q).p) /\ Stack(Isar!assume_props(q).p)
  <2>1. Stack(Isar!Returned(Isar!reset_facts(q)).p)
    BY <1>1, ResetFactsStack
  <2>2. Stack(Isar!InForward(q, Isar!Returned(Isar!reset_facts(q))).p)
    BY <1>1, <2>1, InForwardStack
  <2> QED BY <2>2 DEF Isar!fix, Isar!assume_props
<1>2. Stack(Isar!note(p).p)
  <2>1. Stack(Isar!Returned(p).p)
    BY Results
  <2>2. Stack(Isar!InForward(p, Isar!Returned(p)).p)
    BY <2>1, InForwardStack
  <2> QED BY <2>2 DEF Isar!note
<1>3. Stack(Isar!let_bind(p).p)
  <2>1. Isar!let_bind(p) = IF Isar!note(p).ok THEN Isar!Returned(Isar!reset_facts(Isar!note(p).p))
                           ELSE Isar!note(p)
    BY DEF Isar!let_bind, Isar!Then
  <2>2. Stack(Isar!Returned(Isar!reset_facts(Isar!note(p).p)).p)
    BY <1>2, ResetFactsStack
  <2> QED BY <1>2, <2>1, <2>2
<1>4. Stack(Isar!obtain(p).p)
  <2>1. Isar!obtain(p) = IF Isar!fix(p).ok THEN Isar!assume_props(Isar!fix(p).p) ELSE Isar!fix(p)
    BY DEF Isar!obtain, Isar!Then
  <2>2. Stack(Isar!fix(p).p) /\ Stack(Isar!assume_props(Isar!fix(p).p).p)
    BY <1>1
  <2> QED BY <2>1, <2>2
<1> QED BY <1>1, <1>2, <1>3, <1>4

LEMMA FactsCommandsStack ==
  ASSUME NEW p, Stack(p), NEW thms
  PROVE  /\ Stack(Isar!from(p, thms).p)
         /\ Stack(Isar!then_chain(p).p)
         /\ Stack(Isar!using(p, thms).p)
         /\ Stack(Isar!with(p, thms).p)
         /\ Stack(Isar!also(p).p)
         /\ Stack(Isar!finally(p).p)
<1>1. Stack(Isar!from(p, thms).p)
  BY SetFactsChain DEF Isar!from
<1>2. Stack(Isar!then_chain(p).p)
  BY SetFactsChain DEF Isar!then_chain
<1>3. ASSUME NEW q, Stack(q), NEW more PROVE Stack(Isar!using(q, more).p)
  <2> DEFINE i == Isar!find_goal(q)
             x == q[i].goal.using \o more
  <2>1. i = 0 \/ (i \in 1..Len(q) /\ q[i].goal # Isar!NoGoal)
    BY <1>3, FindGoal
  <2>2. i # 0 => Stack([q EXCEPT ![i].goal.using = x])
    <3> HIDE DEF i, x
    <3> QED BY <1>3, <2>1, GoalThmStack
  <2>3. Isar!using(q, more) = Isar!Returned(IF i = 0 THEN q ELSE [q EXCEPT ![i].goal.using = x])
    BY DEF Isar!using
  <2>4. Stack(IF i = 0 THEN q ELSE [q EXCEPT ![i].goal.using = x])
    BY <1>3, <2>2
  <2> HIDE DEF i, x
  <2>5. \A y : Stack(y) => Stack(Isar!Returned(y).p)
    BY Results
  <2> QED BY <2>3, <2>4, <2>5
<1>4. Stack(Isar!with(p, thms).p)
  <2> DEFINE r == Isar!from(p, thms)
  <2>1. Isar!with(p, thms) = IF r.ok THEN Isar!using(r.p, Isar!the_facts(p)) ELSE r
    BY DEF Isar!with, Isar!Then
  <2> HIDE DEF r
  <2>2. Stack(r.p)
    BY <1>1 DEF r
  <2>3. Stack(Isar!using(r.p, Isar!the_facts(p)).p)
    BY <1>3, <2>2
  <2> QED BY <2>1, <2>2, <2>3
<1>5. Stack(Isar!also(p).p)
  <2>1. Stack(Isar!Returned(Isar!update_calculation(p)).p)
    BY ResetFactsStack DEF Isar!update_calculation
  <2>2. Stack(Isar!InForward(p, Isar!Returned(Isar!update_calculation(p))).p)
    BY <2>1, InForwardStack
  <2> QED BY <2>2 DEF Isar!also
<1>6. Stack(Isar!finally(p).p)
  <2> DEFINE q == Isar!update_calculation(p)
             r == Isar!chain(Isar!set_facts(q, Isar!take_calculation(q)))
  <2>1. Stack(q)
    BY ResetFactsStack DEF Isar!update_calculation
  <2>2. Isar!finally(p) = Isar!InForward(p, r)
    BY DEF Isar!finally
  <2> HIDE DEF q
  <2>3. Stack(r.p)
    BY <2>1, SetFactsChain
  <2> HIDE DEF r
  <2>4. Stack(Isar!InForward(p, r).p)
    BY <2>3, InForwardStack
  <2> QED BY <2>2, <2>4
<1> QED BY <1>1, <1>2, <1>3, <1>4, <1>5, <1>6

LEMMA BlocksStack ==
  ASSUME NEW p, Stack(p)
  PROVE  /\ Stack(Isar!proof(p).p)
         /\ Stack(Isar!qed(p).p)
         /\ Stack(Isar!next(p).p)
         /\ Stack(Isar!open_brace(p).p)
         /\ Stack(Isar!close_brace(p).p)
         /\ Stack(Isar!done(p).p)
         /\ Stack(Isar!return_to_theory(p))
<1>0. \A q : Stack(q) => Stack(Isar!Returned(q).p) /\ Stack(Isar!Panicked(q).p)
  BY Results
<1>1. Stack(Isar!Returned(Isar!open_block(p)).p)
  BY <1>0, OpenBlockStack
<1>2. Stack(Isar!proof(p).p)
  BY <1>1, InBackwardStack DEF Isar!proof
<1>3. Stack(Isar!qed(p).p)
  <2> DEFINE q == Isar!Front(p)
             r == IF Len(p) <= 2 THEN Isar!Panicked(p)
                  ELSE IF Isar!top(q).goal = Isar!NoGoal THEN Isar!Panicked(q)
                  ELSE Isar!Returned(Isar!Refined(q, Isar!top(p).goal))
  <2>1. ASSUME ~(Len(p) <= 2) PROVE Stack(q)
    BY <2>1, StackFacts, FrontStack
  <2>2. Isar!qed(p) = Isar!InForward(p, r)
    BY DEF Isar!qed
  <2> HIDE DEF q
  <2>3. ASSUME Stack(q), Isar!top(q).goal # Isar!NoGoal, NEW g
        PROVE  Stack(Isar!Refined(q, g))
    <3>1. Isar!top(q) = q[Len(q)] /\ Len(q) \in 1..Len(q)
      BY <2>3, TopFacts, StackFacts
    <3>2. \A x : Stack(Isar!set_goal_thm(q, Len(q), x))
      BY <2>3, <3>1, GoalThmStack
    <3> QED BY <2>3, <3>2 DEF Isar!Refined
  <2>4. Stack(r.p)
    BY <1>0, <2>1, <2>3
  <2> HIDE DEF r
  <2>5. Stack(Isar!InForward(p, r).p)
    BY <2>4, InForwardStack
  <2> QED BY <2>2, <2>5
<1>4. Stack(Isar!next(p).p)
  <2> DEFINE c == Isar!close_block(p)
             r == IF c.ok THEN Isar!Returned(Isar!open_block(c.p)) ELSE c
  <2>1. Isar!next(p) = Isar!InForward(p, r)
    BY DEF Isar!next, Isar!Then
  <2>2. Stack(c.p)
    BY CloseBlockStack
  <2> HIDE DEF c
  <2>3. Stack(r.p)
    BY <1>0, <2>2, OpenBlockStack
  <2> HIDE DEF r
  <2>4. Stack(Isar!InForward(p, r).p)
    BY <2>3, InForwardStack
  <2> QED BY <2>1, <2>4
<1>5. Stack(Isar!open_brace(p).p)
  BY <1>1, InForwardStack DEF Isar!open_brace
<1>6. Stack(Isar!close_brace(p).p)
  <2> DEFINE r == IF Isar!top(p).goal # Isar!NoGoal THEN Isar!Panicked(p) ELSE Isar!close_block(p)
  <2>1. Stack(r.p)
    BY <1>0, CloseBlockStack
  <2>2. Isar!close_brace(p) = Isar!InForward(p, r)
    BY DEF Isar!close_brace
  <2> HIDE DEF r
  <2>3. Stack(Isar!InForward(p, r).p)
    BY <2>1, InForwardStack
  <2> QED BY <2>2, <2>3
<1>7. Stack(Isar!done(p).p)
  <2> DEFINE q == Isar!close_to(p, 2)
  <2>1. Stack(q) /\ Len(q) <= 2
    BY CloseToStack
  <2> HIDE DEF q
  <2>2. \A m : Stack(Isar!enter(q, m))
    BY <2>1, EnterStack
  <2> QED BY <1>0, <2>2 DEF q, Isar!done
<1>8. Stack(Isar!return_to_theory(p))
  <2> DEFINE q == Isar!close_to(p, 1)
  <2>1. Stack(q) /\ Len(q) <= 1
    BY CloseToStack
  <2> HIDE DEF q
  <2>2. Len(q) <= 2
    BY <2>1, StackFacts
  <2>3. \A m : Stack(Isar!enter(q, m))
    BY <2>1, <2>2, EnterStack
  <2> QED BY <2>3, ResetGoalStack DEF q, Isar!return_to_theory
<1> QED BY <1>2, <1>3, <1>4, <1>5, <1>6, <1>7, <1>8

LEMMA InitedGoal == \A s \in Stmt : \A k : Stated(Isar!Goal_init(k, s))
BY DEF Stated, Isar!Goal_init

LEMMA StateStack ==
  ASSUME NEW p, Stack(p), NEW g, Stated(g)
  PROVE  Stack(Isar!State(p, g).p)
<1> DEFINE q == Isar!open_block(p)
           end == Isar!enter(Isar!set_goal(q, g), "Backward")
<1>1. Stack(q)
  BY OpenBlockStack
<1> HIDE DEF q
<1>2. \A m : m = "Backward" => Stack(Isar!enter(Isar!set_goal(q, g), m))
  BY <1>1, ModeAndGoal
<1>3. Stack(end)
  BY <1>2
<1>4. Stack(Isar!InForward(p, Isar!Returned(end)).p)
  <2> HIDE DEF end
  <2>1. Stack(Isar!Returned(end).p)
    BY <1>3, Results
  <2> QED BY <2>1, InForwardStack
<1> QED BY <1>4 DEF q, Isar!State

LEMMA GoalsStack ==
  ASSUME NEW p, Stack(p), NEW s \in Stmt
  PROVE  /\ Stack(Isar!lemma(p, s).p)
         /\ Stack(Isar!have(p, s).p)
         /\ Stack(Isar!show(p, s).p)
<1>1. Stack(Isar!lemma(p, s).p)
  BY InitedGoal, StateStack DEF Isar!lemma
<1>2. Stack(Isar!have(p, s).p)
  BY InitedGoal, StateStack DEF Isar!have
<1>3. Stack(Isar!show(p, s).p)
  <2> DEFINE i == Isar!find_goal(p)
             up == IF i = 0 THEN Isar!NoStmt ELSE p[i].goal.stmt
             g == [Isar!Goal_init("show", s) EXCEPT !.refines = up]
  <2>1. Isar!show(p, s) = Isar!State(p, g)
    BY DEF Isar!show
  <2> HIDE DEF up
  <2>2. Stated(g)
    BY DEF Stated, Isar!Goal_init
  <2> HIDE DEF g
  <2> QED BY <2>1, <2>2, StateStack
<1> QED BY <1>1, <1>2, <1>3

\* What a method leaves of the innermost goal, if there is one.
LEMMA OnGoalStack ==
  ASSUME NEW p, Stack(p), NEW x
  PROVE  LET i == Isar!find_goal(p) IN i = 0 \/ Stack(Isar!set_goal_thm(p, i, x))
<1> DEFINE i == Isar!find_goal(p)
<1>1. i = 0 \/ (i \in 1..Len(p) /\ p[i].goal # Isar!NoGoal)
  BY FindGoal
<1> HIDE DEF i
<1>2. i = 0 \/ Stack(Isar!set_goal_thm(p, i, x))
  BY <1>1, GoalThmStack
<1> QED BY <1>2 DEF i

LEMMA ProvingStack ==
  ASSUME NEW p, Stack(p), NEW method, NEW result
  PROVE  /\ Stack(Isar!apply(p, method, result).p)
         /\ Stack(Isar!by(p, method, result).p)
         /\ Stack(Isar!by_rule(p, result).p)
         /\ Stack(Isar!defer(p).p)
<1>0. \A q : Stack(q) => Stack(Isar!Returned(q).p) /\ Stack(Isar!Panicked(q).p)
  BY Results
<1> DEFINE i == Isar!find_goal(p)
<1>1. Stack(Isar!apply(p, method, result).p)
  <2> DEFINE a == Isar!quick_method(p[i].goal, method)
             q == IF i = 0 THEN p
                  ELSE IF method \in {"assumption", "skip"} THEN Isar!set_goal_thm(p, i, a)
                  ELSE IF result # Isar!NoThm THEN Isar!set_goal_thm(p, i, result)
                  ELSE p
  <2>1. \A x : i = 0 \/ Stack(Isar!set_goal_thm(p, i, x))
    BY OnGoalStack
  <2>2. Isar!apply(p, method, result) = Isar!InBackward(p, Isar!Returned(q))
    BY DEF Isar!apply
  <2> HIDE DEF i, a
  <2>3. Stack(q)
    BY <2>1
  <2> HIDE DEF q
  <2>4. Stack(Isar!InBackward(p, Isar!Returned(q)).p)
    BY <1>0, <2>3, InBackwardStack
  <2> QED BY <2>2, <2>4
<1>2. Stack(Isar!by(p, method, result).p)
  <2> DEFINE r == Isar!apply(p, method, result)
             c == IF r.ok THEN Isar!close_block(r.p) ELSE r
             end == Isar!Returned(Isar!reset_goal(Isar!enter(c.p, "Forward")))
  <2>1. Isar!by(p, method, result) = IF c.ok THEN end ELSE c
    BY DEF Isar!by, Isar!Then
  <2> HIDE DEF r
  <2>2. Stack(r.p)
    BY <1>1 DEF r
  <2>3. Stack(c.p)
    BY <2>2, CloseBlockStack
  <2> HIDE DEF c
  <2>4. \A m, g : g = Isar!NoGoal => Stack(Isar!set_goal(Isar!enter(c.p, m), g))
    BY <2>3, ModeAndGoal
  <2>5. Stack(end.p)
    BY <1>0, <2>4 DEF Isar!reset_goal
  <2> HIDE DEF end
  <2> QED BY <2>1, <2>3, <2>5
<1>3. Stack(Isar!by_rule(p, result).p)
  <2> DEFINE a == IF result = Isar!NoThm THEN Isar!trivial(p[i].goal.stmt) ELSE result
             q == IF i = 0 THEN p ELSE Isar!set_goal_thm(p, i, a)
  <2>1. \A x : i = 0 \/ Stack(Isar!set_goal_thm(p, i, x))
    BY OnGoalStack
  <2>2. Isar!by_rule(p, result) = Isar!InBackward(p, Isar!Returned(q))
    BY DEF Isar!by_rule
  <2> HIDE DEF i, a
  <2>3. Stack(q)
    BY <2>1
  <2> HIDE DEF q
  <2>4. Stack(Isar!InBackward(p, Isar!Returned(q)).p)
    BY <1>0, <2>3, InBackwardStack
  <2> QED BY <2>2, <2>4
<1>4. Stack(Isar!defer(p).p)
  BY <1>0 DEF Isar!defer, Isar!Unless
<1> QED BY <1>1, <1>2, <1>3, <1>4

LEMMA SorryStack ==
  ASSUME NEW p, Stack(p)
  PROVE  Stack(Isar!sorry(p).p)
<1>1. \A m, r : Stack(Isar!by(p, m, r).p)
  BY ProvingStack
<1> QED BY <1>1 DEF Isar!sorry
-----------------------------------------------------------------------------
(* The toplevel's Isar proofs are the same. *)

LEMMA SameParts ==
  /\ Top!Isar!NoGoal = Isar!NoGoal /\ Top!Isar!NoThm = Isar!NoThm
  /\ Top!Isar!NoStmt = Isar!NoStmt /\ Top!Isar!init = Isar!init
  /\ \A p : /\ Top!Isar!Returned(p) = Isar!Returned(p)
            /\ Top!Isar!Panicked(p) = Isar!Panicked(p)
            /\ Top!Isar!mode(p) = Isar!mode(p)
            /\ Top!Isar!open_block(p) = Isar!open_block(p)
            /\ Top!Isar!close_block(p) = Isar!close_block(p)
            /\ Top!Isar!find_goal(p) = Isar!find_goal(p)
            /\ Top!Isar!reset_facts(p) = Isar!reset_facts(p)
            /\ Top!Isar!reset_goal(p) = Isar!reset_goal(p)
            /\ Top!Isar!the_facts(p) = Isar!the_facts(p)
            /\ \A x : /\ Top!Isar!enter(p, x) = Isar!enter(p, x)
                      /\ Top!Isar!set_goal(p, x) = Isar!set_goal(p, x)
                      /\ Top!Isar!set_facts(p, x) = Isar!set_facts(p, x)
                      /\ Top!Isar!close_to(p, x) = Isar!close_to(p, x)
                      /\ \A y : Top!Isar!set_goal_thm(p, x, y) = Isar!set_goal_thm(p, x, y)
BY DEF Isar!NoGoal, Top!Isar!NoGoal, Isar!NoThm, Top!Isar!NoThm, Isar!NoStmt,
       Top!Isar!NoStmt, Isar!NoFacts, Top!Isar!NoFacts, Isar!ProofNode,
       Top!Isar!ProofNode, Isar!init, Top!Isar!init, Isar!Returned,
       Top!Isar!Returned, Isar!Panicked, Top!Isar!Panicked, Isar!top, Top!Isar!top,
       Isar!mode, Top!Isar!mode, Isar!open_block, Top!Isar!open_block,
       Isar!close_block, Top!Isar!close_block, Isar!find_goal, Top!Isar!find_goal,
       Isar!reset_facts, Top!Isar!reset_facts, Isar!reset_goal, Top!Isar!reset_goal,
       Isar!the_facts, Top!Isar!the_facts, Isar!enter, Top!Isar!enter,
       Isar!set_goal, Top!Isar!set_goal, Isar!set_facts, Top!Isar!set_facts,
       Isar!close_to, Top!Isar!close_to, Isar!set_goal_thm, Top!Isar!set_goal_thm,
       Isar!Last, Top!Isar!Last, Isar!Front, Top!Isar!Front

LEMMA SameGoals ==
  \A p, s : /\ Top!Isar!assume(s) = Isar!assume(s)
            /\ Top!Isar!trivial(s) = Isar!trivial(s)
            /\ Top!Isar!lemma(p, s) = Isar!lemma(p, s)
            /\ Top!Isar!have(p, s) = Isar!have(p, s)
            /\ Top!Isar!show(p, s) = Isar!show(p, s)
<1>1. \A s : Top!Isar!assume(s) = Isar!assume(s)
  BY DEF Isar!assume, Top!Isar!assume, Isar!Last, Top!Isar!Last
<1>2. \A s : Top!Isar!trivial(s) = Isar!trivial(s)
  BY <1>1 DEF Isar!trivial, Top!Isar!trivial
<1>3. \A k, s : Top!Isar!Goal_init(k, s) = Isar!Goal_init(k, s)
  BY <1>1, SameParts DEF Isar!Goal_init, Top!Isar!Goal_init
<1>4. \A p, g : Top!Isar!State(p, g) = Isar!State(p, g)
  BY SameParts DEF
     Isar!State, Top!Isar!State, Isar!InForward, Top!Isar!InForward, Isar!Unless, Top!Isar!Unless
<1>5. \A p, s : /\ Top!Isar!lemma(p, s) = Isar!lemma(p, s)
                /\ Top!Isar!have(p, s) = Isar!have(p, s)
  BY <1>3, <1>4 DEF Isar!lemma, Top!Isar!lemma, Isar!have, Top!Isar!have
<1>6. \A p, s : Top!Isar!show(p, s) = Isar!show(p, s)
  BY <1>3, <1>4, SameParts DEF Isar!show, Top!Isar!show
<1> QED BY <1>1, <1>2, <1>5, <1>6

LEMMA SameCommands ==
  \A p : /\ Top!Isar!fix(p) = Isar!fix(p)
         /\ Top!Isar!assume_props(p) = Isar!assume_props(p)
         /\ Top!Isar!obtain(p) = Isar!obtain(p)
         /\ Top!Isar!also(p) = Isar!also(p)
         /\ Top!Isar!finally(p) = Isar!finally(p)
         /\ Top!Isar!proof(p) = Isar!proof(p)
         /\ Top!Isar!done(p) = Isar!done(p)
<1>1. \A p, r : /\ Top!Isar!InForward(p, r) = Isar!InForward(p, r)
                /\ Top!Isar!InBackward(p, r) = Isar!InBackward(p, r)
  BY SameParts DEF
     Isar!InForward, Top!Isar!InForward, Isar!InBackward, Top!Isar!InBackward, Isar!Unless,
     Top!Isar!Unless
<1>2. \A p : Top!Isar!chain(p) = Isar!chain(p)
  BY <1>1, SameParts DEF Isar!chain, Top!Isar!chain
<1>3. \A p : /\ Top!Isar!fix(p) = Isar!fix(p)
             /\ Top!Isar!assume_props(p) = Isar!assume_props(p)
  BY <1>1, SameParts DEF Isar!fix, Top!Isar!fix, Isar!assume_props, Top!Isar!assume_props
<1>4. \A p : Top!Isar!obtain(p) = Isar!obtain(p)
  BY <1>3 DEF Isar!obtain, Top!Isar!obtain, Isar!Then, Top!Isar!Then
<1>5. \A p : Top!Isar!update_calculation(p) = Isar!update_calculation(p)
  BY SameParts DEF Isar!update_calculation, Top!Isar!update_calculation
<1>6. \A p : Top!Isar!also(p) = Isar!also(p)
  BY <1>1, <1>5, SameParts DEF Isar!also, Top!Isar!also
<1>7. \A p : Top!Isar!finally(p) = Isar!finally(p)
  BY <1>1, <1>2, <1>5, SameParts DEF
     Isar!finally, Top!Isar!finally, Isar!take_calculation, Top!Isar!take_calculation
<1>8. \A p : Top!Isar!proof(p) = Isar!proof(p)
  BY <1>1, SameParts DEF Isar!proof, Top!Isar!proof
<1>9. \A p : Top!Isar!done(p) = Isar!done(p)
  BY SameParts DEF Isar!done, Top!Isar!done
<1> QED BY <1>3, <1>4, <1>6, <1>7, <1>8, <1>9

LEMMA SameProving ==
  \A p, m, r : /\ Top!Isar!apply(p, m, r) = Isar!apply(p, m, r)
               /\ Top!Isar!by(p, m, r) = Isar!by(p, m, r)
               /\ Top!Isar!by_rule(p, r) = Isar!by_rule(p, r)
<1>1. \A p, r : Top!Isar!InBackward(p, r) = Isar!InBackward(p, r)
  BY SameParts DEF Isar!InBackward, Top!Isar!InBackward, Isar!Unless, Top!Isar!Unless
<1>2. \A g, m : Top!Isar!quick_method(g, m) = Isar!quick_method(g, m)
  BY SameGoals DEF Isar!quick_method, Top!Isar!quick_method
<1>3. \A p, m, r : Top!Isar!apply(p, m, r) = Isar!apply(p, m, r)
  BY <1>1, <1>2, SameParts DEF Isar!apply, Top!Isar!apply
<1>4. \A p, m, r : Top!Isar!by(p, m, r) = Isar!by(p, m, r)
  BY <1>3, SameParts DEF Isar!by, Top!Isar!by, Isar!Then, Top!Isar!Then
<1>5. \A p, r : Top!Isar!by_rule(p, r) = Isar!by_rule(p, r)
  BY <1>1, SameParts, SameGoals DEF Isar!by_rule, Top!Isar!by_rule
<1> QED BY <1>3, <1>4, <1>5
-----------------------------------------------------------------------------
(* The toplevel and the caller of the API. *)

\* A proof state, or none.
StackOrNone(p) == p = <<>> \/ Stack(p)

TopInv ==
    /\ DOMAIN state = {"mode", "theorems", "proof"}
    /\ StackOrNone(state.proof)
    /\ state.mode = "Proof" => Stack(state.proof)

LEMMA StatesOk ==
  ASSUME NEW ths, NEW p
  PROVE  /\ DOMAIN Top!Theory(ths) = {"mode", "theorems", "proof"}
         /\ DOMAIN Top!Proof(ths, p) = {"mode", "theorems", "proof"}
         /\ DOMAIN Top!Abort(ths, p) = {"mode", "theorems", "proof"}
         /\ Top!Theory(ths).proof = <<>> /\ Top!Theory(ths).mode = "Theory"
         /\ Top!Proof(ths, p).proof = p
         /\ Top!Abort(ths, p).proof = p /\ Top!Abort(ths, p).mode = "Panicked"
BY DEF Top!Theory, Top!Proof, Top!Abort

LEMMA InitStep == ASSUME NEW s \in Stmt PROVE Stack(Isar!lemma(Isar!init, s).p)
BY InitStack, GoalsStack

\* What an Isar command does to the toplevel.
LEMMA InProofKeeps ==
  ASSUME TopInv, NEW r, Stack(state.proof) => Stack(r.p),
         \/ Top!InProof(r) \/ Top!InProofOrSkip(r) \/ Top!LeaveWith(r)
  PROVE  TopInv'
<1>1. CASE state.mode # "Proof"
  <2>1. UNCHANGED state
    BY <1>1 DEF Top!InProof, Top!InProofOrSkip, Top!LeaveWith
  <2> QED BY <2>1 DEF TopInv, StackOrNone
<1>2. CASE state.mode = "Proof"
  <2>1. Stack(r.p)
    BY <1>2 DEF TopInv
  <2>2. \/ state' = Top!Proof(state.theorems, r.p)
        \/ state' = Top!Abort(state.theorems, r.p)
        \/ state' = Top!Theory(state.theorems)
    BY <1>2 DEF Top!InProof, Top!InProofOrSkip, Top!LeaveWith
  <2> QED BY <2>1, <2>2, StatesOk DEF TopInv, StackOrNone
<1> QED BY <1>1, <1>2

LEMMA TopKeeps ==
  ASSUME TopInv, Top!TopNext
  PROVE  TopInv'
<1> DEFINE p == state.proof
<1> USE DEF Top!p
<1>1. ASSUME NEW s \in Stmt, Top!exec_lemma(s) PROVE TopInv'
  <2>1. UNCHANGED state \/ state' = Top!Proof(<<>>, Isar!lemma(Isar!init, s).p)
    BY <1>1, SameParts, SameGoals DEF Top!exec_lemma
  <2>2. CASE UNCHANGED state
    BY <2>2 DEF TopInv, StackOrNone
  <2>3. CASE state' = Top!Proof(<<>>, Isar!lemma(Isar!init, s).p)
    BY <2>3, InitStep, StatesOk DEF TopInv, StackOrNone
  <2> QED BY <2>1, <2>2, <2>3
<1>2. ASSUME NEW s \in Stmt, Top!exec_have_show(s) PROVE TopInv'
  <2>1. Top!InProof(Isar!have(p, s)) \/ Top!InProof(Isar!show(p, s))
    BY <1>2, SameGoals DEF Top!exec_have_show
  <2>2. Stack(p) => Stack(Isar!have(p, s).p) /\ Stack(Isar!show(p, s).p)
    BY GoalsStack
  <2> QED BY <2>1, <2>2, InProofKeeps
<1>3. ASSUME NEW m, \/ Top!InProof(Isar!apply(p, m.method, m.result))
                    \/ Top!LeaveWith(Isar!by(p, m.method, m.result))
                    \/ Top!InProof(Isar!by_rule(p, m.result))
      PROVE  TopInv'
  <2>1. Stack(p) => /\ Stack(Isar!apply(p, m.method, m.result).p)
                    /\ Stack(Isar!by(p, m.method, m.result).p)
                    /\ Stack(Isar!by_rule(p, m.result).p)
    BY ProvingStack
  <2> QED BY <1>3, <2>1, InProofKeeps
<1>4. CASE Top!exec_apply \/ Top!exec_by \/ Top!exec_induct_cases
  <2>1. \E m : \/ Top!InProof(Isar!apply(p, m.method, m.result))
               \/ Top!LeaveWith(Isar!by(p, m.method, m.result))
               \/ Top!InProof(Isar!by_rule(p, m.result))
    BY <1>4, SameProving DEF Top!exec_apply, Top!exec_by, Top!exec_induct_cases
  <2> QED BY <1>3, <2>1
<1>5. CASE \/ Top!exec_proof \/ Top!exec_qed \/ Top!exec_fix \/ Top!exec_assume
           \/ Top!exec_obtain \/ Top!exec_also \/ Top!exec_finally
  <2>1. PICK r \in {Isar!proof(p), Isar!done(p), Isar!fix(p), Isar!assume_props(p),
                    Isar!obtain(p), Isar!also(p), Isar!finally(p)} :
           Top!InProof(r) \/ Top!InProofOrSkip(r) \/ Top!LeaveWith(r)
    BY <1>5, SameCommands DEF Top!exec_proof, Top!exec_qed, Top!exec_fix, Top!exec_assume,
       Top!exec_obtain, Top!exec_also, Top!exec_finally
  <2>2. ASSUME Stack(p) PROVE Stack(r.p)
    <3>1. \A thms : Stack(Isar!also(p).p) /\ Stack(Isar!finally(p).p)
      BY <2>2, FactsCommandsStack
    <3> QED BY <2>1, <2>2, <3>1, ContextStack, BlocksStack
  <2> QED BY <2>1, <2>2, InProofKeeps
<1>6. CASE Top!exec_lemmas
  <2>1. state' = [state EXCEPT !.theorems = Append(@, Isar!assume(<<"True">>))]
    BY <1>6, SameGoals DEF Top!exec_lemmas
  <2>2. DOMAIN state' = DOMAIN state /\ state'.proof = state.proof /\ state'.mode = state.mode
    BY <2>1 DEF TopInv
  <2> QED BY <2>2 DEF TopInv, StackOrNone
<1>7. CASE Top!exec_definition
  BY <1>7 DEF Top!exec_definition, TopInv, StackOrNone
<1> QED BY <1>1, <1>2, <1>4, <1>5, <1>6, <1>7 DEF Top!TopNext

LEMMA ApiKeeps ==
  ASSUME Stack(stack), ClientNext
  PROVE  Stack(stack')
<1>1. ASSUME NEW r, Call(r), Stack(r.p) PROVE Stack(stack')
  BY <1>1 DEF Call
<1>2. CASE Contexts
  BY <1>1, <1>2, ContextStack DEF Contexts
<1>3. CASE Facts
  BY <1>1, <1>3, FactsCommandsStack DEF Facts
<1>4. CASE Blocks
  <2>1. Stack(Isar!Returned(Isar!return_to_theory(stack)).p)
    BY BlocksStack, Results, ZenonT(30)
  <2> QED BY <1>1, <1>4, <2>1, BlocksStack DEF Blocks
<1>5. CASE \E s \in Stmt : Goals(s)
  BY <1>1, <1>5, GoalsStack DEF Goals
<1>6. CASE Proving
  <2>1. \A m, r : Stack(Isar!defer(stack).p)
    BY ProvingStack
  <2> QED BY <1>1, <1>6, <2>1, ProvingStack, SorryStack DEF Proving
<1> QED BY <1>2, <1>3, <1>4, <1>5, <1>6 DEF ClientNext
-----------------------------------------------------------------------------
(* The theory processor. *)

\* What is recorded without hypotheses is the triviality of a statement.
Fine(thm) == thm.hyps = {} => \E s \in Stmt : thm = Isar!trivial(s)

ProcFields == {"local", "proof", "theorems", "index", "lemma_count", "pending", "errors",
               "header", "accept_all", "reading", "begun"}

Recorded(pr) ==
    /\ IsSeq(pr.theorems)
    /\ \A i \in DOMAIN pr.theorems : Fine(pr.theorems[i].thm)
    /\ \A n \in DOMAIN pr.index : Fine(pr.index[n])
    /\ \A n \in DOMAIN pr.local.noted : \E s \in Stmt : pr.local.noted[n] = Isar!trivial(s)

ProcOK(pr) ==
    /\ DOMAIN pr = ProcFields
    /\ DOMAIN pr.local = {"name", "parent", "noted"}
    /\ StackOrNone(pr.proof)
    /\ Recorded(pr)

\* Every entry of an index sh is a theorem collected.
IndexOf(pr, sh) ==
    \A n \in DOMAIN sh : \E i \in DOMAIN pr.theorems :
        pr.theorems[i].name = n /\ pr.theorems[i].thm = sh[n]

ProcInv == ProcOK(proc) /\ (Reading => IndexOf(proc, shared))

LEMMA AssumedIsFine == \A x : Fine(Isar!assume(<<x>>))
BY DEF Fine, Isar!assume

LEMMA NoEntries == IsSeq(<<>>) /\ DOMAIN <<>> = {} /\ Len(<<>>) = 0
<1>1. <<>> \in Seq({}) /\ Len(<<>>) = 0
  OBVIOUS
<1>2. DOMAIN <<>> = 1..0
  BY <1>1, LenProperties
<1> QED BY <1>1, <1>2 DEF IsSeq

LEMMA NewOK ==
  ASSUME NEW acc, NEW n
  PROVE  /\ ProcOK(new(acc)) /\ new(acc).reading = FALSE
         /\ ProcOK(with_parent("Parent", n, acc)) /\ with_parent("Parent", n, acc).reading = FALSE
<1>1. /\ DOMAIN new(acc) = ProcFields /\ new(acc).local = NoTheory
      /\ new(acc).proof = <<>> /\ new(acc).theorems = <<>> /\ new(acc).index = <<>>
      /\ new(acc).reading = FALSE
  BY DEF new, ProcFields, NoProof
<1>2. \A m, k : /\ DOMAIN begin_theory(m, k) = {"name", "parent", "noted"}
                /\ begin_theory(m, k).noted = <<>>
  BY DEF begin_theory
<1>3. DOMAIN NoTheory = {"name", "parent", "noted"} /\ NoTheory.noted = <<>>
  BY DEF NoTheory
<1>4. PICK q : q = with_parent("Parent", n, acc)
  OBVIOUS
<1>5. PICK l : l = begin_theory("Pure", n)
  OBVIOUS
<1>6. q = [new(acc) EXCEPT !.local = l, !.header = TRUE]
  BY <1>4, <1>5 DEF with_parent
<1>7. /\ DOMAIN q = ProcFields /\ q.local = l /\ q.proof = <<>> /\ q.theorems = <<>>
      /\ q.index = <<>> /\ q.reading = FALSE
  BY <1>1, <1>6 DEF ProcFields
<1>8. ProcOK(new(acc))
  BY <1>1, <1>3, NoEntries DEF ProcOK, Recorded, StackOrNone
<1>9. ProcOK(q)
  BY <1>2, <1>5, <1>7, NoEntries DEF ProcOK, Recorded, StackOrNone
<1> QED BY <1>1, <1>4, <1>7, <1>8, <1>9

\* The fields that no invariant is about change freely, and so does the proof.
LEMMA FieldsChange ==
  ASSUME NEW pr, ProcOK(pr), NEW sh, NEW x, NEW p, StackOrNone(p)
  PROVE  /\ ProcOK([pr EXCEPT !.lemma_count = x])
         /\ IndexOf(pr, sh) => IndexOf([pr EXCEPT !.lemma_count = x], sh)
         /\ [pr EXCEPT !.lemma_count = x].proof = pr.proof
         /\ ProcOK([pr EXCEPT !.errors = x])
         /\ IndexOf(pr, sh) => IndexOf([pr EXCEPT !.errors = x], sh)
         /\ ProcOK([pr EXCEPT !.reading = x]) /\ [pr EXCEPT !.reading = x].reading = x
         /\ ProcOK([pr EXCEPT !.proof = p]) /\ [pr EXCEPT !.proof = p].proof = p
         /\ IndexOf(pr, sh) => IndexOf([pr EXCEPT !.proof = p], sh)
<1>1. ASSUME NEW q, DOMAIN q = DOMAIN pr, StackOrNone(q.proof), q.theorems = pr.theorems,
             q.index = pr.index, q.local = pr.local
      PROVE  ProcOK(q) /\ (IndexOf(pr, sh) => IndexOf(q, sh))
  BY <1>1 DEF ProcOK, Recorded, IndexOf
<1>2. DOMAIN pr = ProcFields /\ StackOrNone(pr.proof)
  BY DEF ProcOK
<1>3. PICK q : q = [pr EXCEPT !.lemma_count = x]
  OBVIOUS
<1>4. /\ DOMAIN q = DOMAIN pr /\ q.proof = pr.proof /\ q.theorems = pr.theorems
      /\ q.index = pr.index /\ q.local = pr.local
  BY <1>2, <1>3 DEF ProcFields
<1>5. PICK r : r = [pr EXCEPT !.errors = x]
  OBVIOUS
<1>6. /\ DOMAIN r = DOMAIN pr /\ r.proof = pr.proof /\ r.theorems = pr.theorems
      /\ r.index = pr.index /\ r.local = pr.local
  BY <1>2, <1>5 DEF ProcFields
<1>7. PICK t : t = [pr EXCEPT !.reading = x]
  OBVIOUS
<1>8. /\ DOMAIN t = DOMAIN pr /\ t.proof = pr.proof /\ t.theorems = pr.theorems
      /\ t.index = pr.index /\ t.local = pr.local /\ t.reading = x
  BY <1>2, <1>7 DEF ProcFields
<1>9. PICK u : u = [pr EXCEPT !.proof = p]
  OBVIOUS
<1>10. /\ DOMAIN u = DOMAIN pr /\ u.proof = p /\ u.theorems = pr.theorems
       /\ u.index = pr.index /\ u.local = pr.local
  BY <1>2, <1>9 DEF ProcFields
<1>11. /\ ProcOK(q) /\ (IndexOf(pr, sh) => IndexOf(q, sh)) /\ ProcOK(r)
       /\ (IndexOf(pr, sh) => IndexOf(r, sh)) /\ ProcOK(t) /\ ProcOK(u)
       /\ (IndexOf(pr, sh) => IndexOf(u, sh))
  BY <1>1, <1>2, <1>4, <1>6, <1>8, <1>10
<1> QED BY <1>3, <1>4, <1>5, <1>7, <1>8, <1>9, <1>10, <1>11

\* Recording a theorem, with and without sharing it.
LEMMA PushedOK ==
  ASSUME NEW pr, ProcOK(pr), NEW n, NEW thm, Fine(thm), NEW sh
  PROVE  /\ ProcOK(pushed(pr, n, thm))
         /\ IndexOf(pr, sh) => IndexOf(pushed(pr, n, thm), sh)
         /\ IndexOf(pr, sh) => IndexOf(pushed(pr, n, thm), insert(sh, n, thm))
<1> DEFINE e == [name |-> n, thm |-> thm]
           ths == Append(pr.theorems, e)
           ind == insert(pr.index, n, thm)
<1>1. PICK q : q = pushed(pr, n, thm)
  OBVIOUS
<1>2. /\ DOMAIN q = ProcFields /\ q.theorems = ths /\ q.index = ind
      /\ q.proof = pr.proof /\ q.local = pr.local
  <2> HIDE DEF e, ths, ind
  <2>1. q = [pr EXCEPT !.index = ind, !.theorems = ths]
    BY <1>1 DEF pushed, e, ths, ind
  <2> QED BY <2>1 DEF ProcOK, ProcFields
<1>3. ASSUME NEW f
      PROVE  /\ DOMAIN insert(f, n, thm) = {n} \cup DOMAIN f
             /\ \A m \in {n} \cup DOMAIN f : insert(f, n, thm)[m] = IF m = n THEN thm ELSE f[m]
  BY DEF insert
<1>4. IsSeq(pr.theorems) /\ Len(pr.theorems) \in Nat /\ DOMAIN pr.theorems = 1..Len(pr.theorems)
  BY SeqFacts DEF ProcOK, Recorded
<1>5. /\ IsSeq(ths) /\ DOMAIN ths = 1..Len(pr.theorems) + 1
      /\ \A i \in 1..Len(pr.theorems) : ths[i] = pr.theorems[i]
      /\ ths[Len(pr.theorems) + 1] = e
  <2> HIDE DEF e
  <2> QED BY <1>4, AppendSeq, SeqFacts
<1>6. e.name = n /\ e.thm = thm
  OBVIOUS
<1> HIDE DEF e, ths
<1>7. \A i \in DOMAIN ths : i \in DOMAIN pr.theorems \/ i = Len(pr.theorems) + 1
  BY <1>4, <1>5
<1>8. \A i \in DOMAIN ths : Fine(ths[i].thm)
  BY <1>4, <1>5, <1>6, <1>7 DEF ProcOK, Recorded
<1>9. \A m \in DOMAIN ind : Fine(ind[m])
  <2>1. \A m \in DOMAIN pr.index : Fine(pr.index[m])
    BY DEF ProcOK, Recorded
  <2>2. /\ DOMAIN ind = {n} \cup DOMAIN pr.index
        /\ \A m \in {n} \cup DOMAIN pr.index : ind[m] = IF m = n THEN thm ELSE pr.index[m]
    BY <1>3
  <2> HIDE DEF ind
  <2> QED BY <2>1, <2>2
<1> HIDE DEF ind
<1>10. ProcOK(q)
  BY <1>2, <1>5, <1>8, <1>9 DEF ProcOK, Recorded
<1>11. DOMAIN pr.theorems \subseteq DOMAIN ths /\ Len(pr.theorems) + 1 \in DOMAIN ths
  BY <1>4, <1>5
<1>12. IndexOf(pr, sh) => IndexOf(q, sh)
  BY <1>2, <1>4, <1>5, <1>11 DEF IndexOf
<1>13. ASSUME IndexOf(pr, sh) PROVE IndexOf(q, insert(sh, n, thm))
  <2>1. PICK f : f = insert(sh, n, thm)
    OBVIOUS
  <2>2. /\ DOMAIN f = {n} \cup DOMAIN sh
        /\ \A m \in {n} \cup DOMAIN sh : f[m] = IF m = n THEN thm ELSE sh[m]
    BY <1>3, <2>1
  <2>3. ASSUME NEW m \in DOMAIN f
        PROVE  \E i \in DOMAIN ths : ths[i].name = m /\ ths[i].thm = f[m]
    <3>1. CASE m = n
      BY <3>1, <2>2, <1>5, <1>6, <1>11
    <3>2. CASE m # n
      <4>1. m \in DOMAIN sh /\ f[m] = sh[m]
        BY <3>2, <2>2
      <4>2. PICK i \in DOMAIN pr.theorems : pr.theorems[i].name = m /\ pr.theorems[i].thm = sh[m]
        BY <4>1, <1>13 DEF IndexOf
      <4> QED BY <4>1, <4>2, <1>4, <1>5, <1>11
    <3> QED BY <3>1, <3>2
  <2> QED BY <2>1, <2>3, <1>2 DEF IndexOf
<1> QED BY <1>1, <1>10, <1>12, <1>13

\* A step that leaves the index of the methods alone, or shares what it records.
LEMMA RecordKeeps ==
  ASSUME NEW pr, ProcOK(pr), IndexOf(pr, shared), NEW n, NEW thm, Fine(thm),
         \/ add_theorem_to_index(pr, n, thm)
         \/ pr = proc /\ add_without_sharing(n, thm)
  PROVE  ProcInv'
<1>1. ProcOK(proc') /\ IndexOf(proc', shared')
  BY PushedOK DEF add_theorem_to_index, add_without_sharing
<1> QED BY <1>1 DEF ProcInv

LEMMA ErrorKeeps ==
  ASSUME ProcInv, Reading, proc' = error(proc), UNCHANGED shared
  PROVE  ProcInv'
<1>1. ASSUME NEW x
      PROVE  /\ ProcOK([proc EXCEPT !.errors = x])
             /\ IndexOf([proc EXCEPT !.errors = x], shared)
  <2>1. ProcOK(proc) /\ IndexOf(proc, shared) /\ StackOrNone(proc.proof)
    BY DEF ProcInv, ProcOK
  <2> QED BY <2>1, FieldsChange
<1>2. proc' = [proc EXCEPT !.errors = proc.errors + 1]
  BY DEF error
<1>3. ProcOK(proc') /\ IndexOf(proc', shared')
  BY <1>1, <1>2
<1> QED BY <1>3 DEF ProcInv

LEMMA NothingKeeps ==
  ASSUME ProcInv, UNCHANGED <<proc, shared>>
  PROVE  ProcInv'
BY DEF ProcInv, Reading

LEMMA DrivingKeeps ==
  ASSUME ProcInv, NEW r, Stack(proc.proof) => Stack(r.p), Driving(r)
  PROVE  ProcInv'
<1>1. CASE proc.proof = NoProof
  BY <1>1, NothingKeeps DEF Driving
<1>2. CASE proc.proof # NoProof
  <2>1. StackOrNone(r.p)
    BY <1>2 DEF ProcInv, ProcOK, StackOrNone, NoProof
  <2>2. proc' = [proc EXCEPT !.proof = r.p] /\ shared' = shared /\ Reading
    BY <1>2 DEF Driving
  <2>3. ProcOK(proc') /\ IndexOf(proc', shared')
    BY <2>1, <2>2, FieldsChange DEF ProcInv
  <2> QED BY <2>3 DEF ProcInv
<1> QED BY <1>1, <1>2

LEMMA OpenedStack ==
  ASSUME NEW p, Stack(p)
  PROVE  Stack(Opened(p).p)
BY BlocksStack, Results DEF Opened

\* A command given to the block opened for it.
LEMMA ThenStack ==
  ASSUME NEW p, Stack(p), NEW s \in Stmt
  PROVE  /\ Stack(Isar!Then(Opened(p), LAMBDA q : Isar!have(q, s)).p)
         /\ Stack(Isar!Then(Opened(p), LAMBDA q : Isar!show(q, s)).p)
<1> DEFINE r == Opened(p)
<1>1. Stack(r.p)
  BY OpenedStack
<1> HIDE DEF r
<1>2. Stack(Isar!have(r.p, s).p) /\ Stack(Isar!show(r.p, s).p)
  BY <1>1, GoalsStack
<1>3. /\ Stack((IF r.ok THEN Isar!have(r.p, s) ELSE r).p)
      /\ Stack((IF r.ok THEN Isar!show(r.p, s) ELSE r).p)
  BY <1>1, <1>2
<1> QED BY <1>3 DEF r, Isar!Then

LEMMA ThenContextStack ==
  ASSUME NEW p, Stack(p)
  PROVE  /\ Stack(Isar!Then(Opened(p), LAMBDA q : Isar!fix(q)).p)
         /\ Stack(Isar!Then(Opened(p), LAMBDA q : Isar!assume_props(q)).p)
         /\ Stack(Isar!Then(Opened(p), LAMBDA q : Isar!also(q)).p)
         /\ Stack(Isar!Then(Opened(p), LAMBDA q : Isar!finally(q)).p)
         /\ Stack(Isar!Then(Opened(p), LAMBDA q : Isar!then_chain(q)).p)
<1> DEFINE r == Opened(p)
<1>1. Stack(r.p)
  BY OpenedStack
<1> HIDE DEF r
<1>2. \A thms : Stack(Isar!also(r.p).p) /\ Stack(Isar!finally(r.p).p) /\ Stack(Isar!then_chain(r.p).p)
  BY <1>1, FactsCommandsStack
<1>3. Stack(Isar!fix(r.p).p) /\ Stack(Isar!assume_props(r.p).p)
  BY <1>1, ContextStack
<1>4. /\ Stack((IF r.ok THEN Isar!fix(r.p) ELSE r).p)
      /\ Stack((IF r.ok THEN Isar!assume_props(r.p) ELSE r).p)
      /\ Stack((IF r.ok THEN Isar!also(r.p) ELSE r).p)
      /\ Stack((IF r.ok THEN Isar!finally(r.p) ELSE r).p)
      /\ Stack((IF r.ok THEN Isar!then_chain(r.p) ELSE r).p)
  BY <1>1, <1>2, <1>3
<1> QED BY <1>4 DEF r, Isar!Then

\* The theorem that leaves a proof is the triviality of its goal.
LEMMA ExtractedIsFine ==
  ASSUME NEW p, Stack(p), Isar!extract_theorem(p) # Isar!NoThm
  PROVE  Fine(Isar!extract_theorem(p))
<1> DEFINE i == Isar!find_goal(p)
<1>1. i # 0 /\ Isar!extract_theorem(p) = Isar!trivial(p[i].goal.stmt)
  BY DEF Isar!extract_theorem
<1>2. i \in 1..Len(p) /\ p[i].goal # Isar!NoGoal
  BY <1>1, FindGoal
<1> HIDE DEF i
<1>3. p[i].goal.stmt \in Stmt
  BY <1>2, StackFacts DEF FitsAt, IsNode, Stated
<1> QED BY <1>1, <1>3 DEF Fine

LEMMA ClosingKeeps ==
  ASSUME ProcInv, NEW r, Stack(proc.proof) => Stack(r.p), Closing(r)
  PROVE  ProcInv'
<1>1. CASE proc.proof = NoProof
  BY <1>1, NothingKeeps DEF Closing
<1>2. CASE proc.proof # NoProof
  <2> DEFINE left == [proc EXCEPT !.proof = r.p]
             counted == [left EXCEPT !.lemma_count = @ + 1]
             x == left.lemma_count + 1
  <2>1. Stack(r.p) /\ StackOrNone(r.p) /\ Reading /\ ProcOK(proc) /\ IndexOf(proc, shared)
    BY <1>2 DEF ProcInv, ProcOK, StackOrNone, NoProof, Closing
  <2>2. ProcOK(left) /\ IndexOf(left, shared) /\ left.proof = r.p
    BY <2>1, FieldsChange
  <2>3. Counted(left) \/ (proc' = left /\ UNCHANGED shared)
    BY <1>2 DEF Closing
  <2>4. CASE proc' = left /\ UNCHANGED shared
    <3> HIDE DEF left
    <3> QED BY <2>2, <2>4 DEF ProcInv
  <2>5. CASE Counted(left)
    <3>1. counted = [left EXCEPT !.lemma_count = x]
      OBVIOUS
    <3>2. \/ proc' = counted /\ UNCHANGED shared
          \/ /\ Isar!extract_theorem(r.p) # Isar!NoThm
             /\ \E n : add_theorem_to_index(counted, n, Isar!extract_theorem(r.p))
      BY <2>2, <2>5 DEF Counted
    <3> HIDE DEF left, counted, x
    <3>3. ProcOK(counted) /\ IndexOf(counted, shared)
      BY <2>1, <2>2, <3>1, FieldsChange
    <3>4. CASE proc' = counted /\ UNCHANGED shared
      BY <3>3, <3>4 DEF ProcInv
    <3>5. ASSUME Isar!extract_theorem(r.p) # Isar!NoThm, NEW n,
                 add_theorem_to_index(counted, n, Isar!extract_theorem(r.p))
          PROVE  ProcInv'
      <4>1. Fine(Isar!extract_theorem(r.p))
        BY <2>1, <3>5, ExtractedIsFine
      <4> QED BY <3>3, <3>5, <4>1, RecordKeeps
    <3> QED BY <3>2, <3>4, <3>5
  <2> QED BY <2>3, <2>4, <2>5
<1> QED BY <1>1, <1>2

\* The unconditional theorems a finished theory notes.
LEMMA NotedOK ==
  ASSUME NEW pr, ProcOK(pr)
  PROVE  \A n \in DOMAIN note_unconditional(pr) :
            \E s \in Stmt : note_unconditional(pr)[n] = Isar!trivial(s)
<1> DEFINE ths == pr.theorems
           good == {i \in DOMAIN ths : is_unconditional(ths[i].thm)}
           names == {ths[i].name : i \in good}
           named(n) == {i \in good : ths[i].name = n}
           last(n) == CHOOSE i \in good : /\ ths[i].name = n
                                          /\ \A j \in good : ths[j].name = n => j <= i
           noted == note_unconditional(pr)
<1>1. /\ DOMAIN noted = names \cup DOMAIN pr.local.noted
      /\ \A n \in DOMAIN noted :
            noted[n] = IF n \in names THEN ths[last(n)].thm ELSE pr.local.noted[n]
  BY DEF note_unconditional
<1>2. Len(ths) \in Nat /\ DOMAIN ths = 1..Len(ths)
  BY SeqFacts DEF ProcOK, Recorded
<1>3. ASSUME NEW n \in names PROVE last(n) \in good
  <2>1. named(n) \subseteq 1..Len(ths) /\ named(n) # {}
    BY <1>2
  <2>2. PICK W : W = named(n)
    OBVIOUS
  <2>3. \E i \in W : \A j \in W : j <= i
    BY <1>2, <2>1, <2>2, Greatest
  <2>4. \E i \in good : ths[i].name = n /\ \A j \in good : ths[j].name = n => j <= i
    BY <2>2, <2>3
  <2> HIDE DEF good, ths
  <2> QED BY <2>4
<1>4. \A i \in good : \E s \in Stmt : ths[i].thm = Isar!trivial(s)
  BY DEF ProcOK, Recorded, Fine, is_unconditional
<1>5. \A n \in DOMAIN pr.local.noted : \E s \in Stmt : pr.local.noted[n] = Isar!trivial(s)
  BY DEF ProcOK, Recorded
<1> HIDE DEF ths, good, names, last, noted
<1>6. \A n \in DOMAIN noted : \E s \in Stmt : noted[n] = Isar!trivial(s)
  BY <1>1, <1>3, <1>4, <1>5
<1> QED BY <1>6 DEF noted

LEMMA FinalizeKeeps ==
  ASSUME ProcInv, finalize
  PROVE  ProcInv'
<1>1. DOMAIN proc = ProcFields /\ DOMAIN proc.local = {"name", "parent", "noted"} /\ ProcOK(proc)
  BY DEF ProcInv, ProcOK
<1>2. PICK x : /\ x = proc.local.noted \/ x = note_unconditional(proc)
               /\ proc' = [proc EXCEPT !.reading = FALSE, !.local.noted = x]
  BY DEF finalize
<1>3. \A n \in DOMAIN x : \E s \in Stmt : x[n] = Isar!trivial(s)
  BY <1>1, <1>2, NotedOK DEF ProcOK, Recorded
<1>4. PICK l : l = [proc.local EXCEPT !.noted = x]
  OBVIOUS
<1>5. DOMAIN l = {"name", "parent", "noted"} /\ l.noted = x
  BY <1>1, <1>4
<1>6. proc' = [proc EXCEPT !.reading = FALSE, !.local = l]
  BY <1>2, <1>4
<1>7. /\ DOMAIN proc' = ProcFields /\ proc'.local = l /\ proc'.proof = proc.proof
      /\ proc'.theorems = proc.theorems /\ proc'.index = proc.index /\ proc'.reading = FALSE
  BY <1>1, <1>6 DEF ProcFields
<1>8. ProcOK(proc')
  BY <1>1, <1>3, <1>5, <1>7 DEF ProcOK, Recorded
<1> QED BY <1>7, <1>8 DEF ProcInv, Reading

LEMMA HeaderKeeps ==
  ASSUME ProcInv, NEW n, parse_header(n)
  PROVE  ProcInv'
<1>1. /\ ProcOK(proc) /\ Reading /\ IndexOf(proc, shared) /\ UNCHANGED shared
  BY DEF ProcInv, parse_header
<1>2. PICK l : l = begin_theory("Pure", n)
  OBVIOUS
<1>3. DOMAIN l = {"name", "parent", "noted"} /\ l.noted = <<>>
  BY <1>2 DEF begin_theory
<1>4. \/ UNCHANGED proc
      \/ proc' = error(proc)
      \/ proc' = [proc EXCEPT !.local = l, !.header = TRUE]
  BY <1>2 DEF parse_header
<1>5. CASE UNCHANGED proc
  BY <1>1, <1>5, NothingKeeps
<1>6. CASE proc' = error(proc)
  <2>1. ProcOK(proc') /\ IndexOf(proc', shared)
    <3> DEFINE x == proc.errors + 1
    <3>1. proc' = [proc EXCEPT !.errors = x]
      BY <1>6 DEF error
    <3>2. StackOrNone(proc.proof)
      BY <1>1 DEF ProcOK
    <3> HIDE DEF x
    <3> QED BY <1>1, <3>1, <3>2, FieldsChange
  <2> QED BY <1>1, <2>1 DEF ProcInv
<1>7. CASE proc' = [proc EXCEPT !.local = l, !.header = TRUE]
  <2>1. /\ DOMAIN proc' = ProcFields /\ proc'.local = l /\ proc'.proof = proc.proof
        /\ proc'.theorems = proc.theorems /\ proc'.index = proc.index
    BY <1>1, <1>7 DEF ProcOK, ProcFields
  <2>2. ProcOK(proc')
    BY <1>1, <1>3, <2>1, NoEntries DEF ProcOK, Recorded
  <2>3. IndexOf(proc', shared')
    BY <1>1, <2>1 DEF IndexOf
  <2> QED BY <2>2, <2>3 DEF ProcInv
<1> QED BY <1>4, <1>5, <1>6, <1>7

LEMMA DeclaringKeeps ==
  ASSUME ProcInv, NEW n, Declaring(n)
  PROVE  ProcInv'
<1>1. ProcOK(proc) /\ Reading /\ IndexOf(proc, shared)
  BY DEF ProcInv, Declaring
<1>2. Fine(Declared(n))
  BY AssumedIsFine DEF Declared
<1>3. \/ add_theorem_to_index(proc, n, Declared(n))
      \/ add_without_sharing(n, Declared(n))
      \/ proc' = error(proc) /\ UNCHANGED shared
  BY DEF Declaring, Declares, process_theory_body, process_inductive, process_function,
     process_function_inline, process_locale_class, process_interpretation, process_typedef,
     process_record, process_datatype
<1>4. CASE add_theorem_to_index(proc, n, Declared(n)) \/ add_without_sharing(n, Declared(n))
  BY <1>1, <1>2, <1>4, RecordKeeps
<1>5. CASE proc' = error(proc) /\ UNCHANGED shared
  <2> DEFINE x == proc.errors + 1
  <2>1. proc' = [proc EXCEPT !.errors = x]
    BY <1>5 DEF error
  <2>2. StackOrNone(proc.proof)
    BY <1>1 DEF ProcOK
  <2> HIDE DEF x
  <2>3. ProcOK(proc') /\ IndexOf(proc', shared)
    BY <1>1, <2>1, <2>2, FieldsChange
  <2> QED BY <1>5, <2>3 DEF ProcInv
<1> QED BY <1>3, <1>4, <1>5

LEMMA BeginLemmaKeeps ==
  ASSUME ProcInv, NEW n, NEW s \in Stmt, begin_lemma(n, s)
  PROVE  ProcInv'
<1> DEFINE p == Isar!lemma(Isar!init, s).p
<1>1. ProcOK(proc) /\ Reading /\ IndexOf(proc, shared)
  BY DEF ProcInv, begin_lemma
<1>2. Stack(p)
  BY InitStep
<1> HIDE DEF p
<1>3. PICK x : proc' = [proc EXCEPT !.proof = p, !.pending = n, !.begun = x]
  BY DEF begin_lemma, p
<1>4. /\ DOMAIN proc' = ProcFields /\ proc'.local = proc.local /\ proc'.proof = p
      /\ proc'.theorems = proc.theorems /\ proc'.index = proc.index
  BY <1>1, <1>3 DEF ProcOK, ProcFields
<1>5. ProcOK(proc') /\ IndexOf(proc', shared)
  BY <1>1, <1>2, <1>4 DEF ProcOK, Recorded, StackOrNone, IndexOf
<1>6. UNCHANGED shared
  BY DEF begin_lemma
<1> QED BY <1>5, <1>6 DEF ProcInv

LEMMA AliasKeeps ==
  ASSUME ProcInv, NEW n, NEW m, process_lemmas_cmd(n, m)
  PROVE  ProcInv'
<1>1. ProcOK(proc) /\ Reading /\ IndexOf(proc, shared)
  BY DEF ProcInv, process_lemmas_cmd
<1>2. CASE m \in DOMAIN proc.index
  <2>1. Fine(proc.index[m])
    BY <1>1, <1>2 DEF ProcOK, Recorded
  <2>2. add_theorem_to_index(proc, n, proc.index[m])
    BY <1>2 DEF process_lemmas_cmd
  <2> QED BY <1>1, <2>1, <2>2, RecordKeeps
<1>3. CASE m \notin DOMAIN proc.index
  BY <1>3, NothingKeeps DEF process_lemmas_cmd
<1> QED BY <1>2, <1>3

LEMMA AcceptKeeps ==
  ASSUME ProcInv, accept
  PROVE  ProcInv'
<1>1. ProcOK(proc) /\ Reading /\ IndexOf(proc, shared)
  BY DEF ProcInv, accept
<1>2. CASE proc.pending = NoName
  BY <1>2, NothingKeeps DEF accept
<1>3. CASE proc.pending # NoName
  <2> DEFINE x == proc.lemma_count + 1
             counted == [proc EXCEPT !.lemma_count = x]
  <2>1. add_theorem_to_index(counted, proc.pending, Isar!assume(<<"True">>))
    BY <1>3 DEF accept
  <2>2. StackOrNone(proc.proof)
    BY <1>1 DEF ProcOK
  <2> HIDE DEF x
  <2>3. ProcOK(counted) /\ IndexOf(counted, shared)
    BY <1>1, <2>2, FieldsChange
  <2>4. Fine(Isar!assume(<<"True">>))
    BY AssumedIsFine
  <2> HIDE DEF counted
  <2> QED BY <2>1, <2>3, <2>4, RecordKeeps
<1> QED BY <1>2, <1>3

LEMMA ProofCommandsKeep ==
  ASSUME ProcInv,
         \/ process_proof \/ process_asm \/ process_script \/ process_chain \/ process_qed
         \/ \E s \in Stmt : process_goal(s)
  PROVE  ProcInv'
<1> DEFINE p == proc.proof
<1>1. CASE process_proof
  BY <1>1, BlocksStack, DrivingKeeps DEF process_proof
<1>2. CASE process_asm
  BY <1>2, ThenContextStack, DrivingKeeps DEF process_asm
<1>3. CASE process_chain
  BY <1>3, ThenContextStack, OpenedStack, DrivingKeeps DEF process_chain
<1>4. CASE process_script
  <2>1. PICK m : Driving(Isar!apply(p, m.method, m.result))
    BY <1>4 DEF process_script
  <2>2. Stack(p) => Stack(Isar!apply(p, m.method, m.result).p)
    BY ProvingStack
  <2> QED BY <2>1, <2>2, DrivingKeeps
<1>5. ASSUME NEW s \in Stmt, process_goal(s) PROVE ProcInv'
  BY <1>5, ThenStack, DrivingKeeps DEF process_goal
<1>6. CASE process_qed
  <2>1. CASE accept
    BY <2>1, AcceptKeeps
  <2>2. CASE Closing(Isar!done(p))
    BY <2>2, BlocksStack, ClosingKeeps
  <2>3. ASSUME NEW m, Closing(Isar!by(p, m.method, m.result)) PROVE ProcInv'
    <3>1. Stack(p) => Stack(Isar!by(p, m.method, m.result).p)
      BY ProvingStack
    <3> QED BY <2>3, <3>1, ClosingKeeps
  <2>4. CASE Closing(Isar!sorry(p))
    BY <2>4, SorryStack, ClosingKeeps
  <2>5. CASE Closing(Isar!Returned(p))
    BY <2>5, Results, ClosingKeeps
  <2> QED BY <1>6, <2>1, <2>2, <2>3, <2>4, <2>5 DEF process_qed
<1> QED BY <1>1, <1>2, <1>3, <1>4, <1>5, <1>6

LEMMA ProcKeeps ==
  ASSUME ProcInv, ProcNext
  PROVE  ProcInv'
<1>1. CASE process_source
  <2>1. ProcOK(proc)
    BY DEF ProcInv
  <2>2. proc' = [proc EXCEPT !.reading = TRUE] /\ shared' = <<>>
    BY <1>1 DEF process_source
  <2>3. ProcOK(proc')
    <3>1. StackOrNone(proc.proof)
      BY <2>1 DEF ProcOK
    <3> QED BY <2>1, <2>2, <3>1, FieldsChange
  <2>4. IndexOf(proc', shared')
    BY <2>2, NoEntries DEF IndexOf
  <2> QED BY <2>3, <2>4 DEF ProcInv
<1>2. CASE finalize
  BY <1>2, FinalizeKeeps
<1>3. CASE next_theory
  <2>1. PICK acc, n : proc' = new(acc) \/ proc' = with_parent("Parent", n, acc)
    BY <1>3 DEF next_theory
  <2> QED BY <2>1, NewOK DEF ProcInv, Reading
<1>4. CASE process_span
  <2>1. CASE \E n \in Name \cup {NoName} : parse_header(n)
    BY <2>1, HeaderKeeps
  <2>2. CASE \E n \in Name, s \in Stmt : begin_lemma(n, s)
    BY <2>2, BeginLemmaKeeps
  <2>3. CASE \E n \in Name : Declaring(n)
    BY <2>3, DeclaringKeeps
  <2>4. CASE \E n, m \in Name \cup Isar!Kind : process_lemmas_cmd(n, m)
    BY <2>4, AliasKeeps
  <2>5. CASE process_nothing
    BY <2>5, NothingKeeps DEF process_nothing
  <2>6. CASE process_unknown
    BY <2>6, ErrorKeeps DEF process_unknown
  <2> QED BY <1>4, <2>1, <2>2, <2>3, <2>4, <2>5, <2>6, ProofCommandsKeep DEF process_span
<1> QED BY <1>1, <1>2, <1>3, <1>4 DEF ProcNext
-----------------------------------------------------------------------------
(* The invariant. *)

Inv == TopInv /\ ProcInv /\ Stack(stack) /\ client \in {"toplevel", "processor", "api"}

LEMMA InitInv == SysInit => Inv
<1> SUFFICES ASSUME SysInit PROVE Inv
  OBVIOUS
<1>1. TopInv
  <2>1. state = Top!Theory(<<>>)
    BY DEF SysInit, Top!TopInit
  <2> QED BY <2>1, StatesOk DEF TopInv, StackOrNone
<1>2. ProcInv
  <2>1. PICK acc, n : proc = new(acc) \/ proc = with_parent("Parent", n, acc)
    BY DEF SysInit, ProcInit
  <2> QED BY <2>1, NewOK DEF ProcInv, Reading
<1>3. Stack(stack) /\ client \in {"toplevel", "processor", "api"}
  BY InitStack DEF SysInit
<1> QED BY <1>1, <1>2, <1>3 DEF Inv

LEMMA StepInv == Inv /\ [SysNext]_sysVars => Inv'
<1> SUFFICES ASSUME Inv, [SysNext]_sysVars PROVE Inv'
  OBVIOUS
<1>1. CASE TopStep
  <2>1. TopInv'
    BY <1>1, TopKeeps DEF TopStep, Inv
  <2>2. UNCHANGED <<client, proc, shared, stack>>
    BY <1>1 DEF TopStep, procVars
  <2> QED BY <2>1, <2>2, NothingKeeps DEF Inv
<1>2. CASE ProcStep
  <2>1. ProcInv'
    BY <1>2, ProcKeeps DEF ProcStep, Inv
  <2>2. UNCHANGED <<client, state, stack>>
    BY <1>2 DEF ProcStep
  <2> QED BY <2>1, <2>2 DEF Inv, TopInv, StackOrNone
<1>3. CASE ApiStep
  <2>1. Stack(stack')
    BY <1>3, ApiKeeps DEF ApiStep, Inv
  <2>2. UNCHANGED <<client, proc, shared, state>>
    BY <1>3 DEF ApiStep, procVars
  <2> QED BY <2>1, <2>2, NothingKeeps DEF Inv, TopInv, StackOrNone
<1>4. CASE UNCHANGED sysVars
  <2>1. UNCHANGED <<client, proc, shared, state, stack>>
    BY <1>4 DEF sysVars, procVars
  <2> QED BY <2>1, NothingKeeps DEF Inv, TopInv, StackOrNone
<1> QED BY <1>1, <1>2, <1>3, <1>4 DEF SysNext

LEMMA InvAlways == Spec => []Inv
BY InitInv, StepInv, PTL DEF Spec

LEMMA OpenFromInv == Inv => OpenGoalsAreBackward
<1> SUFFICES ASSUME Inv PROVE OpenGoalsAreBackward
  OBVIOUS
<1>1. StackOrNone(Pstack)
  BY DEF Pstack, Inv, TopInv, ProcInv, ProcOK, StackOrNone
<1>2. \A i \in DOMAIN Pstack : FitsAt(Pstack[i], i)
  BY <1>1, StackFacts, NoEntries DEF StackOrNone
<1> QED BY <1>2 DEF FitsAt, OpenGoalsAreBackward

(* No command of any of the three clients leaves a goal above the lemma's  *)
(* for another mode, whatever the statements and the methods and however   *)
(* deep the blocks are: OpenGoalsAreBackward (isar/proof.rs).              *)
THEOREM OpenGoalsAreBackwardAlways == Spec => []OpenGoalsAreBackward
BY InvAlways, OpenFromInv, PTL

(* While a theory is read, the index of its thread's methods holds the     *)
(* theorems of this theory only: SharedIsOfThisTheory (theory/loader.rs).  *)
THEOREM SharedIsOfThisTheoryAlways == Spec => []SharedIsOfThisTheory
<1>1. Inv => SharedIsOfThisTheory
  BY DEF Inv, ProcInv, IndexOf, SharedIsOfThisTheory
<1> QED BY <1>1, InvAlways, PTL

\* The triviality of a statement holds whatever its atoms are.
LEMMA TrivialIsValid == \A s \in Stmt : Valid(Isar!trivial(s))
<1> SUFFICES ASSUME NEW s \in Stmt PROVE Valid(Isar!trivial(s))
  OBVIOUS
<1> DEFINE n == Len(s)
           few == [i \in 1..(n - 1) |-> <<s[i]>>]
           ps == <<s>> \o few
           t == Isar!trivial(s)
<1>1. s \in Seq(STRING) /\ s # <<>> /\ n \in Nat \ {0}
  <2>1. s \in Seq(STRING) /\ s # <<>>
    BY ProcessorAssumption
  <2> QED BY <2>1, EmptySeq, LenProperties
<1>2. t.hyps = {} /\ t.prems = ps /\ t.concl = s[n]
  BY DEF Isar!trivial, Isar!assume, Isar!Last
<1>3. few \in Seq(Seq(STRING)) /\ Len(few) = n - 1 /\ \A i \in 1..(n - 1) : few[i] = <<s[i]>>
  <2>1. \A i \in 1..(n - 1) : s[i] \in STRING /\ <<s[i]>> \in Seq(STRING)
    BY <1>1, ElementOfSeq
  <2>2. PICK k \in Nat : k = n - 1
    BY <1>1
  <2>3. \A i \in 1..k : <<s[i]>> \in Seq(STRING)
    BY <2>1, <2>2
  <2>4. [i \in 1..k |-> <<s[i]>>] \in Seq(Seq(STRING)) /\ Len([i \in 1..k |-> <<s[i]>>]) = k
    BY <2>3
  <2> QED BY <2>2, <2>4
<1> HIDE DEF few
<1>4. /\ DOMAIN ps = 1..n /\ ps[1] = s
      /\ \A i \in 1..(n - 1) : i + 1 \in DOMAIN ps /\ ps[i + 1] = few[i]
  <2>1. <<s>> \in Seq(Seq(STRING)) /\ Len(<<s>>) = 1 /\ <<s>>[1] = s
    BY <1>1
  <2>2. /\ ps \in Seq(Seq(STRING)) /\ Len(ps) = 1 + (n - 1)
        /\ \A i \in 1..Len(ps) : ps[i] = IF i <= 1 THEN <<s>>[i] ELSE few[i - 1]
    BY <1>3, <2>1, ConcatProperties
  <2> QED BY <1>1, <1>3, <2>1, <2>2, LenProperties
<1> HIDE DEF ps, t
<1>5. ASSUME NEW v, \A i \in DOMAIN t.prems : True(v, t.prems[i])
      PROVE  v[t.concl]
  <2>1. True(v, s)
    BY <1>1, <1>2, <1>4, <1>5
  <2>2. ASSUME NEW i \in 1..(n - 1) PROVE True(v, <<s[i]>>)
    <3>1. i + 1 \in DOMAIN t.prems /\ t.prems[i + 1] = <<s[i]>>
      BY <1>2, <1>3, <1>4
    <3>2. PICK k \in DOMAIN t.prems : t.prems[k] = <<s[i]>>
      BY <3>1
    <3> QED BY <1>5, <3>2
  <2>3. \A i \in 1..(n - 1) : v[s[i]]
    BY <2>2 DEF True
  <2> QED BY <1>2, <2>1, <2>3 DEF True
<1> QED BY <1>2, <1>5 DEF Valid, Follows, t

(* What a finished theory offers to its importers is valid without         *)
(* hypotheses, for every source: StoredHold (theory/loader.rs finalize).   *)
THEOREM StoredHoldAlways == Spec => []StoredHold
<1>1. Inv => StoredHold
  BY TrivialIsValid DEF Inv, ProcInv, ProcOK, Recorded, StoredHold
<1> QED BY <1>1, InvAlways, PTL
===============================================================================
