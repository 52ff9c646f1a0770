------------------------------ MODULE VerifyProofs ------------------------------
(***************************************************************************)
(* Proofs about the thread that verifies files, for any files and whatever *)
(* a check gives.                                                          *)
(*                                                                         *)
(* The two tallies agree because every check answers, which verify_lemma   *)
(* does for a lemma of a file while the file's database and names are in   *)
(* force (VerdictAssumption); that they are is the invariant itself.       *)
(***************************************************************************)
EXTENDS VerifyFile, TLAPS

TypeOK ==
    /\ db_override \in 0 .. Len(Files) /\ local_index \in 0 .. Len(Files)
    /\ cached_simp \in 0 .. Global /\ deadline \in {"none", "set", "past"}
    /\ budget \in {"ample", "spent"} /\ single_method_depth \in Depths
    /\ stats \in [proved : Nat, accepted : Nat]
    /\ file \in 0 .. Len(Files) /\ lemma \in Nat /\ (file # 0 => lemma # 0)
    /\ counted \in [verified : Nat, attempted : Nat]
    /\ totals \in [verified : Nat, attempted : Nat]
    /\ overflowed \in BOOLEAN

\* What a panic cuts short stays in the counts of its file, until the next file
\* begins; without one, the counts of a file are cleared with it.
Tallied ==
    /\ counted.verified = counted.attempted /\ totals.verified = totals.attempted
    /\ stats.proved + stats.accepted >= totals.verified + counted.verified
    /\ ~overflowed => stats.proved + stats.accepted = totals.verified + counted.verified
    /\ ~overflowed /\ file = 0 => counted.verified = 0

VerifyInv == TypeOK /\ Tallied /\ OverrideFollowsFile

LEMMA VerifyInitInv ==
    ASSUME Init
    PROVE  VerifyInv
<1>1. TypeOK
  <2>1. 0 \in 0 .. Len(Files) /\ 0 \in 0 .. Global /\ 0 \in Depths
    BY FilesAssumption, VerdictAssumption DEF Global
  <2> QED BY <2>1 DEF Init, TypeOK
<1>2. Tallied
  BY DEF Init, Tallied
<1>3. OverrideFollowsFile
  BY DEF Init, OverrideFollowsFile
<1> QED BY <1>1, <1>2, <1>3 DEF VerifyInv

LEMMA VerifyFileInv ==
    ASSUME VerifyInv, NEW f \in DOMAIN Files, verify_file(f)
    PROVE  VerifyInv'
<1>0. f \in 1 .. Len(Files) /\ Len(Files) \in Nat
  BY FilesAssumption
<1>1. TypeOK'
  BY <1>0 DEF VerifyInv, TypeOK, verify_file
<1>2. Tallied'
  BY DEF VerifyInv, TypeOK, Tallied, verify_file
<1>3. OverrideFollowsFile'
  BY <1>0 DEF verify_file, OverrideFollowsFile
<1> QED BY <1>1, <1>2, <1>3 DEF VerifyInv

LEMMA PassDeadlineInv ==
    ASSUME VerifyInv, pass_deadline
    PROVE  VerifyInv'
BY DEF VerifyInv, TypeOK, Tallied, OverrideFollowsFile, pass_deadline

LEMMA SkipLemmaInv ==
    ASSUME VerifyInv, skip_lemma
    PROVE  VerifyInv'
BY DEF VerifyInv, TypeOK, Tallied, OverrideFollowsFile, skip_lemma

\* The lemma of a file is checked with the file's database and names in force,
\* so that there is an answer: this is what makes every attempt count.
LEMMA FileIsAnswered ==
    ASSUME VerifyInv, file # 0, lemma <= Len(Files[file]), NEW short \in Allowances
    PROVE  Answers(verdict[Files[file][lemma]][thread(get, short)])
<1>1. file \in DOMAIN Files /\ file \in 1 .. Len(Files) /\ Len(Files) \in Nat /\ Global \in Nat
  BY FilesAssumption DEF VerifyInv, TypeOK, Global
<1>2. lemma \in DOMAIN Files[file]
  <2>1. Len(Files[file]) \in Nat /\ DOMAIN Files[file] = 1 .. Len(Files[file])
    BY <1>1, FilesAssumption
  <2> QED BY <2>1 DEF VerifyInv, TypeOK
<1>3. get = file /\ local_index = file
  BY DEF VerifyInv, OverrideFollowsFile, get
<1>4. get_cached_simplifier(file) \in 1 .. Global
  BY <1>1 DEF VerifyInv, TypeOK, get_cached_simplifier, Global
<1> DEFINE t == thread(file, short)
<1>5. t \in Threads /\ t.db = file /\ t.index = file
  <2>1. file \in 1 .. Global /\ local_index \in 0 .. Len(Files)
    BY <1>1, <1>3 DEF Global
  <2> QED BY <1>3, <1>4, <2>1 DEF thread, Threads, VerifyInv, TypeOK
<1> HIDE DEF t
<1>6. Answers(verdict[Files[file][lemma]][t])
  BY <1>2, <1>5, VerdictAssumption
<1> QED BY <1>3, <1>6 DEF t

LEMMA CheckLemmaInv ==
    ASSUME VerifyInv, NEW short \in Allowances, check_lemma(short)
    PROVE  VerifyInv'
<1> DEFINE done == verdict[Files[file][lemma]][thread(get, short)]
<1>1. done.kind \in {"some", "panic"} /\ done.depth \in Depths
  BY FileIsAnswered DEF check_lemma, Answers
<1>2. /\ file # 0
      /\ budget' = IF short = "budget" THEN "spent" ELSE budget
      /\ cached_simp' \in {cached_simp, get_cached_simplifier(get)} /\ single_method_depth' = done.depth
      /\ done.kind = "panic" =>
            /\ overflowed' = TRUE /\ file' = 0 /\ deadline' = "none" /\ lemma' = 0
            /\ UNCHANGED <<stats, counted>>
      /\ done.kind = "some" =>
            /\ counted' = [verified |-> counted.verified + 1, attempted |-> counted.attempted + 1]
            /\ \/ stats' = [stats EXCEPT !.proved = @ + 1]
               \/ stats' = [stats EXCEPT !.accepted = @ + 1]
            /\ lemma' = lemma + 1 /\ deadline' = IF short = "deadline" THEN "past" ELSE deadline
            /\ UNCHANGED <<file, overflowed>>
      /\ UNCHANGED <<db_override, local_index, totals, files>>
  <2>0. /\ file # 0
        /\ budget' = IF short = "budget" THEN "spent" ELSE budget
        /\ cached_simp' \in {cached_simp, get_cached_simplifier(get)} /\ single_method_depth' = done.depth
        /\ IF done.kind = "panic"
           THEN /\ overflowed' = TRUE /\ file' = 0 /\ deadline' = "none"
                /\ lemma' = 0 /\ UNCHANGED <<stats, counted>>
           ELSE /\ counted' = [verified |-> counted.verified + (IF done.kind = "some" THEN 1 ELSE 0),
                               attempted |-> counted.attempted + 1]
                /\ stats' = CASE done.kind = "none" -> stats
                             [] done.kind = "some" /\ counts_as_proved(done) -> [stats EXCEPT !.proved = @ + 1]
                             [] OTHER -> [stats EXCEPT !.accepted = @ + 1]
                /\ lemma' = lemma + 1
                /\ deadline' = IF short = "deadline" THEN "past" ELSE deadline
                /\ UNCHANGED <<file, overflowed>>
        /\ UNCHANGED <<db_override, local_index, totals, files>>
    BY DEF check_lemma
  <2> HIDE DEF done
  <2>1. CASE done.kind = "panic"
    BY <2>0, <2>1
  <2>2. CASE done.kind = "some"
    <3>1. /\ counted' = [verified |-> counted.verified + 1, attempted |-> counted.attempted + 1]
          /\ lemma' = lemma + 1 /\ deadline' = IF short = "deadline" THEN "past" ELSE deadline
          /\ UNCHANGED <<file, overflowed>>
      BY <2>0, <2>2
    <3>2. \/ stats' = [stats EXCEPT !.proved = @ + 1]
          \/ stats' = [stats EXCEPT !.accepted = @ + 1]
      <4>1. CASE counts_as_proved(done)
        BY <2>0, <2>2, <4>1
      <4>2. CASE ~counts_as_proved(done)
        BY <2>0, <2>2, <4>2
      <4> QED BY <4>1, <4>2
    <3> QED BY <2>0, <2>2, <3>1, <3>2
  <2> QED BY <1>1, <2>1, <2>2
<1> HIDE DEF done
<1>3. cached_simp' \in 0 .. Global
  <2>1. Len(Files) \in Nat
    BY FilesAssumption
  <2> QED BY <1>2, <2>1 DEF VerifyInv, TypeOK, get_cached_simplifier, get, Global
<1>4. CASE done.kind = "panic"
  <2>1. TypeOK'
    BY <1>1, <1>2, <1>3, <1>4, FilesAssumption DEF VerifyInv, TypeOK
  <2>2. Tallied' /\ OverrideFollowsFile'
    BY <1>2, <1>4 DEF VerifyInv, TypeOK, Tallied, OverrideFollowsFile
  <2> QED BY <2>1, <2>2 DEF VerifyInv
<1>5. CASE done.kind = "some"
  <2>1. /\ counted'.verified = counted.verified + 1 /\ counted'.attempted = counted.attempted + 1
        /\ counted' \in [verified : Nat, attempted : Nat]
    <3>1. counted \in [verified : Nat, attempted : Nat]
      BY DEF VerifyInv, TypeOK
    <3>2. counted' = [verified |-> counted.verified + 1, attempted |-> counted.attempted + 1]
      BY <1>2, <1>5
    <3> QED BY <3>1, <3>2
  <2>2. /\ stats'.proved + stats'.accepted = stats.proved + stats.accepted + 1
        /\ stats' \in [proved : Nat, accepted : Nat]
    <3>1. stats \in [proved : Nat, accepted : Nat]
      BY DEF VerifyInv, TypeOK
    <3>2. CASE stats' = [stats EXCEPT !.proved = @ + 1]
      BY <3>1, <3>2
    <3>3. CASE stats' = [stats EXCEPT !.accepted = @ + 1]
      BY <3>1, <3>3
    <3> QED BY <1>2, <1>5, <3>2, <3>3
  <2>3. TypeOK'
    <3>1. lemma' \in Nat /\ lemma' # 0
      <4>1. lemma \in Nat /\ lemma' = lemma + 1
        BY <1>2, <1>5 DEF VerifyInv, TypeOK
      <4> QED BY <4>1
    <3>2. deadline' \in {"none", "set", "past"} /\ budget' \in {"ample", "spent"}
      <4>1. deadline \in {"none", "set", "past"} /\ budget \in {"ample", "spent"}
        BY DEF VerifyInv, TypeOK
      <4>2. deadline' \in {deadline, "past"} /\ budget' \in {budget, "spent"}
        BY <1>2, <1>5
      <4> QED BY <4>1, <4>2
    <3>3. /\ db_override' \in 0 .. Len(Files) /\ local_index' \in 0 .. Len(Files)
          /\ single_method_depth' \in Depths /\ file' \in 0 .. Len(Files)
          /\ totals' \in [verified : Nat, attempted : Nat] /\ overflowed' \in BOOLEAN
      BY <1>1, <1>2, <1>5 DEF VerifyInv, TypeOK
    <3>4. cached_simp' \in (0 .. Global)'
      BY <1>3 DEF Global
    <3> QED BY <2>1, <2>2, <3>1, <3>2, <3>3, <3>4 DEF TypeOK
  <2>4. Tallied'
    <3>1. /\ counted.verified \in Nat /\ counted.attempted \in Nat
          /\ totals.verified \in Nat /\ totals.attempted \in Nat
          /\ stats.proved \in Nat /\ stats.accepted \in Nat
          /\ Tallied
      BY DEF VerifyInv, TypeOK
    <3>2. totals' = totals /\ overflowed' = overflowed /\ file' # 0
      BY <1>2, <1>5
    <3> QED BY <2>1, <2>2, <3>1, <3>2 DEF Tallied
  <2>5. OverrideFollowsFile'
    BY <1>2, <1>5 DEF VerifyInv, OverrideFollowsFile
  <2> QED BY <2>3, <2>4, <2>5 DEF VerifyInv
<1> QED BY <1>1, <1>4, <1>5

LEMMA EndFileInv ==
    ASSUME VerifyInv, end_file
    PROVE  VerifyInv'
<1>1. TypeOK'
  BY FilesAssumption DEF VerifyInv, TypeOK, end_file
<1>2. Tallied'
  BY DEF VerifyInv, TypeOK, Tallied, end_file
<1>3. OverrideFollowsFile'
  BY DEF end_file, OverrideFollowsFile
<1> QED BY <1>1, <1>2, <1>3 DEF VerifyInv

LEMMA CheckAloneInv ==
    ASSUME VerifyInv, NEW lem \in Alone, check_alone(lem)
    PROVE  VerifyInv'
<1>0. Len(Files) \in Nat /\ Global \in Nat
  BY FilesAssumption DEF Global
<1>1. PICK d \in 1 .. Global :
         \E done \in {verdict[lem][thread(d, "all")]} :
             /\ cached_simp' \in {cached_simp, get_cached_simplifier(d)}
             /\ single_method_depth' = done.depth
  BY <1>0 DEF check_alone, Global
<1> DEFINE t == thread(d, "all")
<1>2. t \in Threads /\ t.short = "all"
  BY <1>0 DEF thread, Threads, VerifyInv, TypeOK, get_cached_simplifier, Global, Allowances
<1> HIDE DEF t
<1>3. verdict[lem][t].depth \in Depths
  BY <1>2, VerdictAssumption DEF Answers
<1>4. single_method_depth' \in Depths /\ cached_simp' \in 0 .. Global
  BY <1>0, <1>1, <1>3 DEF t, VerifyInv, TypeOK, get_cached_simplifier
<1>5. UNCHANGED <<db_override, local_index, deadline, budget, stats, file, lemma, counted, totals, overflowed>>
  BY DEF check_alone
<1> QED BY <1>4, <1>5 DEF VerifyInv, TypeOK, Tallied, OverrideFollowsFile

\* The invariant of the thread that verifies files: the counts of the file and
\* of all files agree with what was proved and accepted, and the file's database
\* and names are in force.
THEOREM VerifyInvAlways == Spec => []VerifyInv
<1>1. VerifyInv /\ [Next]_vars => VerifyInv'
  <2> SUFFICES ASSUME VerifyInv, [Next]_vars PROVE VerifyInv'
    OBVIOUS
  <2>1. CASE UNCHANGED vars
    BY <2>1 DEF vars, VerifyInv, TypeOK, Tallied, OverrideFollowsFile
  <2>2. CASE Next
    BY <2>2, VerifyFileInv, PassDeadlineInv, SkipLemmaInv, CheckLemmaInv, EndFileInv, CheckAloneInv DEF Next
  <2> QED BY <2>1, <2>2
<1> QED BY <1>1, VerifyInitInv, PTL DEF Spec

\* For any files, lemmas and answers: every attempt is reported as verified, and
\* the two tallies of isar/method.rs agree unless a panic ended a file.
THEOREM StatsAccountAlways == Spec => []StatsAccount
<1>1. VerifyInv => StatsAccount
  BY DEF VerifyInv, TypeOK, Tallied, StatsAccount
<1> QED BY <1>1, VerifyInvAlways, PTL

\* Whatever ended the file before, a file is verified with its own database and
\* names in force, and nothing of it is left when it ends by itself.
THEOREM OverrideFollowsFileAlways == Spec => []OverrideFollowsFile
<1>1. VerifyInv => OverrideFollowsFile
  BY DEF VerifyInv
<1> QED BY <1>1, VerifyInvAlways, PTL
=================================================================================
