------------------------------- MODULE VerifyFile -------------------------------
(***************************************************************************)
(* Verifying theory files in isar/method.rs: verify_file gives each file a *)
(* database of its own, and verify_lemmas_batch checks its lemmas in order *)
(* and counts what was proved and what was accepted.  All of it reads and  *)
(* writes variables of the thread, which outlive the file: the database in *)
(* force, the index of the file's names, the simplifier kept, the          *)
(* allowances, the depth of method calls and the counts.  The files are    *)
(* those of tests/tier2_verify.rs, one after the other on one thread, each *)
(* with a deadline; a panic that leaves verify_file ends the file there.   *)
(* Between files the thread may check a lemma by itself, as the Fleche     *)
(* engine does.  What a check gives is verify_lemma's (VerifyLemma); here  *)
(* it may be any answer.                                                   *)
(***************************************************************************)
EXTENDS Naturals, Sequences

CONSTANTS
    Files,          \* the files, by number: each a sequence of lemmas
    Alone,          \* lemmas checked outside a file
    MaxFiles,       \* bound: files verified
    Depths,         \* how deep a check may leave its thread: 0 .. MaxMethodDepth
    verdict         \* what verify_lemma gives, by lemma and thread: a table, since
                    \* a check of a lemma changes nothing of its thread but the depth

VARIABLES
    db_override,    \* the file whose database is in force; 0: none
    local_index,    \* the file whose names are indexed; 0: none
    cached_simp,    \* the file whose rules the kept simplifier has; 0: none kept
    deadline,       \* "none", "set" or "past"
    budget,         \* "ample" or "spent"
    single_method_depth,
    stats,          \* [proved, accepted]: VERIFY_STATS
    file,           \* the file being verified; 0: none
    lemma,          \* the lemma to check next
    counted,        \* [verified, attempted] of this file
    totals,         \* the same, of the files that ended
    files,          \* how many files began
    overflowed,     \* (history) a file ended in a panic
    last            \* (history) what the last check gave; <<>> before one

vars == <<db_override, local_index, cached_simp, deadline, budget, single_method_depth, stats, file,
          lemma, counted, totals, files, overflowed, last>>
-----------------------------------------------------------------------------
\* Without a file the global database is in force.
Global == Len(Files) + 1
get == IF db_override = 0 THEN Global ELSE db_override

get_cached_simplifier(d) == IF cached_simp # 0 THEN cached_simp ELSE d

\* What a check reads of its thread.  Of the allowances, one may run out during
\* the check, and is taken to have run out at its start.
Allowances == {"all", "limit", "budget", "deadline"}
Threads ==
    [db : 1 .. Global, index : 0 .. Len(Files), simp : 1 .. Global, short : Allowances,
     budget : {"ample", "spent"}, depth : Depths]
thread(d, short) ==
    [db |-> d, index |-> local_index, simp |-> get_cached_simplifier(d), short |-> short,
     budget |-> budget, depth |-> single_method_depth]

ASSUME FilesAssumption ==
    /\ Len(Files) \in Nat /\ DOMAIN Files = 1 .. Len(Files)
    /\ \A f \in DOMAIN Files : Len(Files[f]) \in Nat /\ DOMAIN Files[f] = 1 .. Len(Files[f])

\* verify_lemma ends in a result of last resort, if it does not panic: it
\* answers for every lemma of a file, with the file's database in force.
Answers(done) == done.kind \in {"some", "panic"} /\ done.depth \in Depths
ASSUME VerdictAssumption ==
    /\ 0 \in Depths
    /\ \A t \in Threads :
           /\ t.db = t.index =>
                  \A i \in DOMAIN Files[t.db] : Answers(verdict[Files[t.db][i]][t])
           /\ t.short = "all" => \A lem \in Alone : Answers(verdict[lem][t])
-----------------------------------------------------------------------------
Init ==
    /\ db_override = 0 /\ local_index = 0 /\ cached_simp = 0
    /\ deadline = "none" /\ budget = "ample" /\ single_method_depth = 0
    /\ stats = [proved |-> 0, accepted |-> 0]
    /\ file = 0 /\ lemma = 0 /\ files = 0
    /\ counted = [verified |-> 0, attempted |-> 0] /\ totals = counted
    /\ overflowed = FALSE /\ last = <<>>

\* A deadline is set and the file's variables with it; the counts and the depth go on.
verify_file(f) ==
    /\ file = 0 /\ files < MaxFiles
    /\ file' = f /\ files' = files + 1 /\ lemma' = 1
    /\ counted' = [verified |-> 0, attempted |-> 0]
    /\ deadline' = "set" /\ budget' = "ample"
    /\ db_override' = f /\ local_index' = f
    /\ UNCHANGED <<cached_simp, single_method_depth, stats, totals, overflowed, last>>

pass_deadline ==
    /\ file # 0 /\ deadline = "set" /\ deadline' = "past"
    /\ UNCHANGED <<db_override, local_index, cached_simp, budget, single_method_depth, stats, file,
                   lemma, counted, totals, files, overflowed, last>>

skip_lemma ==
    /\ file # 0 /\ deadline # "past" /\ lemma <= Len(Files[file])
    /\ Files[file][lemma].script[1] = "none" /\ lemma' = lemma + 1
    /\ UNCHANGED <<db_override, local_index, cached_simp, deadline, budget, single_method_depth, stats,
                   file, counted, totals, files, overflowed, last>>

\* Nothing in it was admitted, and verify_lemma left it marked as proved.
is_fully_proved(thm) == thm.oracles = {}
counts_as_proved(done) == is_fully_proved(done.thm) /\ done.proved

\* A check uses up what it may of the budget, may see the deadline pass, and
\* keeps the simplifier when it builds one.  A panic ends the file, past the
\* places where the override and the index are cleared.
check_lemma(short) ==
    /\ file # 0 /\ deadline # "past" /\ lemma <= Len(Files[file])
    /\ Files[file][lemma].script[1] # "none"
    /\ \E kept \in {cached_simp, get_cached_simplifier(get)},
          done \in {verdict[Files[file][lemma]][thread(get, short)]} :
          /\ budget' = IF short = "budget" THEN "spent" ELSE budget
          /\ cached_simp' = kept /\ single_method_depth' = done.depth
          /\ IF done.kind = "panic"
             THEN /\ overflowed' = TRUE /\ file' = 0 /\ deadline' = "none"
                  /\ lemma' = 0 /\ last' = <<>> /\ UNCHANGED <<stats, counted>>
             ELSE /\ counted' = [verified |-> counted.verified + (IF done.kind = "some" THEN 1 ELSE 0),
                                 attempted |-> counted.attempted + 1]
                  /\ stats' = CASE done.kind = "none" -> stats
                               [] done.kind = "some" /\ counts_as_proved(done) -> [stats EXCEPT !.proved = @ + 1]
                               [] OTHER -> [stats EXCEPT !.accepted = @ + 1]
                  /\ last' = IF done.kind = "none" THEN <<>>
                             ELSE [lem |-> Files[file][lemma], thm |-> done.thm, proved |-> counts_as_proved(done)]
                  /\ lemma' = lemma + 1
                  /\ deadline' = IF short = "deadline" THEN "past" ELSE deadline
                  /\ UNCHANGED <<file, overflowed>>
    /\ UNCHANGED <<db_override, local_index, totals, files>>

\* Mutants: a file stopped by its deadline is not reported; its override outlives it.
end_file_unreported ==
    /\ file # 0 /\ (deadline = "past" \/ lemma > Len(Files[file]))
    /\ local_index' = 0 /\ db_override' = 0 /\ file' = 0 /\ deadline' = "none"
    /\ totals' = IF deadline = "past" THEN totals
                 ELSE [verified |-> totals.verified + counted.verified,
                       attempted |-> totals.attempted + counted.attempted]
    /\ counted' = [verified |-> 0, attempted |-> 0]
    /\ lemma' = 0 /\ last' = <<>>
    /\ UNCHANGED <<cached_simp, budget, single_method_depth, stats, files, overflowed>>
end_file_uncleared ==
    /\ file # 0 /\ (deadline = "past" \/ lemma > Len(Files[file]))
    /\ local_index' = 0 /\ file' = 0 /\ deadline' = "none"
    /\ db_override' = IF deadline = "past" THEN db_override ELSE 0
    /\ totals' = [verified |-> totals.verified + counted.verified,
                  attempted |-> totals.attempted + counted.attempted]
    /\ counted' = [verified |-> 0, attempted |-> 0]
    /\ lemma' = 0 /\ last' = <<>>
    /\ UNCHANGED <<cached_simp, budget, single_method_depth, stats, files, overflowed>>

end_file ==
    /\ file # 0 /\ (deadline = "past" \/ lemma > Len(Files[file]))
    /\ local_index' = 0 /\ db_override' = 0 /\ file' = 0 /\ deadline' = "none"
    /\ totals' = [verified |-> totals.verified + counted.verified,
                  attempted |-> totals.attempted + counted.attempted]
    /\ counted' = [verified |-> 0, attempted |-> 0]
    /\ lemma' = 0 /\ last' = <<>>
    /\ UNCHANGED <<cached_simp, budget, single_method_depth, stats, files, overflowed>>

\* A check outside a file reads the global database or, after a panic, one that
\* was freed: what is there then may be any.  It counts nothing.
check_alone(lem) ==
    /\ file = 0 /\ files > 0
    /\ \E d \in IF db_override = 0 THEN {Global} ELSE 1 .. Global :
          \E done \in {verdict[lem][thread(d, "all")]} :
              /\ done.kind = "some"
              /\ cached_simp' \in {cached_simp, get_cached_simplifier(d)}
              /\ single_method_depth' = done.depth
              /\ last' = [lem |-> lem, thm |-> done.thm, proved |-> counts_as_proved(done)]
    /\ UNCHANGED <<db_override, local_index, deadline, budget, stats, file, lemma, counted, totals,
                   files, overflowed>>

Next ==
    \/ \E f \in DOMAIN Files : verify_file(f)
    \/ pass_deadline \/ skip_lemma \/ end_file
    \/ \E short \in Allowances : check_lemma(short)
    \/ \E lem \in Alone : check_alone(lem)
Spec == Init /\ [][Next]_vars
-----------------------------------------------------------------------------
\* Every attempt counts as verified, and the two tallies agree: what the files
\* report as verified is what was proved and what was accepted, unless a file
\* ended in a panic, whose lemmas only the second tally has.
StatsAccount ==
    /\ counted.verified = counted.attempted /\ totals.verified = totals.attempted
    /\ stats.proved + stats.accepted >= totals.verified
    /\ ~overflowed => stats.proved + stats.accepted = totals.verified + counted.verified

\* While a file is verified its own database and names are in force, whatever
\* became of the file before it; afterwards none are, unless a panic ended it.
OverrideFollowsFile ==
    /\ file # 0 => db_override = file /\ local_index = file
    /\ file = 0 /\ ~overflowed => db_override = 0 /\ local_index = 0
================================================================================
