----------------------------- MODULE MCSession ------------------------------
(***************************************************************************)
(* Two files, three callers and a channel of one command: a query that is  *)
(* being handled, one that is queued and one that finds the channel full.  *)
(* Two workers let a file be reopened, or both files be open at once.      *)
(***************************************************************************)
EXTENDS Session

CONSTANTS open, definition, crash

MCSource == {open, definition, crash}
MCCode == (open :> "lemma-unverified") @@ (definition :> "definition-accepted")
            @@ (crash :> "silent")
MCContent == {<<definition, open>>, <<definition, crash>>}
=============================================================================
