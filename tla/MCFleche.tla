------------------------------ MODULE MCFleche ------------------------------
(***************************************************************************)
(* Two files edited up to MaxVersion times, with texts of up to three      *)
(* segments: enough for a first command, an unchanged middle and a changed *)
(* end, for a blank segment that moves the commands after it, for a text   *)
(* with no command at all, and for a command that panics at the head of    *)
(* the part that is executed or further down.                              *)
(***************************************************************************)
EXTENDS Fleche, TLC

CONSTANTS header, proved, open, definition, crash

MCSource == {header, proved, open, definition, crash}
MCCode == (header :> "theory-header") @@ (proved :> "lemma-verified")
            @@ (open :> "lemma-unverified") @@ (definition :> "definition-accepted")
            @@ (crash :> "exec-error")
MCPanics == {crash}
MCContent == {<<Blank>>, <<open>>, <<Blank, open, definition>>,
              <<open, definition>>, <<open, header>>, <<open, proved, definition>>,
              <<open, definition, definition>>, <<header, open, definition>>,
              <<open, crash, definition>>}
=============================================================================
