------------------------------ MODULE MCConsole ------------------------------
(***************************************************************************)
(* An instance of Console for TLC: a screen of three columns and two rows, *)
(* with prompts and messages short enough that a line of four characters   *)
(* runs over the right edge and over the bottom.                           *)
(***************************************************************************)
EXTENDS Console

MCPrompt == [m \in Modes |-> IF m = "shell" THEN <<"$", ">">> ELSE <<":">>]

MCMessage == <<"m", "nl">>

MCOutputs == {<<>>, <<"o">>, <<"o", "o", "nl">>}

==============================================================================
