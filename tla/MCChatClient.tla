---------------------------- MODULE MCChatClient ----------------------------
(* Small instances of ChatClient for TLC: "/" completes to two commands,   *)
(* and "text" stands for every other input.                                *)
EXTENDS ChatClient

MCInputs     == {"", "/", "text"}
MCMatchCount == [i \in MCInputs |-> IF i = "/" THEN 2 ELSE 0]
=============================================================================
