---------------------------- MODULE MCNarratives ----------------------------
(* Two posts of one theme, the second too late for the window of a minute. *)
EXTENDS Narratives

MCPostsBefore == [w \in {60, 300} |-> IF w = 60 THEN {1} ELSE {1, 2}]
MCTheme == [p \in {1, 2} |-> 1]
=============================================================================
