---------------------------- MODULE VersionHistory ----------------------------
(* What the disclosure tables promise: the versions of a document are only *)
(* ever added to, no version repeats the one before it, and the newest     *)
(* version, and no other, is current.                                      *)
EXTENDS Naturals, Sequences

CONSTANTS Doc, Content

VARIABLES history,  \* history[d]: contents of the document's versions
          current   \* current[d]: the versions marked CURRENT

Init ==
  /\ history = [d \in Doc |-> <<>>]
  /\ current = [d \in Doc |-> {}]

Revise(d, c) ==
  LET old == history[d]
  IN  /\ old # <<>> => old[Len(old)] # c
      /\ history' = [history EXCEPT ![d] = Append(old, c)]
      /\ current' = [current EXCEPT ![d] = {Len(old) + 1}]

Next == \E d \in Doc, c \in Content : Revise(d, c)

Spec == Init /\ [][Next]_<<history, current>>
=============================================================================
