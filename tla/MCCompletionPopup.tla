------------------------- MODULE MCCompletionPopup -------------------------
(* The completion popup on small screens.                                   *)
EXTENDS CompletionPopup

Arrow(letter) == <<Esc, "[", letter>>

MCKeys == {Arrow(letter) : letter \in Arrows} \cup
          {<<"tab">>, <<"enter">>, <<"[">>, <<"other">>, <<Esc>>}

(* One match inserts itself; 3 fills one row of the grid, 4 begins another, *)
(* 8 needs three.  On nine rows three rows and the header always fit above  *)
(* or below the prompt.                                                     *)
Roomy == {0, 1, 3, 4, 8}

(* "h" begins the names help and HOST_BRIDGE, and no other.                 *)
TwoMatches == {2}
=============================================================================
