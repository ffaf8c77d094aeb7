----------------------------- MODULE VramTester -----------------------------
(***************************************************************************)
(* What the VRAM tester promises.  A session tests a range of words and    *)
(* touches no memory but the places those words are stored in; a session   *)
(* that is not interrupted says "faulty" exactly when the range reveals a  *)
(* fault of the card, and "clean" otherwise.                               *)
(*                                                                         *)
(* `evidence' is the card's faults seen from outside: the sets of words    *)
(* that reveal one when all of them are tested, a single stuck word or two *)
(* words that share their place.                                           *)
(***************************************************************************)
VARIABLES
    state,      \* "idle", "testing" or "reported"
    range,      \* the words under test
    verdict,    \* what the report says
    memory,     \* place -> value
    home,       \* word -> place
    evidence

vars == <<state, range, verdict, memory, home, evidence>>

Init == state = "idle" /\ range = {} /\ verdict = "none"

Faulty == \E words \in evidence : words \subseteq range

Begin ==
    /\ state = "idle" /\ state' = "testing"
    /\ range' \subseteq DOMAIN home
    /\ verdict' = "none"
    /\ UNCHANGED <<memory, home, evidence>>

Work ==
    /\ state = "testing"
    /\ \A p \in DOMAIN memory :
          memory'[p] # memory[p] => \E d \in range : home[d] = p
    /\ DOMAIN memory' = DOMAIN memory
    /\ UNCHANGED <<state, range, verdict, home, evidence>>

Report ==
    /\ state = "testing" /\ state' = "reported"
    /\ verdict' \in {"interrupted", IF Faulty THEN "faulty" ELSE "clean"}
    /\ UNCHANGED <<range, memory, home, evidence>>

Return ==
    /\ state = "reported" /\ state' = "idle"
    /\ range' = {} /\ verdict' = "none"
    /\ UNCHANGED <<memory, home, evidence>>

Next == Begin \/ Work \/ Report \/ Return

Spec == Init /\ [][Next]_vars
=============================================================================
