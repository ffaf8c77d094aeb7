----------------------------- MODULE MCMemTest -----------------------------
(***************************************************************************)
(* The VRAM tester on a card of two blocks of two words.  The sizes keep   *)
(* the proportions of the program: the device has twice as many bytes as a *)
(* uint32_t has values, so that addresses repeat halfway (2^33 bytes,      *)
(* 2^32 values), and two errors per word of the whole device are exactly   *)
(* as many as a uint32_t has values.                                       *)
(***************************************************************************)
EXTENDS MemTest

(* The number a key begins; "2k" stands for two keys struck as one.         *)
Digits == [k \in {"1", "2", "3", "4", "2k"} |->
              CASE k = "1" -> 1 [] k \in {"2", "2k"} -> 2
                [] k = "3" -> 3 [] k = "4" -> 4]

(* The lines entered: at most one key and Enter.                            *)
MCLines == {<<>>} \cup {<<k>> : k \in Keys \ {Enter}}

Number(line) ==
    IF line = <<>> \/ Head(line) \notin DOMAIN Digits THEN 0
    ELSE Digits[Head(line)]

MCAtoi     == [line \in Lines |-> Number(line)]
MCStrtoull == [line \in Lines |-> Number(line)]

(* The suffix k multiplies by 13 here: with U64 = 16, "2k" wraps to 10 and  *)
(* is clamped to the aperture.                                              *)
MCUnit == [line \in Lines |-> IF line = <<"2k">> THEN 13 ELSE 1]

OwnPlace == [d \in Device |-> d]
NoneStuck == [d \in Device |-> Ok]

GoodCard == [store |-> OwnPlace, stuck |-> NoneStuck]

StuckAt(d, v) == [GoodCard EXCEPT !.stuck[d] = v]

SharedPlace(d, e) == [GoodCard EXCEPT !.store[d] = e]

(* No fault; a word stuck at its own address, or at the pattern; an address *)
(* line broken inside a block, and between blocks.                          *)
OneFault == {GoodCard, StuckAt(4, 4), StuckAt(8, Pattern),
             SharedPlace(0, 4), SharedPlace(8, 0)}

OnlyGood  == {GoodCard}

(* An uninitialised buffer may happen to hold an answer.                    *)
Leftovers == {<<>>, <<"2">>}
NoLeftovers == {<<>>}
=============================================================================
