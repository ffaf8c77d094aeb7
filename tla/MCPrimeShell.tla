---------------------------- MODULE MCPrimeShell ----------------------------
(***************************************************************************)
(* Small instances of PrimeShell.  The card is scaled: a 5-bit address     *)
(* space, a window of 16 bytes (four registers).  Numbers keep the three   *)
(* readings C gives them, so "10" is ten for poke and sixteen, out of the  *)
(* window, for peek.                                                       *)
(***************************************************************************)
EXTENDS PrimeShell

MCDictionary == [boot |-> 0, enable |-> 4, intr |-> 12]

(* token -> its value in base 0, 10 and 16; everything else reads as 0.     *)
Numbers == [one |-> <<1, 1, 1>>]
            @@ ("1"  :> <<1, 1, 1>>) @@ ("2"  :> <<2, 2, 2>>)
            @@ ("3"  :> <<3, 3, 3>>) @@ ("4"  :> <<4, 4, 4>>)
            @@ ("7"  :> <<7, 7, 7>>) @@ ("8"  :> <<8, 8, 8>>)
            @@ ("10" :> <<10, 10, 16>>) @@ ("30" :> <<30, 30, 16>>)
            @@ ("-1" :> <<31, 31, 31>>)

MCToken == Commands \cup {"exit", "inf", "#", "macro2", "none", "junk",
                          "f", "g", "h", "a", "0"}
           \cup DOMAIN MCDictionary \cup DOMAIN Numbers

MCStrtoul ==
    [t \in MCToken |-> [base \in {0, 10, 16} |->
        IF t \notin DOMAIN Numbers THEN 0
        ELSE Numbers[t][CASE base = 0 -> 1 [] base = 10 -> 2 [] OTHER -> 3]]]

MCBits == 0 .. 4
NoRegs == {}
L(words) == [lead |-> FALSE, words |-> words]
Indented(words) == [lead |-> TRUE, words |-> words]
Garbage == L(<<"junk">>)
Header  == L(<<"#", "macro">>)
MCMacroPrefixed == {"macro", "macro2"}
CleanStack == {<<FALSE, 0>>}
DirtyStack == {<<FALSE, 0>>, <<FALSE, 7>>, <<TRUE, 0>>, <<TRUE, 2>>,
               <<TRUE, -1>>, <<TRUE, 7>>}

-----------------------------------------------------------------------------
(* Nesting: scripts that call themselves and each other, leave with exit,   *)
(* repeat, poll and step.                                                   *)
NestFiles ==
    [f |-> <<Header, L(<<"script", "g">>), EmptyLine, L(<<"script", "f">>)>>,
     g |-> <<L(<<"until", "1", "boot", "1", "1", "step", "h">>), L(<<"poke", "boot", "1">>)>>,
     h |-> <<Indented(<<"#">>), L(<<"repeat", "2", "script", "g">>), L(<<"exit">>)>>]

NestSession == {L(<<"script", "f">>), L(<<"repeat", "2", "step", "h">>),
                L(<<"step", "none">>), L(<<"script">>), L(<<"step", "f">>),
                L(<<"until", "inf", "enable", "1", "1", "exit">>),
                L(<<"until", "2", "boot", "1", "1">>),
                L(<<"mask", "boot", "0">>), EmptyLine}

NestAnswers == {<<"nl">>, <<"q", "nl">>, <<"x", "nl">>}

(* Beside them every command that reads or writes the card, with addresses  *)
(* in and out of the window, named, aliased and numeric.                    *)
RegSession ==
    {L(<<"peek", "10">>), L(<<"peek", "a">>), L(<<"bits", "30">>), L(<<"log">>),
     L(<<"search", "2", "-1", "1", "1">>), L(<<"search", "7", "4", "1", "1">>),
     L(<<"poke", "10", "3">>), L(<<"poke", "-1", "1">>), L(<<"poke", "a", "1">>),
     L(<<"fill", "8", "-1", "4", "2">>), L(<<"fill", "30", "3", "2", "1">>),
     L(<<"fill", "4", "2", "-1", "1">>), L(<<"fill", "8", "2">>),
     L(<<"mask", "a", "1">>), L(<<"mask", "10", "0", "1">>), L(<<"mask", "4", "1", "2">>),
     L(<<"mask", "-1", "1">>), L(<<"mask", "boot", "7">>),
     L(<<"alias", "a", "10">>), L(<<"alias", "a", "intr">>), L(<<"alias", "intr", "a">>),
     L(<<"alias", "a">>), L(<<"until", "1", "10", "1", "1">>),
     L(<<"until", "2", "intr", "1", "1", "poke", "a", "2">>)}

ShellSession == NestSession \cup RegSession

-----------------------------------------------------------------------------
(* Recording: what ends up in the macro buffer and in the saved script.     *)
MacroFiles == [f |-> <<L(<<"macro">>), L(<<"wait", "1">>), L(<<"macro">>)>>]

MacroSession == {L(<<"macro">>), Indented(<<"macro">>), L(<<"repeat", "1", "help">>),
                 L(<<"step", "f">>), L(<<"until", "1", "boot", "0", "0">>)}

MacroAnswers == {<<"nl">>, <<"y", "nl">>, <<"f", "nl">>}
=============================================================================
