---------------------------- MODULE ShellPrompt ----------------------------
(***************************************************************************)
(* What the shell promises around its prompt, without calls, scripts or    *)
(* questions.  A prompt is shown with the terminal as the user left it and *)
(* no file open, one command is carried out at a time, and once a command  *)
(* has asked to leave there is no other: the shell ends.  A command may be *)
(* lost half way, when it touches memory that is not the card's.           *)
(***************************************************************************)
VARIABLES
    phase,     \* "idle" at the prompt, "busy", "over" or "lost"
    leaving,   \* exit was asked for
    tty,       \* "cooked" or "raw"
    held       \* what the command holds open

vars == <<phase, leaving, tty, held>>

Clean == tty = "cooked" /\ held = {}

Init == phase = "idle" /\ leaving = FALSE /\ Clean

Accept ==
    /\ phase = "idle" /\ ~leaving
    /\ phase' \in {"busy", "lost"}
    /\ UNCHANGED <<leaving, tty, held>>

Work ==
    /\ phase = "busy" /\ phase' \in {"busy", "lost"}
    /\ leaving' \in {leaving, TRUE}
    /\ tty' \in {"cooked", "raw"}
    /\ held' \subseteq held \/ held \subseteq held'

Finish ==
    /\ phase = "busy" /\ phase' = "idle"
    /\ leaving' \in {leaving, TRUE}
    /\ Clean'

Stop == phase = "idle" /\ phase' = "over" /\ UNCHANGED <<leaving, tty, held>>

Next == Accept \/ Work \/ Finish \/ Stop

(* The prompt waits for the operator, but not once exit was asked for.      *)
Spec == Init /\ [][Next]_vars /\ WF_vars(leaving /\ Stop)
=============================================================================
