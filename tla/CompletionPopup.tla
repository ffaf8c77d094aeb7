-------------------------- MODULE CompletionPopup --------------------------
(***************************************************************************)
(* The completion popup of the shell's prompt: complete_context of         *)
(* src/nv_prime_shell.c and src/api/terminal_ui.c.  Tab asks the terminal  *)
(* where the cursor is, draws the matches above or below the prompt and    *)
(* reads keys until one is chosen.  The terminal's answer and the keys     *)
(* arrive through the same descriptor, and drawing at the bottom of the    *)
(* screen scrolls it.                                                      *)
(*                                                                         *)
(* A screen row is its number, 1 at the top.  The text of the matches and  *)
(* the columns are left out, the bytes that arrive are not.                *)
(***************************************************************************)
EXTENDS Integers, SequencesExt, FiniteSetsExt

CONSTANTS
    Height,      \* rows of the terminal
    Counts,      \* how many names match the words that may be completed
    columns,     \* columns of the grid (3)
    Keys,        \* the keys of the operator: sequences of bytes
    MaxInput     \* bound: bytes not yet read, beside those of an answer

Esc == "esc"
Cursor == "row;col"           \* the digits of a cursor report
Arrows == {"A", "B", "C", "D"}
Printable == {"[", "R", "x", Cursor} \cup Arrows
Bytes == Printable \cup {Esc, "tab", "enter", "other"}
Rows == 1 .. Height

ASSUME PopupAssumption ==
    /\ Height \in Nat \ {0} /\ columns \in Nat \ {0} /\ MaxInput \in Nat
    /\ Counts \subseteq Nat /\ Keys \subseteq Seq(Bytes)

VARIABLES
    pc,           \* where complete_context is, "idle" at the prompt
    match_count, current_selection, anchor_row, draw_below,
    input,        \* bytes that have arrived
    asked,        \* the terminal has been asked for the cursor's position
    reported,     \* the row its answer names, 0 once that is read
    prompt,       \* the row the prompt is on; not a row when scrolled away
    cursor,       \* the row the cursor is on
    leftover,     \* rows that hold text of the popup
    ahead         \* history: at this prompt keys were typed ahead

popup  == <<match_count, current_selection, anchor_row, draw_below>>
screen == <<prompt, cursor, leftover>>
vars   == <<pc, popup, input, asked, reported, screen, ahead>>

TypeOK ==
    /\ pc \in {"idle", "where", "render", "key", "escape", "cleanup"}
    /\ match_count \in Counts \cup {0} /\ current_selection \in Int
    /\ anchor_row \in Rows \cup {0} /\ draw_below \in BOOLEAN
    /\ input \in Seq(Bytes) /\ asked \in BOOLEAN /\ reported \in Rows \cup {0}
    /\ prompt \in Int /\ cursor \in Rows /\ leftover \subseteq Rows
    /\ ahead \in BOOLEAN

Init ==
    /\ pc = "idle" /\ match_count = 0 /\ current_selection = 0
    /\ anchor_row = 0 /\ draw_below = FALSE
    /\ input = <<>> /\ asked = FALSE
    /\ prompt \in Rows /\ cursor = prompt /\ reported = 0 /\ leftover = {}
    /\ ahead = FALSE

-----------------------------------------------------------------------------
(* Environment: the operator's keys, and the terminal's answer ESC [ r;c R. *)
Answered == \E k \in DOMAIN input : input[k] = "R"

(* A key is typed ahead if the last one has not had its effect yet.         *)
Waits == input = <<>> /\ ~asked /\ pc \in {"idle", "key", "escape"}

Type ==
    /\ ahead' = (ahead \/ ~Waits)
    /\ \E key \in Keys :
        /\ Len(input) + Len(key) <= MaxInput + IF Answered THEN 4 ELSE 0
        /\ input' = input \o key
    /\ UNCHANGED <<pc, popup, asked, reported, screen>>

TerminalAnswers ==
    /\ asked /\ asked' = FALSE
    /\ reported' = cursor
    /\ input' = input \o <<Esc, "[", Cursor, "R">>
    /\ UNCHANGED <<pc, popup, screen, ahead>>

(* At the prompt libedit takes the bytes; Enter ends the line, and the next *)
(* prompt is wherever the command's output has put it.                      *)
EditLine ==
    /\ pc = "idle" /\ input # <<>> /\ Head(input) # "tab"
    /\ input' = Tail(input)
    /\ prompt' \in IF Head(input) = "enter" THEN Rows ELSE {prompt}
    /\ cursor' = IF Head(input) = "enter" THEN prompt' ELSE cursor
    /\ ahead' = (ahead /\ ~(input = <<"enter">> /\ ~asked))
    /\ UNCHANGED <<pc, popup, asked, reported, leftover>>

-----------------------------------------------------------------------------
(* complete_context.                                                        *)

(* Tab: no match and a single one end here; two or more open the popup,     *)
(* whose designated initialiser zeroes the other members.                   *)
Complete ==
    /\ pc = "idle" /\ input # <<>> /\ Head(input) = "tab"
    /\ input' = Tail(input)
    /\ \E n \in Counts :
        IF n < 2 THEN UNCHANGED <<pc, popup, asked>>
        ELSE /\ match_count' = n /\ current_selection' = 0
             /\ anchor_row' = 0 /\ draw_below' = FALSE
             /\ asked' = TRUE /\ pc' = "where"
    /\ UNCHANGED <<reported, screen, ahead>>

rendered_rows ==
    (match_count \div columns) + (IF match_count % columns # 0 THEN 1 ELSE 0)

FirstR == CHOOSE k \in DOMAIN input :
             input[k] = "R" /\ \A j \in 1 .. k - 1 : input[j] # "R"

(* It reads up to the first R; sscanf finds a row only if what was read     *)
(* begins as an answer does.                                                *)
(* Mutant of get_cursor_pos: rows are taken to count from zero.             *)
PosFromZero ==
    IF IsPrefix(<<Esc, "[", Cursor>>, input) THEN reported + 1 ELSE anchor_row

get_cursor_pos ==
    IF IsPrefix(<<Esc, "[", Cursor>>, input) THEN reported ELSE anchor_row

(* Mutant of RoomAbove: the header row is forgotten.                        *)
RoomAboveNoHeader(row) == row >= rendered_rows + 1

RoomAbove(row) == row > rendered_rows + 1


(* Bytes behind the answer stay for the popup's keys.                       *)
Unread == SubSeq(input, FirstR + 1, Len(input))

terminal_save_state ==
    /\ pc = "where" /\ Answered
    /\ anchor_row' = get_cursor_pos
    /\ draw_below' = ~RoomAbove(anchor_row')
    /\ input' = Unread
    /\ reported' = 0
    /\ pc' = "render"
    /\ UNCHANGED <<match_count, current_selection, asked, screen, ahead>>

start_row == IF draw_below THEN anchor_row + 1
             ELSE anchor_row - (rendered_rows + 1)

(* The terminal keeps a position inside the screen.                         *)
Inside(row) == IF row < 1 THEN 1 ELSE IF row > Height THEN Height ELSE row

(* Mutant of Newlines: every row ends with one.                             *)
NewlineEveryRow == 1 + rendered_rows

(* One after the header and one after every full row.                       *)
Newlines == 1 + (match_count \div columns)

(* Lines the screen moves up while the popup is drawn from `top'.           *)
Scroll(top) == Max({0, top + Newlines - Height})

terminal_render_popup ==
    /\ pc = "render"
    /\ LET top == Inside(start_row)
           up  == Scroll(top)
       IN /\ prompt' = prompt - up
          /\ leftover' = {r \in Rows : r + up \in leftover
                                    \/ r + up \in top .. top + rendered_rows}
    /\ cursor' = Inside(anchor_row)
    /\ pc' = "key"
    /\ UNCHANGED <<popup, input, asked, reported, ahead>>

(* Tab and Enter insert the selected item, a printable byte itself; any     *)
(* other byte draws the popup again.                                        *)
Closing == {"tab", "enter"} \cup Printable

ReadKey ==
    /\ pc = "key" /\ input # <<>>
    /\ input' = Tail(input)
    /\ pc' = CASE Head(input) \in Closing -> "cleanup"
               [] Head(input) = Esc      -> "escape"
               [] OTHER                  -> "render"
    /\ UNCHANGED <<popup, asked, reported, screen, ahead>>

(* The remainder of C, which has the sign of the dividend.                  *)
Rem(a, n) == IF a >= 0 THEN a % n ELSE -((-a) % n)

(* Mutant of Move: nothing is added before the remainder is taken.          *)
MoveUnbiased(byte) ==
    CASE byte = "A" -> Rem(current_selection - 3, match_count)
      [] byte = "B" -> Rem(current_selection + 3, match_count)
      [] byte = "C" -> Rem(current_selection + 1, match_count)
      [] byte = "D" -> Rem(current_selection - 1, match_count)
      [] OTHER -> current_selection

Move(byte) ==
    CASE byte = "A" -> Rem(current_selection - 3 + match_count, match_count)
      [] byte = "B" -> Rem(current_selection + 3, match_count)
      [] byte = "C" -> Rem(current_selection + 1, match_count)
      [] byte = "D" -> Rem(current_selection - 1 + match_count, match_count)
      [] OTHER -> current_selection

(* After Escape two bytes are wanted; a read of one, or of two that do not  *)
(* begin with a bracket, closes the popup.                                  *)
ReadEscape ==
    /\ pc = "escape" /\ input # <<>>
    /\ IF Len(input) >= 2 /\ Head(input) = "["
       THEN current_selection' = Move(input[2]) /\ pc' = "render"
       ELSE UNCHANGED current_selection /\ pc' = "cleanup"
    /\ input' = SubSeq(input, 3, Len(input))
    /\ UNCHANGED <<match_count, anchor_row, draw_below, asked, reported, screen, ahead>>

(* Mutant of Wiped: the last row is left.                                   *)
WipedButLast == {Inside(start_row + k) : k \in 0 .. rendered_rows - 1}

Wiped == {Inside(start_row + k) : k \in 0 .. rendered_rows}

terminal_cleanup_popup ==
    /\ pc = "cleanup"
    /\ leftover' = leftover \ Wiped
    /\ cursor' = Inside(anchor_row)
    /\ pc' = "idle"
    /\ UNCHANGED <<popup, input, asked, reported, prompt, ahead>>

Shell ==
    \/ EditLine \/ Complete \/ terminal_save_state \/ terminal_render_popup
    \/ ReadKey \/ ReadEscape \/ terminal_cleanup_popup

Next == Shell \/ TerminalAnswers \/ Type

Spec == Init /\ [][Next]_vars /\ WF_vars(Shell) /\ WF_vars(TerminalAnswers)

-----------------------------------------------------------------------------
(* Properties.                                                              *)

(* While the popup is open its selection is the index of one of the         *)
(* matches: the arrows' arithmetic never leaves the array that Tab and      *)
(* Enter index (nv_prime_shell.c:59, 67-70; terminal_ui.h:13).              *)
SelectionIsItem ==
    pc # "idle" => current_selection \in 0 .. match_count - 1

(* The cursor is put back on the row of the prompt, which the popup neither *)
(* covers nor moves (terminal_ui.c:32-36, 70-71, 83-84), unless keys were   *)
(* typed ahead at this prompt, which the terminal's answer is then mistaken *)
(* for.  An Enter after which nothing waits makes it right again.           *)
AnchorOnPrompt ==
    pc \in {"key", "escape", "cleanup"} /\ ~ahead
        => cursor = prompt /\ prompt \notin leftover

(* A closed popup leaves none of its text on the screen: what cleanup wipes *)
(* is what render drew (terminal_ui.c:49-57, 76-81), wherever the popup     *)
(* believes the prompt to be.                                               *)
NothingLeftBehind == pc = "idle" => leftover = {}

(* Typing ahead loses a choice to two readers only: the cursor's answer     *)
(* takes every byte up to the first R, an Escape the two bytes after it.    *)
(* So of two Tabs or Enters in a row that wait behind that R one is read as *)
(* a choice, whatever was typed before them and after, and the popup closes *)
(* (terminal_ui.c:15-19, nv_prime_shell.c:55-82).                           *)
Choice(k) == k \in DOMAIN input /\ input[k] \in {"tab", "enter"}
=============================================================================
