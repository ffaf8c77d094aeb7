----------------------- MODULE CompletionPopupProofs -----------------------
(* The completion popup, for every screen, list of matches and sequence of  *)
(* keys: its variables keep their types; its selection stays inside the     *)
(* list for every list but one of two names; and, on a screen with room for *)
(* the list, it takes its text away with it and, where nothing was typed    *)
(* ahead, neither covers nor moves the prompt.                              *)
EXTENDS CompletionPopup, TLAPS, SequenceTheorems, WellFoundedInduction

(* What the arrows leave alone and what they may not: an open popup has     *)
(* three matches or more, and selects one.                                  *)
SelInv ==
    /\ match_count \in Nat /\ current_selection \in Int
    /\ pc # "idle" => /\ match_count >= 3
                      /\ current_selection \in 0 .. match_count - 1

(* C's remainder of a dividend that is not negative is the natural one.     *)
LEMMA RemNatural ==
    ASSUME NEW a \in Nat, NEW n \in Nat, n > 0
    PROVE  Rem(a, n) \in 0 .. n - 1
  BY DEF Rem

LEMMA MoveInRange ==
    ASSUME match_count \in Nat, match_count >= 3,
           current_selection \in 0 .. match_count - 1, NEW byte
    PROVE  Move(byte) \in 0 .. match_count - 1
  <1>1. /\ current_selection - 3 + match_count \in Nat
        /\ current_selection + 3 \in Nat
        /\ current_selection + 1 \in Nat
        /\ current_selection - 1 + match_count \in Nat
    OBVIOUS
  <1>2. /\ Rem(current_selection - 3 + match_count, match_count)
              \in 0 .. match_count - 1
        /\ Rem(current_selection + 3, match_count) \in 0 .. match_count - 1
        /\ Rem(current_selection + 1, match_count) \in 0 .. match_count - 1
        /\ Rem(current_selection - 1 + match_count, match_count)
              \in 0 .. match_count - 1
    BY <1>1, RemNatural
  <1>3. QED
    BY <1>2 DEF Move

LEMMA SelInit == Init => SelInv
  BY DEF Init, SelInv

LEMMA SelStep ==
    ASSUME 2 \notin Counts, SelInv, [Next]_vars
    PROVE  SelInv'
  <1> USE DEF SelInv, popup
  <1>1. CASE EditLine
    BY <1>1 DEF EditLine
  <1>2. CASE Complete
    <2>1. PICK n \in Counts :
              IF n < 2 THEN UNCHANGED <<pc, popup, asked>>
              ELSE /\ match_count' = n /\ current_selection' = 0
                   /\ anchor_row' = 0 /\ draw_below' = FALSE
                   /\ asked' = TRUE /\ pc' = "where"
      BY <1>2 DEF Complete
    <2>2. n \in Nat /\ n # 2
      BY PopupAssumption
    <2>3. QED
      BY <2>1, <2>2
  <1>3. CASE terminal_save_state
    BY <1>3 DEF terminal_save_state
  <1>4. CASE terminal_render_popup
    BY <1>4 DEF terminal_render_popup
  <1>5. CASE ReadKey
    BY <1>5 DEF ReadKey
  <1>6. CASE ReadEscape
    <2>1. /\ pc = "escape" /\ UNCHANGED match_count
          /\ \/ current_selection' = Move(input[2])
             \/ UNCHANGED current_selection
      BY <1>6 DEF ReadEscape
    <2>2. Move(input[2]) \in 0 .. match_count - 1
      BY <2>1, MoveInRange
    <2>3. QED
      BY <2>1, <2>2
  <1>7. CASE terminal_cleanup_popup
    BY <1>7 DEF terminal_cleanup_popup
  <1>8. CASE TerminalAnswers
    BY <1>8 DEF TerminalAnswers
  <1>9. CASE Type
    BY <1>9 DEF Type
  <1>10. CASE UNCHANGED vars
    BY <1>10 DEF vars
  <1>11. QED
    BY <1>1, <1>2, <1>3, <1>4, <1>5, <1>6, <1>7, <1>8, <1>9, <1>10
       DEF Next, Shell

(* Whatever is typed, whenever the terminal answers and whatever the screen *)
(* is: unless exactly two names match, the arrows of the popup select one   *)
(* of the matches (nv_prime_shell.c:67-70).                                 *)
THEOREM SelectionInRange ==
    ASSUME 2 \notin Counts
    PROVE  Spec => []SelectionIsItem
  <1>1. Init => SelInv
    BY SelInit
  <1>2. SelInv /\ [Next]_vars => SelInv'
    BY SelStep
  <1>3. SelInv => SelectionIsItem
    BY DEF SelInv, SelectionIsItem
  <1>4. QED
    BY <1>1, <1>2, <1>3, PTL DEF Spec

-----------------------------------------------------------------------------
(* Types.                                                                   *)

(* A set of natural numbers that is not empty has a least one.              *)
LEMMA LeastNatural ==
    ASSUME NEW S, S \subseteq Nat, S # {}
    PROVE  \E k \in S : \A j \in S : k <= j
  <1>1. PICK k \in S : \A j \in S : <<j, k>> \notin OpToRel(<, Nat)
    BY WFMin, NatLessThanWellFounded, Zenon
  <1>2. \A j \in S : ~(j < k)
    BY <1>1, Zenon DEF OpToRel
  <1>3. QED
    BY <1>2

(* The first R of the input, when there is one, is a position of it.        *)
LEMMA FirstRFound ==
    ASSUME input \in Seq(Bytes), \E k \in DOMAIN input : input[k] = "R"
    PROVE  FirstR \in 1 .. Len(input)
  <1> DEFINE S == {k \in 1 .. Len(input) : input[k] = "R"}
             First(k) == input[k] = "R" /\ \A j \in 1 .. k - 1 : input[j] # "R"
  <1>1. PICK k \in S : \A j \in S : k <= j
    <2>1. S # {} /\ S \subseteq Nat
      OBVIOUS
    <2> HIDE DEF S
    <2>2. QED
      BY <2>1, LeastNatural
  <1>2. k \in DOMAIN input /\ First(k)
    BY <1>1
  <1> HIDE DEF First
  <1>3. (CHOOSE j \in DOMAIN input : First(j)) \in DOMAIN input
    BY <1>2, Zenon
  <1>4. QED
    BY <1>3 DEF FirstR, First

(* A remainder is an integer, of whatever dividend.                         *)
LEMMA RemInteger ==
    ASSUME NEW a \in Int, NEW n \in Nat, n > 0
    PROVE  Rem(a, n) \in Int
  <1>1. CASE a >= 0
    BY <1>1 DEF Rem
  <1>2. CASE a < 0
    <2>1. -a \in Nat
      BY <1>2
    <2>2. (-a) % n \in 0 .. n - 1
      BY <2>1
    <2>3. QED
      BY <1>2, <2>2 DEF Rem
  <1>3. QED
    BY <1>1, <1>2

LEMMA MoveInteger ==
    ASSUME match_count \in Nat, match_count > 0, current_selection \in Int,
           NEW byte
    PROVE  Move(byte) \in Int
  <1>1. /\ Rem(current_selection - 3 + match_count, match_count) \in Int
        /\ Rem(current_selection + 3, match_count) \in Int
        /\ Rem(current_selection + 1, match_count) \in Int
        /\ Rem(current_selection - 1 + match_count, match_count) \in Int
    BY RemInteger
  <1>2. QED
    BY <1>1 DEF Move

(* What TypeOK needs to be inductive: the list of an open popup is not      *)
(* empty, for the arrows divide by its length.                              *)
TypeInv == TypeOK /\ (pc # "idle" => match_count >= 2)

LEMMA TypeInit == Init => TypeInv
  <1>1. <<>> \in Seq(Bytes)
    BY EmptySeq
  <1>2. Init => draw_below \in BOOLEAN /\ asked \in BOOLEAN /\ ahead \in BOOLEAN
    BY DEF Init
  <1>3. Init => pc = "idle" /\ prompt \in Rows /\ input \in Seq(Bytes)
    BY <1>1 DEF Init
  <1>4. QED
    BY <1>2, <1>3 DEF Init, TypeInv, TypeOK, Rows

(* The screen: every row the cursor is put on is a row.                     *)
LEMMA InsideIsRow ==
    ASSUME NEW row \in Int
    PROVE  Inside(row) \in Rows
  BY PopupAssumption DEF Inside, Rows

(* The rows of the grid: as many as whole rows, or one more.                *)
LEMMA GridRows ==
    ASSUME match_count \in Nat
    PROVE  /\ rendered_rows \in Nat /\ match_count \div columns \in Nat
           /\ match_count \div columns <= rendered_rows
           /\ rendered_rows <= match_count \div columns + 1
  <1>1. columns \in Nat /\ columns > 0
    BY PopupAssumption
  <1>2. match_count \div columns \in Nat
    BY <1>1
  <1>3. QED
    BY <1>2 DEF rendered_rows

LEMMA MaxOfTwo ==
    ASSUME NEW m \in Int
    PROVE  Max({0, m}) = IF m > 0 THEN m ELSE 0
  <1> DEFINE Greatest(x) == \A y \in {0, m} : y <= x
             g == IF m > 0 THEN m ELSE 0
  <1>1. g \in {0, m} /\ Greatest(g)
    OBVIOUS
  <1>2. \A x \in {0, m} : Greatest(x) => x = g
    OBVIOUS
  <1>3. Max({0, m}) = CHOOSE x \in {0, m} : Greatest(x)
    BY DEF Max
  <1> HIDE DEF Greatest, g
  <1>4. (CHOOSE x \in {0, m} : Greatest(x)) = g
    BY <1>1, <1>2
  <1>5. QED
    BY <1>3, <1>4 DEF g

LEMMA StartIsInteger ==
    ASSUME TypeOK
    PROVE  start_row \in Int /\ match_count \in Nat /\ rendered_rows \in Nat
  <1>1. match_count \in Nat
    BY PopupAssumption DEF TypeOK
  <1>2. rendered_rows \in Nat
    BY <1>1, GridRows
  <1>3. QED
    BY <1>1, <1>2 DEF TypeOK, start_row, Rows

LEMMA TypeStep ==
    ASSUME TypeInv, [Next]_vars
    PROVE  TypeInv'
  <1> USE DEF TypeInv, popup, screen
  <1>1. CASE EditLine
    <2>1. input' \in Seq(Bytes)
      BY <1>1, HeadTailProperties DEF EditLine, TypeOK
    <2>2. prompt' \in Int /\ cursor' \in Rows
      BY <1>1 DEF EditLine, TypeOK, Rows
    <2>3. QED
      BY <1>1, <2>1, <2>2 DEF EditLine, TypeOK
  <1>2. CASE Complete
    <2>1. input' \in Seq(Bytes)
      BY <1>2, HeadTailProperties DEF Complete, TypeOK
    <2>2. PICK n \in Counts :
              IF n < 2 THEN UNCHANGED <<pc, popup, asked>>
              ELSE /\ match_count' = n /\ current_selection' = 0
                   /\ anchor_row' = 0 /\ draw_below' = FALSE
                   /\ asked' = TRUE /\ pc' = "where"
      BY <1>2 DEF Complete
    <2>3. n \in Nat
      BY PopupAssumption
    <2>4. CASE n < 2
      BY <1>2, <2>1, <2>2, <2>4 DEF Complete, TypeOK
    <2>5. CASE ~(n < 2)
      <3>1. draw_below' \in BOOLEAN /\ asked' \in BOOLEAN
        BY <2>2, <2>5
      <3>2. /\ match_count' \in Counts /\ match_count' >= 2
            /\ current_selection' \in Int /\ anchor_row' = 0 /\ pc' = "where"
        BY <2>2, <2>3, <2>5
      <3>3. UNCHANGED <<reported, prompt, cursor, leftover, ahead>>
        BY <1>2 DEF Complete
      <3>4. QED
        BY <2>1, <3>1, <3>2, <3>3 DEF TypeOK
    <2>6. QED
      BY <2>4, <2>5
  <1>3. CASE terminal_save_state
    <2>1. FirstR \in 1 .. Len(input)
      BY <1>3, FirstRFound DEF terminal_save_state, Answered, TypeOK
    <2>2. input' \in Seq(Bytes)
      <3>1. input' = SubSeq(input, FirstR + 1, Len(input))
        BY <1>3 DEF terminal_save_state, Unread
      <3>2. \A k \in FirstR + 1 .. Len(input) : input[k] \in Bytes
        BY <2>1, ElementOfSeq DEF TypeOK
      <3>3. QED
        BY <2>1, <3>1, <3>2, SubSeqProperties DEF TypeOK
    <2>3. anchor_row' \in Rows \cup {0} /\ draw_below' \in BOOLEAN
      BY <1>3 DEF terminal_save_state, get_cursor_pos, TypeOK
    <2>4. QED
      BY <1>3, <2>2, <2>3 DEF terminal_save_state, TypeOK
  <1>4. CASE terminal_render_popup
    <2> DEFINE top == Inside(start_row)
               up  == Scroll(top)
    <2>1. top \in Int
      BY StartIsInteger, InsideIsRow DEF Rows
    <2>2. up \in Int
      <3>1. Newlines \in Int
        BY StartIsInteger, GridRows DEF Newlines
      <3>2. top + Newlines - Height \in Int
        BY <2>1, <3>1, PopupAssumption
      <3> HIDE DEF top
      <3>3. Max({0, top + Newlines - Height}) \in Int
        BY <3>2, MaxOfTwo
      <3>4. QED
        BY <3>3 DEF Scroll
    <2>3. /\ prompt' = prompt - up /\ leftover' \subseteq Rows
          /\ cursor' = Inside(anchor_row) /\ pc = "render" /\ pc' = "key"
          /\ UNCHANGED <<popup, input, asked, reported, ahead>>
      BY <1>4 DEF terminal_render_popup
    <2> HIDE DEF up
    <2>4. prompt' \in Int
      BY <2>2, <2>3 DEF TypeOK
    <2>5. cursor' \in Rows
      BY <2>3, InsideIsRow DEF TypeOK, Rows
    <2>6. QED
      BY <2>3, <2>4, <2>5 DEF TypeOK
  <1>5. CASE ReadKey
    <2>1. input' \in Seq(Bytes)
      BY <1>5, HeadTailProperties DEF ReadKey, TypeOK
    <2>2. pc' \in {"cleanup", "escape", "render"} /\ pc # "idle"
      BY <1>5 DEF ReadKey
    <2>3. QED
      BY <1>5, <2>1, <2>2 DEF ReadKey, TypeOK
  <1>6. CASE ReadEscape
    <2>1. input' \in Seq(Bytes)
      <3>1. input' = SubSeq(input, 3, Len(input))
        BY <1>6 DEF ReadEscape
      <3>2. \A k \in 3 .. Len(input) : input[k] \in Bytes
        BY ElementOfSeq DEF TypeOK
      <3>3. Len(input) \in Nat
        BY LenProperties DEF TypeOK
      <3>4. QED
        BY <3>1, <3>2, <3>3, SubSeqProperties DEF TypeOK
    <2>2. current_selection' \in Int
      <3>1. Move(input[2]) \in Int
        BY <1>6, MoveInteger, StartIsInteger DEF ReadEscape, TypeOK
      <3>2. QED
        BY <1>6, <3>1 DEF ReadEscape, TypeOK
    <2>3. pc' \in {"cleanup", "render"} /\ pc = "escape"
      BY <1>6 DEF ReadEscape
    <2>4. QED
      BY <1>6, <2>1, <2>2, <2>3 DEF ReadEscape, TypeOK
  <1>7. CASE terminal_cleanup_popup
    <2>1. cursor' \in Rows
      BY <1>7, InsideIsRow DEF terminal_cleanup_popup, TypeOK, Rows
    <2>2. QED
      BY <1>7, <2>1 DEF terminal_cleanup_popup, TypeOK
  <1>8. CASE TerminalAnswers
    <2>1. <<Esc, "[", Cursor, "R">> \in Seq(Bytes)
      BY DEF Bytes, Printable
    <2> HIDE DEF Esc, Cursor
    <2>2. input' \in Seq(Bytes)
      BY <1>8, <2>1, ConcatProperties DEF TerminalAnswers, TypeOK
    <2>3. QED
      BY <1>8, <2>2 DEF TerminalAnswers, TypeOK
  <1>9. CASE Type
    <2>1. input' \in Seq(Bytes)
      BY <1>9, PopupAssumption, ConcatProperties DEF Type, TypeOK
    <2>2. QED
      BY <1>9, <2>1 DEF Type, TypeOK
  <1>10. CASE UNCHANGED vars
    BY <1>10 DEF vars, TypeOK
  <1>11. QED
    BY <1>1, <1>2, <1>3, <1>4, <1>5, <1>6, <1>7, <1>8, <1>9, <1>10
       DEF Next, Shell

(* Whatever is typed and however late the terminal answers, every variable  *)
(* keeps its type: the answer's end is found in the bytes that arrived, and *)
(* the cursor is only ever put on a row (terminal_ui.c:16-36, 63-71).       *)
THEOREM TypeCorrect == Spec => []TypeOK
  <1>1. Init => TypeInv
    BY TypeInit
  <1>2. TypeInv /\ [Next]_vars => TypeInv'
    BY TypeStep
  <1>3. TypeInv => TypeOK
    BY DEF TypeInv
  <1>4. QED
    BY <1>1, <1>2, <1>3, PTL DEF Spec

-----------------------------------------------------------------------------
(* The screen.  A Tab is a key of its own, and the longest list fits below  *)
(* a prompt too near the top of the screen for it to fit above.             *)
TabIsAKey ==
    \A key \in Keys : \A k \in DOMAIN key : key[k] = "tab" => Len(key) = 1

RowsOf(n) == (n \div columns) + (IF n % columns # 0 THEN 1 ELSE 0)

Fits == \A n \in Counts : n >= 2 => RowsOf(n) + (n \div columns) + 3 <= Height

Answer == <<Esc, "[", Cursor, "R">>

(* The rows the popup is drawn on.                                          *)
Drawn == start_row .. start_row + rendered_rows

(* What is on the screen, whatever row the popup was told: its text nowhere *)
(* but where it is drawn.                                                   *)
Drawing ==
    /\ pc # "idle" => match_count \in Counts
    /\ pc \in {"idle", "where"} => leftover = {}
    /\ pc \in {"render", "key", "escape", "cleanup"} =>
          (draw_below <=> ~RoomAbove(anchor_row)) /\ leftover \subseteq Drawn

(* What has arrived at a prompt where nothing was typed ahead: nothing      *)
(* while the terminal is asked, its answer alone once it has spoken, and a  *)
(* Tab only by itself.                                                      *)
Arrived ==
    /\ asked => pc = "where" /\ input = <<>>
    /\ pc = "where" /\ ~asked => input = Answer /\ reported = prompt
    /\ \A k \in 1 .. Len(input) : input[k] = "tab" => Len(input) = 1

(* Then the cursor is on the prompt, and the prompt where it was when the   *)
(* terminal was asked.                                                      *)
OnPrompt ==
    /\ prompt \in Rows /\ cursor = prompt
    /\ pc \in {"render", "key", "escape", "cleanup"} => anchor_row = prompt

PopupInv == TypeInv /\ Drawing /\ (~ahead => Arrived /\ OnPrompt)

LEMMA PopupInit == Init => PopupInv
  <1>1. Init => Arrived
    BY EmptySeq DEF Init, Arrived
  <1>2. Init => Drawing /\ OnPrompt
    BY DEF Init, Drawing, OnPrompt
  <1>3. QED
    BY <1>1, <1>2, TypeInit DEF PopupInv

(* Drawn where complete_context decides, the popup stays on the screen, off *)
(* the row it was told, and does not scroll.                                *)
LEMMA Room ==
    ASSUME Fits, TypeInv, Drawing, pc \in {"render", "key", "escape", "cleanup"}
    PROVE  /\ start_row \in Int /\ rendered_rows \in Nat
           /\ 1 <= start_row /\ start_row + rendered_rows <= Height
           /\ start_row + Newlines <= Height
           /\ anchor_row \notin Drawn
  <1> DEFINE q == match_count \div columns
             r == rendered_rows
             a == anchor_row
  <1>1. match_count \in Counts /\ match_count \in Nat /\ match_count >= 2
    BY PopupAssumption DEF TypeInv, Drawing
  <1>2. r \in Nat /\ q \in Nat /\ q <= r /\ r <= q + 1
    BY <1>1, GridRows
  <1>3. r + q + 3 <= Height
    BY <1>1 DEF Fits, RowsOf, rendered_rows
  <1>4. draw_below <=> ~(a > r + 1)
    BY DEF Drawing, RoomAbove
  <1>5. Newlines = 1 + q
    BY DEF Newlines
  <1>6. start_row = IF draw_below THEN a + 1 ELSE a - (r + 1)
    BY DEF start_row
  <1>7. Height \in Nat /\ a \in Nat /\ a <= Height
    BY PopupAssumption DEF TypeInv, TypeOK, Rows
  <1> HIDE DEF q, r, a
  <1>8. CASE draw_below
    <2>1. start_row = a + 1 /\ a <= r + 1
      BY <1>2, <1>4, <1>6, <1>7, <1>8
    <2>2. QED
      BY <1>2, <1>3, <1>5, <1>7, <2>1 DEF Drawn, r, a
  <1>9. CASE ~draw_below
    <2>1. start_row = a - (r + 1) /\ a > r + 1
      BY <1>4, <1>6, <1>9
    <2>2. QED
      BY <1>2, <1>3, <1>5, <1>7, <2>1 DEF Drawn, r, a
  <1>10. QED
    BY <1>8, <1>9

(* The terminal's answer has no Tab in it.                                  *)
LEMMA AnswerHasNoTab == \A k \in 1 .. Len(Answer) : Answer[k] # "tab"
  <1>1. /\ Len(Answer) = 4 /\ Answer[1] = "esc" /\ Answer[2] = "["
        /\ Answer[3] = "row;col" /\ Answer[4] = "R"
    BY DEF Answer, Esc, Cursor
  <1>2. \A k \in 1 .. 4 : k = 1 \/ k = 2 \/ k = 3 \/ k = 4
    OBVIOUS
  <1>3. "esc" # "tab" /\ "[" # "tab" /\ "row;col" # "tab" /\ "R" # "tab"
    OBVIOUS
  <1>4. QED
    BY <1>1, <1>2, <1>3

LEMMA ArrivedStep ==
    ASSUME TabIsAKey, PopupInv, ~ahead, ~ahead', [Next]_vars
    PROVE  Arrived'
  <1> USE DEF popup, screen
  <1>0. input \in Seq(Bytes) /\ Len(input) \in Nat
    BY LenProperties DEF PopupInv, TypeInv, TypeOK
  <1>t. ASSUME input # <<>>, input' = Tail(input)
        PROVE  \A k \in 1 .. Len(input') : input'[k] = "tab" => Len(input') = 1
    <2>1. /\ Len(input') = Len(input) - 1
          /\ \A k \in 1 .. Len(input') : input'[k] = input[k + 1]
      BY <1>0, <1>t, HeadTailProperties
    <2>2. QED
      BY <1>0, <2>1 DEF PopupInv, Arrived
  <1>1. CASE EditLine
    BY <1>1, <1>t DEF EditLine, PopupInv, Arrived
  <1>2. CASE Complete
    <2>1. input = <<"tab">>
      <3>1. input # <<>> /\ input[1] = "tab"
        BY <1>2 DEF Complete
      <3>2. Len(input) > 0
        BY <1>0, <3>1, EmptySeq
      <3>3. Len(input) = 1
        BY <1>0, <3>1, <3>2 DEF PopupInv, Arrived
      <3>4. QED
        BY <1>0, <3>1, <3>3
    <2>2. input' = <<>>
      BY <1>2, <2>1 DEF Complete
    <2>3. ~asked /\ pc = "idle"
      BY <1>2 DEF Complete, PopupInv, Arrived
    <2>4. \/ pc' = "idle" /\ ~asked'
          \/ pc' = "where" /\ asked'
      BY <1>2, <2>3 DEF Complete
    <2>5. QED
      BY <2>2, <2>4 DEF Arrived
  <1>3. CASE terminal_save_state
    <2>1. FirstR \in 1 .. Len(input)
      BY <1>0, <1>3, FirstRFound DEF terminal_save_state, Answered
    <2>2. input' = SubSeq(input, FirstR + 1, Len(input))
      BY <1>3 DEF terminal_save_state, Unread
    <2>3. /\ pc = "where" /\ pc' = "render"
          /\ UNCHANGED <<asked, prompt>>
      BY <1>3 DEF terminal_save_state
    <2>4. ~asked
      BY <1>0, <2>1, EmptySeq DEF PopupInv, Arrived
    <2>5. input = Answer
      BY <2>3, <2>4 DEF PopupInv, Arrived
    <2>6. \A k \in 1 .. Len(input) : input[k] # "tab"
      BY <2>5, AnswerHasNoTab
    <2>7. /\ Len(input') \in Nat /\ Len(input') <= Len(input)
          /\ \A k \in 1 .. Len(input') : input'[k] = input[k + FirstR]
      BY <1>0, <2>1, <2>2
    <2>8. \A k \in 1 .. Len(input') : input'[k] # "tab"
      <3>1. Len(input') = Len(input) - FirstR
        BY <1>0, <2>1, <2>2
      <3>2. QED
        BY <1>0, <2>1, <2>6, <2>7, <3>1
    <2>9. QED
      BY <2>3, <2>4, <2>8 DEF Arrived
  <1>4. CASE terminal_render_popup
    BY <1>4 DEF terminal_render_popup, PopupInv, Arrived
  <1>5. CASE ReadKey
    BY <1>5, <1>t DEF ReadKey, PopupInv, Arrived
  <1>6. CASE ReadEscape
    <2>1. input' = SubSeq(input, 3, Len(input)) /\ UNCHANGED asked
      BY <1>6 DEF ReadEscape
    <2>2. pc = "escape" /\ pc' \in {"render", "cleanup"}
      BY <1>6 DEF ReadEscape
    <2>3. \A k \in 1 .. Len(input') : input'[k] = "tab" => Len(input') = 1
      <3>1. CASE Len(input) < 3
        <4>1. Len(input') = 0
          BY <1>0, <2>1, <3>1
        <4>2. QED
          BY <4>1
      <3>2. CASE Len(input) >= 3
        <4>1. /\ Len(input') = Len(input) - 2
              /\ \A k \in 1 .. Len(input') : input'[k] = input[k + 2]
          BY <1>0, <2>1, <3>2
        <4>2. QED
          BY <1>0, <3>2, <4>1 DEF PopupInv, Arrived
      <3>3. QED
        BY <1>0, <3>1, <3>2
    <2>4. QED
      BY <2>1, <2>2, <2>3 DEF PopupInv, Arrived
  <1>7. CASE terminal_cleanup_popup
    BY <1>7 DEF terminal_cleanup_popup, PopupInv, Arrived
  <1>8. CASE TerminalAnswers
    <2>1. input = <<>> /\ pc = "where" /\ pc' = pc /\ ~asked' /\ UNCHANGED prompt
      BY <1>8 DEF TerminalAnswers, PopupInv, Arrived
    <2>2. reported' = prompt
      BY <1>8 DEF TerminalAnswers, PopupInv, OnPrompt
    <2>3. input' = Answer
      BY <1>8, <2>1 DEF TerminalAnswers, Answer
    <2>4. \A k \in 1 .. Len(input') : input'[k] # "tab"
      BY <2>3, AnswerHasNoTab
    <2>5. QED
      BY <2>1, <2>2, <2>3, <2>4 DEF Arrived
  <1>9. CASE Type
    <2>1. PICK key \in Keys : input' = input \o key
      BY <1>9 DEF Type
    <2>2. /\ input = <<>> /\ ~asked /\ ~asked'
          /\ pc \in {"idle", "key", "escape"} /\ pc' = pc
      BY <1>9 DEF Type, Waits
    <2>3. key \in Seq(Bytes) /\ input' = key
      BY <2>1, <2>2, PopupAssumption, ConcatEmptySeq
    <2>4. QED
      BY <2>2, <2>3 DEF TabIsAKey, Arrived
  <1>10. CASE UNCHANGED vars
    BY <1>10 DEF vars, PopupInv, Arrived, Answer
  <1>11. QED
    BY <1>1, <1>2, <1>3, <1>4, <1>5, <1>6, <1>7, <1>8, <1>9, <1>10
       DEF Next, Shell

(* What fits on the screen is drawn where it was meant and scrolls nothing. *)
LEMMA ScreenHolds ==
    ASSUME TypeInv, start_row \in Int, rendered_rows \in Nat, 1 <= start_row,
           start_row + rendered_rows <= Height, start_row + Newlines <= Height
    PROVE  Inside(start_row) = start_row /\ Scroll(start_row) = 0
  <1>1. Inside(start_row) = start_row
    BY PopupAssumption DEF Inside
  <1>2. Newlines \in Int
    BY GridRows, StartIsInteger DEF Newlines, TypeInv
  <1>3. /\ start_row + Newlines - Height \in Int
        /\ ~(start_row + Newlines - Height > 0)
    BY <1>2, PopupAssumption
  <1>4. QED
    BY <1>1, <1>3, MaxOfTwo DEF Scroll

(* No step leaves text of the popup where it is not drawn, however wrong    *)
(* the row it was told.                                                     *)
LEMMA DrawingStep ==
    ASSUME Fits, TypeInv, Drawing, [Next]_vars
    PROVE  Drawing'
  <1> USE DEF popup, screen
  <1>0. anchor_row \in 0 .. Height
    BY PopupAssumption DEF TypeInv, TypeOK, Rows
  <1>u. ASSUME UNCHANGED <<match_count, anchor_row, draw_below>>
        PROVE  Drawn' = Drawn /\ (RoomAbove(anchor_row)' <=> RoomAbove(anchor_row))
    BY <1>u DEF Drawn, start_row, rendered_rows, RoomAbove
  <1>s. ASSUME UNCHANGED <<pc, popup, leftover>>
        PROVE  Drawing'
    BY <1>s, <1>u DEF Drawing
  <1>1. CASE EditLine
    BY <1>1, <1>s DEF EditLine
  <1>2. CASE Complete
    <2>1. PICK n \in Counts :
              IF n < 2 THEN UNCHANGED <<pc, popup, asked>>
              ELSE /\ match_count' = n /\ current_selection' = 0
                   /\ anchor_row' = 0 /\ draw_below' = FALSE
                   /\ asked' = TRUE /\ pc' = "where"
      BY <1>2 DEF Complete
    <2>2. QED
      BY <1>2, <2>1 DEF Complete, Drawing
  <1>3. CASE terminal_save_state
    <2>1. /\ draw_below' = ~RoomAbove(anchor_row') /\ leftover = {} /\ pc = "where"
          /\ pc' = "render" /\ UNCHANGED <<match_count, leftover>>
      BY <1>3 DEF terminal_save_state, Drawing
    <2>2. RoomAbove(anchor_row)' <=> RoomAbove(anchor_row')
      BY <2>1 DEF RoomAbove, rendered_rows
    <2>3. QED
      BY <2>1, <2>2 DEF Drawing
  <1>4. CASE terminal_render_popup
    <2>1. /\ pc = "render" /\ pc' = "key" /\ UNCHANGED popup
      BY <1>4 DEF terminal_render_popup
    <2>2. /\ start_row \in Int /\ rendered_rows \in Nat
          /\ 1 <= start_row /\ start_row + rendered_rows <= Height
          /\ start_row + Newlines <= Height
      BY <2>1, Room
    <2>3. Inside(start_row) = start_row /\ Scroll(start_row) = 0
      BY <2>2, ScreenHolds
    <2>4. leftover' = {r \in Rows : r + 0 \in leftover
                          \/ r + 0 \in start_row .. start_row + rendered_rows}
      <3>1. leftover' = {r \in Rows :
                r + Scroll(start_row) \in leftover
                \/ r + Scroll(start_row) \in start_row .. start_row + rendered_rows}
        BY <1>4, <2>3, Zenon DEF terminal_render_popup
      <3>2. QED
        BY <2>3, <3>1
    <2>5. \A r \in Rows : r + 0 = r
      BY DEF Rows
    <2>6. leftover' \subseteq Drawn
      BY <2>1, <2>4, <2>5 DEF Drawing, Drawn
    <2>7. QED
      BY <1>u, <2>1, <2>6 DEF Drawing
  <1>5. CASE ReadKey
    <2>1. /\ pc = "key" /\ pc' \in {"cleanup", "escape", "render"}
          /\ UNCHANGED <<popup, screen>>
      BY <1>5 DEF ReadKey
    <2>2. QED
      BY <1>u, <2>1 DEF Drawing
  <1>6. CASE ReadEscape
    <2>1. /\ pc = "escape" /\ pc' \in {"cleanup", "render"}
          /\ UNCHANGED <<match_count, anchor_row, draw_below, screen>>
      BY <1>6 DEF ReadEscape
    <2>2. QED
      BY <1>u, <2>1 DEF Drawing
  <1>7. CASE terminal_cleanup_popup
    <2>1. /\ pc = "cleanup" /\ pc' = "idle" /\ leftover' = leftover \ Wiped
      BY <1>7 DEF terminal_cleanup_popup
    <2>2. leftover \subseteq Drawn
      BY <2>1 DEF Drawing
    <2>3. Drawn \subseteq Wiped
      <3>1. /\ start_row \in Int /\ rendered_rows \in Nat
            /\ 1 <= start_row /\ start_row + rendered_rows <= Height
        BY <2>1, Room
      <3>2. ASSUME NEW row \in Drawn
            PROVE  row \in Wiped
        <4>1. /\ row - start_row \in 0 .. rendered_rows
              /\ start_row + (row - start_row) = row
              /\ 1 <= row /\ row <= Height /\ row \in Int
          BY <3>1, <3>2, PopupAssumption DEF Drawn
        <4>2. Inside(start_row + (row - start_row)) = row
          BY <4>1, PopupAssumption DEF Inside
        <4>3. QED
          BY <4>1, <4>2 DEF Wiped
      <3>3. QED
        BY <3>2
    <2>4. leftover' = {}
      BY <2>1, <2>2, <2>3
    <2>5. QED
      BY <2>1, <2>4 DEF Drawing
  <1>8. CASE TerminalAnswers
    BY <1>8, <1>s DEF TerminalAnswers
  <1>9. CASE Type
    BY <1>9, <1>s DEF Type
  <1>10. CASE UNCHANGED vars
    BY <1>10, <1>s DEF vars
  <1>11. QED
    BY <1>1, <1>2, <1>3, <1>4, <1>5, <1>6, <1>7, <1>8, <1>9, <1>10
       DEF Next, Shell

LEMMA OnPromptStep ==
    ASSUME Fits, PopupInv, ~ahead, ~ahead', [Next]_vars
    PROVE  OnPrompt'
  <1> USE DEF popup, screen
  <1>0. /\ TypeInv /\ Drawing /\ Arrived /\ OnPrompt
        /\ prompt \in Rows /\ prompt \in Int /\ Inside(prompt) = prompt
    BY PopupAssumption DEF PopupInv, OnPrompt, Rows, Inside
  <1>1. CASE EditLine
    BY <1>0, <1>1 DEF EditLine, OnPrompt
  <1>2. CASE Complete
    <2>1. pc' \in {"idle", "where"} /\ UNCHANGED screen
      BY <1>2 DEF Complete
    <2>2. QED
      BY <1>0, <2>1 DEF OnPrompt
  <1>3. CASE terminal_save_state
    <2>1. ~asked
      BY <1>0, <1>3, EmptySeq DEF terminal_save_state, Answered, Arrived
    <2>2. input = Answer /\ reported = prompt
      BY <1>0, <1>3, <2>1 DEF terminal_save_state, Arrived
    <2>3. IsPrefix(<<Esc, "[", Cursor>>, input)
      BY <2>2 DEF IsPrefix, Answer
    <2>4. get_cursor_pos = prompt
      BY <2>2, <2>3 DEF get_cursor_pos
    <2>5. anchor_row' = prompt /\ UNCHANGED <<prompt, cursor>>
      BY <1>3, <2>4 DEF terminal_save_state
    <2>6. QED
      BY <1>0, <2>5 DEF OnPrompt
  <1>4. CASE terminal_render_popup
    <2>1. Inside(start_row) = start_row /\ Scroll(start_row) = 0
      BY <1>0, <1>4, Room, ScreenHolds DEF terminal_render_popup
    <2>2. prompt' = prompt
      <3>1. prompt' = prompt - Scroll(start_row)
        BY <1>4, <2>1 DEF terminal_render_popup
      <3>2. QED
        BY <1>0, <2>1, <3>1
    <2>3. cursor' = prompt /\ anchor_row = prompt /\ UNCHANGED anchor_row
      BY <1>0, <1>4 DEF terminal_render_popup, OnPrompt
    <2>4. QED
      BY <1>0, <2>2, <2>3 DEF OnPrompt
  <1>5. CASE ReadKey
    <2>1. pc = "key" /\ UNCHANGED <<popup, screen>>
      BY <1>5 DEF ReadKey
    <2>2. QED
      BY <1>0, <2>1 DEF OnPrompt
  <1>6. CASE ReadEscape
    <2>1. pc = "escape" /\ UNCHANGED <<anchor_row, screen>>
      BY <1>6 DEF ReadEscape
    <2>2. QED
      BY <1>0, <2>1 DEF OnPrompt
  <1>7. CASE terminal_cleanup_popup
    BY <1>0, <1>7 DEF terminal_cleanup_popup, OnPrompt
  <1>8. CASE TerminalAnswers
    BY <1>0, <1>8 DEF TerminalAnswers, OnPrompt
  <1>9. CASE Type
    BY <1>0, <1>9 DEF Type, OnPrompt
  <1>10. CASE UNCHANGED vars
    BY <1>0, <1>10 DEF vars, OnPrompt
  <1>11. QED
    BY <1>1, <1>2, <1>3, <1>4, <1>5, <1>6, <1>7, <1>8, <1>9, <1>10
       DEF Next, Shell

(* Typing ahead is over with an Enter after which nothing waits: the next   *)
(* prompt is where its command's output has put it.                         *)
LEMMA NewPrompt ==
    ASSUME PopupInv, ahead, ~ahead', [Next]_vars
    PROVE  Arrived' /\ OnPrompt'
  <1>1. EditLine /\ input = <<"enter">> /\ ~asked
    BY DEF Next, Shell, EditLine, Complete, terminal_save_state, terminal_render_popup,
           ReadKey, ReadEscape, terminal_cleanup_popup, TerminalAnswers, Type, vars
  <1>2. /\ input' = <<>> /\ pc' = "idle" /\ ~asked'
        /\ prompt' \in Rows /\ cursor' = prompt'
    BY <1>1 DEF EditLine
  <1>3. QED
    BY <1>2, EmptySeq DEF Arrived, OnPrompt

LEMMA PopupStep ==
    ASSUME TabIsAKey, Fits, PopupInv, [Next]_vars
    PROVE  PopupInv'
  <1>1. TypeInv'
    BY TypeStep DEF PopupInv
  <1>2. Drawing'
    BY DrawingStep DEF PopupInv
  <1>3. ASSUME ~ahead'
        PROVE  Arrived' /\ OnPrompt'
    <2>1. CASE ahead
      BY <1>3, <2>1, NewPrompt
    <2>2. CASE ~ahead
      BY <1>3, <2>2, ArrivedStep, OnPromptStep
    <2>3. QED
      BY <2>1, <2>2
  <1>4. QED
    BY <1>1, <1>2, <1>3 DEF PopupInv

(* The cursor is put back on the row of the prompt, which the popup neither *)
(* covers nor moves, wherever on the screen the prompt is and however often *)
(* the popup is drawn again, at every prompt at which nothing was typed     *)
(* ahead (terminal_ui.c:32-36, 70-71, 83-84).                               *)
THEOREM CursorOnPrompt ==
    ASSUME TabIsAKey, Fits
    PROVE  Spec => []AnchorOnPrompt
  <1>1. Init => PopupInv
    BY PopupInit
  <1>2. PopupInv /\ [Next]_vars => PopupInv'
    BY PopupStep
  <1>3. PopupInv => AnchorOnPrompt
    <2>1. ASSUME PopupInv, pc \in {"key", "escape", "cleanup"}, ~ahead
          PROVE  cursor = prompt /\ prompt \notin leftover
      <3>1. anchor_row = prompt /\ cursor = prompt /\ leftover \subseteq Drawn
        BY <2>1 DEF PopupInv, OnPrompt, Drawing
      <3>2. anchor_row \notin Drawn
        BY <2>1, Room DEF PopupInv
      <3>3. QED
        BY <3>1, <3>2
    <2>2. QED
      BY <2>1 DEF AnchorOnPrompt
  <1>4. QED
    BY <1>1, <1>2, <1>3, PTL DEF Spec

(* A closed popup leaves none of its text on the screen: the rows cleanup   *)
(* wipes are the rows render drew, whatever was typed and whatever row the  *)
(* popup was told (terminal_ui.c:49-57, 76-81).                             *)
THEOREM PopupWiped ==
    ASSUME Fits
    PROVE  Spec => []NothingLeftBehind
  <1>1. Init => TypeInv /\ Drawing
    BY PopupInit DEF PopupInv
  <1>2. TypeInv /\ Drawing /\ [Next]_vars => (TypeInv /\ Drawing)'
    BY TypeStep, DrawingStep
  <1>3. Drawing => NothingLeftBehind
    BY DEF Drawing, NothingLeftBehind
  <1>4. QED
    BY <1>1, <1>2, <1>3, PTL DEF Spec
=============================================================================
