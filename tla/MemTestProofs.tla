--------------------------- MODULE MemTestProofs ---------------------------
(***************************************************************************)
(* Proofs about MemTest for every size of device, aperture and number, any *)
(* card, operator and C library: types, the life of the watchdog, and that *)
(* a good card is never reported as faulty.                                *)
(***************************************************************************)
EXTENDS MemTest, TLAPS

-----------------------------------------------------------------------------
(* Arithmetic.                                                              *)
LEMMA Products ==
    ASSUME NEW x \in Nat, NEW y \in Nat
    PROVE  x * y \in Nat
  OBVIOUS

(* What the proofs need of the constants' types.                            *)
LEMMA Sizes ==
    /\ APERTURE_SIZE \in Nat \ {0} /\ TOTAL_BLOCKS \in Nat \ {0}
    /\ 4 * APERTURE_SIZE \in Nat
  BY MemAssumption

LEMMA Lists ==
    /\ <<>> \in Lines /\ Garbage \subseteq Lines
    /\ Atoi \in [Lines -> Int]
  BY MemAssumption

(* 32-bit numbers.                                                          *)
LEMMA Words ==
    /\ 0 \in Values /\ Values \subseteq Nat
    /\ \A x \in Nat : x % U32 \in Values
  <1>1. U32 \in Nat /\ U32 > 0
    BY MemAssumption
  <1>2. QED
    BY <1>1 DEF Values

LEMMA NextWord ==
    ASSUME NEW x \in Values
    PROVE  (x + 1) % U32 \in Values
  <1>1. x + 1 \in Nat
    BY MemAssumption DEF Values
  <1>2. QED
    BY <1>1, Words

(* The first block is a block number like any other.                        *)
LEMMA BlockReset ==
    ASSUME NEW u \in Telemetry
    PROVE  [u EXCEPT !.current_block = 0] \in Telemetry
  BY DEF Telemetry

(* Where the blocks and the words of the aperture lie.                      *)
LEMMA OffsetType ==
    ASSUME NEW b \in Blocks
    PROVE  /\ b * APERTURE_SIZE \in Nat
           /\ Window(b * APERTURE_SIZE) \in Nat
           /\ Window(b * APERTURE_SIZE) * Page = b * APERTURE_SIZE
  <1>1. b \in Nat /\ APERTURE_SIZE \in Nat /\ Page \in Nat \ {0}
    BY MemAssumption DEF Blocks
  <1>2. b * APERTURE_SIZE \in Nat
    BY <1>1, Products
  <1>3. ASSUME NEW x \in Nat PROVE Window(x) \in Nat
    BY <1>1 DEF Window
  <1>4. QED
    BY <1>2, <1>3, MemAssumption

(* No two words of the aperture have the same address.                      *)
LEMMA CellsDiffer ==
    ASSUME NEW w \in Nat, NEW j \in Nat, NEW k \in Nat, Cell(w, j) = Cell(w, k)
    PROVE  j = k
  <1>1. Page \in Nat
    BY MemAssumption
  <1>2. w * Page \in Nat
    BY <1>1, Products
  <1>3. QED
    BY <1>2 DEF Cell

(* What is left of a size is a number of words of the aperture.             *)
LEMMA ElementsInAperture ==
    ASSUME size \in 0 .. APERTURE_SIZE
    PROVE  /\ Elements \in Nat
           /\ \A k \in Nat : k < Elements => k \in Indices
  <1>1. APERTURE_SIZE \in Nat /\ size \in Nat /\ size <= APERTURE_SIZE
    BY MemAssumption
  <1>2. QED
    BY <1>1 DEF Elements, Indices

-----------------------------------------------------------------------------
(* Types.  The block under test is one of the device's from the moment it   *)
(* has been chosen, on which the types of the window and the offset rest.   *)
BlockChosen ==
    main \in {"size", "confirm", "start", "arm", "test"} =>
        t.current_block \in Blocks

(* The row of the cursor at each place of the watchdog.  It needs to know   *)
(* that a watchdog lives only in a session, and that main starts none while *)
(* another lives; the type of the row needs it in turn.                     *)
Rows ==
    /\ watchdog = "draw" => row = 0
    /\ watchdog = "sleep" => row = 2
    /\ watchdog = "while" /\ t.is_active => row = 0

ScopeInv == TypeOK /\ BlockChosen /\ SessionScoped /\ Rows

LEMMA ScopeInit == Init => ScopeInv
  <1> SUFFICES ASSUME Init PROVE ScopeInv
    OBVIOUS
  <1>1. t \in Telemetry
    BY Words DEF Init, Zeroed, Telemetry
  <1>2. vram \in [Device -> Values] /\ card \in Cards
    BY MemAssumption DEF Init
  <1>3. m_in \in Lines /\ buf \in Lines /\ size \in 0 .. APERTURE_SIZE
    BY MemAssumption DEF Init
  <1>4. keys \in Seq(Keys)
    BY DEF Init
  <1>5. /\ main = "menu" /\ watchdog = "none" /\ choice = 0 /\ phase = 0
        /\ i = 0 /\ window = 0 /\ hung = FALSE /\ tty = "cooked" /\ row = 0
    BY DEF Init
  <1>8. TypeOK
    <2>1. hung \in BOOLEAN /\ tty \in {"cooked", "raw"}
      BY <1>5
    <2>2. /\ main \in Questions \cup Session \cup {"start", "quit"}
          /\ watchdog \in Alive \cup {"none", "over"}
      BY <1>5 DEF Questions
    <2>3. choice \in Int /\ phase \in 0 .. 4 /\ i \in Nat /\ window \in Nat
          /\ row \in Nat
      BY <1>5
    <2>4. QED
      BY <1>1, <1>2, <1>3, <1>4, <2>1, <2>2, <2>3 DEF TypeOK
  <1>6. BlockChosen /\ SessionScoped /\ Rows
    BY DEF Init, BlockChosen, SessionScoped, Rows, Alive, Session, Zeroed
  <1>7. QED
    BY <1>6, <1>8 DEF ScopeInv

(* What an answer leaves of the keys, and what it is.                       *)
LEMMA InputType ==
    ASSUME TypeOK, NEW old, NEW answer, get_input(old, answer)
    PROVE  keys' \in Seq(Keys)
  <1>1. keys \in Seq(Keys)
    BY DEF TypeOK
  <1>2. ASSUME NEW k \in DOMAIN keys, keys' = SubSeq(keys, k + 1, Len(keys))
        PROVE  keys' \in Seq(Keys)
    BY <1>1, <1>2
  <1>3. <<>> \in Seq(Keys)
    OBVIOUS
  <1>4. \/ \E k \in DOMAIN keys : keys' = SubSeq(keys, k + 1, Len(keys))
        \/ keys' = <<>>
        \/ keys' = keys
    BY DEF get_input
  <1>5. QED
    BY <1>1, <1>2, <1>3, <1>4

(* The size of a spot test is brought into the aperture.                    *)
LEMMA SizeType ==
    ASSUME NEW line \in Lines
    PROVE  Clamped(parse_size_suffix(line)) \in 0 .. APERTURE_SIZE
  <1>1. Strtoull[line] * Unit[line] \in Nat
    BY Products, MemAssumption
  <1>2. parse_size_suffix(line) \in Nat
    BY <1>1, MemAssumption DEF parse_size_suffix
  <1>3. QED
    BY <1>2, MemAssumption DEF Clamped

LEMMA ExpectedType ==
    ASSUME TypeOK, NEW k \in Nat
    PROVE  Expected(k) \in Values
  <1>1. t.current_offset + 4 * k \in Nat
    BY DEF TypeOK, Telemetry
  <1>2. AddressOf(k) \in Values
    BY <1>1, Words DEF AddressOf
  <1>3. Pattern \in Values
    BY MemAssumption
  <1>4. QED
    BY <1>2, <1>3 DEF Expected

-----------------------------------------------------------------------------
(* The types after one step, action by action.                              *)
LEMMA QuestionTypes ==
    ASSUME ScopeInv,
           MenuAnswered \/ BlockAnswered \/ SizeAnswered \/ ConfirmAnswered
             \/ ReportDismissed
    PROVE  TypeOK'
  <1> USE DEF ScopeInv, TypeOK, Questions, Session, Alive
  <1>1. CASE MenuAnswered
    <2>1. 4 * TOTAL_VRAM_SIZE \in Nat
      BY Products, MemAssumption DEF TOTAL_VRAM_SIZE
    <2>2. t' \in Telemetry
      <3>1. Zeroed \in Telemetry
        BY Words DEF Zeroed, Telemetry
      <3> DEFINE total == 4 * TOTAL_VRAM_SIZE
      <3>2. t' = [Zeroed EXCEPT !.session_bytes_total = total]
        BY <1>1 DEF MenuAnswered
      <3>3. total \in Nat
        BY <2>1
      <3> HIDE DEF total
      <3>4. QED
        BY <3>1, <3>2, <3>3 DEF Telemetry
    <2>3. keys' \in Seq(Keys)
      BY <1>1, InputType DEF MenuAnswered
    <2>4. choice' \in Int /\ m_in' \in Lines /\ size' \in 0 .. APERTURE_SIZE
      BY <1>1, MemAssumption DEF MenuAnswered
    <2>5. QED
      BY <1>1, <2>2, <2>3, <2>4 DEF MenuAnswered, testVars
  <1>2. CASE BlockAnswered
    <2>1. PICK answer \in Lines :
            /\ get_input(Garbage, answer)
            /\ buf' \in {answer, <<>>}
            /\ t' = [t EXCEPT !.current_block =
                                  IF answer = <<>> THEN 0 ELSE Atoi[answer]]
            /\ main' \in {"size", "menu"}
      BY <1>2 DEF BlockAnswered
    <2>2. t' \in Telemetry
      <3>1. (IF answer = <<>> THEN 0 ELSE Atoi[answer]) \in Int
        BY Lists
      <3>2. QED
        BY <2>1, <3>1 DEF Telemetry
    <2>3. keys' \in Seq(Keys) /\ buf' \in Lines
      BY <2>1, InputType, Lists
    <2>4. QED
      BY <1>2, <2>1, <2>2, <2>3 DEF BlockAnswered, testVars
  <1>3. CASE SizeAnswered
    <2>1. keys' \in Seq(Keys)
      BY <1>3, InputType DEF SizeAnswered
    <2>2. size' \in 0 .. APERTURE_SIZE /\ buf' \in Lines
      BY <1>3, SizeType DEF SizeAnswered
    <2>3. QED
      BY <1>3, <2>1, <2>2 DEF SizeAnswered, testVars
  <1>4. CASE ConfirmAnswered
    <2>1. keys' \in Seq(Keys)
      BY <1>4, InputType DEF ConfirmAnswered
    <2>2. t' \in Telemetry
      <3>1. 4 * size \in Nat
        BY Sizes
      <3>2. QED
        BY <1>4, <3>1 DEF ConfirmAnswered, Telemetry
    <2>3. buf' \in Lines
      BY <1>4, MemAssumption DEF ConfirmAnswered
    <2>4. QED
      BY <1>4, <2>1, <2>2, <2>3 DEF ConfirmAnswered, testVars
  <1>5. CASE ReportDismissed
    <2>1. keys' \in Seq(Keys)
      BY <1>5, InputType DEF ReportDismissed
    <2>2. QED
      BY <1>5, <2>1 DEF ReportDismissed, testVars
  <1>6. QED
    BY <1>1, <1>2, <1>3, <1>4, <1>5

LEMMA SessionTypes ==
    ASSUME ScopeInv,
           StartSession \/ ArmWindow \/ TestWord \/ NextPhase \/ BlockDone
             \/ Finish \/ Join
    PROVE  TypeOK'
  <1> USE DEF ScopeInv, TypeOK, Questions, Session, Alive, operatorVars,
              askVars
  <1>1. CASE StartSession
    <2>1. t' \in Telemetry
      BY <1>1 DEF StartSession, Telemetry
    <2>2. size' \in 0 .. APERTURE_SIZE
      BY <1>1, MemAssumption DEF StartSession
    <2>3. QED
      BY <1>1, <2>1, <2>2 DEF StartSession, testVars
  <1>2. CASE ArmWindow
    <2>1. t.current_block \in Blocks
      BY <1>2 DEF ArmWindow, BlockChosen
    <2>2. /\ t.current_block * APERTURE_SIZE \in Nat
          /\ Window(t.current_block * APERTURE_SIZE) \in Nat
      BY <2>1, OffsetType
    <2>3. t' \in Telemetry
      <3>1. 4 * size \in Nat
        BY Sizes
      <3>2. QED
        BY <1>2, <2>2, <3>1 DEF ArmWindow, Telemetry
    <2>4. QED
      BY <1>2, <2>2, <2>3 DEF ArmWindow
  <1>3. CASE TestWord
    <2>1. t' \in Telemetry
      <3>1. (t.error_count + 1) % U32 \in Values
        BY NextWord DEF Telemetry
      <3>2. /\ t.session_bytes_done + 4 \in Nat
            /\ t.block_bytes_done + 4 \in Nat
        BY DEF Telemetry
      <3>3. PICK e \in Values, b \in BOOLEAN :
              t' = [t EXCEPT !.error_count = e,
                             !.block_bytes_done = @ + 4,
                             !.session_bytes_done = @ + 4,
                             !.stop_requested = b]
        <4> DEFINE wrong == /\ phase \in {1, 3}
                            /\ Reads(Cell(window, i)) # Expected(i)
                   look == i % CheckEvery = 0 /\ keys # <<>>
                   e == IF wrong THEN (t.error_count + 1) % U32
                        ELSE t.error_count
                   b == look /\ Head(keys) \in Stop
        <4>1. e \in Values /\ b \in BOOLEAN
          BY <3>1 DEF Telemetry
        <4>2. t' = [t EXCEPT !.error_count = e,
                             !.block_bytes_done = @ + 4,
                             !.session_bytes_done = @ + 4,
                             !.stop_requested = b]
          BY <1>3 DEF TestWord
        <4>3. QED
          BY <4>1, <4>2
      <3>4. QED
        BY <3>2, <3>3 DEF Telemetry
    <2>2. vram' \in [Device -> Values]
      BY <1>3, ExpectedType DEF TestWord
    <2>3. keys' \in Seq(Keys)
      BY <1>3 DEF TestWord
    <2>4. QED
      BY <1>3, <2>1, <2>2, <2>3 DEF TestWord
  <1>4. CASE NextPhase
    BY <1>4 DEF NextPhase
  <1>5. CASE BlockDone
    <2>1. (t.current_pass + 1) % U32 \in Nat
      <3>1. t.current_pass + 1 \in Nat
        BY DEF Telemetry
      <3>2. QED
        BY <3>1, Words
    <2>2. CASE UNCHANGED t /\ main' = "finish"
      BY <1>5, <2>2 DEF BlockDone
    <2>3. CASE /\ t' = [t EXCEPT !.current_block = @ + 1]
               /\ main' = "arm"
      <3>1. t' \in Telemetry
        BY <2>3 DEF Telemetry
      <3>2. QED
        BY <1>5, <2>3, <3>1 DEF BlockDone
    <2>4. CASE NextPass
      <3>1. t' \in Telemetry
        <4> DEFINE pass == (t.current_pass + 1) % U32
                   t1 == [t EXCEPT !.current_pass = pass]
        <4>1. pass \in Nat
          BY <2>1
        <4> HIDE DEF pass
        <4>2. t1 \in Telemetry
          BY <4>1 DEF Telemetry
        <4> DEFINE t2 == [t1 EXCEPT !.current_block = 0]
        <4> HIDE DEF t1
        <4>3. t2 \in Telemetry
          BY <4>2, BlockReset
        <4>4. t' = [t2 EXCEPT !.session_bytes_done = 0]
          BY <2>4 DEF NextPass, pass, t1
        <4> HIDE DEF t2
        <4>5. QED
          BY <4>3, <4>4 DEF Telemetry
      <3>2. QED
        BY <1>5, <2>4, <3>1 DEF BlockDone, NextPass
    <2>5. CASE LastPass
      <3>1. t' \in Telemetry
        BY <2>1, <2>5 DEF LastPass, Telemetry
      <3>2. QED
        BY <1>5, <2>5, <3>1 DEF BlockDone, LastPass
    <2>6. QED
      BY <1>5, <2>2, <2>3, <2>4, <2>5 DEF BlockDone
  <1>6. CASE Finish
    <2>1. t' \in Telemetry
      BY <1>6 DEF Finish, Telemetry
    <2>2. QED
      BY <1>6, <2>1 DEF Finish, testVars
  <1>7. CASE Join
    BY <1>7 DEF Join, testVars
  <1>8. QED
    BY <1>1, <1>2, <1>3, <1>4, <1>5, <1>6, <1>7

LEMMA OtherTypes ==
    ASSUME ScopeInv, Watchdog \/ Type \/ HangUp \/ UNCHANGED vars
    PROVE  TypeOK'
  <1> USE DEF ScopeInv, TypeOK, Questions, Session, Alive, operatorVars,
              askVars, testVars
  <1>1. CASE Watchdog
    <2>1. row' \in Nat /\ watchdog' \in Alive \cup {"none", "over"}
      BY <1>1 DEF Watchdog, WatchdogLooks, WatchdogDraws, WatchdogWakes, Rows
    <2>2. QED
      BY <1>1, <2>1 DEF Watchdog
  <1>2. CASE Type
    BY <1>2 DEF Type
  <1>3. CASE HangUp
    BY <1>3 DEF HangUp
  <1>4. CASE UNCHANGED vars
    BY <1>4 DEF vars
  <1>5. QED
    BY <1>1, <1>2, <1>3, <1>4

-----------------------------------------------------------------------------
(* The block, the watchdog and the terminal after one step.                 *)
LEMMA BlockStep ==
    ASSUME ScopeInv, [Next]_vars
    PROVE  BlockChosen'
  <1> USE DEF ScopeInv, BlockChosen, TypeOK, Telemetry
  <1>1. CASE MenuAnswered
    <2>1. 0 \in Blocks
      BY Sizes DEF Blocks
    <2>2. main' \in {"quit", "block", "start", "menu"}
          /\ t'.current_block = 0
      BY <1>1 DEF MenuAnswered, Zeroed
    <2>3. QED
      BY <2>1, <2>2
  <1>2. CASE BlockAnswered
    BY <1>2 DEF BlockAnswered
  <1>3. CASE SizeAnswered
    BY <1>3 DEF SizeAnswered
  <1>4. CASE ConfirmAnswered
    BY <1>4 DEF ConfirmAnswered
  <1>5. CASE StartSession
    BY <1>5 DEF StartSession
  <1>6. CASE ArmWindow
    BY <1>6 DEF ArmWindow
  <1>7. CASE TestWord
    BY <1>7 DEF TestWord
  <1>8. CASE BlockDone
    <2>1. main' = "arm" => t'.current_block \in Blocks
      <3>1. 0 \in Blocks
        BY Sizes DEF Blocks
      <3>2. CASE NextPass \/ LastPass \/ main' = "finish"
        BY <3>1, <3>2 DEF NextPass, LastPass
      <3>3. CASE ~LoopOver /\ t' = [t EXCEPT !.current_block = @ + 1]
        <4>1. t.current_block \in Blocks /\ t.current_block + 1 # TOTAL_BLOCKS
          BY <1>8, <3>3 DEF BlockDone, LoopOver
        <4>2. QED
          BY <3>3, <4>1, Sizes DEF Blocks
      <3>4. QED
        BY <1>8, <3>2, <3>3 DEF BlockDone
    <2>2. QED
      BY <1>8, <2>1 DEF BlockDone, NextPass, LastPass
  <1>9. CASE ReportDismissed \/ NextPhase \/ Finish \/ Join
    BY <1>9 DEF ReportDismissed, NextPhase, Finish, Join
  <1>10. CASE Watchdog \/ Type \/ HangUp \/ UNCHANGED vars
    BY <1>10 DEF Watchdog, Type, HangUp, vars
  <1>11. QED
    BY <1>1, <1>2, <1>3, <1>4, <1>5, <1>6, <1>7, <1>8, <1>9, <1>10
       DEF Next, MainThread, Exited

LEMMA ScopedStep ==
    ASSUME ScopeInv, [Next]_vars
    PROVE  SessionScoped' /\ Rows'
  <1> USE DEF ScopeInv, SessionScoped, Rows, TypeOK, Telemetry, Session, Alive
  <1>1. CASE MenuAnswered
    BY <1>1 DEF MenuAnswered, Zeroed
  <1>2. CASE BlockAnswered
    BY <1>2 DEF BlockAnswered
  <1>3. CASE SizeAnswered
    BY <1>3 DEF SizeAnswered
  <1>4. CASE ConfirmAnswered
    BY <1>4 DEF ConfirmAnswered
  <1>5. CASE StartSession
    BY <1>5 DEF StartSession
  <1>6. CASE ArmWindow
    BY <1>6 DEF ArmWindow
  <1>7. CASE TestWord
    BY <1>7 DEF TestWord
  <1>8. CASE BlockDone
    <2>1. main' \in {"arm", "finish"} /\ t'.is_active = t.is_active
      BY <1>8 DEF BlockDone, NextPass, LastPass
    <2>2. QED
      BY <1>8, <2>1 DEF BlockDone
  <1>9. CASE ReportDismissed \/ NextPhase \/ Finish \/ Join
    BY <1>9 DEF ReportDismissed, NextPhase, Finish, Join
  <1>10. CASE Watchdog
    BY <1>10 DEF Watchdog, WatchdogLooks, WatchdogDraws, WatchdogWakes
  <1>11. CASE Type \/ HangUp \/ UNCHANGED vars
    BY <1>11 DEF Type, HangUp, vars
  <1>12. QED
    BY <1>1, <1>2, <1>3, <1>4, <1>5, <1>6, <1>7, <1>8, <1>9, <1>10, <1>11
       DEF Next, MainThread, Exited

LEMMA ScopeStep ==
    ASSUME ScopeInv, [Next]_vars
    PROVE  ScopeInv'
  <1>1. TypeOK'
    BY QuestionTypes, SessionTypes, OtherTypes DEF Next, MainThread, Exited
  <1>2. QED
    BY <1>1, BlockStep, ScopedStep DEF ScopeInv

LEMMA ScopeAlways == Spec => []ScopeInv
  <1>1. ScopeInv /\ [Next]_vars => ScopeInv'
    BY ScopeStep
  <1>2. QED
    BY <1>1, ScopeInit, PTL DEF Spec

(* Every variable has its type in every reachable state.                    *)
THEOREM TypeCorrect == Spec => []TypeOK
  <1>1. ScopeInv => TypeOK
    BY DEF ScopeInv
  <1>2. QED
    BY <1>1, ScopeAlways, PTL

(* The watchdog lives, and the terminal is raw, only within a session: main *)
(* never gives up the record the watchdog points at before it has ended     *)
(* (nv_memtest.c:176-200).                                                  *)
THEOREM WatchdogScoped == Spec => []SessionScoped
  <1>1. ScopeInv => SessionScoped
    BY DEF ScopeInv
  <1>2. QED
    BY <1>1, ScopeAlways, PTL

(* The telemetry lines are drawn where they were drawn before               *)
(* (nv_memtest.c:71-87).                                                    *)
THEOREM DrawnInPlace == Spec => []RedrawnInPlace
  <1>1. ScopeInv => RedrawnInPlace
    BY DEF ScopeInv, Rows, RedrawnInPlace
  <1>2. QED
    BY <1>1, ScopeAlways, PTL

-----------------------------------------------------------------------------
(* A good card.  What makes NoFalseAlarm inductive is what the phases have  *)
(* left in the block so far: the words below i while it is being filled,    *)
(* all of them afterwards, and in which place of the card each word is.     *)
Done == IF phase \in {0, 2} THEN i ELSE Elements

Aimed ==
    main = "test" =>
        /\ t.current_offset = t.current_block * APERTURE_SIZE
        /\ window = Window(t.current_offset)

Filled ==
    Healthy /\ main = "test" =>
        \A k \in Nat : k < Done => vram[Cell(window, k)] = Expected(k)

Within == main = "test" => i <= Elements

AlarmInv == NoFalseAlarm /\ Aimed /\ Within /\ Filled

LEMMA AlarmInit == Init => AlarmInv
  BY DEF Init, Zeroed, AlarmInv, NoFalseAlarm, Aimed, Within, Filled

(* The words of the block under test are places of the device.              *)
LEMMA CellInDevice ==
    ASSUME ScopeInv, AlarmInv, main = "test", NEW k \in Nat, k < Elements
    PROVE  Cell(window, k) \in Device
  <1>1. t.current_block \in Blocks
    BY DEF ScopeInv, BlockChosen
  <1>2. k \in Indices
    BY ElementsInAperture DEF ScopeInv, TypeOK
  <1>3. window = Window(t.current_block * APERTURE_SIZE)
    BY DEF AlarmInv, Aimed
  <1>4. QED
    BY <1>1, <1>2, <1>3 DEF Device

(* What a good card answers, and where it stores.                           *)
LEMMA GoodCardReads ==
    ASSUME Healthy, NEW d \in Device
    PROVE  card.store[d] = d /\ Reads(d) = vram[d]
  BY DEF Healthy, StuckWords, Reads

LEMMA WordStep ==
    ASSUME ScopeInv, AlarmInv, TestWord
    PROVE  AlarmInv'
  <1> DEFINE d == Cell(window, i)
  <1>1. /\ main = "test" /\ main' = "test" /\ i \in Nat /\ i < Elements
        /\ phase \in 0 .. 3 /\ phase' = phase /\ i' = i + 1
        /\ size' = size /\ window' = window /\ card' = card
        /\ Elements \in Nat /\ window \in Nat
    <2>1. Elements \in Nat /\ i \in Nat /\ i <= Elements /\ window \in Nat
          /\ phase \in 0 .. 4
      BY ElementsInAperture
         DEF ScopeInv, TypeOK, AlarmInv, Within, TestWord
    <2>2. QED
      BY <2>1 DEF TestWord, askVars
  <1>2. /\ t'.current_offset = t.current_offset
        /\ t'.current_block = t.current_block
    BY DEF TestWord, ScopeInv, TypeOK, Telemetry
  <1>3. Elements' = Elements /\ (Healthy' <=> Healthy)
    BY <1>1 DEF Elements, Healthy, StuckWords
  <1>4. \A k \in Nat : Expected(k)' = Expected(k)
    BY <1>1, <1>2 DEF Expected, AddressOf
  <1>5. d \in Device
    BY <1>1, CellInDevice
  <1>6. NoFalseAlarm'
    <2>1. SUFFICES ASSUME Healthy PROVE t'.error_count = 0
      BY <1>3 DEF NoFalseAlarm
    <2>2. t.error_count = 0
      BY <2>1 DEF AlarmInv, NoFalseAlarm
    <2>3. ~(phase \in {1, 3} /\ Reads(d) # Expected(i))
      <3>1. Reads(d) = vram[d]
        BY <1>5, <2>1, GoodCardReads
      <3>2. phase \in {1, 3} => vram[d] = Expected(i)
        BY <1>1, <2>1 DEF AlarmInv, Filled, Done
      <3>3. QED
        BY <3>1, <3>2
    <2>4. QED
      BY <2>2, <2>3 DEF TestWord, ScopeInv, TypeOK, Telemetry
  <1>7. Aimed' /\ Within'
    BY <1>1, <1>2, <1>3 DEF AlarmInv, Aimed, Within
  <1>8. Filled'
    <2>1. SUFFICES ASSUME Healthy, NEW k \in Nat, k < Done'
                   PROVE  vram'[Cell(window, k)] = Expected(k)
      BY <1>1, <1>3, <1>4 DEF Filled
    <2>2. CASE phase \in {1, 3}
      <3>1. vram' = vram /\ Done' = Elements /\ Done = Elements
        BY <1>1, <1>3, <2>2 DEF TestWord, Done
      <3>2. QED
        BY <1>1, <2>1, <3>1 DEF AlarmInv, Filled
    <2>3. CASE phase \in {0, 2}
      <3>1. Done' = i + 1 /\ Done = i
        BY <1>1, <2>3 DEF Done
      <3>2. vram' = [vram EXCEPT ![d] = Expected(i)]
        BY <1>5, <2>1, <2>3, GoodCardReads DEF TestWord
      <3>3. CASE k = i
        BY <1>5, <3>2, <3>3 DEF ScopeInv, TypeOK
      <3>4. CASE k < i
        <4>1. Cell(window, k) # d
          BY <1>1, <3>4, CellsDiffer
        <4>2. vram'[Cell(window, k)] = vram[Cell(window, k)]
          <5>1. Cell(window, k) \in Device
            BY <1>1, <3>4, CellInDevice
          <5>2. QED
            BY <3>2, <4>1, <5>1 DEF ScopeInv, TypeOK
        <4>3. QED
          BY <1>1, <2>1, <3>1, <3>4, <4>2 DEF AlarmInv, Filled
      <3>5. QED
        BY <1>1, <2>1, <3>1, <3>3, <3>4
    <2>4. QED
      BY <1>1, <2>2, <2>3
  <1>9. QED
    BY <1>6, <1>7, <1>8 DEF AlarmInv

LEMMA PhaseStep ==
    ASSUME ScopeInv, AlarmInv, NextPhase
    PROVE  AlarmInv'
  <1>1. /\ main = "test" /\ main' = "test" /\ i = Elements /\ i' = 0
        /\ phase \in 0 .. 3 /\ phase' = phase + 1 /\ t' = t /\ vram' = vram
        /\ size' = size /\ window' = window /\ card' = card
        /\ Elements \in Nat
    <2>1. Elements \in Nat /\ phase \in 0 .. 4
      BY ElementsInAperture DEF ScopeInv, TypeOK
    <2>2. QED
      BY <2>1 DEF NextPhase, askVars
  <1>2. Elements' = Elements /\ (Healthy' <=> Healthy)
    BY <1>1 DEF Elements, Healthy, StuckWords
  <1>3. NoFalseAlarm' /\ Aimed' /\ Within'
    BY <1>1, <1>2 DEF AlarmInv, NoFalseAlarm, Aimed, Within
  <1>4. Filled'
    <2>1. CASE phase = 1
      BY <1>1, <2>1 DEF Filled, Done
    <2>2. CASE phase \in {0, 2, 3}
      <3>1. Done' = Elements /\ Done = Elements
        BY <1>1, <1>2, <2>2 DEF Done
      <3>2. \A k \in Nat : Expected(k)' = Expected(k)
        BY <1>1, <2>2 DEF Expected, AddressOf
      <3>3. QED
        BY <1>1, <1>2, <3>1, <3>2 DEF AlarmInv, Filled
    <2>3. QED
      BY <1>1, <2>1, <2>2
  <1>5. QED
    BY <1>3, <1>4 DEF AlarmInv

LEMMA ArmStep ==
    ASSUME ScopeInv, AlarmInv, ArmWindow
    PROVE  AlarmInv'
  <1>1. /\ phase' = 0 /\ i' = 0 /\ card' = card /\ size' = size
        /\ t'.current_block = t.current_block
        /\ t'.current_offset = t.current_block * APERTURE_SIZE
        /\ t'.error_count = t.error_count
        /\ window' = Window(t.current_block * APERTURE_SIZE)
    BY DEF ArmWindow, ScopeInv, TypeOK, Telemetry, askVars
  <1>2. Elements' \in Nat
    <2>1. Elements \in Nat
      BY ElementsInAperture DEF ScopeInv, TypeOK
    <2>2. QED
      BY <1>1, <2>1 DEF Elements
  <1>3. NoFalseAlarm'
    BY <1>1 DEF AlarmInv, NoFalseAlarm, Healthy, StuckWords
  <1>4. Aimed' /\ Within' /\ Filled'
    BY <1>1, <1>2 DEF Aimed, Within, Filled, Done
  <1>5. QED
    BY <1>3, <1>4 DEF AlarmInv

(* The steps that leave the test, or never were in it, may only clear the   *)
(* errors.                                                                  *)
LEMMA OutsideStep ==
    ASSUME AlarmInv, card' = card, main' # "test",
           t'.error_count \in {0, t.error_count}
    PROVE  AlarmInv'
  <1>1. NoFalseAlarm'
    BY DEF AlarmInv, NoFalseAlarm, Healthy, StuckWords
  <1>2. QED
    BY <1>1 DEF AlarmInv, Aimed, Within, Filled

LEMMA AlarmStep ==
    ASSUME ScopeInv, AlarmInv, [Next]_vars
    PROVE  AlarmInv'
  <1> USE DEF ScopeInv, TypeOK, Telemetry
  <1>1. CASE MenuAnswered
    <2>1. card' = card /\ main' # "test" /\ t'.error_count = 0
      BY <1>1 DEF MenuAnswered, Zeroed
    <2>2. QED
      BY <2>1, OutsideStep
  <1>2. CASE BlockAnswered \/ SizeAnswered \/ ConfirmAnswered
               \/ ReportDismissed \/ StartSession
    <2>1. /\ card' = card /\ main' # "test"
          /\ t'.error_count = t.error_count
      BY <1>2 DEF BlockAnswered, SizeAnswered, ConfirmAnswered,
                  ReportDismissed, StartSession
    <2>2. QED
      BY <2>1, OutsideStep
  <1>3. CASE BlockDone \/ Finish \/ Join
    <2>1. /\ card' = card /\ main' # "test"
          /\ t'.error_count = t.error_count
      BY <1>3 DEF BlockDone, NextPass, LastPass, Finish, Join
    <2>2. QED
      BY <2>1, OutsideStep
  <1>4. CASE ArmWindow
    BY <1>4, ArmStep
  <1>5. CASE TestWord
    BY <1>5, WordStep
  <1>6. CASE NextPhase
    BY <1>6, PhaseStep
  <1>7. CASE Watchdog \/ Type \/ HangUp \/ UNCHANGED vars
    <2>1. UNCHANGED <<main, t, card, size, phase, i, window, vram>>
      BY <1>7 DEF Watchdog, Type, HangUp, vars, testVars, askVars
    <2>2. QED
      BY <2>1 DEF AlarmInv, NoFalseAlarm, Aimed, Within, Filled, Healthy,
                  StuckWords, Elements, Done, Expected, AddressOf
  <1>8. QED
    BY <1>1, <1>2, <1>3, <1>4, <1>5, <1>6, <1>7 DEF Next, MainThread, Exited

(* A card that keeps each word in a place of its own and returns what was   *)
(* written never scores an error, in any session of any length, whatever    *)
(* the operator types (nv_memtest.c:115-134).                               *)
THEOREM GoodCardPasses == Spec => []NoFalseAlarm
  <1>1. ScopeInv /\ AlarmInv /\ [Next]_vars => AlarmInv'
    BY AlarmStep
  <1>2. AlarmInv => NoFalseAlarm
    BY DEF AlarmInv
  <1>3. QED
    BY <1>1, <1>2, AlarmInit, ScopeAlways, PTL DEF Spec
=============================================================================
