--------------------------- MODULE MemTestVerdict ---------------------------
(***************************************************************************)
(* Proofs about what a session of MemTest reports.                         *)
(***************************************************************************)
EXTENDS MemTestProofs, FiniteSetTheorems

-----------------------------------------------------------------------------
(* Arithmetic.                                                              *)
LEMMA OneMore ==
    ASSUME NEW e \in Nat, NEW b \in Nat
    PROVE  /\ e * b \in Nat
           /\ e * (b + 1) = e * b + e
  OBVIOUS

LEMMA NoneOf ==
    ASSUME NEW e \in Nat
    PROVE  e * 0 = 0
  OBVIOUS

LEMMA NotAfter ==
    ASSUME NEW e \in Nat, NEW b \in Nat, NEW n \in Nat, b < n
    PROVE  e * b + e <= e * n
  <1>1. PICK d \in Nat : n = b + 1 + d
    <2>1. n - b - 1 \in Nat /\ n = b + 1 + (n - b - 1)
      OBVIOUS
    <2>2. QED
      BY <2>1
  <1>2. e * n = e * b + e + e * d
    BY <1>1
  <1>3. e * d \in Nat
    BY OneMore
  <1>4. e * b \in Nat
    BY OneMore
  <1>5. QED
    BY <1>2, <1>3, <1>4

(* Division by a number that is no literal, where the provers need telling. *)
LEMMA Division ==
    ASSUME NEW x \in Nat, NEW u \in Nat, u > 0
    PROVE  /\ x = u * (x \div u) + (x % u)
           /\ x \div u \in Nat /\ x % u \in 0 .. u - 1
  <1>1. x = u * (x \div u) + (x % u)
    BY Z3
  <1>2. x \div u \in Nat /\ x % u \in 0 .. u - 1
    OBVIOUS
  <1>3. QED
    BY <1>1, <1>2

(* Multiples of u are no less than u apart.                                 *)
LEMMA Apart ==
    ASSUME NEW u \in Nat, u > 0, NEW p \in Nat, NEW q \in Nat, p < q
    PROVE  u * p + u <= u * q
  BY NotAfter

(* An even number modulo an even number is even.                            *)
LEMMA EvenRemainder ==
    ASSUME NEW x \in Nat, x % 2 = 0, NEW u \in Nat, u > 0, u % 2 = 0
    PROVE  (x % u) % 2 = 0
  <1>1. PICK a \in Nat : x = 2 * a
    <2>1. x \div 2 \in Nat /\ x = 2 * (x \div 2)
      OBVIOUS
    <2>2. QED
      BY <2>1
  <1>2. PICK v \in Nat : u = 2 * v
    <2>1. u \div 2 \in Nat /\ u = 2 * (u \div 2)
      OBVIOUS
    <2>2. QED
      BY <2>1
  <1> DEFINE q == x \div u
             r == x % u
  <1>3. x = u * q + r /\ q \in Nat /\ r \in Nat
    BY Division
  <1> HIDE DEF q, r
  <1>4. u * q = 2 * (v * q) /\ v * q \in Nat
    BY <1>2, <1>3
  <1>5. r = 2 * (a - v * q)
    BY <1>1, <1>3, <1>4
  <1>6. a - v * q \in Nat
    BY <1>3, <1>4, <1>5
  <1>7. r % 2 = 0
    BY <1>5, <1>6
  <1>8. QED
    BY <1>7 DEF r

(* Numbers less than u apart have different remainders.                     *)
LEMMA RemaindersDiffer ==
    ASSUME NEW x \in Nat, NEW y \in Nat, NEW u \in Nat, u > 0,
           x < y, y < x + u
    PROVE  x % u # y % u
  <1> SUFFICES ASSUME x % u = y % u PROVE FALSE
    OBVIOUS
  <1> DEFINE p == x \div u
             q == y \div u
             r == x % u
  <1>1. /\ x = u * p + r /\ y = u * q + r
        /\ p \in Nat /\ q \in Nat /\ r \in Nat
    BY Division
  <1> HIDE DEF p, q, r
  <1>2. u * p \in Nat /\ u * q \in Nat
    BY <1>1, OneMore
  <1>3. CASE p < q
    BY <1>1, <1>2, <1>3, Apart
  <1>4. CASE q < p
    BY <1>1, <1>2, <1>4, Apart
  <1>5. CASE p = q
    BY <1>1, <1>2, <1>5
  <1>6. QED
    BY <1>1, <1>3, <1>4, <1>5

(* The words tested of a block, at most those it has.                       *)
PerBlock == APERTURE_SIZE \div 4

LEMMA BlockWords ==
    ASSUME TypeOK
    PROVE  /\ PerBlock \in Nat /\ 4 * PerBlock = APERTURE_SIZE
           /\ Elements \in Nat /\ 4 * Elements <= size /\ Elements <= PerBlock
           /\ size = APERTURE_SIZE => Elements = PerBlock
           /\ size \in Nat
  <1>1. APERTURE_SIZE \in Nat /\ APERTURE_SIZE % 4 = 0
    BY MemAssumption
  <1>2. size \in Nat /\ size <= APERTURE_SIZE
    BY <1>1 DEF TypeOK
  <1>3. QED
    BY <1>1, <1>2 DEF PerBlock, Elements

(* The bytes of the whole device, a pass over which is sixteen times as     *)
(* many steps as it has words.                                              *)
LEMMA DeviceBytes ==
    ASSUME TypeOK, size = APERTURE_SIZE
    PROVE  /\ 4 * TOTAL_VRAM_SIZE = 16 * (Elements * TOTAL_BLOCKS)
           /\ Elements * TOTAL_BLOCKS \in Nat
  <1>1. TOTAL_BLOCKS \in Nat /\ Elements \in Nat
        /\ APERTURE_SIZE = 4 * Elements
    BY BlockWords, MemAssumption
  <1>2. TOTAL_BLOCKS * (4 * Elements) = 4 * (Elements * TOTAL_BLOCKS)
    BY <1>1
  <1>3. Elements * TOTAL_BLOCKS \in Nat
    BY <1>1, OneMore
  <1>4. QED
    BY <1>1, <1>2, <1>3 DEF TOTAL_VRAM_SIZE

-----------------------------------------------------------------------------
(* Progress.                                                                *)

(* Words of the blocks that are behind, in a session of many.               *)
Behind == IF choice = 1 THEN 0 ELSE Elements * t.current_block

Total == IF choice = 1 THEN 4 * size ELSE 4 * TOTAL_VRAM_SIZE

Whole == 16 * (IF choice = 1 THEN Elements ELSE Elements * TOTAL_BLOCKS)

(* Before a session: the counters are as the menu has left them.            *)
Fresh ==
    main \in {"block", "size", "confirm", "start"} =>
        /\ t.session_bytes_done = 0 /\ t.block_bytes_done = 0
        /\ t.error_count = 0 /\ ~t.stop_requested
        /\ main # "start" => choice = 1
        /\ main = "start" =>
              /\ choice \in {1, 2, 3} /\ t.session_bytes_total = Total
              /\ choice # 1 => t.current_block = 0

(* In a session and when it is over.                                        *)
Scale ==
    main \in Session \cup {"report"} =>
        /\ choice \in {1, 2, 3} /\ (choice # 1 => size = APERTURE_SIZE)
        /\ t.session_bytes_total = Total
        /\ t.block_bytes_done <= t.block_bytes_total

Counted ==
    /\ main = "arm" => /\ ~t.stop_requested
                       /\ t.session_bytes_done = 16 * Behind
    /\ main = "test" =>
        /\ i <= Elements /\ (phase = 4 => i = 0)
        /\ t.block_bytes_total = 4 * size
        /\ t.block_bytes_done = 4 * (phase * Elements + i)
        /\ t.session_bytes_done = 16 * Behind + t.block_bytes_done
    /\ main \in {"finish", "join", "report"} =>
        /\ t.session_bytes_done <= t.session_bytes_total
        /\ ~t.stop_requested => choice # 3 /\ t.session_bytes_done = Whole

ProgressInv == ScopeInv /\ Fresh /\ Scale /\ Counted

LEMMA ProgressInit == Init => ProgressInv
  BY ScopeInit DEF Init, ProgressInv, Fresh, Scale, Counted, Session

(* A step that leaves all they speak of alone.                              *)
LEMMA ProgressStutter ==
    ASSUME ProgressInv, UNCHANGED <<main, t, choice, size, phase, i>>
    PROVE  (Fresh /\ Scale /\ Counted)'
  BY DEF ProgressInv, Fresh, Scale, Counted, Behind, Total, Whole, Elements,
         Session

LEMMA QuestionProgress ==
    ASSUME ProgressInv,
           MenuAnswered \/ BlockAnswered \/ SizeAnswered \/ ConfirmAnswered
             \/ ReportDismissed \/ StartSession
    PROVE  (Fresh /\ Scale /\ Counted)'
  <1> USE DEF ProgressInv, ScopeInv, TypeOK, Telemetry, Session
  <1>1. CASE MenuAnswered
    <2>1. /\ main' \in {"quit", "block", "start", "menu"}
          /\ main' = "block" => choice' = 1
          /\ main' = "start" => choice' \in {2, 3}
          /\ t' = [Zeroed EXCEPT !.session_bytes_total = 4 * TOTAL_VRAM_SIZE]
      <3>1. PICK answer \in Lines :
              /\ choice' = Atoi[answer]
              /\ main' = CASE Atoi[answer] = 4          -> "quit"
                           [] Atoi[answer] = 1          -> "block"
                           [] Atoi[answer] \in {2, 3}   -> "start"
                           [] OTHER                     -> "menu"
        BY <1>1 DEF MenuAnswered
      <3>2. t' = [Zeroed EXCEPT !.session_bytes_total = 4 * TOTAL_VRAM_SIZE]
        BY <1>1 DEF MenuAnswered
      <3>3. QED
        BY <3>1, <3>2
    <2>2. /\ t'.session_bytes_done = 0 /\ t'.block_bytes_done = 0
          /\ t'.error_count = 0 /\ ~t'.stop_requested
          /\ t'.session_bytes_total = 4 * TOTAL_VRAM_SIZE
          /\ t'.current_block = 0
      BY <2>1 DEF Zeroed
    <2>3. QED
      BY <2>1, <2>2 DEF Fresh, Scale, Counted, Total
  <1>2. CASE BlockAnswered
    <2>1. /\ main = "block" /\ main' \in {"size", "menu"} /\ choice' = choice
          /\ t'.session_bytes_done = t.session_bytes_done
          /\ t'.block_bytes_done = t.block_bytes_done
          /\ t'.error_count = t.error_count
          /\ t'.stop_requested = t.stop_requested
      BY <1>2 DEF BlockAnswered
    <2>2. QED
      BY <2>1 DEF Fresh, Scale, Counted
  <1>3. CASE SizeAnswered
    BY <1>3 DEF SizeAnswered, Fresh, Scale, Counted
  <1>4. CASE ConfirmAnswered
    <2>1. /\ main = "confirm" /\ main' \in {"menu", "start"}
          /\ UNCHANGED <<choice, size>>
          /\ t'.session_bytes_done = t.session_bytes_done
          /\ t'.block_bytes_done = t.block_bytes_done
          /\ t'.error_count = t.error_count
          /\ t'.stop_requested = t.stop_requested
          /\ t'.session_bytes_total = 4 * size
      BY <1>4 DEF ConfirmAnswered
    <2>2. QED
      BY <2>1 DEF Fresh, Scale, Counted, Total
  <1>5. CASE ReportDismissed
    BY <1>5 DEF ReportDismissed, Fresh, Scale, Counted
  <1>6. CASE StartSession
    <2>1. /\ main = "start" /\ main' = "arm" /\ choice' = choice
          /\ size' = IF choice = 1 THEN size ELSE APERTURE_SIZE
          /\ t'.session_bytes_done = t.session_bytes_done
          /\ t'.session_bytes_total = t.session_bytes_total
          /\ t'.block_bytes_done = t.block_bytes_done
          /\ t'.block_bytes_total = t.block_bytes_total
          /\ t'.current_block = t.current_block
          /\ t'.stop_requested = t.stop_requested
      BY <1>6 DEF StartSession
    <2>2. Behind' = 0
      <3>1. CASE choice = 1
        BY <2>1, <3>1 DEF Behind
      <3>2. CASE choice # 1
        <4>1. t'.current_block = 0 /\ Elements' \in Nat
          BY <2>1, <3>2, BlockWords, MemAssumption DEF Fresh, Elements
        <4>2. Behind' = Elements' * 0
          BY <2>1, <3>2, <4>1 DEF Behind
        <4>3. QED
          BY <4>1, <4>2, NoneOf
      <3>3. QED
        BY <3>1, <3>2
    <2>3. Fresh'
      BY <2>1 DEF Fresh
    <2>4. Scale'
      <3>1. t.block_bytes_total \in Nat
        OBVIOUS
      <3>2. QED
        BY <2>1, <3>1 DEF Fresh, Scale, Total
    <2>5. Counted'
      BY <2>1, <2>2 DEF Fresh, Counted
    <2>6. QED
      BY <2>3, <2>4, <2>5
  <1>7. QED
    BY <1>1, <1>2, <1>3, <1>4, <1>5, <1>6
(* The words gone over in the block under test.                             *)
LEMMA BlockBytes ==
    ASSUME ProgressInv, main = "test"
    PROVE  /\ phase * Elements \in Nat
           /\ phase * Elements + i <= 4 * Elements
           /\ phase < 4 => phase * Elements + Elements <= 4 * Elements
           /\ (phase + 1) * Elements = phase * Elements + Elements
  <1>1. Elements \in Nat /\ i \in Nat /\ phase \in 0 .. 4
        /\ i <= Elements /\ (phase = 4 => i = 0)
    BY BlockWords DEF ProgressInv, ScopeInv, TypeOK, Counted
  <1>2. phase = 0 \/ phase = 1 \/ phase = 2 \/ phase = 3 \/ phase = 4
    BY <1>1
  <1>3. /\ 0 * Elements = 0 /\ 1 * Elements = Elements
        /\ 2 * Elements = Elements + Elements
        /\ 3 * Elements = Elements + Elements + Elements
        /\ 4 * Elements = Elements + Elements + Elements + Elements
        /\ 5 * Elements = 4 * Elements + Elements
    BY <1>1
  <1>4. QED
    BY <1>1, <1>2, <1>3

(* The words of the blocks that are behind, and of all of them.             *)
LEMMA BehindBounds ==
    ASSUME ProgressInv, main \in {"arm", "test"}
    PROVE  /\ Behind \in Nat /\ Whole \in Nat /\ t.session_bytes_total = Total
           /\ 16 * (Behind + Elements) <= Whole /\ Whole <= Total
           /\ choice # 1 /\ t.current_block + 1 = TOTAL_BLOCKS =>
                  16 * (Behind + Elements) = Whole
           /\ choice = 1 => 16 * (Behind + Elements) = Whole
  <1>1. /\ Elements \in Nat /\ 4 * Elements <= size /\ size \in Nat
        /\ t.session_bytes_total = Total
    BY BlockWords DEF ProgressInv, ScopeInv, Scale, Session
  <1>2. CASE choice = 1
    BY <1>1, <1>2 DEF Behind, Whole, Total
  <1>3. CASE choice # 1
    <2> DEFINE E == Elements
               b == t.current_block
               n == TOTAL_BLOCKS
    <2>1. size = APERTURE_SIZE
      BY <1>3 DEF ProgressInv, Scale, Session
    <2>2. b \in Nat /\ n \in Nat /\ b < n /\ E \in Nat
      BY <1>1, MemAssumption DEF ProgressInv, ScopeInv, BlockChosen, Blocks
    <2>3. /\ Behind = E * b /\ Whole = 16 * (E * n)
          /\ Total = 4 * TOTAL_VRAM_SIZE
      BY <1>3 DEF Behind, Whole, Total
    <2>4. 4 * TOTAL_VRAM_SIZE = 16 * (E * n) /\ E * n \in Nat
      BY <2>1, DeviceBytes DEF ProgressInv, ScopeInv
    <2> HIDE DEF E, b, n
    <2>5. E * b \in Nat /\ E * (b + 1) = E * b + E
      BY <2>2, OneMore
    <2>6. E * b + E <= E * n
      BY <2>2, NotAfter
    <2>7. b + 1 = n => E * b + E = E * n
      BY <2>2, <2>5
    <2>8. QED
      BY <1>1, <1>3, <2>3, <2>4, <2>5, <2>6, <2>7 DEF E, b, n
  <1>4. QED
    BY <1>2, <1>3

LEMMA WordProgress ==
    ASSUME ProgressInv, TestWord
    PROVE  (Fresh /\ Scale /\ Counted)'
  <1> USE DEF ProgressInv, ScopeInv, TypeOK, Telemetry, Session
  <1>1. /\ main = "test" /\ main' = "test" /\ phase < 4 /\ i < Elements
        /\ phase \in 0 .. 4 /\ i \in Nat
        /\ phase' = phase /\ i' = i + 1 /\ UNCHANGED <<choice, size>>
    BY DEF TestWord, askVars
  <1>2. /\ t'.session_bytes_done = t.session_bytes_done + 4
        /\ t'.block_bytes_done = t.block_bytes_done + 4
        /\ t'.session_bytes_total = t.session_bytes_total
        /\ t'.block_bytes_total = t.block_bytes_total
        /\ t'.current_block = t.current_block
    BY DEF TestWord
  <1>3. Elements' = Elements /\ Behind' = Behind /\ Total' = Total
    BY <1>1, <1>2 DEF Elements, Behind, Total
  <1>4. /\ Elements \in Nat /\ 4 * Elements <= size /\ size \in Nat
    BY BlockWords
  <1>5. /\ t.block_bytes_total = 4 * size
        /\ t.block_bytes_done = 4 * (phase * Elements + i)
        /\ t.session_bytes_done = 16 * Behind + t.block_bytes_done
    BY <1>1 DEF Counted
  <1> DEFINE q == phase * Elements
  <1>6. q \in Nat /\ q + Elements <= 4 * Elements
    BY <1>1, BlockBytes
  <1>7. q' = q
    BY <1>1, <1>3
  <1>8. Behind \in Nat
    BY <1>1, BehindBounds
  <1> HIDE DEF q
  <1>9. 4 * (q + i) + 4 = 4 * (q + (i + 1)) /\ 4 * (q + (i + 1)) <= 4 * size
    BY <1>1, <1>4, <1>6
  <1>10. Fresh'
    BY <1>1 DEF Fresh
  <1>11. t.block_bytes_done = 4 * (q + i)
    BY <1>5 DEF q
  <1>12. t'.block_bytes_done = 4 * (q + (i + 1))
    BY <1>2, <1>9, <1>11
  <1>13. Scale'
    BY <1>1, <1>2, <1>3, <1>5, <1>9, <1>12 DEF Scale
  <1>14. t'.block_bytes_done = 4 * (phase' * Elements' + i')
    BY <1>1, <1>3, <1>12 DEF q
  <1>15. t'.session_bytes_done = 16 * Behind' + t'.block_bytes_done
    BY <1>2, <1>3, <1>5, <1>8
  <1>16. Counted'
    BY <1>1, <1>2, <1>3, <1>4, <1>5, <1>14, <1>15 DEF Counted
  <1>17. QED
    BY <1>10, <1>13, <1>16

LEMMA PhaseProgress ==
    ASSUME ProgressInv, NextPhase
    PROVE  (Fresh /\ Scale /\ Counted)'
  <1> USE DEF ProgressInv, ScopeInv, TypeOK, Telemetry, Session
  <1>1. /\ main = "test" /\ main' = "test" /\ phase < 4 /\ i = Elements
        /\ phase \in 0 .. 4
        /\ phase' = phase + 1 /\ i' = 0 /\ UNCHANGED <<t, choice, size>>
    BY DEF NextPhase, askVars
  <1>2. Elements' = Elements /\ Behind' = Behind /\ Total' = Total
    BY <1>1 DEF Elements, Behind, Total
  <1>3. Elements \in Nat
    BY BlockWords
  <1>4. (phase + 1) * Elements + 0 = phase * Elements + Elements
    BY <1>1, <1>3, BlockBytes
  <1>5. phase' * Elements' + i' = phase * Elements + i
    BY <1>1, <1>2, <1>4
  <1>6. Fresh' /\ Scale'
    BY <1>1, <1>2 DEF Fresh, Scale
  <1>7. Counted'
    BY <1>1, <1>2, <1>3, <1>5 DEF Counted
  <1>8. QED
    BY <1>6, <1>7

LEMMA ArmProgress ==
    ASSUME ProgressInv, ArmWindow
    PROVE  (Fresh /\ Scale /\ Counted)'
  <1> USE DEF ProgressInv, ScopeInv, TypeOK, Telemetry, Session
  <1>1. /\ main = "arm" /\ main' = "test" /\ phase' = 0 /\ i' = 0
        /\ UNCHANGED <<choice, size>>
        /\ t'.session_bytes_done = t.session_bytes_done
        /\ t'.session_bytes_total = t.session_bytes_total
        /\ t'.block_bytes_done = 0 /\ t'.block_bytes_total = 4 * size
        /\ t'.current_block = t.current_block
    BY DEF ArmWindow, askVars
  <1>2. Elements' = Elements /\ Behind' = Behind /\ Total' = Total
    BY <1>1 DEF Elements, Behind, Total
  <1>3. Elements \in Nat /\ size \in Nat /\ Behind \in Nat
    BY <1>1, BlockWords, BehindBounds
  <1>4. Fresh' /\ Scale'
    BY <1>1, <1>2, <1>3 DEF Fresh, Scale
  <1>5. phase' * Elements' + i' = 0
    BY <1>1, <1>2, <1>3
  <1>6. Counted'
    BY <1>1, <1>2, <1>3, <1>5 DEF Counted
  <1>7. QED
    BY <1>4, <1>6

LEMMA DoneProgress ==
    ASSUME ProgressInv, BlockDone
    PROVE  (Fresh /\ Scale /\ Counted)'
  <1> USE DEF ProgressInv, ScopeInv, TypeOK, Telemetry, Session
  <1>1. /\ main = "test" /\ UNCHANGED <<choice, size>>
        /\ phase = 4 \/ t.stop_requested
    BY DEF BlockDone, askVars
  <1>2. Elements' = Elements /\ Total' = Total /\ Whole' = Whole
    BY <1>1 DEF Elements, Total, Whole
  <1>3. Elements \in Nat
    BY BlockWords
  <1> DEFINE q == phase * Elements + i
  <1>4. /\ q \in Nat /\ q <= 4 * Elements
        /\ phase = 4 => q = 4 * Elements
    <2>1. phase = 4 => i = 0
      BY <1>1 DEF Counted
    <2>2. QED
      BY <1>1, <1>3, <2>1, BlockBytes
  <1>5. t.session_bytes_done = 16 * Behind + 4 * q
    BY <1>1 DEF Counted
  <1> HIDE DEF q
  <1>6. /\ Behind \in Nat /\ Whole \in Nat /\ t.session_bytes_total = Total
        /\ 16 * (Behind + Elements) <= Whole /\ Whole <= Total
        /\ choice # 1 /\ t.current_block + 1 = TOTAL_BLOCKS =>
               16 * (Behind + Elements) = Whole
        /\ choice = 1 => 16 * (Behind + Elements) = Whole
    BY <1>1, BehindBounds
  <1>7. t.session_bytes_done <= 16 * (Behind + Elements)
    BY <1>3, <1>4, <1>5, <1>6
  <1>8. phase = 4 => t.session_bytes_done = 16 * (Behind + Elements)
    BY <1>3, <1>4, <1>5, <1>6
  <1>9. Total \in Int
    BY <1>6
  <1>10. t.session_bytes_done <= Total
    BY <1>3, <1>6, <1>7, <1>9
  <1>11. CASE choice = 1
    <2>1. t' = t /\ main' = "finish"
      BY <1>11 DEF BlockDone
    <2>2. ~t.stop_requested => t.session_bytes_done = Whole
      BY <1>1, <1>6, <1>8, <1>11
    <2>3. QED
      BY <1>1, <1>2, <1>6, <1>10, <1>11, <2>1, <2>2 DEF Fresh, Scale, Counted
  <1>12. CASE choice # 1 /\ ~LoopOver
    <2>1. /\ main' = "arm" /\ t' = [t EXCEPT !.current_block = @ + 1]
      BY <1>12 DEF BlockDone
    <2>2. phase = 4 /\ ~t.stop_requested
      BY <1>1, <1>12 DEF LoopOver
    <2>3. Behind' = Behind + Elements
      <3>1. t.current_block \in Nat /\ t'.current_block = t.current_block + 1
        BY <1>1, <2>1, MemAssumption DEF BlockChosen, Blocks
      <3>2. QED
        BY <1>1, <1>2, <1>3, <1>12, <3>1, OneMore DEF Behind
    <2>4. QED
      BY <1>1, <1>2, <1>8, <1>12, <2>1, <2>2, <2>3 DEF Fresh, Scale, Counted
  <1>13. CASE choice # 1 /\ LoopOver /\ Again
    <2>1. /\ main' = "arm" /\ t'.current_block = 0 /\ t'.session_bytes_done = 0
          /\ UNCHANGED <<t.session_bytes_total, t.block_bytes_total,
                         t.block_bytes_done, t.stop_requested>>
      BY <1>13 DEF BlockDone, NextPass
    <2>2. Behind' = 0
      BY <1>1, <1>2, <1>3, <1>13, <2>1 DEF Behind
    <2>3. QED
      BY <1>1, <1>2, <1>13, <2>1, <2>2 DEF Fresh, Scale, Counted, Again
  <1>14. CASE choice # 1 /\ LoopOver /\ ~Again
    <2>1. /\ main' = "finish"
          /\ UNCHANGED <<t.session_bytes_total, t.block_bytes_total,
                         t.session_bytes_done, t.block_bytes_done,
                         t.stop_requested>>
      BY <1>14 DEF BlockDone, LastPass
    <2>2. ~t.stop_requested => choice # 3 /\ t.session_bytes_done = Whole
      BY <1>1, <1>6, <1>8, <1>14 DEF Again, LoopOver
    <2>3. QED
      BY <1>1, <1>2, <1>6, <1>10, <1>14, <2>1, <2>2
         DEF Fresh, Scale, Counted
  <1>15. QED
    BY <1>11, <1>12, <1>13, <1>14

LEMMA ProgressStep ==
    ASSUME ProgressInv, [Next]_vars
    PROVE  ProgressInv'
  <1>1. ScopeInv'
    BY ScopeStep DEF ProgressInv
  <1>2. (Fresh /\ Scale /\ Counted)'
    <2>1. CASE Finish \/ Join
      <3>1. /\ main \in {"finish", "join"} /\ main' \in {"join", "report"}
            /\ UNCHANGED <<choice, size>>
            /\ UNCHANGED <<t.session_bytes_total, t.block_bytes_total,
                           t.session_bytes_done, t.block_bytes_done,
                           t.stop_requested>>
        BY <2>1 DEF Finish, Join, askVars, ProgressInv, ScopeInv, TypeOK,
                    Telemetry
      <3>2. QED
        BY <3>1 DEF ProgressInv, Fresh, Scale, Counted, Total, Whole, Elements,
                    Session
    <2>2. CASE Watchdog \/ Type \/ HangUp \/ UNCHANGED vars
      <3>1. UNCHANGED <<main, t, choice, size, phase, i>>
        BY <2>2 DEF Watchdog, Type, HangUp, vars, testVars, askVars
      <3>2. QED
        BY <3>1, ProgressStutter
    <2>3. QED
      BY <2>1, <2>2, QuestionProgress, WordProgress, PhaseProgress,
         ArmProgress, DoneProgress DEF Next, MainThread, Exited
  <1>3. QED
    BY <1>1, <1>2 DEF ProgressInv

LEMMA ProgressAlways == Spec => []ProgressInv
  <1>1. ProgressInv /\ [Next]_vars => ProgressInv'
    BY ProgressStep
  <1>2. QED
    BY <1>1, ProgressInit, PTL DEF Spec

(* Neither progress bar runs past its end in any session of any length, and *)
(* a session that completes has gone four times over every word of every    *)
(* block it was to test (nv_memtest.c:117, 129-130, 186, 227-229).          *)
THEOREM ProgressTrue == Spec => []ProgressAddsUp
  <1>1. ProgressInv => ProgressAddsUp
    <2> SUFFICES ASSUME ProgressInv PROVE ProgressAddsUp
      OBVIOUS
    <2>1. ASSUME main \in Session \cup {"report"}
          PROVE  t.session_bytes_done <= t.session_bytes_total
      <3>1. CASE main \in {"finish", "join", "report"}
        BY <3>1 DEF ProgressInv, Counted
      <3>2. CASE main \in {"arm", "test"}
        <4>1. /\ Behind \in Nat /\ Whole \in Nat /\ t.session_bytes_total = Total
              /\ 16 * (Behind + Elements) <= Whole /\ Whole <= Total
              /\ Total \in Nat
          BY <3>2, BehindBounds DEF ProgressInv, ScopeInv, TypeOK, Telemetry
        <4>2. Elements \in Nat
          BY BlockWords DEF ProgressInv, ScopeInv
        <4>3. t.session_bytes_done <= 16 * (Behind + Elements)
          <5>1. CASE main = "arm"
            BY <4>1, <4>2, <5>1 DEF ProgressInv, Counted
          <5>2. CASE main = "test"
            <6>1. /\ phase * Elements \in Nat
                  /\ phase * Elements + i <= 4 * Elements /\ i \in Nat
              BY <5>2, BlockBytes DEF ProgressInv, ScopeInv, TypeOK
            <6>2. t.session_bytes_done = 16 * Behind + 4 * (phase * Elements + i)
              BY <5>2 DEF ProgressInv, Counted
            <6>3. QED
              BY <4>1, <4>2, <6>1, <6>2
          <5>3. QED
            BY <3>2, <5>1, <5>2
        <4>4. t.session_bytes_done \in Nat
          BY DEF ProgressInv, ScopeInv, TypeOK, Telemetry
        <4>5. QED
          BY <4>1, <4>2, <4>3, <4>4
      <3>3. QED
        BY <2>1, <3>1, <3>2 DEF Session
    <2>2. ASSUME main = "report", ~t.stop_requested
          PROVE  t.session_bytes_done = 16 * Elements * Cardinality(TestedBlocks)
      <3>1. t.session_bytes_done = Whole
        BY <2>2 DEF ProgressInv, Counted
      <3>2. Elements \in Nat
        BY BlockWords DEF ProgressInv, ScopeInv
      <3>3. CASE choice = 1
        <4>1. Cardinality(TestedBlocks) = 1
          BY <3>3, FS_Singleton DEF TestedBlocks
        <4>2. QED
          BY <3>1, <3>2, <3>3, <4>1 DEF Whole
      <3>4. CASE choice # 1
        <4>1. TOTAL_BLOCKS \in Nat \ {0}
          BY Sizes
        <4>2. Cardinality(0 .. TOTAL_BLOCKS - 1) = TOTAL_BLOCKS
          BY <4>1, FS_Interval
        <4>3. QED
          BY <3>1, <3>2, <3>4, <4>1, <4>2 DEF Whole, TestedBlocks, Blocks
      <3>5. QED
        BY <3>3, <3>4
    <2>3. QED
      BY <2>1, <2>2 DEF ProgressAddsUp, ProgressInv, Scale
  <1>2. QED
    BY <1>1, ProgressAlways, PTL
-----------------------------------------------------------------------------
(* The words of the device, and the evidence of its faults.                 *)
WordAt(b, k) == Cell(Window(b * APERTURE_SIZE), k)

LEMMA WordAddress ==
    ASSUME NEW b \in Blocks, NEW k \in Nat
    PROVE  /\ WordAt(b, k) = b * APERTURE_SIZE + 4 * k
           /\ b \in Nat /\ b * APERTURE_SIZE \in Nat
           /\ k < PerBlock => WordAt(b, k) \in Device
  <1>1. b \in Nat /\ PerBlock \in Nat
    BY MemAssumption DEF Blocks, PerBlock
  <1>2. k < PerBlock => k \in Indices
    BY <1>1 DEF Indices, PerBlock
  <1>3. QED
    BY <1>1, <1>2, OffsetType DEF WordAt, Cell, Device

(* A word belongs to one block, at one place of it.                         *)
LEMMA WordsDiffer ==
    ASSUME NEW b \in Blocks, NEW c \in Blocks, NEW j \in Nat, NEW k \in Nat,
           j < PerBlock, k < PerBlock, WordAt(b, j) = WordAt(c, k)
    PROVE  b = c /\ j = k
  <1> DEFINE A == APERTURE_SIZE
  <1>1. /\ b * A + 4 * j = c * A + 4 * k /\ b * A \in Nat /\ c * A \in Nat
        /\ b \in Nat /\ c \in Nat
    BY WordAddress
  <1>2. A \in Nat /\ 4 * j < A /\ 4 * k < A
    BY MemAssumption DEF PerBlock
  <1> HIDE DEF A
  <1>3. b * A = A * b /\ c * A = A * c
    BY <1>1, <1>2
  <1>4. CASE b < c
    <2>1. A * b + A <= A * c
      BY <1>1, <1>2, <1>4, NotAfter
    <2>2. QED
      BY <1>1, <1>2, <1>3, <2>1
  <1>5. CASE c < b
    <2>1. A * c + A <= A * b
      BY <1>1, <1>2, <1>5, NotAfter
    <2>2. QED
      BY <1>1, <1>2, <1>3, <2>1
  <1>6. CASE b = c
    BY <1>1, <1>6
  <1>7. QED
    BY <1>1, <1>4, <1>5, <1>6

(* What the phases expect tells the words of a block from each other, and   *)
(* from the pattern.                                                        *)
LEMMA AddressesDiffer ==
    ASSUME NEW b \in Blocks, t.current_offset = b * APERTURE_SIZE,
           NEW j \in Nat, NEW k \in Nat, j < PerBlock, k < PerBlock, j # k
    PROVE  AddressOf(j) # AddressOf(k)
  <1> DEFINE o == b * APERTURE_SIZE
  <1>1. o \in Nat
    BY WordAddress
  <1>2. U32 \in Nat /\ U32 > 0 /\ 4 * j < U32 /\ 4 * k < U32
    BY MemAssumption DEF PerBlock
  <1>3. AddressOf(j) = (o + 4 * j) % U32 /\ AddressOf(k) = (o + 4 * k) % U32
    BY DEF AddressOf
  <1> HIDE DEF o
  <1>4. CASE j < k
    <2>1. /\ o + 4 * j \in Nat /\ o + 4 * k \in Nat
          /\ o + 4 * j < o + 4 * k /\ o + 4 * k < (o + 4 * j) + U32
      BY <1>1, <1>2, <1>4
    <2>2. QED
      BY <1>2, <1>3, <2>1, RemaindersDiffer
  <1>5. CASE k < j
    <2>1. /\ o + 4 * j \in Nat /\ o + 4 * k \in Nat
          /\ o + 4 * k < o + 4 * j /\ o + 4 * j < (o + 4 * k) + U32
      BY <1>1, <1>2, <1>5
    <2>2. QED
      BY <1>2, <1>3, <2>1, RemaindersDiffer
  <1>6. QED
    BY <1>4, <1>5

LEMMA PatternIsNoAddress ==
    ASSUME NEW b \in Blocks, t.current_offset = b * APERTURE_SIZE, NEW k \in Nat
    PROVE  AddressOf(k) # Pattern
  <1> DEFINE o == b * APERTURE_SIZE
  <1>1. o \in Nat /\ b \in Nat
    BY WordAddress
  <1>2. PerBlock \in Nat /\ APERTURE_SIZE = 4 * PerBlock
    BY MemAssumption DEF PerBlock
  <1>3. o = 2 * (2 * (b * PerBlock)) /\ b * PerBlock \in Nat
    BY <1>1, <1>2
  <1>4. AddressOf(k) = (o + 4 * k) % U32
    BY DEF AddressOf
  <1> HIDE DEF o
  <1> DEFINE p == b * PerBlock
  <1>5. o = 2 * (2 * p) /\ p \in Nat
    BY <1>3
  <1> HIDE DEF p
  <1>6. o + 4 * k \in Nat /\ (o + 4 * k) % 2 = 0
    BY <1>5
  <1>7. AddressOf(k) % 2 = 0
    <2>1. U32 \in Nat /\ U32 > 0 /\ U32 % 2 = 0
      BY MemAssumption
    <2>2. ((o + 4 * k) % U32) % 2 = 0
      BY <1>6, <2>1, EvenRemainder
    <2>3. QED
      BY <1>4, <2>2
  <1>8. Pattern % 2 = 1
    BY MemAssumption
  <1>9. QED
    BY <1>7, <1>8

(* Nothing is wrong with the words of block b that are tested: none is      *)
(* stuck and no two share a place.                                          *)
Sound(b) ==
    \A k \in 0 .. Elements - 1 :
        /\ card.stuck[WordAt(b, k)] = Ok
        /\ \A j \in 0 .. Elements - 1 :
              j # k => card.store[WordAt(b, j)] # card.store[WordAt(b, k)]

(* The faults a session can reveal, as its words show them.                 *)
LEMMA WordsOfBlock ==
    ASSUME NEW b \in Blocks, NEW n \in Nat, n <= PerBlock
    PROVE  /\ WordsOf(b, n) = {WordAt(b, k) : k \in 0 .. n - 1}
           /\ WordsOf(b, n) \subseteq WordsOf(b, PerBlock)
           /\ WordsOf(b, n) \subseteq Device
  <1>1. WordsOf(b, n) = {WordAt(b, k) : k \in 0 .. n - 1}
    BY DEF WordsOf, WordAt
  <1>2. PerBlock \in Nat
    BY MemAssumption DEF PerBlock
  <1>3. WordsOf(b, n) \subseteq WordsOf(b, PerBlock)
    BY <1>2 DEF WordsOf
  <1>4. \A k \in 0 .. n - 1 : WordAt(b, k) \in Device
    BY <1>2, WordAddress
  <1>5. QED
    BY <1>1, <1>3, <1>4

LEMMA TestedIsBlocks ==
    ASSUME TypeOK, TestedBlocks \subseteq Blocks
    PROVE  /\ Tested \subseteq Device
           /\ \A b \in Blocks, k \in 0 .. PerBlock - 1 :
                 WordAt(b, k) \in Tested <=>
                    b \in TestedBlocks /\ k \in 0 .. Elements - 1
  <1>1. Elements \in Nat /\ Elements <= PerBlock /\ PerBlock \in Nat
    BY BlockWords
  <1>2. \A b \in TestedBlocks :
           /\ WordsOf(b, Elements) = {WordAt(b, k) : k \in 0 .. Elements - 1}
           /\ WordsOf(b, Elements) \subseteq Device
    BY <1>1, WordsOfBlock
  <1>3. Tested \subseteq Device
    BY <1>2 DEF Tested
  <1>4. ASSUME NEW b \in Blocks, NEW k \in 0 .. PerBlock - 1,
               WordAt(b, k) \in Tested
        PROVE  b \in TestedBlocks /\ k \in 0 .. Elements - 1
    <2>1. PICK c \in TestedBlocks : WordAt(b, k) \in WordsOf(c, Elements)
      BY <1>4 DEF Tested
    <2>2. PICK j \in 0 .. Elements - 1 : WordAt(b, k) = WordAt(c, j)
      BY <1>2, <2>1
    <2>3. b = c /\ k = j
      BY <1>1, <2>2, WordsDiffer
    <2>4. QED
      BY <2>1, <2>2, <2>3
  <1>5. ASSUME NEW b \in TestedBlocks, NEW k \in 0 .. Elements - 1
        PROVE  WordAt(b, k) \in Tested
    BY <1>2 DEF Tested
  <1>6. QED
    BY <1>3, <1>4, <1>5

(* A word of the device is a word of one of its blocks.                     *)
LEMMA DeviceWords ==
    ASSUME NEW d \in Device
    PROVE  \E b \in Blocks, k \in 0 .. PerBlock - 1 : d = WordAt(b, k)
  BY DEF Device, WordAt, Indices, PerBlock
(* The evidence of the card, read off its words: a session over sound words *)
(* covers none of it, any other covers some.                                *)
LEMMA SharedPlace ==
    ASSUME NEW b \in Blocks, NEW d, NEW e,
           d \in WordsOf(b, PerBlock), e \in WordsOf(b, PerBlock), d # e,
           d \notin StuckWords, e \notin StuckWords, card.store[d] = card.store[e]
    PROVE  {d, e} \in Evidence
  <1>1. /\ d \in WordsOf(b, APERTURE_SIZE \div 4) \ StuckWords
        /\ e \in WordsOf(b, APERTURE_SIZE \div 4) \ StuckWords
    BY DEF PerBlock
  <1>2. {d, e} \in SharedPlaces(b)
    BY <1>1 DEF SharedPlaces
  <1>3. QED
    BY <1>2 DEF Evidence

LEMMA UnsoundIsFaulty ==
    ASSUME TypeOK, TestedBlocks \subseteq Blocks,
           NEW b \in TestedBlocks, ~Sound(b)
    PROVE  \E words \in Evidence : words \subseteq Tested
  <1>1. Elements \in Nat /\ Elements <= PerBlock /\ PerBlock \in Nat
    BY BlockWords
  <1>2. PICK k \in 0 .. Elements - 1 :
            \/ card.stuck[WordAt(b, k)] # Ok
            \/ \E j \in 0 .. Elements - 1 :
                  j # k /\ card.store[WordAt(b, j)] = card.store[WordAt(b, k)]
    BY DEF Sound
  <1>3. \A n \in 0 .. Elements - 1 :
           /\ WordAt(b, n) \in Tested /\ WordAt(b, n) \in Device
           /\ WordAt(b, n) \in WordsOf(b, PerBlock)
    BY <1>1, TestedIsBlocks, WordAddress DEF WordsOf, WordAt
  <1>4. ASSUME NEW n \in 0 .. Elements - 1, card.stuck[WordAt(b, n)] # Ok
        PROVE  \E words \in Evidence : words \subseteq Tested
    <2>1. WordAt(b, n) \in StuckWords
      BY <1>3, <1>4 DEF StuckWords
    <2>2. {WordAt(b, n)} \in Evidence
      BY <2>1 DEF Evidence
    <2>3. {WordAt(b, n)} \subseteq Tested
      BY <1>3
    <2>4. QED
      BY <2>2, <2>3
  <1>5. ASSUME NEW j \in 0 .. Elements - 1, j # k,
               card.store[WordAt(b, j)] = card.store[WordAt(b, k)],
               card.stuck[WordAt(b, k)] = Ok, card.stuck[WordAt(b, j)] = Ok
        PROVE  \E words \in Evidence : words \subseteq Tested
    <2>1. WordAt(b, j) # WordAt(b, k)
      BY <1>1, <1>5, WordsDiffer
    <2>2. WordAt(b, j) \notin StuckWords /\ WordAt(b, k) \notin StuckWords
      BY <1>5 DEF StuckWords
    <2>3. {WordAt(b, j), WordAt(b, k)} \in Evidence
      BY <1>3, <1>5, <2>1, <2>2, SharedPlace
    <2>4. {WordAt(b, j), WordAt(b, k)} \subseteq Tested
      BY <1>3
    <2>5. QED
      BY <2>3, <2>4
  <1>6. QED
    BY <1>2, <1>4, <1>5

LEMMA FaultyIsUnsound ==
    ASSUME TypeOK, TestedBlocks \subseteq Blocks,
           NEW words \in Evidence, words \subseteq Tested
    PROVE  \E b \in TestedBlocks : ~Sound(b)
  <1>1. Elements \in Nat /\ Elements <= PerBlock /\ PerBlock \in Nat
    BY BlockWords
  <1>2. CASE \E d \in StuckWords : words = {d}
    <2>1. PICK d \in StuckWords : words = {d}
      BY <1>2
    <2>2. d \in Device /\ card.stuck[d] # Ok /\ d \in Tested
      BY <2>1 DEF StuckWords
    <2>3. PICK b \in Blocks, k \in 0 .. PerBlock - 1 : d = WordAt(b, k)
      BY <2>2, DeviceWords
    <2>4. b \in TestedBlocks /\ k \in 0 .. Elements - 1
      BY <2>2, <2>3, TestedIsBlocks
    <2>5. QED
      BY <2>2, <2>3, <2>4 DEF Sound
  <1>3. CASE \E b \in Blocks : \E pair \in SharedPlaces(b) :
                words = pair /\ \E d, e \in pair :
                   d # e /\ card.store[d] = card.store[e]
    <2>1. PICK b \in Blocks : \E pair \in SharedPlaces(b) :
                words = pair /\ \E d, e \in pair :
                   d # e /\ card.store[d] = card.store[e]
      BY <1>3
    <2>2. PICK d \in words, e \in words : d # e /\ card.store[d] = card.store[e]
      BY <2>1
    <2>3. words \subseteq WordsOf(b, PerBlock)
      BY <2>1 DEF SharedPlaces, PerBlock
    <2>4. WordsOf(b, PerBlock) = {WordAt(b, k) : k \in 0 .. PerBlock - 1}
      BY <1>1, WordsOfBlock
    <2>5. PICK j \in 0 .. PerBlock - 1 : d = WordAt(b, j)
      BY <2>2, <2>3, <2>4
    <2>6. PICK k \in 0 .. PerBlock - 1 : e = WordAt(b, k)
      BY <2>2, <2>3, <2>4
    <2>7. /\ b \in TestedBlocks /\ j \in 0 .. Elements - 1
          /\ k \in 0 .. Elements - 1
      BY <2>2, <2>5, <2>6, TestedIsBlocks
    <2>8. j # k /\ card.store[WordAt(b, j)] = card.store[WordAt(b, k)]
      BY <2>2, <2>5, <2>6
    <2>9. QED
      BY <2>7, <2>8 DEF Sound
  <1>4. QED
    BY <1>2, <1>3 DEF Evidence
-----------------------------------------------------------------------------
(* The verdict.  What the phases have left in the memory and learned of the *)
(* card, of any card.                                                       *)
Word(k) == WordAt(t.current_block, k)

(* No other word tested with word k is stored where word k is.              *)
Alone(k) ==
    \A j \in 0 .. Elements - 1 :
        j # k => card.store[Word(j)] # card.store[Word(k)]

(* A word with a place of its own holds what was written to it; in the last *)
(* two phases every place that was written holds the pattern.               *)
Written ==
    main = "test" =>
        \A k \in Nat : k < Done /\ Alone(k) =>
            vram[card.store[Word(k)]] = Expected(k)

Patterned ==
    main = "test" /\ phase \in {2, 3} =>
        \A k \in Nat : k < Done => vram[card.store[Word(k)]] = Pattern

(* Every error has a cause among the words tested.                          *)
Caused ==
    main \in Session /\ t.error_count # 0 => \E b \in TestedBlocks : ~Sound(b)

(* The verifications made, and whether the last one of word k of block b is *)
(* among them.                                                              *)
InBlock ==
    IF phase = 0 THEN 0 ELSE IF phase = 1 THEN i
    ELSE IF phase = 2 THEN Elements ELSE IF phase = 3 THEN Elements + i
    ELSE 2 * Elements

Verified == 2 * Behind + (IF main = "test" THEN InBlock ELSE 0)

Over(b, k) ==
    \/ choice # 1 /\ b < t.current_block
    \/ /\ main = "test" /\ b = t.current_block
       /\ phase = 4 \/ (phase = 3 /\ k < i)

(* There are no more errors than verifications, and fewer once a word that  *)
(* is not stuck has returned the pattern: the counter does not wrap.        *)
Bounded ==
    choice # 3 /\ main \in {"arm", "test"} =>
        /\ t.error_count <= Verified
        /\ \A b \in Blocks, k \in 0 .. Elements - 1 :
              card.stuck[WordAt(b, k)] = Ok /\ Over(b, k) =>
                 t.error_count < Verified

(* A count of zero: what it says of the blocks behind, and of the words of  *)
(* the block under test as their addresses and then the pattern are read.   *)
Clean == choice # 3 /\ t.error_count = 0

Stuck(k) == card.stuck[Word(k)]

NoneBehind ==
    Clean /\ main \in {"arm", "test"} /\ choice # 1 =>
        \A b \in Blocks : b < t.current_block => Sound(b)

StuckUnnoticed ==
    Clean /\ main = "test" =>
        \A k \in 0 .. Elements - 1 :
            /\ phase > 1 \/ (phase = 1 /\ k < i) => Stuck(k) \in {Ok, AddressOf(k)}
            /\ phase = 4 \/ (phase = 3 /\ k < i) => Stuck(k) \in {Ok, Pattern}

AddressesRead ==
    Clean /\ main = "test" /\ phase = 1 =>
        \A k \in 0 .. Elements - 1 :
            k < i /\ Stuck(k) = Ok => vram[card.store[Word(k)]] = AddressOf(k)

NoneShared ==
    Clean /\ main = "test" /\ phase > 1 =>
        \A j, k \in 0 .. Elements - 1 :
            j # k /\ Stuck(j) = Ok /\ Stuck(k) = Ok =>
                card.store[Word(j)] # card.store[Word(k)]

NoneMissed ==
    Clean /\ main \in {"finish", "join"} /\ ~t.stop_requested =>
        \A b \in TestedBlocks : Sound(b)

VerdictInv ==
    /\ ProgressInv /\ AlarmInv /\ Written /\ Patterned /\ Caused /\ Bounded
    /\ NoneBehind /\ StuckUnnoticed /\ AddressesRead /\ NoneShared /\ NoneMissed

LEMMA VerdictInit == Init => VerdictInv
  BY ProgressInit, AlarmInit
     DEF Init, VerdictInv, Written, Patterned, Caused, Bounded,
         NoneBehind, StuckUnnoticed, AddressesRead, NoneShared, NoneMissed, Session

(* What is known of the block under test and of its words.                  *)
LEMMA UnderTest ==
    ASSUME VerdictInv, main = "test"
    PROVE  /\ t.current_block \in Blocks /\ t.current_block \in TestedBlocks
           /\ TestedBlocks \subseteq Blocks
           /\ t.current_offset = t.current_block * APERTURE_SIZE
           /\ \A k : Cell(window, k) = Word(k)
           /\ phase \in 0 .. 4 /\ i \in Nat /\ i <= Elements
           /\ Elements \in Nat /\ Elements <= PerBlock /\ PerBlock \in Nat
           /\ \A k \in 0 .. Elements - 1 :
                 /\ Word(k) \in Device /\ card.store[Word(k)] \in Device
                 /\ AddressOf(k) # Pattern
           /\ phase = 4 => i = 0
  <1>1. t.current_block \in Blocks
    BY DEF VerdictInv, ProgressInv, ScopeInv, BlockChosen
  <1>2. t.current_block \in TestedBlocks /\ TestedBlocks \subseteq Blocks
    BY <1>1 DEF TestedBlocks
  <1>3. /\ t.current_offset = t.current_block * APERTURE_SIZE
        /\ window = Window(t.current_offset)
    BY DEF VerdictInv, AlarmInv, Aimed
  <1>4. \A k : Cell(window, k) = Word(k)
    BY <1>3 DEF Word, WordAt
  <1>5. phase \in 0 .. 4 /\ i \in Nat /\ i <= Elements /\ (phase = 4 => i = 0)
    BY DEF VerdictInv, ProgressInv, ScopeInv, TypeOK, Counted
  <1>6. Elements \in Nat /\ Elements <= PerBlock /\ PerBlock \in Nat
    BY BlockWords DEF VerdictInv, ProgressInv, ScopeInv
  <1>7. card.store \in [Device -> Device]
    BY MemAssumption DEF VerdictInv, ProgressInv, ScopeInv, TypeOK, Card
  <1>8. ASSUME NEW k \in 0 .. Elements - 1
        PROVE  /\ Word(k) \in Device /\ card.store[Word(k)] \in Device
               /\ AddressOf(k) # Pattern
    <2>1. k \in Nat /\ k < PerBlock
      BY <1>6, <1>8
    <2>2. Word(k) \in Device
      BY <1>1, <2>1, WordAddress DEF Word
    <2>3. QED
      BY <1>1, <1>3, <1>7, <2>1, <2>2, PatternIsNoAddress
  <1>9. QED
    BY <1>1, <1>2, <1>3, <1>4, <1>5, <1>6, <1>8

(* Steps that change neither the card nor what is tested leave what is said *)
(* of the words alone.                                                      *)
LEMMA SameBlock ==
    ASSUME UNCHANGED <<card, choice, size>>,
           t'.current_block = t.current_block
    PROVE  /\ Elements' = Elements /\ Behind' = Behind
           /\ TestedBlocks' = TestedBlocks
           /\ \A b : Sound(b)' <=> Sound(b)
           /\ \A k : Word(k)' = Word(k) /\ Stuck(k)' = Stuck(k)
           /\ \A k : Alone(k)' <=> Alone(k)
  <1>1. /\ Elements' = Elements /\ Behind' = Behind
        /\ TestedBlocks' = TestedBlocks
    BY DEF Elements, Behind, TestedBlocks
  <1>2. \A k : Word(k)' = Word(k) /\ Stuck(k)' = Stuck(k)
    BY DEF Word, Stuck
  <1>3. \A b : Sound(b)' <=> Sound(b)
    BY <1>1 DEF Sound
  <1>4. \A k : Alone(k)' <=> Alone(k)
    BY <1>1, <1>2 DEF Alone
  <1>5. QED
    BY <1>1, <1>2, <1>3, <1>4
-----------------------------------------------------------------------------
(* One word.                                                                *)
Wrong == phase \in {1, 3} /\ Reads(Word(i)) # Expected(i)

LEMMA WordFacts ==
    ASSUME VerdictInv, TestWord
    PROVE  /\ main = "test" /\ main' = "test" /\ ~t.stop_requested
           /\ phase \in 0 .. 3 /\ i \in 0 .. Elements - 1
           /\ phase' = phase /\ i' = i + 1
           /\ UNCHANGED <<card, choice, size, window>>
           /\ t'.current_block = t.current_block
           /\ t'.current_offset = t.current_offset
           /\ t.error_count \in Values
           /\ t'.error_count = IF Wrong THEN (t.error_count + 1) % U32
                               ELSE t.error_count
           /\ vram \in [Device -> Values]
           /\ vram' = IF phase \in {0, 2}
                      THEN [vram EXCEPT ![card.store[Word(i)]] = Expected(i)]
                      ELSE vram
           /\ \A k : Expected(k)' = Expected(k) /\ AddressOf(k)' = AddressOf(k)
  <1> USE DEF VerdictInv, ProgressInv, ScopeInv, TypeOK, Telemetry
  <1>1. main = "test" /\ Cell(window, i) = Word(i)
    BY UnderTest DEF TestWord
  <1>2. /\ main' = "test" /\ ~t.stop_requested /\ phase < 4 /\ i < Elements
        /\ phase' = phase /\ i' = i + 1
        /\ UNCHANGED <<card, choice, size, window>>
        /\ t'.current_block = t.current_block
        /\ t'.current_offset = t.current_offset
    BY DEF TestWord, askVars
  <1>3. t'.error_count = IF Wrong THEN (t.error_count + 1) % U32
                         ELSE t.error_count
    BY <1>1 DEF TestWord, Wrong
  <1>4. vram' = IF phase \in {0, 2}
                THEN [vram EXCEPT ![card.store[Word(i)]] = Expected(i)]
                ELSE vram
    BY <1>1 DEF TestWord
  <1>5. \A k : Expected(k)' = Expected(k) /\ AddressOf(k)' = AddressOf(k)
    BY <1>2 DEF Expected, AddressOf
  <1>6. phase \in 0 .. 3 /\ i \in 0 .. Elements - 1
    BY <1>1, <1>2, UnderTest
  <1>7. QED
    BY <1>1, <1>2, <1>3, <1>4, <1>5, <1>6

(* The memory.                                                              *)
LEMMA WordWritten ==
    ASSUME VerdictInv, TestWord
    PROVE  Written' /\ Patterned'
  <1>1. /\ main = "test" /\ main' = "test" /\ phase \in 0 .. 3
        /\ i \in 0 .. Elements - 1 /\ phase' = phase /\ i' = i + 1
        /\ vram \in [Device -> Values]
        /\ vram' = IF phase \in {0, 2}
                   THEN [vram EXCEPT ![card.store[Word(i)]] = Expected(i)]
                   ELSE vram
        /\ \A k : Expected(k)' = Expected(k)
        /\ card' = card
    BY WordFacts
  <1>2. /\ Elements' = Elements /\ \A k : Word(k)' = Word(k)
        /\ \A k : Alone(k)' <=> Alone(k)
    BY WordFacts, SameBlock
  <1>3. /\ Elements \in Nat
        /\ \A k \in 0 .. Elements - 1 : card.store[Word(k)] \in Device
    BY <1>1, UnderTest
  <1>4. CASE phase \in {1, 3}
    <2>1. vram' = vram /\ Done' = Done
      BY <1>1, <1>2, <1>4 DEF Done
    <2>2. Written'
      BY <1>1, <1>2, <2>1 DEF VerdictInv, Written
    <2>3. Patterned'
      BY <1>1, <1>2, <2>1 DEF VerdictInv, Patterned
    <2>4. QED
      BY <2>2, <2>3
  <1>5. CASE phase \in {0, 2}
    <2>1. Done = i /\ Done' = i + 1
      BY <1>1, <1>5 DEF Done
    <2>2. vram' = [vram EXCEPT ![card.store[Word(i)]] = Expected(i)]
      BY <1>1, <1>5
    <2>3. ASSUME NEW k \in Nat, k < i + 1
          PROVE  /\ k \in 0 .. Elements - 1 /\ (k = i \/ k < i)
                 /\ vram'[card.store[Word(k)]] =
                       IF card.store[Word(k)] = card.store[Word(i)]
                       THEN Expected(i) ELSE vram[card.store[Word(k)]]
      BY <1>1, <1>3, <2>2, <2>3
    <2>4. Written'
      <3>1. ASSUME NEW k \in Nat, k < i + 1, Alone(k)
            PROVE  vram'[card.store[Word(k)]] = Expected(k)
        <4>1. CASE k = i
          BY <2>3, <4>1
        <4>2. CASE k < i
          <5>1. card.store[Word(k)] # card.store[Word(i)]
            BY <1>1, <3>1, <4>2 DEF Alone
          <5>2. vram[card.store[Word(k)]] = Expected(k)
            BY <1>1, <2>1, <3>1, <4>2 DEF VerdictInv, Written
          <5>3. QED
            BY <2>3, <3>1, <5>1, <5>2
        <4>3. QED
          BY <2>3, <3>1, <4>1, <4>2
      <3>2. QED
        BY <1>1, <1>2, <2>1, <3>1 DEF Written
    <2>5. Patterned'
      <3>1. ASSUME NEW k \in Nat, k < i + 1, phase = 2
            PROVE  vram'[card.store[Word(k)]] = Pattern
        <4>1. Expected(i) = Pattern
          BY <3>1 DEF Expected
        <4>2. k < i => vram[card.store[Word(k)]] = Pattern
          BY <1>1, <2>1, <3>1 DEF VerdictInv, Patterned
        <4>3. QED
          BY <2>3, <3>1, <4>1, <4>2
      <3>2. QED
        BY <1>1, <1>2, <1>5, <2>1, <3>1 DEF Patterned
    <2>6. QED
      BY <2>4, <2>5
  <1>6. QED
    BY <1>1, <1>4, <1>5

(* An error in a word that is not stuck shows one that shares its place.    *)
LEMMA WordCaused ==
    ASSUME VerdictInv, TestWord
    PROVE  Caused'
  <1>1. /\ main = "test" /\ phase \in 0 .. 3 /\ i \in 0 .. Elements - 1
        /\ t'.error_count = IF Wrong THEN (t.error_count + 1) % U32
                            ELSE t.error_count
    BY WordFacts
  <1>2. /\ TestedBlocks' = TestedBlocks /\ \A b : Sound(b)' <=> Sound(b)
    BY WordFacts, SameBlock
  <1>3. t.current_block \in TestedBlocks
    BY <1>1, UnderTest
  <1>4. CASE ~Wrong
    BY <1>1, <1>2, <1>4 DEF VerdictInv, Caused, Session
  <1>5. CASE Wrong
    <2>1. phase \in {1, 3} /\ Reads(Word(i)) # Expected(i)
      BY <1>5 DEF Wrong
    <2>2. Stuck(i) = Ok => ~Alone(i)
      <3>1. SUFFICES ASSUME Stuck(i) = Ok, Alone(i) PROVE FALSE
        OBVIOUS
      <3>2. Reads(Word(i)) = vram[card.store[Word(i)]]
        BY <3>1 DEF Reads, Stuck
      <3>3. vram[card.store[Word(i)]] = Expected(i)
        <4>1. i \in Nat /\ i < Done
          BY <1>1, <2>1, UnderTest DEF Done
        <4>2. QED
          BY <1>1, <3>1, <4>1 DEF VerdictInv, Written
      <3>4. QED
        BY <2>1, <3>2, <3>3
    <2>3. ~Sound(t.current_block)
      BY <1>1, <2>2 DEF Sound, Alone, Stuck, Word
    <2>4. QED
      BY <1>2, <1>3, <2>3 DEF Caused
  <1>6. QED
    BY <1>4, <1>5

(* The pattern is read wrong only in a stuck word.                          *)
LEMMA PatternRead ==
    ASSUME VerdictInv, TestWord, phase = 3, Stuck(i) = Ok
    PROVE  ~Wrong
  <1>1. main = "test" /\ i \in 0 .. Elements - 1
    BY WordFacts
  <1>2. Reads(Word(i)) = vram[card.store[Word(i)]]
    BY DEF Reads, Stuck
  <1>3. vram[card.store[Word(i)]] = Pattern
    <2>1. i \in Nat /\ i < Done
      BY <1>1, UnderTest DEF Done
    <2>2. QED
      BY <1>1, <2>1 DEF VerdictInv, Patterned
  <1>4. QED
    BY <1>2, <1>3 DEF Wrong, Expected

LEMMA VerifiedNext ==
    ASSUME VerdictInv, TestWord
    PROVE  /\ Verified \in Nat
           /\ Verified' = IF phase \in {1, 3} THEN Verified + 1 ELSE Verified
           /\ InBlock \in Nat
           /\ phase = 1 => InBlock + 1 <= Elements
           /\ phase = 3 => InBlock = Elements + i
           /\ Verified = 2 * Behind + InBlock /\ Behind \in Nat
  <1>1. /\ main = "test" /\ main' = "test" /\ phase \in 0 .. 3
        /\ i \in 0 .. Elements - 1 /\ phase' = phase /\ i' = i + 1
    BY WordFacts
  <1>2. Elements' = Elements /\ Behind' = Behind
    BY WordFacts, SameBlock
  <1>3. Elements \in Nat /\ Behind \in Nat
    BY <1>1, UnderTest, BehindBounds DEF VerdictInv
  <1>4. /\ InBlock \in Nat
        /\ InBlock' = IF phase \in {1, 3} THEN InBlock + 1 ELSE InBlock
        /\ phase = 1 => InBlock + 1 <= Elements
        /\ phase = 3 => InBlock = Elements + i
    BY <1>1, <1>2, <1>3 DEF InBlock
  <1>5. QED
    BY <1>1, <1>2, <1>3, <1>4 DEF Verified

LEMMA WordBounded ==
    ASSUME VerdictInv, TestWord
    PROVE  Bounded'
  <1>1. /\ main = "test" /\ main' = "test" /\ phase \in 0 .. 3
        /\ i \in 0 .. Elements - 1 /\ phase' = phase /\ i' = i + 1
        /\ t.error_count \in Values
        /\ t'.error_count = IF Wrong THEN (t.error_count + 1) % U32
                            ELSE t.error_count
        /\ UNCHANGED <<card, choice>>
        /\ t'.current_block = t.current_block
    BY WordFacts
  <1>2. Elements' = Elements /\ Elements \in Nat
    BY WordFacts, SameBlock, UnderTest
  <1>3. /\ Verified \in Nat
        /\ Verified' = IF phase \in {1, 3} THEN Verified + 1 ELSE Verified
    BY VerifiedNext
  <1>4. t.error_count \in Nat /\ t'.error_count \in Nat
    BY <1>1, Words, NextWord
  <1>5. t'.error_count <= IF Wrong THEN t.error_count + 1 ELSE t.error_count
    <2>1. (t.error_count + 1) % U32 <= t.error_count + 1
      <3>1. U32 \in Nat /\ U32 > 0
        BY MemAssumption
      <3>2. QED
        BY <1>4, <3>1, Division
    <2>2. QED
      BY <1>1, <1>4, <2>1
  <1>6. Wrong => phase \in {1, 3}
    BY DEF Wrong
  <1>7. SUFFICES ASSUME choice # 3
                 PROVE  /\ t'.error_count <= Verified'
                        /\ \A b \in Blocks, k \in 0 .. Elements - 1 :
                              card.stuck[WordAt(b, k)] = Ok /\ Over(b, k)' =>
                                 t'.error_count < Verified'
    BY <1>1, <1>2 DEF Bounded
  <1>8. /\ t.error_count <= Verified
        /\ \A b \in Blocks, k \in 0 .. Elements - 1 :
              card.stuck[WordAt(b, k)] = Ok /\ Over(b, k) =>
                 t.error_count < Verified
    BY <1>1, <1>7 DEF VerdictInv, Bounded
  <1>9. t'.error_count <= Verified'
    BY <1>3, <1>4, <1>5, <1>6, <1>8
  <1>10. ASSUME NEW b \in Blocks, NEW k \in 0 .. Elements - 1,
                card.stuck[WordAt(b, k)] = Ok, Over(b, k)'
         PROVE  t'.error_count < Verified'
    <2>1. \/ Over(b, k)
          \/ phase = 3 /\ b = t.current_block /\ k = i
      BY <1>1, <1>10 DEF Over
    <2>2. CASE Over(b, k)
      <3>1. t.error_count < Verified
        BY <1>8, <1>10, <2>2
      <3>2. QED
        BY <1>3, <1>4, <1>5, <1>6, <3>1
    <2>3. CASE phase = 3 /\ b = t.current_block /\ k = i
      <3>1. Stuck(i) = Ok
        BY <1>10, <2>3 DEF Stuck, Word
      <3>2. ~Wrong
        BY <2>3, <3>1, PatternRead
      <3>3. t'.error_count = t.error_count /\ Verified' = Verified + 1
        BY <1>1, <1>3, <2>3, <3>2
      <3>4. QED
        BY <1>3, <1>4, <1>8, <3>3
    <2>4. QED
      BY <2>1, <2>2, <2>3
  <1>11. QED
    BY <1>9, <1>10

(* Some word of every card is not stuck: a card that answers nothing makes  *)
(* an error at each of the 2^32 verifications of a pass, which a uint32_t   *)
(* counts as none.                                                          *)
NotDead == \A c \in Cards : \E d \in Device : c.stuck[d] = Ok

LEMMA CounterDoesNotWrap ==
    ASSUME NotDead, VerdictInv, TestWord, choice # 3, Wrong
    PROVE  t.error_count + 1 < U32
  <1> DEFINE e == t.error_count
             E == Elements
             n == TOTAL_BLOCKS
             b == t.current_block
  <1>1. /\ main = "test" /\ phase \in {1, 3} /\ i \in 0 .. E - 1 /\ e \in Nat
    BY WordFacts, Words DEF Wrong
  <1>2. /\ E \in Nat /\ E <= PerBlock /\ PerBlock \in Nat
        /\ b \in Blocks
        /\ choice # 1 => E = PerBlock
    BY <1>1, UnderTest, BlockWords
       DEF VerdictInv, ProgressInv, ScopeInv, Scale, Session
  <1>3. n \in Nat /\ n > 0 /\ b \in Nat /\ b < n
    BY <1>2, Sizes DEF Blocks
  <1>4. /\ Verified \in Nat /\ InBlock \in Nat
        /\ Verified = 2 * Behind + InBlock /\ Behind \in Nat
        /\ phase = 1 => InBlock + 1 <= E
        /\ phase = 3 => InBlock = E + i
    BY VerifiedNext
  <1>5. /\ e <= Verified
        /\ \A c \in Blocks, k \in 0 .. E - 1 :
              card.stuck[WordAt(c, k)] = Ok /\ Over(c, k) => e < Verified
    BY <1>1 DEF VerdictInv, Bounded
  <1>6. /\ Behind + E <= PerBlock * n
        /\ Behind + E = PerBlock * n => E = PerBlock /\ b + 1 = n
    <2> DEFINE p == PerBlock
    <2>1. p \in Nat /\ p > 0
      BY <1>1, <1>2
    <2>2. CASE choice = 1
      <3>1. Behind = 0
        BY <2>2 DEF Behind
      <3>2. n # 1 => p + p <= p * n
        <4>1. p * 1 + p <= p * n \/ n = 1
          BY <1>3, <2>1, NotAfter
        <4>2. p * 1 = p
          BY <2>1
        <4>3. QED
          BY <4>1, <4>2
      <3>3. n = 1 => p * n = p /\ b = 0
        BY <1>3, <2>1
      <3> HIDE DEF p
      <3>4. n # 1 => E < p * n
        BY <1>2, <1>3, <2>1, <3>2 DEF p
      <3>5. QED
        BY <1>2, <1>3, <2>1, <3>1, <3>3, <3>4 DEF p
    <2>3. CASE choice # 1
      <3>1. Behind = p * b /\ E = p
        <4>1. Elements = PerBlock
          BY <1>2, <2>3
        <4>2. Behind = Elements * t.current_block
          BY <2>3 DEF Behind
        <4>3. QED
          BY <4>1, <4>2
      <3> HIDE DEF p
      <3>2. p * b + p <= p * n
        BY <1>3, <2>1, NotAfter
      <3>3. b + 1 < n => p * b + p < p * n
        <4>1. b + 1 < n => p * (b + 1) + p <= p * n
          BY <1>3, <2>1, NotAfter
        <4>2. p * (b + 1) = p * b + p /\ p * b \in Nat
          BY <1>3, <2>1, OneMore
        <4>3. p * n \in Nat
          BY <1>3, <2>1, OneMore
        <4>4. QED
          BY <2>1, <4>1, <4>2, <4>3
      <3>4. Behind + E <= p * n /\ (Behind + E = p * n => b + 1 = n)
        <4>1. p * b \in Nat /\ p * n \in Nat
          BY <1>3, <2>1, OneMore
        <4>2. QED
          BY <1>3, <2>1, <3>1, <3>2, <3>3, <4>1
      <3>5. QED
        BY <3>1, <3>4 DEF p
    <2>4. QED
      BY <2>2, <2>3
  <1>7. 2 * (PerBlock * n) <= U32 /\ U32 \in Nat /\ PerBlock * n \in Nat
    <2>1. 2 * (n * PerBlock) <= U32 /\ U32 \in Nat
      BY MemAssumption DEF PerBlock
    <2>2. n * PerBlock = PerBlock * n /\ PerBlock * n \in Nat
      BY <1>2, <1>3
    <2>3. QED
      BY <2>1, <2>2
  <1>8. PICK d \in Device : card.stuck[d] = Ok
    BY DEF NotDead, VerdictInv, ProgressInv, ScopeInv, TypeOK
  <1>9. PICK c \in Blocks, k \in 0 .. PerBlock - 1 : d = WordAt(c, k)
    BY <1>8, DeviceWords
  <1>10. c \in Nat /\ c < n
    BY MemAssumption DEF Blocks
  <1>11. phase = 3 /\ c = b => k # i
    <2>1. phase = 3 /\ c = b /\ k = i => Stuck(i) = Ok
      BY <1>8, <1>9 DEF Stuck, Word
    <2>2. QED
      BY <2>1, PatternRead
  <1> DEFINE whole == PerBlock * n
  <1> HIDE DEF e, E, n, b, whole
  <1>12. Verified + 1 <= 2 * whole
    BY <1>1, <1>2, <1>4, <1>6, <1>7 DEF whole
  <1>13. SUFFICES ASSUME e + 1 = 2 * whole PROVE FALSE
    BY <1>1, <1>4, <1>5, <1>7, <1>12 DEF e, whole
  <1>14. e = Verified /\ Verified + 1 = 2 * whole
    BY <1>1, <1>4, <1>5, <1>7, <1>12, <1>13 DEF whole
  <1>15. Behind + E = whole /\ phase = 3 /\ i + 1 = E
    BY <1>1, <1>2, <1>4, <1>6, <1>7, <1>14 DEF whole
  <1>16. E = PerBlock /\ b + 1 = n
    BY <1>6, <1>15 DEF whole
  <1>17. Over(c, k)
    <2>1. CASE c = b
      <3>1. k < i
        BY <1>1, <1>2, <1>11, <1>15, <1>16, <2>1
      <3>2. QED
        BY <1>1, <1>15, <2>1, <3>1 DEF Over, b
    <2>2. CASE c # b
      <3>1. c < b
        BY <1>3, <1>10, <1>16, <2>2
      <3>2. choice # 1
        <4>1. SUFFICES ASSUME choice = 1 PROVE FALSE
          OBVIOUS
        <4>2. Behind = 0
          BY <4>1 DEF Behind
        <4>3. PerBlock = PerBlock * n /\ PerBlock > 0
          BY <1>1, <1>2, <1>15, <1>16, <4>2 DEF whole
        <4>4. b >= 1
          BY <1>3, <1>10, <3>1
        <4>5. PerBlock * b + PerBlock <= PerBlock * n
          BY <1>2, <1>3, NotAfter
        <4>6. PerBlock * 0 + PerBlock <= PerBlock * b
          BY <1>2, <1>3, <4>4, NotAfter
        <4>7. PerBlock * 0 = 0 /\ PerBlock * b \in Nat /\ PerBlock * n \in Nat
          BY <1>2, <1>3
        <4>8. QED
          BY <1>2, <4>3, <4>5, <4>6, <4>7
      <3>3. QED
        BY <3>1, <3>2 DEF Over, b
    <2>3. QED
      BY <2>1, <2>2
  <1>18. QED
    BY <1>1, <1>4, <1>5, <1>8, <1>9, <1>14, <1>16, <1>17
(* What a count of zero says after one more word.                           *)
LEMMA WordClean ==
    ASSUME NotDead, VerdictInv, TestWord
    PROVE  /\ NoneBehind' /\ StuckUnnoticed' /\ AddressesRead' /\ NoneShared'
           /\ NoneMissed'
  <1>1. /\ main = "test" /\ main' = "test" /\ phase \in 0 .. 3
        /\ i \in 0 .. Elements - 1 /\ phase' = phase /\ i' = i + 1
        /\ UNCHANGED <<card, choice>> /\ t.error_count \in Values
        /\ t'.error_count = IF Wrong THEN (t.error_count + 1) % U32
                            ELSE t.error_count
        /\ vram' = IF phase \in {0, 2}
                   THEN [vram EXCEPT ![card.store[Word(i)]] = Expected(i)]
                   ELSE vram
        /\ \A k : AddressOf(k)' = AddressOf(k)
        /\ t'.current_block = t.current_block
    BY WordFacts
  <1>2. /\ Elements' = Elements /\ \A b : Sound(b)' <=> Sound(b)
        /\ \A k : Word(k)' = Word(k) /\ Stuck(k)' = Stuck(k)
    BY WordFacts, SameBlock
  <1>3. Elements \in Nat /\ i \in Nat
    BY <1>1, UnderTest
  <1>4. Clean' => Clean /\ ~Wrong
    <2>1. SUFFICES ASSUME choice # 3, t'.error_count = 0
                   PROVE  t.error_count = 0 /\ ~Wrong
      BY <1>1 DEF Clean
    <2>2. CASE Wrong
      <3>1. t.error_count \in Nat /\ t.error_count + 1 < U32 /\ U32 \in Nat
        BY <1>1, <2>1, <2>2, CounterDoesNotWrap, Words, MemAssumption
      <3>2. (t.error_count + 1) % U32 = t.error_count + 1
        BY <3>1
      <3>3. QED
        BY <1>1, <2>1, <2>2, <3>1, <3>2
    <2>3. CASE ~Wrong
      BY <1>1, <2>1, <2>3
    <2>4. QED
      BY <2>2, <2>3
  <1>5. phase \in {1, 3} /\ ~Wrong =>
           /\ Stuck(i) = Ok => vram[card.store[Word(i)]] = Expected(i)
           /\ Stuck(i) # Ok => Stuck(i) = Expected(i)
    BY DEF Wrong, Reads, Stuck
  <1>6. /\ phase = 1 => Expected(i) = AddressOf(i)
        /\ phase = 3 => Expected(i) = Pattern
    BY DEF Expected
  <1>7. NoneBehind'
    BY <1>1, <1>2, <1>4 DEF VerdictInv, NoneBehind
  <1>8. StuckUnnoticed'
    <2>1. SUFFICES ASSUME Clean, ~Wrong, NEW k \in 0 .. Elements - 1
                   PROVE  /\ phase > 1 \/ (phase = 1 /\ k < i + 1) =>
                                Stuck(k) \in {Ok, AddressOf(k)}
                          /\ phase = 4 \/ (phase = 3 /\ k < i + 1) =>
                                Stuck(k) \in {Ok, Pattern}
      BY <1>1, <1>2, <1>4 DEF StuckUnnoticed
    <2>2. /\ phase > 1 \/ (phase = 1 /\ k < i) => Stuck(k) \in {Ok, AddressOf(k)}
          /\ phase = 4 \/ (phase = 3 /\ k < i) => Stuck(k) \in {Ok, Pattern}
      BY <1>1, <2>1 DEF VerdictInv, StuckUnnoticed
    <2>3. k < i + 1 => k < i \/ k = i
      BY <1>3, <2>1
    <2>4. CASE k = i
      BY <1>1, <1>5, <1>6, <2>1, <2>2, <2>4
    <2>5. QED
      BY <2>2, <2>3, <2>4
  <1>9. AddressesRead'
    <2>1. SUFFICES ASSUME Clean, ~Wrong, phase = 1, NEW k \in 0 .. Elements - 1,
                          k < i + 1, Stuck(k) = Ok
                   PROVE  vram[card.store[Word(k)]] = AddressOf(k)
      BY <1>1, <1>2, <1>4 DEF AddressesRead
    <2>2. CASE k < i
      BY <1>1, <2>1, <2>2 DEF VerdictInv, AddressesRead
    <2>3. CASE k = i
      BY <1>5, <1>6, <2>1, <2>3
    <2>4. QED
      BY <1>3, <2>1, <2>2, <2>3
  <1>10. NoneShared'
    BY <1>1, <1>2, <1>4 DEF VerdictInv, NoneShared
  <1>11. NoneMissed'
    BY <1>1 DEF NoneMissed
  <1>12. QED
    BY <1>7, <1>8, <1>9, <1>10, <1>11

-----------------------------------------------------------------------------
(* The next phase.                                                          *)
LEMMA PhaseVerdict ==
    ASSUME VerdictInv, NextPhase
    PROVE  /\ Written' /\ Patterned' /\ Caused' /\ Bounded'
           /\ NoneBehind' /\ StuckUnnoticed' /\ AddressesRead' /\ NoneShared'
           /\ NoneMissed'
  <1>1. /\ main = "test" /\ main' = "test" /\ i = Elements /\ i' = 0
        /\ phase' = phase + 1 /\ phase < 4
        /\ UNCHANGED <<t, vram, card, choice, size>>
    BY DEF NextPhase, askVars
  <1>2. /\ Elements' = Elements /\ Behind' = Behind
        /\ TestedBlocks' = TestedBlocks
        /\ \A b : Sound(b)' <=> Sound(b)
        /\ \A k : Word(k)' = Word(k) /\ Stuck(k)' = Stuck(k)
        /\ \A k : Alone(k)' <=> Alone(k)
    BY <1>1, SameBlock
  <1>3. /\ phase \in 0 .. 3 /\ Elements \in Nat /\ Elements <= PerBlock
        /\ t.current_block \in Blocks /\ PerBlock \in Nat
        /\ t.current_offset = t.current_block * APERTURE_SIZE
    BY <1>1, UnderTest
  <1>4. phase = 0 \/ phase = 1 \/ phase = 2 \/ phase = 3
    BY <1>3
  <1>5. \A k : AddressOf(k)' = AddressOf(k)
    BY <1>1 DEF AddressOf
  <1>6. Clean' <=> Clean
    BY <1>1 DEF Clean
  <1>7. Written'
    <2>1. CASE phase = 1
      <3>1. Done' = 0
        BY <1>1, <2>1 DEF Done
      <3>2. QED
        BY <3>1 DEF Written
    <2>2. CASE phase # 1
      <3>1. Done = Elements /\ \A k \in Nat : k < Done' => k < Done
        BY <1>1, <1>2, <1>3, <1>4, <2>2 DEF Done
      <3>2. \A k : Expected(k)' = Expected(k)
        BY <1>1, <1>4, <1>5, <2>2 DEF Expected
      <3>3. QED
        BY <1>1, <1>2, <3>1, <3>2 DEF VerdictInv, Written
    <2>3. QED
      BY <2>1, <2>2
  <1>8. Patterned'
    <2>1. CASE phase = 2
      <3>1. Done = Elements /\ Done' = Elements
        BY <1>1, <1>2, <2>1 DEF Done
      <3>2. QED
        BY <1>1, <1>2, <2>1, <3>1 DEF VerdictInv, Patterned
    <2>2. CASE phase = 1
      <3>1. Done' = 0
        BY <1>1, <2>2 DEF Done
      <3>2. QED
        BY <3>1 DEF Patterned
    <2>3. CASE phase = 0 \/ phase = 3
      BY <1>1, <2>3 DEF Patterned
    <2>4. QED
      BY <1>4, <2>1, <2>2, <2>3
  <1>9. Caused'
    BY <1>1, <1>2 DEF VerdictInv, Caused
  <1>10. Bounded'
    <2>1. Behind \in Nat
      BY <1>1, BehindBounds DEF VerdictInv
    <2>2. Verified' = Verified
      <3>1. InBlock' = InBlock
        BY <1>1, <1>2, <1>3, <1>4 DEF InBlock
      <3>2. QED
        BY <1>1, <1>2, <3>1 DEF Verified
    <2>3. \A b \in Blocks, k \in 0 .. Elements - 1 : Over(b, k)' => Over(b, k)
      BY <1>1, <1>3, <1>4 DEF Over
    <2>4. QED
      BY <1>1, <1>2, <2>2, <2>3 DEF VerdictInv, Bounded
  <1>11. NoneBehind' /\ NoneMissed'
    BY <1>1, <1>2, <1>6 DEF VerdictInv, NoneBehind, NoneMissed
  <1>12. StuckUnnoticed'
    <2>1. SUFFICES ASSUME Clean, NEW k \in 0 .. Elements - 1
                   PROVE  /\ phase + 1 > 1 \/ (phase + 1 = 1 /\ k < 0) =>
                                Stuck(k) \in {Ok, AddressOf(k)}
                          /\ phase + 1 = 4 \/ (phase + 1 = 3 /\ k < 0) =>
                                Stuck(k) \in {Ok, Pattern}
      BY <1>1, <1>2, <1>5, <1>6 DEF StuckUnnoticed
    <2>2. /\ phase > 1 \/ (phase = 1 /\ k < i) => Stuck(k) \in {Ok, AddressOf(k)}
          /\ phase = 4 \/ (phase = 3 /\ k < i) => Stuck(k) \in {Ok, Pattern}
      BY <1>1, <2>1 DEF VerdictInv, StuckUnnoticed
    <2>3. k < i /\ ~(k < 0)
      BY <1>1, <1>3, <2>1
    <2>4. QED
      BY <1>4, <2>2, <2>3
  <1>13. AddressesRead'
    BY <1>1, <1>2, <1>3 DEF AddressesRead
  <1>14. NoneShared'
    <2>1. SUFFICES ASSUME Clean, phase + 1 > 1,
                          NEW j \in 0 .. Elements - 1, NEW k \in 0 .. Elements - 1,
                          j # k, Stuck(j) = Ok, Stuck(k) = Ok
                   PROVE  card.store[Word(j)] # card.store[Word(k)]
      BY <1>1, <1>2, <1>6 DEF NoneShared
    <2>2. CASE phase > 1
      BY <1>1, <2>1, <2>2 DEF VerdictInv, NoneShared
    <2>3. CASE phase = 1
      <3>1. j < i /\ k < i /\ j \in Nat /\ k \in Nat
            /\ j < PerBlock /\ k < PerBlock
        BY <1>1, <1>3, <2>1
      <3>2. /\ vram[card.store[Word(j)]] = AddressOf(j)
            /\ vram[card.store[Word(k)]] = AddressOf(k)
        BY <1>1, <2>1, <2>3, <3>1 DEF VerdictInv, AddressesRead
      <3>3. AddressOf(j) # AddressOf(k)
        BY <1>3, <2>1, <3>1, AddressesDiffer
      <3>4. QED
        BY <3>2, <3>3
    <2>4. QED
      BY <1>4, <2>1, <2>2, <2>3
  <1>15. QED
    BY <1>7, <1>8, <1>9, <1>10, <1>11, <1>12, <1>13, <1>14
-----------------------------------------------------------------------------
(* Between blocks.                                                          *)
LEMMA ArmVerdict ==
    ASSUME VerdictInv, ArmWindow
    PROVE  /\ Written' /\ Patterned' /\ Caused' /\ Bounded'
           /\ NoneBehind' /\ StuckUnnoticed' /\ AddressesRead' /\ NoneShared'
           /\ NoneMissed'
  <1>1. /\ main = "arm" /\ main' = "test" /\ phase' = 0 /\ i' = 0
        /\ UNCHANGED <<card, choice, size>>
        /\ t'.current_block = t.current_block
        /\ t'.error_count = t.error_count
    BY DEF ArmWindow, askVars, VerdictInv, ProgressInv, ScopeInv, TypeOK,
           Telemetry
  <1>2. /\ Elements' = Elements /\ Behind' = Behind
        /\ TestedBlocks' = TestedBlocks
        /\ \A b : Sound(b)' <=> Sound(b)
    BY <1>1, SameBlock
  <1>3. Written' /\ Patterned'
    <2>1. Done' = 0
      BY <1>1 DEF Done
    <2>2. QED
      BY <2>1 DEF Written, Patterned
  <1>4. Caused'
    BY <1>1, <1>2 DEF VerdictInv, Caused, Session
  <1>5. Bounded'
    <2>1. Behind \in Nat
      BY <1>1, BehindBounds DEF VerdictInv
    <2>2. Verified' = Verified
      BY <1>1, <1>2, <2>1 DEF Verified, InBlock
    <2>3. \A b \in Blocks, k \in 0 .. Elements - 1 : Over(b, k)' => Over(b, k)
      BY <1>1 DEF Over
    <2>4. QED
      BY <1>1, <1>2, <2>2, <2>3 DEF VerdictInv, Bounded
  <1>6. NoneBehind'
    BY <1>1, <1>2 DEF VerdictInv, NoneBehind, Clean
  <1>7. StuckUnnoticed' /\ AddressesRead' /\ NoneShared' /\ NoneMissed'
    BY <1>1 DEF StuckUnnoticed, AddressesRead, NoneShared, NoneMissed
  <1>8. QED
    BY <1>3, <1>4, <1>5, <1>6, <1>7

(* A block tested to the end without an error is sound.                     *)
LEMMA BlockSound ==
    ASSUME VerdictInv, main = "test", phase = 4, Clean
    PROVE  Sound(t.current_block)
  <1>1. /\ \A k \in 0 .. Elements - 1 : AddressOf(k) # Pattern
        /\ Elements \in Nat
    BY UnderTest
  <1>2. ASSUME NEW k \in 0 .. Elements - 1
        PROVE  Stuck(k) = Ok
    <2>1. Stuck(k) \in {Ok, AddressOf(k)} /\ Stuck(k) \in {Ok, Pattern}
      BY <1>2 DEF VerdictInv, StuckUnnoticed
    <2>2. QED
      BY <1>1, <1>2, <2>1
  <1>3. ASSUME NEW k \in 0 .. Elements - 1, NEW j \in 0 .. Elements - 1, j # k
        PROVE  card.store[Word(j)] # card.store[Word(k)]
    <2>1. Stuck(j) = Ok /\ Stuck(k) = Ok
      BY <1>2, <1>3
    <2>2. QED
      BY <1>3, <2>1 DEF VerdictInv, NoneShared
  <1>4. QED
    BY <1>2, <1>3 DEF Sound, Word, Stuck

LEMMA DoneVerdict ==
    ASSUME VerdictInv, BlockDone
    PROVE  /\ Written' /\ Patterned' /\ Caused' /\ Bounded'
           /\ NoneBehind' /\ StuckUnnoticed' /\ AddressesRead' /\ NoneShared'
           /\ NoneMissed'
  <1> USE DEF ProgressInv, ScopeInv, TypeOK, Telemetry
  <1>1. /\ main = "test" /\ main' \in {"arm", "finish"}
        /\ UNCHANGED <<card, choice, size>>
        /\ phase = 4 \/ t.stop_requested
        /\ t'.error_count = t.error_count
        /\ t'.stop_requested = t.stop_requested
    BY DEF BlockDone, askVars, NextPass, LastPass, VerdictInv
  <1>2. /\ Elements' = Elements /\ \A b : Sound(b)' <=> Sound(b)
    BY <1>1 DEF Elements, Sound
  <1>3. /\ t.current_block \in Blocks /\ Elements \in Nat /\ phase \in 0 .. 4
        /\ \A b \in Blocks : b \in Nat
    BY <1>1, UnderTest, MemAssumption DEF Blocks
  <1>4. TestedBlocks' = TestedBlocks
    <2>1. CASE choice = 1
      BY <1>1, <2>1 DEF BlockDone, TestedBlocks
    <2>2. CASE choice # 1
      BY <1>1, <2>2 DEF TestedBlocks
    <2>3. QED
      BY <2>1, <2>2
  <1>5. Clean' <=> Clean
    BY <1>1 DEF Clean
  <1>6. /\ Written' /\ Patterned' /\ StuckUnnoticed' /\ AddressesRead'
        /\ NoneShared'
    BY <1>1 DEF Written, Patterned, StuckUnnoticed, AddressesRead, NoneShared
  <1>7. Caused'
    BY <1>1, <1>2, <1>4 DEF VerdictInv, Caused, Session
  <1>8. Clean /\ choice # 1 =>
           \A b \in Blocks : b < t.current_block => Sound(b)
    BY <1>1 DEF VerdictInv, NoneBehind
  <1>9. CASE main' = "finish"
    <2>1. Bounded' /\ NoneBehind'
      BY <1>9 DEF Bounded, NoneBehind
    <2>2. NoneMissed'
      <3>1. SUFFICES ASSUME Clean, ~t.stop_requested, NEW b \in TestedBlocks
                     PROVE  Sound(b)
        BY <1>1, <1>2, <1>4, <1>5 DEF NoneMissed
      <3>2. Sound(t.current_block)
        BY <1>1, <3>1, BlockSound
      <3>3. CASE choice = 1
        BY <3>1, <3>2, <3>3 DEF TestedBlocks
      <3>4. CASE choice # 1
        <4>1. LoopOver
          BY <1>9, <3>4 DEF BlockDone
        <4>2. t.current_block + 1 = TOTAL_BLOCKS
          BY <3>1, <4>1 DEF LoopOver
        <4>3. b \in Blocks /\ (b < t.current_block \/ b = t.current_block)
          BY <1>3, <3>1, <3>4, <4>2, Sizes DEF TestedBlocks, Blocks
        <4>4. QED
          BY <1>8, <3>1, <3>2, <3>4, <4>3
      <3>5. QED
        BY <3>3, <3>4
    <2>3. QED
      BY <1>6, <1>7, <2>1, <2>2
  <1>10. CASE main' = "arm"
    <2>1. NoneMissed'
      BY <1>10 DEF NoneMissed
    <2>2. choice # 1
      BY <1>10 DEF BlockDone
    <2>3. CASE choice = 3
      BY <1>1, <1>6, <1>7, <2>1, <2>3 DEF Bounded, NoneBehind, Clean
    <2>4. CASE choice # 3
      <3>1. t' = [t EXCEPT !.current_block = @ + 1] /\ ~LoopOver
        BY <1>10, <2>2, <2>4 DEF BlockDone, LastPass, Again
      <3>2. t'.current_block = t.current_block + 1 /\ phase = 4
        BY <1>1, <3>1 DEF LoopOver, VerdictInv
      <3>3. \A b \in Blocks : b < t.current_block + 1 =>
                b < t.current_block \/ b = t.current_block
        BY <1>3
      <3>4. NoneBehind'
        <4>1. Clean => Sound(t.current_block)
          BY <1>1, <3>2, BlockSound
        <4>2. QED
          BY <1>1, <1>2, <1>5, <1>8, <2>2, <3>2, <3>3, <4>1 DEF NoneBehind
      <3>5. Bounded'
        <4>1. Behind \in Nat
          BY <1>1, BehindBounds DEF VerdictInv
        <4>2. Behind' = Behind + Elements
          BY <1>1, <1>2, <1>3, <2>2, <3>2, OneMore DEF Behind
        <4>3. Verified' = Verified
          BY <1>1, <1>3, <1>10, <3>2, <4>1, <4>2 DEF Verified, InBlock
        <4>4. \A b \in Blocks, k \in 0 .. Elements - 1 :
                 Over(b, k)' => Over(b, k)
          BY <1>1, <1>10, <2>2, <3>2, <3>3 DEF Over
        <4>5. QED
          BY <1>1, <1>2, <1>10, <4>3, <4>4 DEF VerdictInv, Bounded
      <3>6. QED
        BY <1>6, <1>7, <2>1, <3>4, <3>5
    <2>5. QED
      BY <2>3, <2>4
  <1>11. QED
    BY <1>1, <1>9, <1>10

(* A session begins with a count of zero and no block behind.               *)
LEMMA StartVerdict ==
    ASSUME VerdictInv, StartSession
    PROVE  /\ Written' /\ Patterned' /\ Caused' /\ Bounded'
           /\ NoneBehind' /\ StuckUnnoticed' /\ AddressesRead' /\ NoneShared'
           /\ NoneMissed'
  <1>1. /\ main = "start" /\ main' = "arm" /\ choice' = choice
        /\ t'.error_count = 0 /\ t'.current_block = t.current_block
        /\ choice # 1 => t.current_block = 0
        /\ size' \in Nat
    BY MemAssumption
       DEF StartSession, VerdictInv, ProgressInv, ScopeInv, TypeOK, Telemetry,
           Fresh
  <1>2. Behind' = 0
    <2>1. Elements' \in Nat
      <3>1. \A n \in Nat : n \div 4 \in Nat
        OBVIOUS
      <3>2. size' \div 4 \in Nat
        BY <1>1, <3>1
      <3>3. QED
        BY <3>2 DEF Elements
    <2>2. CASE choice = 1
      BY <1>1, <2>2 DEF Behind
    <2>3. CASE choice # 1
      <3>1. Behind' = Elements' * 0
        BY <1>1, <2>3 DEF Behind
      <3>2. QED
        BY <2>1, <3>1, NoneOf
    <2>4. QED
      BY <2>2, <2>3
  <1>3. Verified' = 0
    BY <1>1, <1>2 DEF Verified
  <1>4. \A b \in Blocks : b \in Nat /\ ~(b < 0)
    BY MemAssumption DEF Blocks
  <1>5. Bounded'
    BY <1>1, <1>3, <1>4 DEF Bounded, Over
  <1>6. Caused' /\ NoneBehind'
    BY <1>1, <1>4 DEF Caused, NoneBehind
  <1>7. /\ Written' /\ Patterned' /\ StuckUnnoticed' /\ AddressesRead'
        /\ NoneShared' /\ NoneMissed'
    BY <1>1 DEF Written, Patterned, StuckUnnoticed, AddressesRead, NoneShared,
                NoneMissed
  <1>8. QED
    BY <1>5, <1>6, <1>7

(* The steps after the test, and those outside a session.                   *)
LEMMA AwayVerdict ==
    ASSUME VerdictInv,
           \/ main' \notin Session
           \/ Finish
    PROVE  /\ Written' /\ Patterned' /\ Caused' /\ Bounded'
           /\ NoneBehind' /\ StuckUnnoticed' /\ AddressesRead' /\ NoneShared'
           /\ NoneMissed'
  <1>1. CASE main' \notin Session
    BY <1>1 DEF Written, Patterned, Caused, Bounded, NoneBehind, StuckUnnoticed,
                AddressesRead, NoneShared, NoneMissed, Session
  <1>2. CASE Finish
    <2>1. /\ main = "finish" /\ main' = "join"
          /\ UNCHANGED <<card, choice, size>>
          /\ t'.error_count = t.error_count
          /\ t'.stop_requested = t.stop_requested
          /\ t'.current_block = t.current_block
      BY <1>2 DEF Finish, askVars, VerdictInv, ProgressInv, ScopeInv, TypeOK,
                  Telemetry
    <2>2. TestedBlocks' = TestedBlocks /\ \A b : Sound(b)' <=> Sound(b)
      BY <2>1, SameBlock
    <2>3. Caused' /\ NoneMissed'
      BY <2>1, <2>2 DEF VerdictInv, Caused, NoneMissed, Clean, Session
    <2>4. /\ Written' /\ Patterned' /\ Bounded' /\ NoneBehind'
          /\ StuckUnnoticed' /\ AddressesRead' /\ NoneShared'
      BY <2>1 DEF Written, Patterned, Bounded, NoneBehind, StuckUnnoticed,
                  AddressesRead, NoneShared
    <2>5. QED
      BY <2>3, <2>4
  <1>3. QED
    BY <1>1, <1>2

(* The steps of the others.                                                 *)
LEMMA StutterVerdict ==
    ASSUME VerdictInv, UNCHANGED <<main, t, choice, size, phase, i, window, vram, card>>
    PROVE  /\ Written' /\ Patterned' /\ Caused' /\ Bounded'
           /\ NoneBehind' /\ StuckUnnoticed' /\ AddressesRead' /\ NoneShared'
           /\ NoneMissed'
  <1>1. /\ Elements' = Elements /\ Behind' = Behind
        /\ TestedBlocks' = TestedBlocks
        /\ \A b : Sound(b)' <=> Sound(b)
        /\ \A k : Word(k)' = Word(k) /\ Stuck(k)' = Stuck(k)
        /\ \A k : Alone(k)' <=> Alone(k)
    BY SameBlock
  <1>2. /\ Done' = Done /\ (Clean' <=> Clean) /\ Verified' = Verified
        /\ \A k : AddressOf(k)' = AddressOf(k) /\ Expected(k)' = Expected(k)
        /\ \A b, k : Over(b, k)' <=> Over(b, k)
    BY <1>1 DEF Done, Clean, Verified, InBlock, AddressOf, Expected, Over
  <1>3. Written' /\ Patterned' /\ Caused'
    BY <1>1, <1>2 DEF VerdictInv, Written, Patterned, Caused
  <1>4. Bounded' /\ NoneBehind' /\ NoneMissed'
    BY <1>1, <1>2 DEF VerdictInv, Bounded, NoneBehind, NoneMissed
  <1>5. StuckUnnoticed' /\ AddressesRead' /\ NoneShared'
    BY <1>1, <1>2 DEF VerdictInv, StuckUnnoticed, AddressesRead, NoneShared
  <1>6. QED
    BY <1>3, <1>4, <1>5

LEMMA VerdictStep ==
    ASSUME NotDead, VerdictInv, [Next]_vars
    PROVE  VerdictInv'
  <1>1. ProgressInv' /\ AlarmInv'
    BY ProgressStep, AlarmStep DEF VerdictInv, ProgressInv
  <1>2. /\ Written' /\ Patterned' /\ Caused' /\ Bounded'
        /\ NoneBehind' /\ StuckUnnoticed' /\ AddressesRead' /\ NoneShared'
        /\ NoneMissed'
    <2>1. CASE MenuAnswered
      <3>1. main' \in {"quit", "block", "start", "menu"}
        BY <2>1 DEF MenuAnswered
      <3>2. QED
        BY <3>1, AwayVerdict DEF Session
    <2>2. CASE BlockAnswered \/ SizeAnswered \/ ConfirmAnswered
                 \/ ReportDismissed \/ Join
      <3>1. main' \notin Session
        BY <2>2 DEF BlockAnswered, SizeAnswered, ConfirmAnswered,
                    ReportDismissed, Join, Session
      <3>2. QED
        BY <3>1, AwayVerdict
    <2>3. CASE Finish
      BY <2>3, AwayVerdict
    <2>4. CASE StartSession
      BY <2>4, StartVerdict
    <2>5. CASE ArmWindow
      BY <2>5, ArmVerdict
    <2>6. CASE TestWord
      BY <2>6, WordWritten, WordCaused, WordBounded, WordClean
    <2>7. CASE NextPhase
      BY <2>7, PhaseVerdict
    <2>8. CASE BlockDone
      BY <2>8, DoneVerdict
    <2>9. CASE Watchdog \/ Type \/ HangUp \/ UNCHANGED vars
      <3>1. UNCHANGED <<main, t, choice, size, phase, i, window, vram, card>>
        BY <2>9 DEF Watchdog, Type, HangUp, vars, testVars, askVars
      <3>2. QED
        BY <3>1, StutterVerdict
    <2>10. QED
      BY <2>1, <2>2, <2>3, <2>4, <2>5, <2>6, <2>7, <2>8, <2>9
         DEF Next, MainThread, Exited
  <1>3. QED
    BY <1>1, <1>2 DEF VerdictInv

LEMMA VerdictAlways == ASSUME NotDead PROVE Spec => []VerdictInv
  <1>1. VerdictInv /\ [Next]_vars => VerdictInv'
    BY VerdictStep
  <1>2. QED
    BY <1>1, VerdictInit, PTL DEF Spec

-----------------------------------------------------------------------------
(* The refinement of VramTester.                                            *)

(* The blocks of a session, to the end of its report, are the device's.     *)
InDevice == main \in Session \cup {"report"} => TestedBlocks \subseteq Blocks

LEMMA InDeviceStep ==
    ASSUME ScopeInv, InDevice, [Next]_vars
    PROVE  InDevice'
  <1>1. CASE main' \notin Session \cup {"report"}
    BY <1>1 DEF InDevice
  <1>2. CASE main' \in {"arm", "test"}
    <2>1. t'.current_block \in Blocks
      BY <1>2, BlockStep DEF BlockChosen
    <2>2. QED
      BY <2>1 DEF InDevice, TestedBlocks
  <1>3. CASE BlockDone /\ main' = "finish"
    <2>1. /\ main = "test" /\ choice' = choice
          /\ choice = 1 => t' = t
      BY <1>3 DEF BlockDone, askVars
    <2>2. QED
      BY <2>1 DEF InDevice, TestedBlocks, Session
  <1>4. CASE Finish \/ Join
    <2>1. /\ main \in Session /\ choice' = choice
          /\ t'.current_block = t.current_block
      BY <1>4 DEF Finish, Join, askVars, Session, ScopeInv, TypeOK, Telemetry
    <2>2. QED
      BY <2>1 DEF InDevice, TestedBlocks
  <1>5. CASE Watchdog \/ Type \/ HangUp \/ UNCHANGED vars
    <2>1. UNCHANGED <<main, t, choice>>
      BY <1>5 DEF Watchdog, Type, HangUp, vars, askVars
    <2>2. QED
      BY <2>1 DEF InDevice, TestedBlocks
  <1>6. CASE MenuAnswered \/ BlockAnswered \/ SizeAnswered \/ ConfirmAnswered
               \/ ReportDismissed
    <2>1. main' \in {"quit", "block", "size", "confirm", "start", "menu"}
      BY <1>6 DEF MenuAnswered, BlockAnswered, SizeAnswered, ConfirmAnswered,
                  ReportDismissed
    <2>2. QED
      BY <1>1, <2>1 DEF Session
  <1>7. CASE StartSession \/ ArmWindow \/ TestWord \/ NextPhase
    <2>1. main' \in {"arm", "test"}
      BY <1>7 DEF StartSession, ArmWindow, TestWord, NextPhase
    <2>2. QED
      BY <1>2, <2>1
  <1>8. BlockDone => main' \in {"arm", "finish"}
    BY DEF BlockDone, NextPass, LastPass
  <1>9. QED
    BY <1>1, <1>2, <1>3, <1>4, <1>5, <1>6, <1>7, <1>8
       DEF Next, MainThread, Exited

(* A session tests words of the device.                                     *)
LEMMA TestedWords ==
    ASSUME ScopeInv, InDevice, main \in Session \cup {"report"}
    PROVE  Tested \subseteq Device
  BY TestedIsBlocks DEF ScopeInv, InDevice

Covered == main \in Session \cup {"report"} => Tested \subseteq Device

RefineInv == VerdictInv /\ InDevice /\ Covered

LEMMA RefineAlways == ASSUME NotDead PROVE Spec => []RefineInv
  <1>1. Init => InDevice
    BY DEF Init, InDevice, Session
  <1>2. VerdictInv /\ InDevice /\ [Next]_vars => InDevice'
    BY InDeviceStep DEF VerdictInv, ProgressInv
  <1>3. VerdictInv /\ InDevice => RefineInv
    BY TestedWords DEF RefineInv, Covered, VerdictInv, ProgressInv
  <1>4. QED
    BY <1>1, <1>2, <1>3, VerdictAlways, PTL DEF Spec

(* The words tested and the evidence, when neither the card nor the choice  *)
(* of words changes.                                                        *)
LEMMA SameRange ==
    ASSUME UNCHANGED <<card, choice, size>>,
           choice # 1 \/ t'.current_block = t.current_block
    PROVE  Tested' = Tested
  <1>1. Elements' = Elements /\ TestedBlocks' = TestedBlocks
    BY DEF Elements, TestedBlocks
  <1>2. \A b, n : WordsOf(b, n)' = WordsOf(b, n)
    BY DEF WordsOf
  <1>3. QED
    BY <1>1, <1>2 DEF Tested

LEMMA SameEvidence ==
    ASSUME card' = card
    PROVE  Evidence' = Evidence
  <1>1. StuckWords' = StuckWords
    BY DEF StuckWords
  <1>2. \A b : SharedPlaces(b)' = SharedPlaces(b)
    BY <1>1 DEF SharedPlaces, WordsOf
  <1>3. QED
    BY <1>1, <1>2 DEF Evidence

(* Between sessions nothing happens to the memory.                          *)
LEMMA IdleStutters ==
    ASSUME main \notin Session \cup {"report"},
           main' \notin Session \cup {"report"}, UNCHANGED <<vram, card>>
    PROVE  UNCHANGED Promise!vars
  BY SameEvidence DEF Promise!vars

(* In a session the range stays, and the verdict is open.                   *)
LEMMA SessionStutters ==
    ASSUME main \in Session, main' \in Session, UNCHANGED vram,
           UNCHANGED <<card, choice, size>>,
           choice # 1 \/ t'.current_block = t.current_block
    PROVE  UNCHANGED Promise!vars
  BY SameEvidence, SameRange DEF Promise!vars, Session

LEMMA SessionBegins ==
    ASSUME RefineInv', TypeOK, StartSession
    PROVE  Promise!Begin
  <1>1. /\ main = "start" /\ main' = "arm" /\ UNCHANGED <<vram, card>>
    BY DEF StartSession, testVars
  <1>2. Tested' \subseteq Device
    BY <1>1 DEF RefineInv, Covered, Session
  <1>3. DOMAIN card.store = Device
    BY MemAssumption DEF TypeOK, Card
  <1>4. QED
    BY <1>1, <1>2, <1>3, SameEvidence DEF Promise!Begin, Session

(* A word is written where it is stored, and it is one of those under test. *)
LEMMA SessionWorks ==
    ASSUME VerdictInv, TestWord
    PROVE  Promise!Work
  <1>1. /\ main = "test" /\ main' = "test" /\ i < Elements
        /\ UNCHANGED <<card, choice, size>>
        /\ t'.current_block = t.current_block
    BY DEF TestWord, askVars, VerdictInv, ProgressInv, ScopeInv, TypeOK,
           Telemetry
  <1>2. Tested' = Tested /\ Evidence' = Evidence
    BY <1>1, SameRange, SameEvidence
  <1>3. vram \in [Device -> Values]
    BY DEF VerdictInv, ProgressInv, ScopeInv, TypeOK
  <1>4. \/ vram' = vram
        \/ vram' = [vram EXCEPT ![card.store[Word(i)]] = Expected(i)]
    <2>1. Cell(window, i) = Word(i)
      BY <1>1, UnderTest
    <2>2. QED
      BY <2>1 DEF TestWord
  <1>5. Word(i) \in Tested
    <2>1. i \in 0 .. Elements - 1
      BY <1>1, UnderTest
    <2>2. t.current_block \in TestedBlocks
      BY <1>1, UnderTest
    <2>3. QED
      BY <2>1, <2>2 DEF Tested, WordsOf, Word, WordAt
  <1>6. DOMAIN vram' = DOMAIN vram
    BY <1>3, <1>4
  <1>7. \A p \in DOMAIN vram : vram'[p] # vram[p] => p = card.store[Word(i)]
    BY <1>3, <1>4
  <1>8. QED
    BY <1>1, <1>2, <1>5, <1>6, <1>7 DEF Promise!Work, Session

(* The report of a session that was not stopped is true of the card.        *)
LEMMA SessionReports ==
    ASSUME RefineInv, Join
    PROVE  Promise!Report
  <1>1. /\ main = "join" /\ main' = "report" /\ t' = t
        /\ UNCHANGED <<vram, card, choice, size>>
    BY DEF Join, testVars, askVars
  <1>2. Tested' = Tested /\ Evidence' = Evidence
    BY <1>1, SameRange, SameEvidence
  <1>3. TypeOK /\ TestedBlocks \subseteq Blocks
    BY <1>1 DEF RefineInv, VerdictInv, ProgressInv, ScopeInv, InDevice, Session
  <1>4. t.error_count # 0 => Promise!Faulty
    <2>1. t.error_count # 0 => \E b \in TestedBlocks : ~Sound(b)
      BY <1>1 DEF RefineInv, VerdictInv, Caused, Session
    <2>2. QED
      BY <1>1, <1>3, <2>1, UnsoundIsFaulty DEF Promise!Faulty, Session
  <1>5. t.error_count = 0 /\ ~t.stop_requested => ~Promise!Faulty
    <2>1. SUFFICES ASSUME t.error_count = 0, ~t.stop_requested, Promise!Faulty
                   PROVE  FALSE
      OBVIOUS
    <2>2. PICK words \in Evidence : words \subseteq Tested
      BY <1>1, <2>1 DEF Promise!Faulty, Session
    <2>3. \E b \in TestedBlocks : ~Sound(b)
      BY <1>3, <2>2, FaultyIsUnsound
    <2>4. choice # 3
      BY <1>1, <2>1 DEF RefineInv, VerdictInv, ProgressInv, Counted
    <2>5. QED
      BY <1>1, <2>1, <2>3, <2>4 DEF RefineInv, VerdictInv, NoneMissed, Clean
  <1>6. QED
    BY <1>1, <1>2, <1>4, <1>5 DEF Promise!Report, Session

(* For every card that is not dead all over, of any size, whatever the      *)
(* faults, the keys and the interleaving: a session writes nowhere but      *)
(* where the words it was asked to test are stored, and a report that was   *)
(* not interrupted says "faulty" exactly when those words show a fault      *)
(* (nv_memtest.c:115-134, 170-202, 232-234).                                *)
THEOREM TesterRefined == ASSUME NotDead PROVE Spec => ImplementsTester
  <1>1. Init => Promise!Init
    BY DEF Init, Promise!Init, Session
  <1>2. RefineInv /\ RefineInv' /\ [Next]_vars => [Promise!Next]_Promise!vars
    <2> SUFFICES ASSUME RefineInv, RefineInv', [Next]_vars
                 PROVE  Promise!Next \/ UNCHANGED Promise!vars
      OBVIOUS
    <2> USE DEF RefineInv, VerdictInv, ProgressInv, ScopeInv
    <2>1. CASE MenuAnswered \/ BlockAnswered \/ SizeAnswered \/ ConfirmAnswered
      <3>1. /\ main \in {"menu", "block", "size", "confirm"}
            /\ main' \in {"quit", "block", "size", "confirm", "start", "menu"}
            /\ UNCHANGED <<vram, card>>
        BY <2>1 DEF MenuAnswered, BlockAnswered, SizeAnswered, ConfirmAnswered,
                    testVars
      <3>2. QED
        BY <3>1, IdleStutters DEF Session
    <2>2. CASE StartSession
      BY <2>2, SessionBegins DEF Promise!Next
    <2>3. CASE TestWord
      BY <2>3, SessionWorks DEF Promise!Next
    <2>4. CASE ArmWindow \/ NextPhase \/ Finish
      <3>1. /\ main \in Session /\ main' \in Session
            /\ UNCHANGED <<vram, card, choice, size>>
            /\ t'.current_block = t.current_block
        BY <2>4 DEF ArmWindow, NextPhase, Finish, testVars, askVars, Session,
                    TypeOK, Telemetry
      <3>2. QED
        BY <3>1, SessionStutters
    <2>5. CASE BlockDone
      <3>1. /\ main \in Session /\ main' \in Session
            /\ UNCHANGED <<vram, card, choice, size>>
            /\ choice = 1 => t' = t
        BY <2>5 DEF BlockDone, NextPass, LastPass, askVars, Session
      <3>2. QED
        BY <3>1, SessionStutters
    <2>6. CASE Join
      BY <2>6, SessionReports DEF Promise!Next
    <2>7. CASE ReportDismissed
      BY <2>7, SameEvidence DEF ReportDismissed, testVars, Promise!Next,
                                Promise!Return, Session
    <2>8. CASE Watchdog \/ Type \/ HangUp \/ Exited \/ UNCHANGED vars
      <3>1. UNCHANGED <<main, t, choice, size, card, vram>>
        BY <2>8 DEF Watchdog, Type, HangUp, Exited, vars, testVars, askVars
      <3>2. QED
        BY <3>1, SameRange, SameEvidence DEF Promise!vars
    <2>9. QED
      BY <2>1, <2>2, <2>3, <2>4, <2>5, <2>6, <2>7, <2>8 DEF Next, MainThread
  <1>3. QED
    BY <1>1, <1>2, RefineAlways, PTL DEF Spec, ImplementsTester, Promise!Spec
=============================================================================
