--------------------------- MODULE EcProbeProofs ---------------------------
(***************************************************************************)
(* Proofs about EcProbe for any number of terminals, probes started and    *)
(* killed, and any list of offsets.                                        *)
(***************************************************************************)
EXTENDS EcProbe, SequenceTheorems, TLAPS

-----------------------------------------------------------------------------
(* The accesses of a run are numbered 1 .. 6 * Len(Offsets), and the last   *)
(* one is followed by the end of main.                                      *)
LastAccess == 6 * Len(Offsets)

(* The calls of read_ec that p has finished.                                *)
Calls(p) == (pc[p] - 1) \div 6


LEMMA OffsetsLength ==
    /\ Len(Offsets) \in Nat \ {0}
    /\ DOMAIN Offsets = 1 .. Len(Offsets)
    /\ \A j \in 1 .. Len(Offsets) :
         Offsets[j] \in Offset /\ Offsets[j] \notin {"none", "read"}
  <1>1. Offsets \in Seq(STRING \ {"none", "read"}) /\ Offsets # <<>>
    BY EcAssumption
  <1>2. QED
    BY <1>1, LenProperties, EmptySeq, ElementOfSeq DEF Offset

(* Onward counts on, and wraps after the last access.                       *)
LEMMA Wraps ==
    ASSUME NEW x \in 0 .. LastAccess
    PROVE  (x + 1) % (LastAccess + 1) = IF x = LastAccess THEN 0 ELSE x + 1
  <1>1. LastAccess \in Nat
    BY OffsetsLength DEF LastAccess
  <1> HIDE DEF LastAccess
  <1>2. QED
    BY <1>1

(* Where an access stands in its call of read_ec, and where the next one    *)
(* does.                                                                    *)
LEMMA Places ==
    ASSUME NEW x \in 1 .. LastAccess
    PROVE  /\ (x - 1) \div 6 \in 0 .. Len(Offsets) - 1
           /\ (x - 1) % 6 \in 0 .. 5
           /\ (x - 1) % 6 # 5 => /\ x # LastAccess
                                 /\ ((x + 1) - 1) \div 6 = (x - 1) \div 6
                                 /\ ((x + 1) - 1) % 6 = ((x - 1) % 6) + 1
           /\ (x - 1) % 6 = 5 => /\ ((x + 1) - 1) \div 6 = (x - 1) \div 6 + 1
                                 /\ ((x + 1) - 1) % 6 = 0
                                 /\ x = LastAccess <=>
                                      (x - 1) \div 6 + 1 = Len(Offsets)
  <1>1. Len(Offsets) \in Nat /\ x \in Int
    BY OffsetsLength DEF LastAccess
  <1>2. QED
    BY <1>1 DEF LastAccess

-----------------------------------------------------------------------------
(* Type correctness.                                                        *)
LEMMA OnwardType ==
    ASSUME TypeOK, NEW p \in Process, Onward(p)
    PROVE  /\ pc' \in [Process -> 0 .. 6 * Len(Offsets)]
           /\ pc'[p] = IF pc[p] = LastAccess THEN 0 ELSE pc[p] + 1
           /\ \A q \in Process \ {p} : pc'[q] = pc[q]
  <1>1. /\ pc \in [Process -> 0 .. LastAccess] /\ LastAccess \in Nat
        /\ pc' = [pc EXCEPT ![p] = (pc[p] + 1) % (LastAccess + 1)]
    BY OffsetsLength DEF TypeOK, Onward, LastAccess
  <1> HIDE DEF LastAccess
  <1>2. (pc[p] + 1) % (LastAccess + 1) = IF pc[p] = LastAccess THEN 0 ELSE pc[p] + 1
    BY <1>1, Wraps
  <1>3. (pc[p] + 1) % (LastAccess + 1) \in 0 .. LastAccess
    BY <1>1, <1>2
  <1>4. pc' \in [Process -> 0 .. LastAccess]
    BY <1>1, <1>3
  <1>5. QED
    BY <1>1, <1>2, <1>4 DEF LastAccess

LEMMA InitType == Init => TypeOK
  <1> SUFFICES ASSUME Init PROVE TypeOK
    OBVIOUS
  <1>1. <<>> \in Seq({"none"} \cup Offset)
    BY EmptySeq
  <1>2. answer \in [Process -> Seq({"none"} \cup Offset)]
    BY <1>1 DEF Init
  <1>3. 0 \in 0 .. 6 * Len(Offsets)
    BY OffsetsLength
  <1>4. pc \in [Process -> 0 .. 6 * Len(Offsets)]
    BY <1>3 DEF Init
  <1>5. runs \in 0 .. MaxRuns /\ kills \in 0 .. MaxKills
    BY EcAssumption DEF Init
  <1>6. QED
    BY <1>2, <1>4, <1>5 DEF Init, TypeOK

LEMMA NextType == TypeOK /\ [Next]_vars => TypeOK'
  <1> SUFFICES ASSUME TypeOK, [Next]_vars PROVE TypeOK'
    OBVIOUS
  <1>1. CASE EcTakes
    BY <1>1 DEF EcTakes, TypeOK
  <1>2. CASE EcAnswers
    BY <1>2 DEF EcAnswers, TypeOK
  <1>3. ASSUME NEW p \in Process, Start(p) PROVE TypeOK'
    <2>1. pc' \in [Process -> 0 .. 6 * Len(Offsets)]
      BY <1>3, OffsetsLength DEF Start, TypeOK
    <2>2. answer' \in [Process -> Seq({"none"} \cup Offset)]
      <3>1. <<>> \in Seq({"none"} \cup Offset)
        BY EmptySeq
      <3>2. QED
        BY <1>3, <3>1 DEF Start, TypeOK
    <2>3. spoiled' \in [Process -> BOOLEAN]
      BY <1>3 DEF Start, TypeOK, Running, AnswerDue
    <2>4. runs' \in 0 .. MaxRuns
      BY <1>3, EcAssumption DEF Start, TypeOK
    <2>5. QED
      BY <1>3, <2>1, <2>2, <2>3, <2>4 DEF Start, TypeOK, ec
  <1>4. ASSUME NEW p \in Process, read_ec(p) PROVE TypeOK'
    <2>1. pc' \in [Process -> 0 .. 6 * Len(Offsets)]
      BY <1>4, OnwardType DEF read_ec, wait_ec_ibf, outb, wait_ec_obf, inb
    <2>2. CASE wait_ec_ibf(p) \/ wait_ec_obf(p)
      BY <2>1, <2>2 DEF wait_ec_ibf, wait_ec_obf, TypeOK, ec
    <2>3. CASE outb(p)
      <3>1. At(p, 3) => Addr(p) \in Offset
        <4>1. pc[p] \in 1 .. LastAccess \/ pc[p] = 0
          BY OffsetsLength DEF TypeOK, LastAccess
        <4>2. pc[p] # 0 => (pc[p] - 1) \div 6 \in 0 .. Len(Offsets) - 1
          BY <4>1, Places
        <4>3. pc[p] # 0 => (pc[p] - 1) \div 6 + 1 \in 1 .. Len(Offsets)
          BY <4>2, OffsetsLength
        <4>4. QED
          BY <4>3, OffsetsLength DEF At, Running, Addr
      <3>2. input' \in {"none", "read"} \cup Offset
        BY <2>3, <3>1 DEF outb
      <3>3. QED
        BY <2>1, <2>3, <3>2 DEF outb, TypeOK
    <2>4. CASE inb(p)
      <3>1. answer[p] \in Seq({"none"} \cup Offset) /\ output \in {"none"} \cup Offset
        BY DEF TypeOK
      <3>2. Append(answer[p], output) \in Seq({"none"} \cup Offset)
        BY <3>1, AppendProperties
      <3>3. answer' \in [Process -> Seq({"none"} \cup Offset)]
        BY <2>4, <3>2 DEF inb, TypeOK
      <3>4. QED
        BY <2>1, <2>4, <3>3 DEF inb, TypeOK
    <2>5. QED
      BY <1>4, <2>2, <2>3, <2>4 DEF read_ec
  <1>5. ASSUME NEW p \in Process, Kill(p) PROVE TypeOK'
    <2>1. pc' \in [Process -> 0 .. 6 * Len(Offsets)]
      BY <1>5, OffsetsLength DEF Kill, TypeOK
    <2>2. kills' \in 0 .. MaxKills
      BY <1>5, EcAssumption DEF Kill, TypeOK
    <2>3. QED
      BY <1>5, <2>1, <2>2 DEF Kill, TypeOK, ec
  <1>6. CASE UNCHANGED vars
    BY <1>6 DEF vars, ec, TypeOK
  <1>7. QED
    BY <1>1, <1>2, <1>3, <1>4, <1>5, <1>6 DEF Next

(* Every reachable state of the ports and the probes is well typed; in      *)
(* particular the access counter of main never passes the last access.      *)
THEOREM TypeCorrect == Spec => []TypeOK
  BY InitType, NextType, PTL DEF Spec

-----------------------------------------------------------------------------
(* RightLabels is made inductive by saying what a probe that is alone and   *)
(* unspoiled knows of the controller at each of its six accesses.           *)
Alone(p) == \A q \in Process : Running(q) => q = p

Idle == ~full /\ owed = "none"

Asked(p)    == Idle /\ reading /\ input = Addr(p)
Working(p)  == ~full /\ owed = Addr(p) /\ ~reading /\ input = "none"
Answered(p) == full /\ output = Addr(p) /\ owed = "none" /\ ~reading /\ input = "none"

Exchange(p) ==
    /\ At(p, 0) => ~AnswerDue
    /\ At(p, 1) => Idle /\ input = "none"
    /\ At(p, 2) => Idle /\ (input = "read" \/ (input = "none" /\ reading))
    /\ At(p, 3) => Idle /\ input = "none" /\ reading
    /\ At(p, 4) => Asked(p) \/ Working(p) \/ Answered(p)
    /\ At(p, 5) => Answered(p)

SoFar(p) ==
    /\ Len(answer[p]) = Calls(p)
    /\ \A j \in 1 .. Calls(p) : answer[p][j] = Offsets[j]

Known(p) == Alone(p) /\ Exchange(p) /\ SoFar(p)

EcInv ==
    /\ \A p \in Process : Running(p) /\ ~spoiled[p] => Known(p)
    /\ RightLabels

(* A running probe is at one access of one call, about one offset.          *)
LEMMA Standing ==
    ASSUME TypeOK, NEW p \in Process, Running(p)
    PROVE  /\ pc[p] \in 1 .. LastAccess
           /\ \E a \in 0 .. 5 : \A b \in 0 .. 5 : At(p, b) <=> a = b
           /\ Calls(p) \in 0 .. Len(Offsets) - 1
           /\ Addr(p) = Offsets[Calls(p) + 1]
           /\ Addr(p) \in Offset /\ Addr(p) \notin {"none", "read"}
  <1>1. pc[p] \in 0 .. LastAccess /\ pc[p] # 0 /\ LastAccess \in Nat
    BY OffsetsLength DEF TypeOK, Running, LastAccess
  <1>2. pc[p] \in 1 .. LastAccess
    <2> HIDE DEF LastAccess
    <2> QED
      BY <1>1
  <1>3. (pc[p] - 1) % 6 \in 0 .. 5 /\ Calls(p) \in 0 .. Len(Offsets) - 1
    BY <1>2, Places DEF Calls
  <1>4. \A b \in 0 .. 5 : At(p, b) <=> (pc[p] - 1) % 6 = b
    BY DEF At
  <1>5. Calls(p) + 1 \in 1 .. Len(Offsets) /\ Addr(p) = Offsets[Calls(p) + 1]
    BY <1>3, OffsetsLength DEF Addr, Calls
  <1>6. QED
    BY <1>2, <1>3, <1>4, <1>5, OffsetsLength

(* Where it stands after a step of its own.                                 *)
LEMMA StandingNext ==
    ASSUME TypeOK, NEW p \in Process, Running(p), Onward(p)
    PROVE  /\ \A a \in 0 .. 4 : At(p, a) =>
                /\ \A b \in 0 .. 5 : At(p, b)' <=> b = a + 1
                /\ Running(p)' /\ Calls(p)' = Calls(p) /\ Addr(p)' = Addr(p)
           /\ At(p, 5) =>
                /\ Running(p)' <=> Calls(p) + 1 # Len(Offsets)
                /\ Running(p)' => /\ \A b \in 0 .. 5 : At(p, b)' <=> b = 0
                                  /\ Calls(p)' = Calls(p) + 1
  <1>1. pc[p] \in 1 .. LastAccess
    BY Standing
  <1>2. pc'[p] = IF pc[p] = LastAccess THEN 0 ELSE pc[p] + 1
    BY OnwardType
  <1>3. ASSUME NEW a \in 0 .. 4, At(p, a)
        PROVE  /\ \A b \in 0 .. 5 : At(p, b)' <=> b = a + 1
               /\ Running(p)' /\ Calls(p)' = Calls(p) /\ Addr(p)' = Addr(p)
    <2>1. (pc[p] - 1) % 6 = a /\ a # 5
      BY <1>3 DEF At
    <2>2. /\ pc'[p] = pc[p] + 1
          /\ (pc'[p] - 1) \div 6 = (pc[p] - 1) \div 6
          /\ (pc'[p] - 1) % 6 = a + 1
      BY <1>1, <1>2, <2>1, Places
    <2>3. Running(p)'
      BY <1>1, <2>2 DEF Running
    <2>4. QED
      BY <2>2, <2>3 DEF At, Calls, Addr
  <1>4. ASSUME At(p, 5)
        PROVE  /\ Running(p)' <=> Calls(p) + 1 # Len(Offsets)
               /\ Running(p)' => /\ \A b \in 0 .. 5 : At(p, b)' <=> b = 0
                                 /\ Calls(p)' = Calls(p) + 1
    <2>1. (pc[p] - 1) % 6 = 5
      BY <1>4 DEF At
    <2>2. /\ ((pc[p] + 1) - 1) \div 6 = (pc[p] - 1) \div 6 + 1
          /\ ((pc[p] + 1) - 1) % 6 = 0
          /\ pc[p] = LastAccess <=> (pc[p] - 1) \div 6 + 1 = Len(Offsets)
      BY <1>1, <2>1, Places
    <2>3. Running(p)' <=> pc[p] # LastAccess
      BY <1>1, <1>2 DEF Running
    <2>4. Running(p)' => pc'[p] = pc[p] + 1
      BY <1>2, <2>3
    <2>5. QED
      BY <2>2, <2>3, <2>4 DEF At, Calls
  <1>5. QED
    BY <1>3, <1>4

(* The controller: whatever it does, an unspoiled probe still knows it.     *)
LEMMA EcKnown ==
    ASSUME TypeOK, NEW p \in Process, Running(p), Known(p), EcTakes \/ EcAnswers
    PROVE  Known(p)'
  <1>1. pc' = pc /\ answer' = answer
    BY DEF EcTakes, EcAnswers
  <1>2. Alone(p)' /\ SoFar(p)'
    BY <1>1 DEF Known, Alone, SoFar, Running, Calls
  <1>3. /\ \A b \in 0 .. 5 : At(p, b)' <=> At(p, b)
        /\ Addr(p)' = Addr(p)
    BY <1>1 DEF At, Running, Addr
  <1>4. Addr(p) \in Offset /\ Addr(p) \notin {"none", "read"}
    BY Standing
  <1>5. PICK a \in 0 .. 5 : \A b \in 0 .. 5 : At(p, b) <=> a = b
    BY Standing
  <1>6. /\ Exchange(p) /\ input \in {"none", "read"} \cup Offset
        /\ owed \in {"none"} \cup Offset
        /\ "none" \notin Offset /\ "read" \notin Offset
    BY OffsetsLength DEF Known, TypeOK, Offset
  <1>7. Exchange(p)'
    <2>1. CASE EcTakes
      <3>1. /\ input # "none" /\ owed = "none" /\ input' = "none"
            /\ reading' <=> input = "read"
            /\ full' = full /\ output' = output
            /\ owed' = IF reading /\ input # "read" THEN input ELSE "none"
        BY <2>1 DEF EcTakes
      <3>2. CASE a = 0
        BY <1>3, <1>5, <1>6, <3>1, <3>2 DEF Exchange, AnswerDue, Offset
      <3>3. CASE a = 2
        <4>1. ~full /\ input = "read"
          BY <1>5, <1>6, <3>1, <3>3 DEF Exchange, Idle
        <4>2. ~full' /\ owed' = "none" /\ input' = "none" /\ reading'
          BY <3>1, <4>1
        <4>3. QED
          BY <1>3, <1>5, <3>3, <4>2 DEF Exchange, Idle
      <3>4. CASE a = 4
        <4>1. ~full /\ input = Addr(p) /\ reading
          BY <1>5, <1>6, <3>1, <3>4 DEF Exchange, Idle, Asked, Working, Answered
        <4>2. ~full' /\ owed' = Addr(p) /\ input' = "none" /\ ~reading'
          BY <1>4, <3>1, <4>1
        <4>3. QED
          BY <1>3, <1>5, <3>4, <4>2 DEF Exchange, Working
      <3>5. CASE a \in {1, 3, 5}
        BY <1>5, <1>6, <3>1, <3>5 DEF Exchange, Answered
      <3>6. QED
        BY <3>2, <3>3, <3>4, <3>5
    <2>2. CASE EcAnswers
      BY <1>3, <1>4, <1>5, <1>6, <2>2
         DEF EcAnswers, Exchange, Idle, Asked, Working, Answered, AnswerDue, Offset
    <2>3. QED
      BY <2>1, <2>2
  <1>8. QED
    BY <1>2, <1>7 DEF Known

(* The probe's own accesses, but for the last of a call.                    *)
LEMMA AccessKnown ==
    ASSUME TypeOK, NEW p \in Process, Running(p), Known(p),
           wait_ec_ibf(p) \/ outb(p) \/ wait_ec_obf(p)
    PROVE  Running(p)' /\ Known(p)'
  <1>1. Onward(p) /\ answer' = answer
    BY DEF wait_ec_ibf, outb, wait_ec_obf
  <1>2. PICK a \in 0 .. 4 : At(p, a)
    BY DEF wait_ec_ibf, outb, wait_ec_obf
  <1>3. /\ \A b \in 0 .. 5 : At(p, b)' <=> b = a + 1
        /\ Running(p)' /\ Calls(p)' = Calls(p) /\ Addr(p)' = Addr(p)
    BY <1>1, <1>2, StandingNext
  <1>4. \A b \in 0 .. 5 : At(p, b) <=> a = b
    BY <1>2, Standing
  <1>5. Alone(p)'
    <2>1. \A q \in Process \ {p} : pc'[q] = pc[q]
      BY <1>1, OnwardType
    <2>2. QED
      BY <2>1 DEF Known, Alone, Running
  <1>6. SoFar(p)'
    BY <1>1, <1>3 DEF Known, SoFar
  <1>7. Addr(p) \in Offset /\ Addr(p) \notin {"none", "read"}
    BY Standing
  <1>8. Exchange(p)'
    <2>1. Exchange(p)
      BY DEF Known
    <2>2. CASE wait_ec_ibf(p)
      <3>1. input = "none" /\ UNCHANGED ec /\ (a = 0 \/ a = 2)
        BY <1>4, <2>2 DEF wait_ec_ibf
      <3>2. QED
        BY <1>3, <1>4, <2>1, <3>1, OffsetsLength
           DEF Exchange, Idle, AnswerDue, ec
    <2>3. CASE outb(p)
      <3>1. /\ UNCHANGED <<output, full, reading, owed>> /\ (a = 1 \/ a = 3)
            /\ input' = IF a = 1 THEN "read" ELSE Addr(p)
        BY <1>4, <2>3 DEF outb
      <3>2. QED
        BY <1>3, <1>4, <2>1, <3>1 DEF Exchange, Idle, Asked
    <2>4. CASE wait_ec_obf(p)
      <3>1. full /\ UNCHANGED ec /\ a = 4
        BY <1>4, <2>4 DEF wait_ec_obf
      <3>2. QED
        BY <1>3, <1>4, <2>1, <3>1
           DEF Exchange, Idle, Asked, Working, Answered, ec
    <2>5. QED
      BY <2>2, <2>3, <2>4
  <1>9. QED
    BY <1>3, <1>5, <1>6, <1>8 DEF Known

(* The last one: a byte is read, under the name it was asked for.           *)
LEMMA ByteKnown ==
    ASSUME TypeOK, NEW p \in Process, Running(p), Known(p), inb(p)
    PROVE  /\ Running(p)' => Known(p)'
           /\ ~Running(p)' => answer'[p] = Offsets
  <1>1. Onward(p) /\ At(p, 5)
    BY DEF inb
  <1>2. /\ Running(p)' <=> Calls(p) + 1 # Len(Offsets)
        /\ Running(p)' => /\ \A b \in 0 .. 5 : At(p, b)' <=> b = 0
                          /\ Calls(p)' = Calls(p) + 1
    BY <1>1, StandingNext
  <1>3. output = Offsets[Calls(p) + 1] /\ owed = "none" /\ input = "none"
    BY <1>1, Standing DEF Known, Exchange, Answered
  <1>4. answer[p] \in Seq({"none"} \cup Offset) /\ output \in {"none"} \cup Offset
    BY DEF TypeOK
  <1>5. answer'[p] = Append(answer[p], output)
    BY DEF inb, TypeOK
  <1>6. /\ Calls(p) \in Nat /\ Len(answer[p]) = Calls(p)
        /\ \A j \in 1 .. Calls(p) : answer[p][j] = Offsets[j]
    BY Standing, OffsetsLength DEF Known, SoFar
  <1>7. /\ answer'[p] \in Seq({"none"} \cup Offset)
        /\ Len(answer'[p]) = Calls(p) + 1
        /\ \A j \in 1 .. Calls(p) + 1 : answer'[p][j] = Offsets[j]
    BY <1>3, <1>4, <1>5, <1>6, AppendProperties
  <1>8. ASSUME ~Running(p)' PROVE answer'[p] = Offsets
    <2>1. Len(answer'[p]) = Len(Offsets)
      BY <1>2, <1>7, <1>8
    <2>2. Offsets \in Seq(STRING \ {"none", "read"})
      BY EcAssumption
    <2>3. QED
      BY <1>2, <1>7, <1>8, <2>1, <2>2, SeqEqual
  <1>9. ASSUME Running(p)' PROVE Known(p)'
    <2>1. Alone(p)'
      <3>1. \A q \in Process \ {p} : pc'[q] = pc[q]
        BY <1>1, OnwardType
      <3>2. QED
        BY <3>1 DEF Known, Alone, Running
    <2>2. Exchange(p)'
      <3>1. /\ full' = FALSE /\ owed' = "none" /\ input' = "none"
        BY <1>3 DEF inb
      <3>2. "none" \notin Offset
        BY OffsetsLength DEF Offset
      <3>3. QED
        BY <1>2, <1>9, <3>1, <3>2 DEF Exchange, AnswerDue, Offset
    <2>3. SoFar(p)'
      BY <1>2, <1>7, <1>9 DEF SoFar
    <2>4. QED
      BY <2>1, <2>2, <2>3 DEF Known
  <1>10. QED
    BY <1>8, <1>9

LEMMA EcNext == TypeOK /\ EcInv /\ [Next]_vars => EcInv'
  <1> SUFFICES ASSUME TypeOK, EcInv, [Next]_vars, NEW p \in Process, ~spoiled'[p]
               PROVE  /\ Running(p)' => Known(p)'
                      /\ Done(p)' => answer'[p] = Offsets
    BY DEF EcInv, RightLabels
  <1>1. /\ Running(p) /\ ~spoiled[p] => Known(p)
        /\ Done(p) /\ ~spoiled[p] => answer[p] = Offsets
    BY DEF EcInv, RightLabels
  <1>2. CASE EcTakes \/ EcAnswers
    <2>1. pc' = pc /\ answer' = answer /\ spoiled' = spoiled
      BY <1>2 DEF EcTakes, EcAnswers
    <2>2. QED
      BY <1>1, <1>2, <2>1, EcKnown DEF Running, Done
  <1>3. ASSUME NEW q \in Process, Start(q) PROVE /\ Running(p)' => Known(p)'
                                                 /\ Done(p)' => answer'[p] = Offsets
    <2>1. CASE q = p
      <3>1. /\ \A r \in Process : ~Running(r)
            /\ ~AnswerDue /\ pc'[p] = 1 /\ answer'[p] = <<>> /\ UNCHANGED ec
        BY <1>3, <2>1 DEF Start, TypeOK
      <3>2. Alone(p)'
        BY <1>3, <2>1, <3>1 DEF Start, Alone, Running, TypeOK
      <3>3. Running(p)' /\ Calls(p)' = 0 /\ \A b \in 0 .. 5 : At(p, b)' <=> b = 0
        BY <3>1 DEF Running, Calls, At
      <3>4. Exchange(p)'
        BY <3>1, <3>3 DEF Exchange, AnswerDue, ec, Offset
      <3>5. SoFar(p)'
        BY <3>1, <3>3, EmptySeq DEF SoFar
      <3>6. QED
        BY <3>2, <3>3, <3>4, <3>5 DEF Known, Done
    <2>2. CASE q # p
      <3>1. pc'[p] = pc[p] /\ answer'[p] = answer[p] /\ ~spoiled[p] /\ ~Running(p)
        BY <1>3, <2>2 DEF Start, TypeOK
      <3>2. QED
        BY <1>1, <3>1 DEF Running, Done
    <2>3. QED
      BY <2>1, <2>2
  <1>4. ASSUME NEW q \in Process, read_ec(q) PROVE /\ Running(p)' => Known(p)'
                                                   /\ Done(p)' => answer'[p] = Offsets
    <2>1. spoiled' = spoiled /\ Running(q) /\ Onward(q)
      BY <1>4 DEF read_ec, wait_ec_ibf, outb, wait_ec_obf, inb, At, ec
    <2>2. CASE q = p
      <3>1. Known(p)
        BY <1>1, <2>1, <2>2
      <3>2. CASE inb(p)
        BY <2>1, <2>2, <3>1, <3>2, ByteKnown DEF Done
      <3>3. CASE wait_ec_ibf(p) \/ outb(p) \/ wait_ec_obf(p)
        BY <2>1, <2>2, <3>1, <3>3, AccessKnown DEF Done
      <3>4. QED
        BY <1>4, <2>2, <3>2, <3>3 DEF read_ec
    <2>3. CASE q # p
      <3>1. ~Running(p)
        BY <1>1, <2>1, <2>3 DEF Known, Alone
      <3>2. pc'[p] = pc[p]
        BY <2>1, <2>3, OnwardType
      <3>3. answer'[p] = answer[p]
        BY <1>4, <2>3 DEF read_ec, wait_ec_ibf, outb, wait_ec_obf, inb, TypeOK
      <3>4. QED
        BY <1>1, <2>1, <3>1, <3>2, <3>3 DEF Running, Done
    <2>4. QED
      BY <2>2, <2>3
  <1>5. ASSUME NEW q \in Process, Kill(q) PROVE /\ Running(p)' => Known(p)'
                                                /\ Done(p)' => answer'[p] = Offsets
    <2>1. /\ answer' = answer /\ spoiled' = spoiled /\ Running(q) /\ pc'[q] = 0
          /\ \A r \in Process \ {q} : pc'[r] = pc[r]
      BY <1>5 DEF Kill, TypeOK
    <2>2. CASE q = p
      <3>1. Known(p) /\ Calls(p) \in 0 .. Len(Offsets) - 1
        BY <1>1, <2>1, <2>2, Standing
      <3>2. Len(answer'[p]) # Len(Offsets)
        BY <2>1, <3>1, OffsetsLength DEF Known, SoFar
      <3>3. QED
        BY <2>1, <2>2, <3>2 DEF Running, Done
    <2>3. CASE q # p
      <3>1. ~Running(p)
        BY <1>1, <2>1, <2>3 DEF Known, Alone
      <3>2. QED
        BY <1>1, <2>1, <2>3, <3>1 DEF Running, Done
    <2>4. QED
      BY <2>2, <2>3
  <1>6. CASE UNCHANGED vars
    BY <1>1, <1>6 DEF vars, ec, Running, Done, Known, Alone, Exchange, SoFar,
                      At, Addr, Calls, Idle, Asked, Working, Answered, AnswerDue
  <1>7. QED
    BY <1>2, <1>3, <1>4, <1>5, <1>6 DEF Next

(* A probe that has the ports to itself, and that no killed probe left an   *)
(* answer for, prints each byte under its own name: for any number of       *)
(* probes started before it and killed at any of their accesses.            *)
THEOREM LabelsRight == Spec => []RightLabels
  <1>1. Init => EcInv
    <2> SUFFICES ASSUME Init PROVE EcInv
      OBVIOUS
    <2>1. \A p \in Process : ~Running(p) /\ Len(answer[p]) = 0
      BY EmptySeq DEF Init, Running
    <2>2. QED
      BY <2>1, OffsetsLength DEF EcInv, RightLabels, Done
  <1>2. EcInv => RightLabels
    BY DEF EcInv
  <1>3. QED
    BY <1>1, <1>2, EcNext, TypeCorrect, PTL DEF Spec
=============================================================================
