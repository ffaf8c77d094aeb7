-------------------------- MODULE VramCheckProofs --------------------------
(***************************************************************************)
(* Proofs about VramCheck for any number of checks, any sizes and offsets, *)
(* and any faults of the memory.                                           *)
(***************************************************************************)
EXTENDS VramCheck, TLAPS

-----------------------------------------------------------------------------
(* The words of a block, and where they are.                                *)
LEMMA WordsOfBlock ==
    ASSUME NEW s \in Sizes
    PROVE  Elements(s) \in Nat /\ Elements(s) * Bytes <= s
  <1>1. s \in Nat /\ Bytes \in Nat \ {0}
    BY VramAssumption
  <1>2. QED
    BY <1>1 DEF Elements

LEMMA AddressOfWord ==
    ASSUME NEW s \in Sizes, NEW o \in Offsets, NEW n \in 0 .. Elements(s) - 1
    PROVE  PhysOf(o, n) \in Memory
  <1>1. /\ s \in 0 .. Word - 1 /\ o \in Nat /\ Base \in Nat
        /\ Word \in Nat \ {0} /\ Bytes \in Nat \ {0}
    BY VramAssumption
  <1>2. n \in Nat /\ n + 1 <= Elements(s) /\ Elements(s) \in Nat
    BY WordsOfBlock
  <1>3. (n + 1) * Bytes <= Elements(s) * Bytes
    <2> DEFINE e == Elements(s)
    <2>1. e \in Nat /\ e - (n + 1) \in Nat
      BY <1>2
    <2> HIDE DEF e
    <2>2. (e - (n + 1)) * Bytes \in Nat
      BY <1>1, <2>1
    <2>3. (e - (n + 1)) * Bytes = e * Bytes - (n + 1) * Bytes
      BY <1>1, <1>2, <2>1
    <2>4. e * Bytes \in Int /\ (n + 1) * Bytes \in Int
      BY <1>1, <1>2, <2>1
    <2>5. QED
      BY <2>2, <2>3, <2>4 DEF e
  <1>4. n * Bytes \in 0 .. Word - 1
    <2>1. n * Bytes \in Nat /\ (n + 1) * Bytes = n * Bytes + Bytes
      BY <1>1, <1>2
    <2>2. n * Bytes + Bytes <= s
      BY <1>1, <1>2, <1>3, <2>1, WordsOfBlock
    <2>3. QED
      BY <1>1, <2>1, <2>2
  <1>5. (Base + o) % Word \in 0 .. Word - 1
    BY <1>1
  <1>6. QED
    BY <1>1, <1>4, <1>5 DEF PhysOf, Memory

LEMMA PatternType ==
    ASSUME NEW n \in Nat
    PROVE  Pattern(n) \in -1 .. Span - 1
  <1>1. n % Span \in 0 .. Span - 1 /\ Span \in Nat
    BY VramAssumption
  <1>2. QED
    BY <1>1 DEF Pattern

-----------------------------------------------------------------------------
(* Type correctness.  The index and the tally are bounded by what a load    *)
(* finds: it runs below the end of the block.                               *)
Within == \A p \in Process : phase[p] = "read" => i[p] < Elements(size[p])

TypeInv == TypeOK /\ Within

LEMMA InitType == Init => TypeInv
  <1> SUFFICES ASSUME Init PROVE TypeInv
    OBVIOUS
  <1>1. /\ (CHOOSE s \in Sizes : TRUE) \in Sizes
        /\ (CHOOSE o \in Offsets : TRUE) \in Offsets
    <2>1. Sizes # {} /\ Offsets # {}
      BY VramAssumption
    <2>2. (\E s : s \in Sizes) /\ (\E o : o \in Offsets)
      BY <2>1
    <2>3. QED
      BY <2>2, Zenon
  <1>2. size \in [Process -> Sizes] /\ offset \in [Process -> Offsets]
    BY <1>1 DEF Init
  <1>3. \A p \in Process : Elements(size[p]) \in Nat
    BY <1>2, WordsOfBlock
  <1>4. vram \in [Memory -> -1 .. Span - 1] /\ runs \in 0 .. MaxRuns
    BY VramAssumption DEF Init
  <1>5. /\ i \in [Process -> Nat] /\ good \in [Process -> Nat]
        /\ \A p \in Process : good[p] <= i[p] /\ i[p] <= Elements(size[p])
    BY <1>3 DEF Init
  <1>6. QED
    BY <1>2, <1>4, <1>5 DEF Init, TypeInv, TypeOK, Within

LEMMA StartType ==
    ASSUME TypeInv, NEW p \in Process, NEW o \in Offsets, NEW s \in Sizes,
           Start(p, o, s)
    PROVE  TypeInv'
  <1>1. /\ offset' \in [Process -> Offsets] /\ size' \in [Process -> Sizes]
        /\ i' \in [Process -> Nat] /\ good' \in [Process -> Nat]
    BY DEF Start, TypeInv, TypeOK
  <1>2. runs' \in 0 .. MaxRuns
    BY VramAssumption DEF Start, TypeInv, TypeOK
  <1>3. /\ phase' \in [Process -> {"idle", "write", "read", "over"}]
        /\ verdict' \in [Process -> {"none", "error", "stable", "corruption"}]
        /\ clash' \in [Process -> BOOLEAN]
        /\ phase'[p] # "read"
    BY DEF Start, TypeInv, TypeOK
  <1>4. \A q \in Process : /\ good'[q] <= i'[q] /\ i'[q] <= Elements(size'[q])
                           /\ phase'[q] = "read" => i'[q] < Elements(size'[q])
    <2>1. Elements(s) \in Nat
      BY WordsOfBlock
    <2>2. /\ good'[p] = 0 /\ i'[p] = 0 /\ size'[p] = s
          /\ \A q \in Process \ {p} : /\ good'[q] = good[q] /\ i'[q] = i[q]
                                      /\ size'[q] = size[q] /\ phase'[q] = phase[q]
      BY DEF Start, TypeInv, TypeOK
    <2>3. QED
      BY <1>3, <2>1, <2>2 DEF TypeInv, TypeOK, Within
  <1>5. QED
    BY <1>1, <1>2, <1>3, <1>4 DEF Start, TypeInv, TypeOK, Within

LEMMA StoreType ==
    ASSUME TypeInv, NEW p \in Process, Store(p)
    PROVE  TypeInv'
  <1>1. Pattern(i[p]) \in -1 .. Span - 1
    BY PatternType DEF TypeInv, TypeOK
  <1>2. vram' \in [Memory -> -1 .. Span - 1]
    BY <1>1 DEF Store, TypeInv, TypeOK
  <1>3. /\ phase' \in [Process -> {"idle", "write", "read", "over"}]
        /\ \A q \in Process : phase'[q] = "read" => i[q] < Elements(size[q])
    BY DEF Store, TypeInv, TypeOK, Within
  <1>4. QED
    BY <1>2, <1>3 DEF Store, TypeInv, TypeOK, Within

(* One load: the word counts if it was read as it was written.              *)
Match(p) == Stored(PhysOf(offset[p], i[p])) = Pattern(i[p])

LEMMA LoadEffect ==
    ASSUME TypeInv, NEW p \in Process, Load(p)
    PROVE  /\ phase[p] = "read" /\ i[p] < Elements(size[p])
           /\ i'[p] = i[p] + 1
           /\ good'[p] = IF Match(p) THEN good[p] + 1 ELSE good[p]
           /\ phase'[p] = "write"
           /\ \A q \in Process \ {p} : /\ i'[q] = i[q] /\ good'[q] = good[q]
                                       /\ phase'[q] = phase[q]
  BY DEF Load, TypeInv, TypeOK, Within, Match

LEMMA LoadType ==
    ASSUME TypeInv, NEW p \in Process, Load(p)
    PROVE  TypeInv'
  <1>1. /\ i' \in [Process -> Nat] /\ good' \in [Process -> Nat]
        /\ phase' \in [Process -> {"idle", "write", "read", "over"}]
    BY DEF Load, TypeInv, TypeOK
  <1>2. \A q \in Process : Elements(size[q]) \in Nat
    BY WordsOfBlock DEF TypeInv, TypeOK
  <1>3. \A q \in Process : /\ good'[q] <= i'[q] /\ i'[q] <= Elements(size[q])
                           /\ phase'[q] = "read" => i'[q] < Elements(size[q])
    BY <1>2, LoadEffect DEF TypeInv, TypeOK, Within
  <1>4. QED
    BY <1>1, <1>3 DEF Load, TypeInv, TypeOK, Within

LEMMA NextType == TypeInv /\ [Next]_vars => TypeInv'
  <1> SUFFICES ASSUME TypeInv, [Next]_vars PROVE TypeInv'
    OBVIOUS
  <1>1. ASSUME NEW p \in Process, Report(p) PROVE TypeInv'
    <2>1. /\ phase' \in [Process -> {"idle", "write", "read", "over"}]
          /\ verdict' \in [Process -> {"none", "error", "stable", "corruption"}]
          /\ \A q \in Process : phase'[q] = "read" => phase[q] = "read"
      BY <1>1 DEF Report, TypeInv, TypeOK
    <2>2. QED
      BY <1>1, <2>1 DEF Report, TypeInv, TypeOK, Within
  <1>2. CASE UNCHANGED vars
    BY <1>2 DEF vars, TypeInv, TypeOK, Within
  <1>3. QED
    BY <1>1, <1>2, StartType, StoreType, LoadType DEF Next

(* Every reachable state of the memory and the checks is well typed: the    *)
(* index of a check stays within its block, whatever its size, no word is   *)
(* counted twice, and the memory only ever takes patterns.                  *)
THEOREM TypeCorrect == Spec => []TypeOK
  <1>1. TypeInv => TypeOK
    BY DEF TypeInv
  <1>2. QED
    BY <1>1, InitType, NextType, PTL DEF Spec

-----------------------------------------------------------------------------
(* What is true of a check between its steps.  `Sees' is what the store     *)
(* before a load is for; the two tallies say what a match of every word,    *)
(* and a miss, have established.                                            *)
ClashKnown ==
    \A p, q \in Running :
        p # q /\ Differ(offset[p], size[p], offset[q], size[q]) => clash[p]

Sees(p) ==
    phase[p] = "read" =>
        clash[p] \/ vram[PhysOf(offset[p], i[p])] = Pattern(i[p])

AllGood(p) == good[p] = i[p] => \A n \in 0 .. i[p] - 1 : n \notin BadIn(p)
SomeBad(p) == good[p] # i[p] => BadIn(p) # {} \/ clash[p]

Told(p) ==
    /\ verdict[p] = "stable" => BadIn(p) = {}
    /\ verdict[p] = "corruption" => BadIn(p) # {} \/ clash[p]

CheckInv ==
    /\ ClashKnown
    /\ \A p \in Process : Sees(p) /\ AllGood(p) /\ SomeBad(p) /\ Told(p)

LEMMA DifferSymmetric ==
    ASSUME NEW o, NEW s, NEW o2, NEW s2, Differ(o, s, o2, s2)
    PROVE  Differ(o2, s2, o, s)
  BY DEF Differ

(* A check that starts tells, and is told of, those it will disturb.        *)
LEMMA StartCheck ==
    ASSUME TypeInv, CheckInv, NEW p \in Process, NEW o \in Offsets,
           NEW s \in Sizes, Start(p, o, s)
    PROVE  CheckInv'
  <1> DEFINE other == {q \in Running : Differ(o, s, offset[q], size[q])}
  <1>1. /\ p \notin Running /\ vram' = vram /\ bad' = bad
        /\ offset'[p] = o /\ size'[p] = s /\ i'[p] = 0 /\ good'[p] = 0
        /\ phase'[p] \in {"write", "over"} /\ verdict'[p] \in {"none", "error"}
    BY DEF Start, TypeInv, TypeOK
  <1>2. \A q \in Process \ {p} :
          /\ offset'[q] = offset[q] /\ size'[q] = size[q]
          /\ i'[q] = i[q] /\ good'[q] = good[q]
          /\ phase'[q] = phase[q] /\ verdict'[q] = verdict[q]
    BY DEF Start, TypeInv, TypeOK
  <1>3. /\ \A q \in Process \ {p} : clash[q] => clash'[q]
        /\ phase'[p] = "write" =>
             /\ other # {} => clash'[p]
             /\ \A q \in other : clash'[q]
    <2>1. PICK maps \in BOOLEAN :
            LET goes == maps /\ Accepted(o, s) /\ s # 0
                run  == {q \in Running : goes /\ Differ(o, s, offset[q], size[q])}
            IN  /\ phase' = [phase EXCEPT ![p] = IF goes THEN "write" ELSE "over"]
                /\ clash' = [q \in Process |->
                               IF q = p THEN run # {} ELSE clash[q] \/ q \in run]
      BY DEF Start
    <2> DEFINE goes == maps /\ Accepted(o, s) /\ s # 0
               run  == {q \in Running : goes /\ Differ(o, s, offset[q], size[q])}
    <2>2. phase'[p] = "write" => goes
      BY <2>1 DEF TypeInv, TypeOK
    <2>3. goes => run = other
      OBVIOUS
    <2>4. clash' = [q \in Process |-> IF q = p THEN run # {} ELSE clash[q] \/ q \in run]
      BY <2>1
    <2>5. other \subseteq Process \ {p}
      BY <1>1 DEF Running
    <2> HIDE DEF goes, run, other
    <2>6. QED
      BY <2>2, <2>3, <2>4, <2>5
  <1>4. ClashKnown'
    <2> SUFFICES ASSUME NEW q \in Process, NEW r \in Process, q # r,
                        q \in Running', r \in Running',
                        Differ(offset'[q], size'[q], offset'[r], size'[r])
                 PROVE  clash'[q]
      BY DEF ClashKnown, Running
    <2>1. CASE q = p
      <3>1. phase'[p] = "write" /\ r \in Running
        BY <1>1, <1>2, <2>1 DEF Running
      <3>2. r \in other
        BY <1>1, <1>2, <2>1, <3>1
      <3>3. QED
        BY <1>3, <2>1, <3>1, <3>2
    <2>2. CASE r = p
      <3>1. phase'[p] = "write" /\ q \in Running
        BY <1>1, <1>2, <2>2 DEF Running
      <3>2. Differ(o, s, offset[q], size[q])
        BY <1>1, <1>2, <2>2, DifferSymmetric
      <3>3. QED
        BY <1>3, <3>1, <3>2
    <2>3. CASE q # p /\ r # p
      <3>1. q \in Running /\ r \in Running
        BY <1>2, <2>3 DEF Running
      <3>2. clash[q]
        BY <1>2, <2>3, <3>1 DEF CheckInv, ClashKnown
      <3>3. QED
        BY <1>3, <2>3, <3>2
    <2>4. QED
      BY <2>1, <2>2, <2>3
  <1>5. ASSUME NEW q \in Process
        PROVE  Sees(q)' /\ AllGood(q)' /\ SomeBad(q)' /\ Told(q)'
    <2>1. CASE q = p
      BY <1>1, <2>1 DEF Sees, AllGood, SomeBad, Told
    <2>2. CASE q # p
      <3>1. Sees(q) /\ AllGood(q) /\ SomeBad(q) /\ Told(q)
        BY DEF CheckInv
      <3>2. BadIn(q)' = BadIn(q) /\ (clash[q] => clash'[q])
        BY <1>1, <1>2, <1>3, <2>2 DEF BadIn
      <3>3. QED
        BY <1>1, <1>2, <2>2, <3>1, <3>2 DEF Sees, AllGood, SomeBad, Told
    <2>3. QED
      BY <2>1, <2>2
  <1>6. QED
    BY <1>4, <1>5 DEF CheckInv

(* A store of one check under another's load: either it writes the same     *)
(* pattern, or the two are known to clash.                                  *)
LEMMA StoreCheck ==
    ASSUME TypeInv, CheckInv, NEW p \in Process, Store(p)
    PROVE  CheckInv'
  <1> DEFINE a == PhysOf(offset[p], i[p])
  <1>1. /\ phase[p] = "write" /\ i[p] \in 0 .. Elements(size[p]) - 1
        /\ vram' = [vram EXCEPT ![a] = Pattern(i[p])]
        /\ phase'[p] = "read" /\ \A q \in Process \ {p} : phase'[q] = phase[q]
        /\ UNCHANGED <<bad, size, offset, i, good, verdict, clash>>
    <2>1. i[p] \in Nat /\ Elements(size[p]) \in Nat
      BY WordsOfBlock DEF TypeInv, TypeOK
    <2>2. QED
      BY <2>1 DEF Store, TypeInv, TypeOK
  <1>2. a \in Memory /\ vram \in [Memory -> -1 .. Span - 1]
    BY <1>1, AddressOfWord DEF TypeInv, TypeOK
  <1>3. Running' = Running /\ p \in Running
    BY <1>1 DEF Running
  <1>4. ClashKnown'
    BY <1>1, <1>3 DEF CheckInv, ClashKnown
  <1>5. ASSUME NEW q \in Process, phase'[q] = "read", ~clash[q]
        PROVE  vram'[PhysOf(offset[q], i[q])] = Pattern(i[q])
    <2>1. CASE q = p
      BY <1>1, <1>2, <2>1
    <2>2. CASE q # p
      <3>1. /\ phase[q] = "read" /\ vram[PhysOf(offset[q], i[q])] = Pattern(i[q])
            /\ q \in Running
        BY <1>1, <1>5, <2>2 DEF CheckInv, Sees, Running
      <3>2. i[q] \in 0 .. Elements(size[q]) - 1
        <4>1. i[q] \in Nat /\ Elements(size[q]) \in Nat /\ i[q] < Elements(size[q])
          BY <3>1, WordsOfBlock DEF TypeInv, TypeOK, Within
        <4>2. QED
          BY <4>1
      <3>3. PhysOf(offset[q], i[q]) \in Memory
        BY <3>2, AddressOfWord DEF TypeInv, TypeOK
      <3>4. CASE PhysOf(offset[q], i[q]) # a
        BY <1>1, <1>2, <3>1, <3>3, <3>4
      <3>5. CASE PhysOf(offset[q], i[q]) = a
        <4>1. ~Differ(offset[q], size[q], offset[p], size[p])
          BY <1>3, <1>5, <2>2, <3>1 DEF CheckInv, ClashKnown
        <4>2. Pattern(i[q]) = Pattern(i[p])
          BY <1>1, <3>2, <3>5, <4>1 DEF Differ
        <4>3. QED
          BY <1>1, <1>2, <3>5, <4>2
      <3>6. QED
        BY <3>4, <3>5
    <2>3. QED
      BY <2>1, <2>2
  <1>6. ASSUME NEW q \in Process
        PROVE  Sees(q)' /\ AllGood(q)' /\ SomeBad(q)' /\ Told(q)'
    <2>1. Sees(q)'
      BY <1>1, <1>5 DEF Sees
    <2>2. QED
      BY <1>1, <2>1 DEF CheckInv, AllGood, SomeBad, Told, BadIn
  <1>7. QED
    BY <1>4, <1>6 DEF CheckInv

(* A load that matches clears its word of suspicion; one that does not has  *)
(* found a stuck word, or another check's pattern.                          *)
LEMMA LoadCheck ==
    ASSUME TypeInv, CheckInv, NEW p \in Process, Load(p)
    PROVE  CheckInv'
  <1> DEFINE a == PhysOf(offset[p], i[p])
  <1>1. /\ phase[p] = "read" /\ i[p] < Elements(size[p])
        /\ i'[p] = i[p] + 1
        /\ good'[p] = IF Match(p) THEN good[p] + 1 ELSE good[p]
        /\ phase'[p] = "write"
        /\ \A q \in Process \ {p} : /\ i'[q] = i[q] /\ good'[q] = good[q]
                                    /\ phase'[q] = phase[q]
    BY LoadEffect
  <1>2. UNCHANGED <<vram, bad, size, offset, verdict, clash>>
    BY DEF Load
  <1>3. /\ Running' = Running
        /\ \A q \in Process : BadIn(q)' = BadIn(q)
    BY <1>1, <1>2 DEF Running, BadIn
  <1>4. ClashKnown'
    BY <1>2, <1>3 DEF CheckInv, ClashKnown
  <1>5. /\ i[p] \in Nat /\ good[p] \in Nat /\ good[p] <= i[p]
        /\ Elements(size[p]) \in Nat
        /\ Sees(p) /\ AllGood(p) /\ SomeBad(p)
    BY WordsOfBlock DEF TypeInv, TypeOK, CheckInv
  <1>6. CASE Match(p)
    <2>1. i[p] \notin BadIn(p)
      BY <1>6 DEF Match, Stored, BadIn
    <2>2. AllGood(p)' /\ SomeBad(p)'
      BY <1>1, <1>2, <1>3, <1>5, <1>6, <2>1 DEF AllGood, SomeBad
    <2>3. QED
      BY <1>1, <1>2, <1>3, <1>4, <2>2 DEF CheckInv, Sees, AllGood, SomeBad, Told
  <1>7. CASE ~Match(p)
    <2>1. i[p] \in BadIn(p) \/ clash[p]
      <3>1. CASE a \in DOMAIN bad
        BY <1>1, <1>5, <1>7, <3>1 DEF Match, Stored, BadIn
      <3>2. CASE a \notin DOMAIN bad
        BY <1>1, <1>5, <1>7, <3>2 DEF Match, Stored, Sees
      <3>3. QED
        BY <3>1, <3>2
    <2>2. AllGood(p)' /\ SomeBad(p)'
      BY <1>1, <1>2, <1>3, <1>5, <1>7, <2>1 DEF AllGood, SomeBad
    <2>3. QED
      BY <1>1, <1>2, <1>3, <1>4, <2>2 DEF CheckInv, Sees, AllGood, SomeBad, Told
  <1>8. QED
    BY <1>6, <1>7

LEMMA ReportCheck ==
    ASSUME TypeInv, CheckInv, NEW p \in Process, Report(p)
    PROVE  CheckInv'
  <1>1. /\ phase[p] = "write" /\ i[p] = Elements(size[p])
        /\ verdict'[p] = IF Stable(p) THEN "stable" ELSE "corruption"
        /\ phase'[p] = "over"
        /\ \A q \in Process \ {p} : /\ verdict'[q] = verdict[q]
                                    /\ phase'[q] = phase[q]
        /\ UNCHANGED <<vram, bad, size, offset, i, good, clash>>
    BY DEF Report, TypeInv, TypeOK
  <1>2. Running' \subseteq Running /\ \A q \in Process : BadIn(q)' = BadIn(q)
    BY <1>1 DEF Running, BadIn
  <1>3. ClashKnown'
    BY <1>1, <1>2 DEF CheckInv, ClashKnown
  <1>4. Told(p)'
    <2>1. BadIn(p) \subseteq 0 .. i[p] - 1
      BY <1>1 DEF BadIn
    <2>2. Stable(p) => BadIn(p) = {}
      BY <1>1, <2>1 DEF Stable, CheckInv, AllGood
    <2>3. ~Stable(p) => BadIn(p) # {} \/ clash[p]
      BY <1>1 DEF Stable, CheckInv, SomeBad
    <2>4. QED
      BY <1>1, <1>2, <2>2, <2>3 DEF Told
  <1>5. QED
    BY <1>1, <1>2, <1>3, <1>4 DEF CheckInv, Sees, AllGood, SomeBad, Told

LEMMA NextCheck == TypeInv /\ CheckInv /\ [Next]_vars => CheckInv'
  <1> SUFFICES ASSUME TypeInv, CheckInv, [Next]_vars PROVE CheckInv'
    OBVIOUS
  <1>1. CASE UNCHANGED vars
    BY <1>1 DEF vars, CheckInv, ClashKnown, Running, Sees, AllGood, SomeBad,
                Told, BadIn
  <1>2. QED
    BY <1>1, StartCheck, StoreCheck, LoadCheck, ReportCheck DEF Next

LEMMA CheckInvariant == Spec => []CheckInv
  <1>1. Init => CheckInv
    <2> SUFFICES ASSUME Init PROVE CheckInv
      OBVIOUS
    <2>1. \A p \in Process : /\ phase[p] = "idle" /\ verdict[p] = "none"
                             /\ i[p] = 0 /\ good[p] = 0
      BY DEF Init
    <2>2. QED
      BY <2>1 DEF CheckInv, ClashKnown, Running, Sees, AllGood, SomeBad, Told
  <1>2. QED
    BY <1>1, InitType, NextType, NextCheck, PTL DEF Spec

(* The quick check calls a segment stable only if none of its words is      *)
(* stuck at anything but its pattern: for any number of checks running over *)
(* the same memory, any sizes and offsets, wrapped or past the aperture.    *)
THEOREM StableTrue == Spec => []StableIsTrue
  <1>1. CheckInv => StableIsTrue
    BY DEF CheckInv, Told, StableIsTrue
  <1>2. QED
    BY <1>1, CheckInvariant, PTL

(* It reports corruption only if a word is stuck, or a check that ran at    *)
(* the same time gives one of its words another pattern.                    *)
THEOREM CorruptionReal == Spec => []CorruptionIsReal
  <1>1. CheckInv => CorruptionIsReal
    BY DEF CheckInv, Told, CorruptionIsReal
  <1>2. QED
    BY <1>1, CheckInvariant, PTL
=============================================================================
