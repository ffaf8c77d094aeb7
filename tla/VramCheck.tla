----------------------------- MODULE VramCheck -----------------------------
(***************************************************************************)
(* src/nv_vram_check.c: the quick check writes a pattern to every word of  *)
(* a segment of the card's memory, reads it back at once and says whether  *)
(* the segment is stable.  Checks may run at the same time over segments   *)
(* that overlap: they share the memory, and nothing arbitrates.            *)
(*                                                                         *)
(* The memory is external: a bad word keeps a value of its own.            *)
(***************************************************************************)
EXTENDS Integers

CONSTANTS
    Process,      \* the terminals a check may be started from
    Word,         \* 2^32: the number of values of a uint32_t
    Base, Limit,  \* VRAM_APERTURE_PHYSICAL_BASE, VRAM_APERTURE_SIZE_LIMIT
    PageSize,
    Bytes,        \* sizeof(uint32_t)
    Span,         \* 2^22: 0xABC00000 | i tells i apart modulo that
    Sizes,        \* what the operator asks for: block sizes
    Offsets,      \* and offsets
    Faults,       \* the ways the memory may be bad: address -> value it keeps
    MaxRuns       \* bound: how many checks are started

ASSUME VramAssumption ==
    /\ {Word, Limit, PageSize, Bytes, Span} \subseteq Nat \ {0}
    /\ Base \in 0 .. Word - 1 /\ MaxRuns \in Nat
    /\ Sizes \subseteq 0 .. Word - 1 /\ Sizes # {}
    /\ Offsets \subseteq 0 .. Word - 1 /\ Offsets # {}

VARIABLES
    vram,         \* what was written last, by address; -1: something else
    bad,          \* the faults of this card
    phase,        \* per process: "idle", "write", "read" or "over"
    size, offset, \* block_size_in_bytes, offset_from_base
    i, good,      \* the loop's index, success_count
    verdict,      \* per process: "none", "error", "stable", "corruption"
    clash,        \* history, per process: another check wrote other patterns
    runs

vars == <<vram, bad, phase, size, offset, i, good, verdict, clash, runs>>

Pattern(n)    == n % Span
Memory        == 0 .. 2 * Word - 1
PhysOf(o, n)  == ((Base + o) % Word) + n * Bytes      \* the address of word n
Elements(s)   == s \div Bytes
Segment(o, s) == {PhysOf(o, n) : n \in 0 .. Elements(s) - 1}
Running       == {p \in Process : phase[p] \in {"write", "read"}}

TypeOK ==
    /\ vram \in [Memory -> -1 .. Span - 1]
    /\ bad \in Faults /\ runs \in 0 .. MaxRuns
    /\ phase \in [Process -> {"idle", "write", "read", "over"}]
    /\ size \in [Process -> Sizes] /\ offset \in [Process -> Offsets]
    /\ i \in [Process -> Nat] /\ good \in [Process -> Nat]
    /\ \A p \in Process : good[p] <= i[p] /\ i[p] <= Elements(size[p])
    /\ verdict \in [Process -> {"none", "error", "stable", "corruption"}]
    /\ clash \in [Process -> BOOLEAN]

Init ==
    /\ vram = [a \in Memory |-> -1] /\ bad \in Faults
    /\ phase = [p \in Process |-> "idle"]
    /\ size = [p \in Process |-> CHOOSE s \in Sizes : TRUE]
    /\ offset = [p \in Process |-> CHOOSE o \in Offsets : TRUE]
    /\ i = [p \in Process |-> 0] /\ good = [p \in Process |-> 0]
    /\ verdict = [p \in Process |-> "none"] /\ clash = [p \in Process |-> FALSE]
    /\ runs = 0

-----------------------------------------------------------------------------
(* The arguments.  The sum is a uint32_t, and mmap refuses an empty block.  *)
Accepted(o, s) == o % PageSize = 0 /\ (o + s) % Word <= Limit

(* Two segments give a word they share different patterns.                  *)
Differ(o, s, o2, s2) ==
    \E n \in 0 .. Elements(s) - 1, m \in 0 .. Elements(s2) - 1 :
        PhysOf(o, n) = PhysOf(o2, m) /\ Pattern(n) # Pattern(m)

Start(p, o, s) ==
    /\ p \notin Running /\ runs < MaxRuns
    /\ runs' = runs + 1
    /\ offset' = [offset EXCEPT ![p] = o] /\ size' = [size EXCEPT ![p] = s]
    /\ i' = [i EXCEPT ![p] = 0] /\ good' = [good EXCEPT ![p] = 0]
    /\ \E maps \in BOOLEAN :
        LET goes  == maps /\ Accepted(o, s) /\ s # 0
            other == {q \in Running : goes /\ Differ(o, s, offset[q], size[q])}
        IN  /\ phase' = [phase EXCEPT ![p] = IF goes THEN "write" ELSE "over"]
            /\ verdict' = [verdict EXCEPT ![p] = IF goes THEN "none" ELSE "error"]
            /\ clash' = [q \in Process |->
                           IF q = p THEN other # {} ELSE clash[q] \/ q \in other]
    /\ UNCHANGED <<vram, bad>>

(* One pass of the loop: a store, and a load of the same word.              *)
Store(p) ==
    /\ phase[p] = "write" /\ i[p] < Elements(size[p])
    /\ vram' = [vram EXCEPT ![PhysOf(offset[p], i[p])] = Pattern(i[p])]
    /\ phase' = [phase EXCEPT ![p] = "read"]
    /\ UNCHANGED <<bad, size, offset, i, good, verdict, clash, runs>>

Stored(a) == IF a \in DOMAIN bad THEN bad[a] ELSE vram[a]

(* Mutant of Load: the loop's index is counted on before the comparison.    *)
LoadNext(p) ==
    /\ phase[p] = "read"
    /\ good' = [good EXCEPT ![p] =
                  IF Stored(PhysOf(offset[p], i[p])) = Pattern(i[p] + 1) THEN @ + 1 ELSE @]
    /\ i' = [i EXCEPT ![p] = @ + 1]
    /\ phase' = [phase EXCEPT ![p] = "write"]
    /\ UNCHANGED <<vram, bad, size, offset, verdict, clash, runs>>

(* Mutant of Load: a miss is not counted as a word of its own.              *)
LoadTwice(p) ==
    /\ phase[p] = "read"
    /\ good' = [good EXCEPT ![p] =
                  IF Stored(PhysOf(offset[p], i[p])) = Pattern(i[p]) THEN @ + 2 ELSE @]
    /\ i' = [i EXCEPT ![p] = @ + 1]
    /\ phase' = [phase EXCEPT ![p] = "write"]
    /\ UNCHANGED <<vram, bad, size, offset, verdict, clash, runs>>

Load(p) ==
    /\ phase[p] = "read"
    /\ good' = [good EXCEPT ![p] =
                  IF Stored(PhysOf(offset[p], i[p])) = Pattern(i[p]) THEN @ + 1 ELSE @]
    /\ i' = [i EXCEPT ![p] = @ + 1]
    /\ phase' = [phase EXCEPT ![p] = "write"]
    /\ UNCHANGED <<vram, bad, size, offset, verdict, clash, runs>>

(* Mutant of Stable: the last word but one decides.                         *)
NearlyAll(p) == good[p] + 1 >= Elements(size[p])

Stable(p) == good[p] = Elements(size[p])

Report(p) ==
    /\ phase[p] = "write" /\ i[p] = Elements(size[p])
    /\ verdict' = [verdict EXCEPT ![p] = IF Stable(p) THEN "stable" ELSE "corruption"]
    /\ phase' = [phase EXCEPT ![p] = "over"]
    /\ UNCHANGED <<vram, bad, size, offset, i, good, clash, runs>>

Next ==
    \E p \in Process :
        \/ \E o \in Offsets, s \in Sizes : Start(p, o, s)
        \/ Store(p) \/ Load(p) \/ Report(p)

Spec == Init /\ [][Next]_vars

-----------------------------------------------------------------------------
(* Properties.                                                              *)

(* The words of a segment that do not hold the check's pattern.             *)
BadIn(p) ==
    {n \in 0 .. Elements(size[p]) - 1 :
        LET a == PhysOf(offset[p], n) IN a \in DOMAIN bad /\ bad[a] # Pattern(n)}

(* "VRAM segment is stable and writeable." (nv_vram_check.c:92): no word of *)
(* it is stuck at anything but its pattern, whatever other checks write     *)
(* between the store and the load.                                          *)
StableIsTrue == \A p \in Process : verdict[p] = "stable" => BadIn(p) = {}

(* "DATA CORRUPTION DETECTED." (nv_vram_check.c:94): then a word of the     *)
(* segment is stuck, or another check that ran meanwhile wrote other        *)
(* patterns to a word of it.  Two checks at one offset, or at offsets whose *)
(* patterns agree, do not disturb each other.                               *)
CorruptionIsReal ==
    \A p \in Process : verdict[p] = "corruption" => BadIn(p) # {} \/ clash[p]

(* "Requested block exceeds 256MB aperture limit" (nv_vram_check.c:43): a   *)
(* block that is not refused lies in the aperture.                          *)
WithinAperture ==
    \A p \in Running : Segment(offset[p], size[p]) \subseteq Base .. Base + Limit - 1
=============================================================================
