--------------------------- MODULE GpuToolsProofs ---------------------------
(***************************************************************************)
(* Proofs about GpuTools, for any number of terminals and of runs.         *)
(***************************************************************************)
EXTENDS GpuTools, TLAPS, SequenceTheorems

-----------------------------------------------------------------------------
(* Programs.                                                                *)
Values     == SUBSET Bits
Conditions == [local : Locals, is : {"meets", "misses", "among", "other"},
               arg : Values \cup SUBSET Values]
Instructions ==
    [op : {"load"}, local : Locals, reg : Regs]
    \cup [op : {"set"}, reg : Regs, value : Values]
    \cup [op : {"put"}, reg : Regs, local : Locals, on : Values, off : SUBSET Int]
    \cup [op : {"copy"}, what : {"manifest", "firmware"}]
    \cup [op : {"may stop"}]
    \cup [op : {"may skip"}, length : Nat]
    \cup [op : {"pci read"}, local : Locals, reg : Regs, then : Nat]
    \cup [op : {"pci write"}, reg : Regs, local : Locals, on : Values,
          off : SUBSET Int, then : Nat]
    \cup [op : {"exit if"}, cond : Conditions]
    \cup [op : {"only if"}, cond : Conditions, length : Nat]
    \cup [op : {"report"}, cond : Conditions]

Typed == {s \in Seq(Instructions) : Len(s) > 0}

(* Instructions that store what a local variable holds to ENABLE; others    *)
(* that do are not for the tools but nv_gsp_force.                          *)
Enabling(i) == i.op = "put" /\ i.reg = "ENABLE"
Assigning(i) == i.op \in {"set", "pci write"} /\ i.reg = "ENABLE"

(* What is stored to ENABLE has just been loaded from it, but for the       *)
(* tools' own bits.                                                         *)
Pair(h, k) ==
    /\ h.op = "load" /\ h.reg = "ENABLE" /\ h.local = k.local
    /\ k.off \subseteq ToolBits

Reloads(s, n) == n > 1 /\ Pair(s[n - 1], s[n])

(* A program that never assigns ENABLE, reloads it before every update, and *)
(* jumps over no reload; or one that leaves ENABLE alone.                   *)
Careful ==
    {s \in Typed : \A n \in 1 .. Len(s) :
        /\ Enabling(s[n]) => Reloads(s, n)
        /\ ~Assigning(s[n]) /\ s[n].op \notin {"pci read", "pci write"}
        /\ s[n].op \in {"only if", "may skip"} =>
              /\ n + s[n].length <= Len(s)
              /\ n + s[n].length < Len(s) => ~Enabling(s[n + 1 + s[n].length])}

Aloof == {s \in Typed : \A n \in 1 .. Len(s) : ~Enabling(s[n]) /\ ~Assigning(s[n])}

(* Programs are put together.                                               *)
LEMMA Concat ==
    ASSUME NEW s \in Typed, NEW t \in Typed
    PROVE  /\ s \o t \in Typed /\ Len(s \o t) = Len(s) + Len(t)
           /\ Len(s) \in Nat /\ Len(t) \in Nat
           /\ \A n \in 1 .. Len(s) : (s \o t)[n] = s[n]
           /\ \A n \in 1 .. Len(t) : (s \o t)[Len(s) + n] = t[n]
  <1>1. /\ s \o t \in Seq(Instructions) /\ Len(s \o t) = Len(s) + Len(t)
        /\ \A i \in 1 .. Len(s) + Len(t) :
              (s \o t)[i] = IF i <= Len(s) THEN s[i] ELSE t[i - Len(s)]
    BY ConcatProperties DEF Typed
  <1>2. Len(s) \in Nat /\ Len(t) \in Nat /\ Len(s) > 0
    BY LenProperties DEF Typed
  <1>3. \A n \in 1 .. Len(s) : (s \o t)[n] = s[n]
    BY <1>1, <1>2
  <1>4. ASSUME NEW n \in 1 .. Len(t)
        PROVE  (s \o t)[Len(s) + n] = t[n]
    <2>1. /\ Len(s) + n \in 1 .. Len(s) + Len(t) /\ ~(Len(s) + n <= Len(s))
          /\ Len(s) + n - Len(s) = n
      BY <1>2
    <2>2. QED
      BY <1>1, <2>1
  <1>5. s \o t \in Typed
    BY <1>1, <1>2 DEF Typed
  <1>6. QED
    BY <1>1, <1>2, <1>3, <1>4, <1>5

LEMMA CarefulConcat ==
    ASSUME NEW s \in Careful, NEW t \in Careful
    PROVE  s \o t \in Careful
  <1> DEFINE u == s \o t
  <1>1. /\ s \in Typed /\ t \in Typed /\ u \in Typed
        /\ Len(u) = Len(s) + Len(t)
        /\ Len(s) \in Nat /\ Len(t) \in Nat
        /\ \A n \in 1 .. Len(s) : u[n] = s[n]
        /\ \A n \in 1 .. Len(t) : u[Len(s) + n] = t[n]
    BY Concat DEF Careful
  <1>2. \A n \in 1 .. Len(u) :
           n \in 1 .. Len(s) \/ \E m \in 1 .. Len(t) : n = Len(s) + m
    <2>1. \A n \in 1 .. Len(s) + Len(t) :
             n \in 1 .. Len(s) \/ (n - Len(s) \in 1 .. Len(t)
                                      /\ n = Len(s) + (n - Len(s)))
      BY <1>1
    <2>2. QED
      BY <1>1, <2>1
  <1> HIDE DEF u
  <1>3. SUFFICES ASSUME NEW n \in 1 .. Len(u)
                 PROVE  /\ Enabling(u[n]) => Reloads(u, n)
                        /\ ~Assigning(u[n])
                        /\ u[n].op \notin {"pci read", "pci write"}
                        /\ u[n].op \in {"only if", "may skip"} =>
                              /\ n + u[n].length <= Len(u)
                              /\ n + u[n].length < Len(u) =>
                                    ~Enabling(u[n + 1 + u[n].length])
    BY <1>1 DEF Careful, u
  <1>4. ASSUME 1 \in 1 .. Len(t)
        PROVE  ~Enabling(t[1])
    <2>1. Enabling(t[1]) => Reloads(t, 1)
      BY <1>4 DEF Careful
    <2>2. ~Reloads(t, 1)
      BY DEF Reloads
    <2>3. QED
      BY <2>1, <2>2
  <1>5. CASE n \in 1 .. Len(s)
    <2>1. /\ u[n] = s[n] /\ (Enabling(s[n]) => Reloads(s, n))
          /\ ~Assigning(s[n]) /\ s[n].op \notin {"pci read", "pci write"}
      BY <1>1, <1>5 DEF Careful
    <2>2. Reloads(s, n) => Reloads(u, n)
      <3>1. n > 1 => u[n - 1] = s[n - 1]
        BY <1>1, <1>5
      <3>2. QED
        BY <2>1, <3>1 DEF Reloads
    <2>3. ASSUME s[n].op \in {"only if", "may skip"}
          PROVE  /\ n + s[n].length <= Len(u)
                 /\ n + s[n].length < Len(u) =>
                       ~Enabling(u[n + 1 + s[n].length])
      <3>1. s[n] \in Instructions
        BY <1>1, <1>5, ElementOfSeq DEF Typed
      <3>2. PICK l \in Nat : l = s[n].length
        BY <2>3, <3>1 DEF Instructions
      <3>3. /\ n + l <= Len(s)
            /\ n + l < Len(s) => ~Enabling(s[n + 1 + l])
        BY <1>5, <2>3, <3>2 DEF Careful
      <3>4. n + l <= Len(u)
        BY <1>1, <1>5, <3>3
      <3>5. CASE n + l < Len(s)
        <4>1. n + 1 + l \in 1 .. Len(s)
          BY <1>1, <1>5, <3>5
        <4>2. QED
          BY <1>1, <3>2, <3>3, <3>4, <3>5, <4>1
      <3>6. CASE n + l = Len(s)
        <4>1. n + 1 + l = Len(s) + 1 /\ (Len(s) < Len(u) => 1 \in 1 .. Len(t))
          BY <1>1, <1>5, <3>6
        <4>2. 1 \in 1 .. Len(t) => u[Len(s) + 1] = t[1]
          BY <1>1
        <4>3. QED
          BY <1>4, <3>2, <3>4, <3>6, <4>1, <4>2
      <3>7. QED
        BY <1>1, <1>5, <3>3, <3>5, <3>6
    <2>4. QED
      BY <2>1, <2>2, <2>3
  <1>6. CASE \E m \in 1 .. Len(t) : n = Len(s) + m
    <2>1. PICK m \in 1 .. Len(t) : n = Len(s) + m
      BY <1>6
    <2>2. /\ u[n] = t[m] /\ (Enabling(t[m]) => Reloads(t, m))
          /\ ~Assigning(t[m]) /\ t[m].op \notin {"pci read", "pci write"}
      BY <1>1, <2>1 DEF Careful
    <2>3. Reloads(t, m) => Reloads(u, n)
      <3>1. m > 1 => u[n - 1] = t[m - 1] /\ n > 1
        <4>1. ASSUME m > 1
              PROVE  m - 1 \in 1 .. Len(t) /\ n - 1 = Len(s) + (m - 1) /\ n > 1
          BY <1>1, <2>1, <4>1
        <4>2. QED
          BY <1>1, <4>1
      <3>2. QED
        BY <2>2, <3>1 DEF Reloads
    <2>4. ASSUME t[m].op \in {"only if", "may skip"}
          PROVE  /\ n + t[m].length <= Len(u)
                 /\ n + t[m].length < Len(u) =>
                       ~Enabling(u[n + 1 + t[m].length])
      <3>1. t[m] \in Instructions
        BY <1>1, ElementOfSeq DEF Typed
      <3>2. PICK l \in Nat : l = t[m].length
        BY <2>4, <3>1 DEF Instructions
      <3>3. /\ m + l <= Len(t)
            /\ m + l < Len(t) => ~Enabling(t[m + 1 + l])
        BY <2>4, <3>2 DEF Careful
      <3>4. /\ n + l <= Len(u)
            /\ n + 1 + l = Len(s) + (m + 1 + l)
            /\ n + l < Len(u) => m + l < Len(t) /\ m + 1 + l \in 1 .. Len(t)
        BY <1>1, <2>1, <3>3
      <3>5. n + l < Len(u) => u[n + 1 + l] = t[m + 1 + l]
        BY <1>1, <3>4
      <3>6. QED
        BY <3>2, <3>3, <3>4, <3>5
    <2>5. QED
      BY <2>2, <2>3, <2>4
  <1>7. QED
    BY <1>2, <1>5, <1>6

LEMMA AloofConcat ==
    ASSUME NEW s \in Aloof, NEW t \in Aloof
    PROVE  s \o t \in Aloof
  <1> DEFINE u == s \o t
  <1>1. /\ s \in Typed /\ t \in Typed /\ u \in Typed
        /\ Len(u) = Len(s) + Len(t)
        /\ Len(s) \in Nat /\ Len(t) \in Nat
        /\ \A n \in 1 .. Len(s) : u[n] = s[n]
        /\ \A n \in 1 .. Len(t) : u[Len(s) + n] = t[n]
    BY Concat DEF Aloof
  <1> HIDE DEF u
  <1>2. SUFFICES ASSUME NEW n \in 1 .. Len(u)
                 PROVE  ~Enabling(u[n]) /\ ~Assigning(u[n])
    BY <1>1 DEF Aloof, u
  <1>3. CASE n \in 1 .. Len(s)
    BY <1>1, <1>3 DEF Aloof
  <1>4. CASE n \notin 1 .. Len(s)
    <2>1. n - Len(s) \in 1 .. Len(t) /\ n = Len(s) + (n - Len(s))
      BY <1>1, <1>4
    <2>2. u[n] = t[n - Len(s)]
      BY <1>1, <2>1
    <2>3. QED
      BY <2>1, <2>2 DEF Aloof
  <1>5. QED
    BY <1>3, <1>4

(* A program of one instruction.                                            *)
LEMMA Single ==
    ASSUME NEW h \in Instructions
    PROVE  <<h>> \in Typed /\ Len(<<h>>) = 1 /\ <<h>>[1] = h
  BY DEF Typed

(* A conditional part is passed over as a whole.                            *)
SkipsTo(h, length) == h.op \in {"only if", "may skip"} /\ h.length = length

LEMMA CarefulSkip ==
    ASSUME NEW t \in Careful, NEW h \in Instructions, SkipsTo(h, Len(t))
    PROVE  <<h>> \o t \in Careful
  <1> DEFINE s == <<h>>
             u == s \o t
  <1>1. s \in Typed /\ Len(s) = 1 /\ s[1] = h
    BY Single
  <1> HIDE DEF s
  <1>2. /\ t \in Typed /\ u \in Typed /\ Len(u) = 1 + Len(t)
        /\ Len(t) \in Nat
        /\ u[1] = h
        /\ \A n \in 1 .. Len(t) : u[1 + n] = t[n]
    <2>1. t \in Typed
      BY DEF Careful
    <2>2. /\ u \in Typed /\ Len(u) = Len(s) + Len(t) /\ Len(t) \in Nat
          /\ \A n \in 1 .. Len(s) : u[n] = s[n]
          /\ \A n \in 1 .. Len(t) : u[Len(s) + n] = t[n]
      BY <1>1, <2>1, Concat
    <2>3. 1 \in 1 .. Len(s)
      BY <1>1
    <2>4. QED
      BY <1>1, <2>1, <2>2, <2>3
  <1> HIDE DEF u
  <1>3. SUFFICES ASSUME NEW n \in 1 .. Len(u)
                 PROVE  /\ Enabling(u[n]) => Reloads(u, n)
                        /\ ~Assigning(u[n])
                        /\ u[n].op \notin {"pci read", "pci write"}
                        /\ u[n].op \in {"only if", "may skip"} =>
                              /\ n + u[n].length <= Len(u)
                              /\ n + u[n].length < Len(u) =>
                                    ~Enabling(u[n + 1 + u[n].length])
    BY <1>2 DEF Careful, u, s
  <1>4. CASE n = 1
    <2>1. /\ ~Enabling(h) /\ ~Assigning(h) /\ h.length = Len(t)
          /\ h.op \notin {"pci read", "pci write"}
      BY DEF SkipsTo, Enabling, Assigning
    <2>2. u[n] = h
      BY <1>2, <1>4
    <2>4. n + u[n].length <= Len(u) /\ ~(n + u[n].length < Len(u))
      <3>1. u[n].length = Len(t)
        BY <2>1, <2>2
      <3>2. n + Len(t) <= Len(u) /\ ~(n + Len(t) < Len(u))
        BY <1>2, <1>4
      <3>3. QED
        BY <3>1, <3>2
    <2>5. QED
      BY <2>1, <2>2, <2>4
  <1>5. CASE n # 1
    <2>1. PICK m \in 1 .. Len(t) : n = 1 + m
      <3>1. n - 1 \in 1 .. Len(t) /\ n = 1 + (n - 1)
        BY <1>2, <1>5
      <3>2. QED
        BY <3>1
    <2>2. /\ u[n] = t[m] /\ (Enabling(t[m]) => Reloads(t, m))
          /\ ~Assigning(t[m]) /\ t[m].op \notin {"pci read", "pci write"}
      BY <1>2, <2>1 DEF Careful
    <2>3. Reloads(t, m) => Reloads(u, n)
      <3>1. ASSUME m > 1
            PROVE  u[n - 1] = t[m - 1] /\ n > 1
        <4>1. m - 1 \in 1 .. Len(t) /\ n - 1 = 1 + (m - 1) /\ n > 1
          BY <1>2, <2>1, <3>1
        <4>2. QED
          BY <1>2, <4>1
      <3>2. QED
        BY <2>2, <3>1 DEF Reloads
    <2>4. ASSUME t[m].op \in {"only if", "may skip"}
          PROVE  /\ n + t[m].length <= Len(u)
                 /\ n + t[m].length < Len(u) =>
                       ~Enabling(u[n + 1 + t[m].length])
      <3>1. t[m] \in Instructions
        BY <1>2, ElementOfSeq DEF Typed
      <3>2. PICK l \in Nat : l = t[m].length
        BY <2>4, <3>1 DEF Instructions
      <3>3. /\ m + l <= Len(t)
            /\ m + l < Len(t) => ~Enabling(t[m + 1 + l])
        BY <2>4, <3>2 DEF Careful
      <3>4. /\ n + l <= Len(u)
            /\ n + 1 + l = 1 + (m + 1 + l)
            /\ n + l < Len(u) => m + l < Len(t) /\ m + 1 + l \in 1 .. Len(t)
        BY <1>2, <2>1, <3>3
      <3>5. ASSUME n + l < Len(u)
            PROVE  u[n + 1 + l] = t[m + 1 + l]
        <4>1. m + 1 + l \in 1 .. Len(t)
          BY <3>4, <3>5
        <4>2. u[1 + (m + 1 + l)] = t[m + 1 + l]
          BY <1>2, <4>1
        <4>3. QED
          BY <3>4, <4>2
      <3>6. QED
        BY <3>2, <3>3, <3>4, <3>5
    <2>5. QED
      BY <2>2, <2>3, <2>4
  <1>6. QED
    BY <1>4, <1>5

-----------------------------------------------------------------------------
(* The instructions.                                                        *)
(* A program of one instruction that has nothing to do with ENABLE.         *)
Plain(h) ==
    /\ ~Enabling(h) /\ ~Assigning(h)
    /\ h.op \in {"load", "set", "put", "copy", "may stop", "exit if", "report"}

LEMMA CarefulSingle ==
    ASSUME NEW h \in Instructions, Plain(h)
    PROVE  <<h>> \in Careful
  <1> DEFINE s == <<h>>
  <1>1. s \in Typed /\ Len(s) = 1 /\ s[1] = h
    BY Single
  <1> HIDE DEF s
  <1>2. \A n \in 1 .. Len(s) : s[n] = h
    BY <1>1
  <1>3. s \in Careful
    BY <1>1, <1>2 DEF Careful, Plain
  <1>4. QED
    BY <1>3 DEF s

LEMMA CarefulLoad ==
    ASSUME NEW x \in Locals, NEW r \in Regs
    PROVE  Load(x, r) \in Careful
  BY CarefulSingle DEF Load, Instructions, Plain, Enabling, Assigning

LEMMA CarefulSet ==
    ASSUME NEW r \in Regs, NEW v \in Values, r # "ENABLE"
    PROVE  Set(r, v) \in Careful
  BY CarefulSingle DEF Set, Instructions, Plain, Enabling, Assigning

LEMMA CarefulPut ==
    ASSUME NEW r \in Regs, NEW x \in Locals, NEW on \in Values,
           NEW off \in SUBSET Int, r # "ENABLE"
    PROVE  Put(r, x, on, off) \in Careful
  BY CarefulSingle DEF Put, Instructions, Plain, Enabling, Assigning

LEMMA CarefulOthers ==
    /\ MayStop \in Careful
    /\ \A what \in {"manifest", "firmware"} : Copy(what) \in Careful
    /\ \A c \in Conditions : ExitIf(c) \in Careful /\ Report(c) \in Careful
  BY CarefulSingle
     DEF MayStop, Copy, ExitIf, Report, Instructions, Plain, Enabling, Assigning

(* Read-modify-writes; those of ENABLE clear none but the tools' own bits.  *)
LEMMA CarefulUpdates ==
    /\ \A r \in Regs, b \in Values : Or(r, b) \in Careful
    /\ \A r \in Regs, b \in SUBSET Int :
          r # "ENABLE" \/ b \subseteq ToolBits => AndNot(r, b) \in Careful
  <1>1. ASSUME NEW r \in Regs, NEW on \in Values, NEW off \in SUBSET Int,
               r # "ENABLE" \/ off \subseteq ToolBits
        PROVE  Load("rmw", r) \o Put(r, "rmw", on, off) \in Careful
    <2> DEFINE h == [op |-> "load", local |-> "rmw", reg |-> r]
               k == [op |-> "put", reg |-> r, local |-> "rmw", on |-> on, off |-> off]
               s == <<h>>
               t == <<k>>
               u == s \o t
    <2>1. h \in Instructions /\ k \in Instructions
      BY DEF Instructions, Locals
    <2>2. /\ h.op = "load" /\ h.reg = r /\ h.local = "rmw" /\ k.op = "put"
          /\ k.reg = r /\ k.local = "rmw" /\ k.off = off
      OBVIOUS
    <2> HIDE DEF h, k
    <2>3. /\ s \in Typed /\ Len(s) = 1 /\ s[1] = h
          /\ t \in Typed /\ Len(t) = 1 /\ t[1] = k
      BY <2>1, Single
    <2> HIDE DEF s, t
    <2>4. u \in Typed /\ Len(u) = 2 /\ u[1] = h /\ u[2] = k
      <3>1. /\ u \in Typed /\ Len(u) = Len(s) + Len(t)
            /\ \A n \in 1 .. Len(s) : u[n] = s[n]
            /\ \A n \in 1 .. Len(t) : u[Len(s) + n] = t[n]
        BY <2>3, Concat
      <3>2. 1 \in 1 .. Len(s) /\ 1 \in 1 .. Len(t) /\ Len(s) + 1 = 2
        BY <2>3
      <3>3. u[1] = h /\ u[Len(s) + 1] = k
        BY <2>3, <3>1, <3>2
      <3>4. QED
        BY <2>3, <3>1, <3>2, <3>3
    <2> HIDE DEF u
    <2>5. ~Enabling(h) /\ ~Assigning(h) /\ ~Assigning(k)
      BY <2>2 DEF Enabling, Assigning
    <2>6. Enabling(k) => Reloads(u, 2)
      <3>1. u[2 - 1] = h
        BY <2>4
      <3>2. r = "ENABLE" => off \subseteq ToolBits
        BY <1>1
      <3>3. QED
        <4>1. Enabling(k) => Pair(h, k)
          BY <2>2, <3>2 DEF Enabling, Pair
        <4>2. QED
          BY <2>4, <3>1, <4>1 DEF Reloads
    <2>7. \A n \in 1 .. Len(u) : n = 1 \/ n = 2
      BY <2>4
    <2>8. u \in Careful
      BY <2>2, <2>4, <2>5, <2>6, <2>7 DEF Careful
    <2>9. QED
      BY <2>8 DEF u, s, t, h, k, Load, Put
  <1>2. {} \in SUBSET Int /\ {} \in Values
    BY DEF Values
  <1>3. QED
    BY <1>1, <1>2 DEF Or, AndNot

LEMMA CarefulParts ==
    /\ \A t \in Careful : MaySkip(t) \in Careful
    /\ \A c \in Conditions, t \in Careful : OnlyIf(c, t) \in Careful
  <1>1. \A t \in Careful : Len(t) \in Nat
    BY LenProperties DEF Careful, Typed
  <1>2. ASSUME NEW t \in Careful
        PROVE  MaySkip(t) \in Careful
    <2> DEFINE h == [op |-> "may skip", length |-> Len(t)]
    <2>1. h \in Instructions /\ SkipsTo(h, Len(t))
      BY <1>1 DEF Instructions, SkipsTo
    <2> HIDE DEF h
    <2>2. <<h>> \o t \in Careful
      BY <2>1, CarefulSkip
    <2>3. QED
      BY <2>2 DEF MaySkip, h
  <1>3. ASSUME NEW c \in Conditions, NEW t \in Careful
        PROVE  OnlyIf(c, t) \in Careful
    <2> DEFINE h == [op |-> "only if", cond |-> c, length |-> Len(t)]
    <2>1. h \in Instructions /\ SkipsTo(h, Len(t))
      BY <1>1 DEF Instructions, SkipsTo
    <2> HIDE DEF h
    <2>2. <<h>> \o t \in Careful
      BY <2>1, CarefulSkip
    <2>3. QED
      BY <2>2 DEF OnlyIf, h
  <1>4. QED
    BY <1>2, <1>3

-----------------------------------------------------------------------------
(* The tools' programs.                                                     *)
LEMMA Constants ==
    /\ \A b \in SUBSET Bits : b \in Values /\ b \in SUBSET Int
    /\ {} \in Values /\ Ones \in Values /\ MANIFEST_AT \in Values
    /\ BADF5040 \in Values /\ A5A5A5A5 \in Values /\ DEADBEEF \in Values
    /\ AC000000 \in Values /\ AD000000 \in Values
  <1>1. \A b \in SUBSET Bits : b \in Values /\ b \in SUBSET Int
    BY DEF Values, Bits
  <1>2. ASSUME NEW a \in SUBSET (0 .. 7), NEW b \in SUBSET (0 .. 7),
               NEW c \in SUBSET (0 .. 7), NEW d \in SUBSET (0 .. 7)
        PROVE  Bytes4(a, b, c, d) \in Values
    <2>1. a \subseteq Bits
      BY DEF Bits
    <2>2. {8 + i : i \in b} \subseteq Bits
      BY DEF Bits
    <2>3. {16 + i : i \in c} \subseteq Bits
      BY DEF Bits
    <2>4. {24 + i : i \in d} \subseteq Bits
      BY DEF Bits
    <2>5. QED
      BY <2>1, <2>2, <2>3, <2>4 DEF Bytes4, Values
  <1>3. BADF5040 \in Values
    BY <1>2 DEF BADF5040
  <1>4. DEADBEEF \in Values
    BY <1>2 DEF DEADBEEF
  <1>5. AC000000 \in Values /\ AD000000 \in Values
    <2>1. AC000000 \in Values
      BY <1>2 DEF AC000000
    <2>2. QED
      BY <2>1 DEF AD000000, Values, Bits
  <1>6. A5A5A5A5 \in Values /\ Ones \in Values /\ MANIFEST_AT \in Values
    BY DEF A5A5A5A5, Ones, MANIFEST_AT, Values, Bits
  <1>7. QED
    BY <1>1, <1>3, <1>4, <1>5, <1>6 DEF Values

LEMMA Names ==
    /\ "GPU_ID" \in Regs /\ "GPU_COMMAND" \in Regs /\ "GPU_BAR0" \in Regs
    /\ "GPU_ROM" \in Regs /\ "GPU_PM" \in Regs /\ "USB_PM" \in Regs
    /\ "UCSI_PM" \in Regs /\ "ROOT_COMMAND" \in Regs /\ "ROOT_WINDOW" \in Regs
    /\ "ROOT_CONTROL" \in Regs /\ "ROOT_PM" \in Regs /\ "ROOT_PM_CAP" \in Regs
    /\ "LNK_CON" \in Regs /\ "LNK_TRN" \in Regs /\ "P2SB_CONTROL" \in Regs
    /\ "GPP_G19" \in Regs /\ "GPP_D22" \in Regs /\ "FALCON" \in Regs
    /\ "MAILBOX0" \in Regs /\ "MAILBOX1" \in Regs /\ "OS" \in Regs
    /\ "CPUCTL" \in Regs /\ "HALT" \in Regs /\ "ID" \in Regs
    /\ "STATUS" \in Regs /\ "BOOT_0" \in Regs /\ "INTR_EN_0" \in Regs
    /\ "RESET" \in Regs /\ "RESET_MASK" \in Regs /\ "ENABLE" \in Regs
    /\ "UNIT_RESET" \in Regs /\ "BRIDGE" \in Regs /\ "ENABLE_2" \in Regs
    /\ "ENABLE_CONTROL" \in Regs /\ "VGA_MASTER_CTRL" \in Regs
    /\ "HOST_KEY" \in Regs /\ "ELCG_DIS" \in Regs /\ "PWR_MGMT_CTRL" \in Regs
    /\ "ID_B" \in Regs /\ "SCRATCH_B" \in Regs /\ "ID_SEC2" \in Regs
    /\ "SCRATCH_SEC2" \in Regs
  BY DEF Regs, GpuConfig, Board, Falcon, Engine

LEMMA LocalNames ==
    /\ "rmw" \in Locals /\ "pm_val" \in Locals /\ "original_ctrl" \in Locals
    /\ "pi_data" \in Locals /\ "cmd" \in Locals /\ "gpu_cfg" \in Locals
    /\ "status" \in Locals /\ "falcon_id" \in Locals /\ "en_val" \in Locals
    /\ "reset_val" \in Locals /\ "result" \in Locals
    /\ "gsp_status" \in Locals /\ "pmc_enable" \in Locals
    /\ "final_status" \in Locals /\ "initial" \in Locals /\ "id" \in Locals
    /\ "check" \in Locals /\ "zero" \in Locals /\ "mbox0" \in Locals
    /\ "pmc_reset" \in Locals
  BY DEF Locals

LEMMA BitSets ==
    /\ \A n \in 0 .. 31 : {n} \in Values /\ {n} \in SUBSET Int
    /\ \A m, n \in 0 .. 31 : {m, n} \in Values /\ {m, n} \in SUBSET Int
    /\ {0, 1, 2} \in Values
    /\ {} \in SUBSET Int
  BY DEF Values, Bits

LEMMA Tests ==
    /\ \A x \in Locals, b \in Values :
          Meets(x, b) \in Conditions /\ Misses(x, b) \in Conditions
    /\ \A x \in Locals, s \in SUBSET Values :
          Among(x, s) \in Conditions /\ Other(x, s) \in Conditions
  BY DEF Conditions, Meets, Misses, Among, Other

LEMMA CarefulWake == nv_gsp_wake \in Careful
  <1>1. Set("ENABLE_CONTROL", {0}) \in Careful
    BY CarefulSet, Names, BitSets, Constants
  <1>2. /\ Or("RESET", {18, 19}) \in Careful
        /\ Or("ENABLE", {18, 19}) \in Careful
    BY CarefulUpdates, Names, BitSets
  <1>3. Load("en_val", "ENABLE") \in Careful
    BY CarefulLoad, Names, LocalNames
  <1>4. Report(Meets("en_val", {19})) \in Careful
    BY CarefulOthers, Tests, LocalNames, BitSets, Constants
  <1>5. QED
    BY <1>1, <1>2, <1>3, <1>4, CarefulConcat DEF nv_gsp_wake

LEMMA CarefulMasterKey == nv_gpu_master_key \in Careful
  <1>1. /\ Set("PWR_MGMT_CTRL", {}) \in Careful
        /\ Set("ENABLE_CONTROL", {0}) \in Careful
    BY CarefulSet, Names, BitSets, Constants
  <1>2. /\ Or("ELCG_DIS", {19}) \in Careful
        /\ Or("RESET_MASK", {19}) \in Careful /\ Or("RESET", {19}) \in Careful
        /\ Or("ENABLE", {19}) \in Careful
    BY CarefulUpdates, Names, BitSets
  <1>3. Load("reset_val", "RESET") \in Careful
    BY CarefulLoad, Names, LocalNames
  <1>4. Report(Meets("reset_val", {19})) \in Careful
    BY CarefulOthers, Tests, LocalNames, BitSets, Constants
  <1>5. QED
    BY <1>1, <1>2, <1>3, <1>4, CarefulConcat DEF nv_gpu_master_key

LEMMA CarefulPersistence == nv_gpu_persistence \in Careful
  <1>1. /\ Set("PWR_MGMT_CTRL", {}) \in Careful
        /\ Set("ELCG_DIS", {0}) \in Careful
    BY CarefulSet, Names, BitSets, Constants
  <1>2. /\ Or("ELCG_DIS", {18, 19}) \in Careful
        /\ Or("ENABLE", {18, 19}) \in Careful
        /\ Or("RESET", {18, 19}) \in Careful
    BY CarefulUpdates, Names, BitSets
  <1>3. Load("en_val", "ENABLE") \in Careful
    BY CarefulLoad, Names, LocalNames
  <1>4. Report(Meets("en_val", {19})) \in Careful
    BY CarefulOthers, Tests, LocalNames, BitSets, Constants
  <1>5. QED
    BY <1>1, <1>2, <1>3, <1>4, CarefulConcat DEF nv_gpu_persistence

LEMMA CarefulHandshake == nv_gpu_handshake \in Careful
  <1>1. /\ Set("VGA_MASTER_CTRL", {}) \in Careful
        /\ Set("INTR_EN_0", {}) \in Careful
        /\ Set("INTR_EN_0", {0}) \in Careful
    BY CarefulSet, Names, BitSets, Constants
  <1>2. Or("RESET", {19}) \in Careful
    BY CarefulUpdates, Names, BitSets
  <1>3. Load("reset_val", "RESET") \in Careful
    BY CarefulLoad, Names, LocalNames
  <1>4. Report(Meets("reset_val", {19})) \in Careful
    BY CarefulOthers, Tests, LocalNames, BitSets, Constants
  <1>5. QED
    BY <1>1, <1>2, <1>3, <1>4, CarefulConcat DEF nv_gpu_handshake

LEMMA CarefulAudit == nv_pmc_full_audit \in Careful
  <1>1. /\ Or("BOOT_0", {17}) \in Careful /\ Or("ENABLE", {17}) \in Careful
    BY CarefulUpdates, Names, BitSets
  <1>2. Load("gsp_status", "STATUS") \in Careful
    BY CarefulLoad, Names, LocalNames
  <1>3. Report(Other("gsp_status", {{}})) \in Careful
    BY CarefulOthers, Tests, LocalNames, BitSets, Constants
  <1>4. QED
    BY <1>1, <1>2, <1>3, CarefulConcat DEF nv_pmc_full_audit

LEMMA CarefulFalconTest == nv_falcon_test \in Careful
  <1>1. /\ Load("initial", "MAILBOX0") \in Careful
        /\ Load("result", "MAILBOX0") \in Careful
    BY CarefulLoad, Names, LocalNames
  <1>2. Set("MAILBOX0", DEADBEEF) \in Careful
    BY CarefulSet, Names, BitSets, Constants
  <1>3. Put("MAILBOX0", "initial", {}, {}) \in Careful
    BY CarefulPut, Names, LocalNames, BitSets, Constants
  <1>4. Report(Among("result", {DEADBEEF})) \in Careful
    BY CarefulOthers, Tests, LocalNames, BitSets, Constants
  <1>5. QED
    BY <1>1, <1>2, <1>3, <1>4, CarefulConcat DEF nv_falcon_test

LEMMA CarefulMotherboard == motherboard_init \in Careful
  <1>1. MayStop \in Careful
    BY CarefulOthers, Tests, LocalNames, BitSets, Constants
  <1>2. /\ Or("GPP_G19", {0}) \in Careful
        /\ AndNot("GPP_D22", {0}) \in Careful
        /\ AndNot("LNK_CON", {4}) \in Careful
        /\ Or("LNK_TRN", {0}) \in Careful
    BY CarefulUpdates, Names, BitSets
  <1>3. QED
    BY <1>1, <1>2, CarefulConcat DEF motherboard_init

LEMMA CarefulProbe == gpu_ghost_probe \in Careful
  <1>1. /\ AndNot("P2SB_CONTROL", {8}) \in Careful
        /\ AndNot("ROOT_PM", {0, 1}) \in Careful
        /\ Or("ROOT_COMMAND", {1, 2}) \in Careful
        /\ AndNot("USB_PM", {0, 1}) \in Careful
        /\ AndNot("UCSI_PM", {0, 1}) \in Careful
        /\ AndNot("GPU_PM", {0, 1}) \in Careful
        /\ Or("GPU_COMMAND", {1, 2}) \in Careful
        /\ AndNot("GPU_ROM", {0}) \in Careful
    BY CarefulUpdates, Names, BitSets
  <1>2. /\ MaySkip(AndNot("P2SB_CONTROL", {8})) \in Careful
        /\ MaySkip(AndNot("USB_PM", {0, 1})) \in Careful
        /\ MaySkip(AndNot("UCSI_PM", {0, 1})) \in Careful
    BY <1>1, CarefulParts
  <1>3. Load("gpu_cfg", "GPU_ID") \in Careful
    BY CarefulLoad, Names, LocalNames
  <1>4. Set("GPU_BAR0", AD000000) \in Careful
    BY CarefulSet, Names, Constants
  <1>5. MayStop \in Careful /\ ExitIf(Among("gpu_cfg", {Ones})) \in Careful
    BY CarefulOthers, Tests, LocalNames, Constants
  <1>6. QED
    BY <1>1, <1>2, <1>3, <1>4, <1>5, CarefulConcat DEF gpu_ghost_probe

LEMMA CarefulStatus == nv_gsp_status \in Careful
  <1>1. Load("status", "STATUS") \in Careful /\ Load("mbox0", "MAILBOX0") \in Careful
    BY CarefulLoad, Names, LocalNames
  <1>2. /\ ExitIf(Among("mbox0", {{}})) \in Careful
        /\ Report(Meets("status", {1})) \in Careful
    BY CarefulOthers, Tests, LocalNames, BitSets, Constants
  <1>3. OnlyIf(Misses("status", {0}), ExitIf(Among("mbox0", {{}}))) \in Careful
    BY <1>2, CarefulParts, Tests, LocalNames, BitSets
  <1>4. QED
    BY <1>1, <1>2, <1>3, CarefulConcat DEF nv_gsp_status

LEMMA CarefulPulse == nv_gsp_pulse \in Careful
  <1>1. /\ Load("pmc_enable", "ENABLE") \in Careful
        /\ Load("final_status", "STATUS") \in Careful
    BY CarefulLoad, Names, LocalNames
  <1>2. Or("ENABLE", {17}) \in Careful
    BY CarefulUpdates, Names, BitSets
  <1>3. OnlyIf(Misses("pmc_enable", {17}), Or("ENABLE", {17})) \in Careful
    BY <1>2, CarefulParts, Tests, LocalNames, BitSets
  <1>4. Set("HALT", {1}) \in Careful
    BY CarefulSet, Names, BitSets
  <1>5. Report(Meets("final_status", {1})) \in Careful
    BY CarefulOthers, Tests, LocalNames, BitSets
  <1>6. QED
    BY <1>1, <1>3, <1>4, <1>5, CarefulConcat DEF nv_gsp_pulse

LEMMA CarefulIgnite == prime_ignite \in Careful
  <1>1. /\ Load("pmc_enable", "ENABLE") \in Careful
        /\ Load("pmc_reset", "RESET") \in Careful
    BY CarefulLoad, Names, LocalNames
  <1>2. Report(Meets("pmc_reset", {31})) \in Careful
    BY CarefulOthers, Tests, LocalNames, BitSets
  <1>3. OnlyIf(Meets("pmc_enable", {31}), Report(Meets("pmc_reset", {31}))) \in Careful
    BY <1>2, CarefulParts, Tests, LocalNames, BitSets
  <1>4. prime_dump_status \in Careful
    BY <1>1, <1>3, CarefulConcat DEF prime_dump_status
  <1>5. Set("ELCG_DIS", Ones) \in Careful /\ Set("VGA_MASTER_CTRL", {}) \in Careful
    BY CarefulSet, Names, Constants
  <1>6. Or("ENABLE", {14, 31}) \in Careful /\ Or("RESET", {31}) \in Careful
    BY CarefulUpdates, Names, BitSets
  <1>7. QED
    BY <1>4, <1>5, <1>6, CarefulConcat DEF prime_ignite

LEMMA CarefulFind == nv_falcon_find \in Careful
  <1>1. ASSUME NEW i \in Regs, NEW r \in Regs, r # "ENABLE"
        PROVE  probe_base(i, r) \in Careful
    <2>1. Load("id", i) \in Careful /\ Load("check", r) \in Careful
      BY CarefulLoad, LocalNames
    <2>2. Set(r, A5A5A5A5) \in Careful
      BY <1>1, CarefulSet, Constants
    <2>3. Set(r, A5A5A5A5) \o Load("check", r) \in Careful
      BY <2>1, <2>2, CarefulConcat
    <2>4. OnlyIf(Other("id", {{}, Ones}), Set(r, A5A5A5A5) \o Load("check", r))
             \in Careful
      BY <2>3, CarefulParts, Tests, LocalNames, Constants
    <2>5. QED
      BY <2>1, <2>4, CarefulConcat DEF probe_base
  <1>2. /\ probe_base("ID", "MAILBOX0") \in Careful
        /\ probe_base("ID_B", "SCRATCH_B") \in Careful
        /\ probe_base("ID_SEC2", "SCRATCH_SEC2") \in Careful
    BY <1>1, Names
  <1>3. QED
    BY <1>2, CarefulConcat DEF nv_falcon_find

LEMMA CarefulLoader == nv_load_gsp \in Careful
  <1>1. DeepScrub \in Careful
    <2>1. /\ AndNot("UNIT_RESET", {31}) \in Careful
          /\ AndNot("ENABLE_2", {31}) \in Careful
          /\ Or("ENABLE", {31}) \in Careful /\ Or("ENABLE_2", {31}) \in Careful
          /\ Or("UNIT_RESET", {31}) \in Careful
      BY CarefulUpdates, Names, BitSets
    <2>2. AndNot("ENABLE", {31}) \in Careful
      BY CarefulUpdates, Names, BitSets DEF ToolBits
    <2>3. Set("HOST_KEY", {0}) \in Careful /\ Set("ELCG_DIS", Ones) \in Careful
      BY CarefulSet, Names, BitSets, Constants
    <2>4. QED
      BY <2>1, <2>2, <2>3, CarefulConcat DEF DeepScrub
  <1>2. PulseCheck \in Careful
    <2>1. Load("status", "BRIDGE") \in Careful /\ Load("falcon_id", "FALCON") \in Careful
      BY CarefulLoad, Names, LocalNames
    <2>2. ExitIf(Among("falcon_id", {BADF5040, Ones})) \in Careful
      BY CarefulOthers, Tests, LocalNames, Constants
    <2> DEFINE body == Load("falcon_id", "FALCON")
                       \o ExitIf(Among("falcon_id", {BADF5040, Ones}))
    <2>3. body \in Careful
      BY <2>1, <2>2, CarefulConcat
    <2>4. Among("status", {BADF5040}) \in Conditions
      BY Tests, LocalNames, Constants
    <2>5. OnlyIf(Among("status", {BADF5040}), body) \in Careful
      BY <2>3, <2>4, CarefulParts
    <2>6. QED
      BY <2>1, <2>5, CarefulConcat DEF PulseCheck
  <1>3. LoadFirmware \in Careful
    BY CarefulOthers, CarefulConcat DEF LoadFirmware
  <1>4. PointAndShoot \in Careful
    <2>1. /\ Set("MAILBOX0", MANIFEST_AT) \in Careful
          /\ Set("MAILBOX1", {}) \in Careful
          /\ Set("OS", {0}) \in Careful /\ Set("CPUCTL", {0}) \in Careful
      BY CarefulSet, Names, BitSets, Constants
    <2>2. QED
      BY <2>1, CarefulConcat DEF PointAndShoot
  <1>5. QED
    BY <1>1, <1>2, <1>3, <1>4, CarefulConcat DEF nv_load_gsp

(* The configuration tools have nothing to do with ENABLE.                  *)
LEMMA AloofSingle ==
    ASSUME NEW h \in Instructions, ~Enabling(h) /\ ~Assigning(h)
    PROVE  <<h>> \in Aloof
  <1> DEFINE s == <<h>>
  <1>1. s \in Typed /\ Len(s) = 1 /\ s[1] = h
    BY Single
  <1> HIDE DEF s
  <1>2. \A n \in 1 .. Len(s) : s[n] = h
    BY <1>1
  <1>3. s \in Aloof
    BY <1>1, <1>2 DEF Aloof
  <1>4. QED
    BY <1>3 DEF s

LEMMA AloofRead ==
    ASSUME NEW x \in Locals, NEW r \in Regs, NEW n \in Nat
    PROVE  PciRead(x, r, n) \in Aloof
  BY AloofSingle DEF PciRead, Instructions, Enabling, Assigning

LEMMA AloofWrite ==
    ASSUME NEW r \in Regs, NEW x \in Locals, NEW on \in Values,
           NEW off \in SUBSET Int, NEW n \in Nat, r # "ENABLE"
    PROVE  PciWrite(r, x, on, off, n) \in Aloof
  BY AloofSingle DEF PciWrite, Instructions, Enabling, Assigning

LEMMA AloofTests ==
    ASSUME NEW c \in Conditions
    PROVE  /\ Report(c) \in Aloof
           /\ \A t \in Aloof : OnlyIf(c, t) \in Aloof
  <1>1. Report(c) \in Aloof
    BY AloofSingle DEF Report, Instructions, Enabling, Assigning
  <1>2. ASSUME NEW t \in Aloof
        PROVE  OnlyIf(c, t) \in Aloof
    <2> DEFINE h == [op |-> "only if", cond |-> c, length |-> Len(t)]
    <2>1. Len(t) \in Nat
      BY LenProperties DEF Aloof, Typed
    <2>2. h \in Instructions /\ ~Enabling(h) /\ ~Assigning(h)
      BY <2>1 DEF Instructions, Enabling, Assigning
    <2> HIDE DEF h
    <2>3. <<h>> \in Aloof
      BY <2>2, AloofSingle
    <2>4. <<h>> \o t \in Aloof
      BY <2>3, AloofConcat
    <2>5. QED
      BY <2>4 DEF OnlyIf, h
  <1>3. QED
    BY <1>1, <1>2

LEMMA AloofRepin == nv_gpu_repin \in Aloof
  <1>1. Bytes4({}, {2, 3, 5, 7}, {}, {0, 2, 3, 5, 7}) \in Values
    BY DEF Bytes4, Values, Bits
  <1>2. PciRead("pi_data", "GPU_BAR0", 0) \in Aloof
    BY AloofRead, Names, LocalNames
  <1>3. /\ PciWrite("GPU_BAR0", "zero", AC000000, {}, 0) \in Aloof
        /\ PciWrite("ROOT_WINDOW", "zero",
                    Bytes4({}, {2, 3, 5, 7}, {}, {0, 2, 3, 5, 7}), {}, 0) \in Aloof
    BY <1>1, AloofWrite, Names, LocalNames, BitSets, Constants
  <1>4. Report(Among("pi_data", {AC000000})) \in Aloof
    BY AloofTests, Tests, LocalNames, Constants
  <1>5. QED
    BY <1>2, <1>3, <1>4, AloofConcat DEF nv_gpu_repin

LEMMA AloofValves == nv_gpu_open_valves \in Aloof
  <1>1. /\ PciRead("cmd", "GPU_COMMAND", 0) \in Aloof
        /\ PciRead("pi_data", "GPU_COMMAND", 0) \in Aloof
    BY AloofRead, Names, LocalNames
  <1>2. PciWrite("GPU_COMMAND", "cmd", {1, 2}, {}, Quit) \in Aloof
    <2>1. {1, 2} \in Values /\ {} \in SUBSET Int /\ Quit \in Nat
      BY BitSets DEF Quit
    <2>2. "GPU_COMMAND" # "ENABLE"
      OBVIOUS
    <2>3. QED
      BY <2>1, <2>2, AloofWrite, Names, LocalNames
  <1>3. Report(Meets("pi_data", {1})) \in Aloof
    BY AloofTests, Tests, LocalNames, BitSets
  <1>4. QED
    BY <1>1, <1>2, <1>3, AloofConcat DEF nv_gpu_open_valves

LEMMA AloofCommand == cmd_reg_on \in Aloof
  <1>1. PciRead("pi_data", "GPU_COMMAND", 0) \in Aloof
    BY AloofRead, Names, LocalNames
  <1>2. PciWrite("GPU_COMMAND", "zero", {0, 1, 2}, {}, 0) \in Aloof
    BY AloofWrite, Names, LocalNames, BitSets
  <1>3. QED
    BY <1>1, <1>2, AloofConcat DEF cmd_reg_on

LEMMA AloofWake == nv_pci_wake \in Aloof
  <1>1. /\ PciRead("pm_val", "ROOT_PM_CAP", Quit) \in Aloof
        /\ PciRead("original_ctrl", "ROOT_CONTROL", Quit) \in Aloof
    BY AloofRead, Names, LocalNames DEF Quit
  <1>2. PciWrite("ROOT_PM_CAP", "pm_val", {}, {0, 1}, 0) \in Aloof
    <2>1. {} \in Values /\ {0, 1} \in SUBSET Int
      BY BitSets, Constants
    <2>2. "ROOT_PM_CAP" # "ENABLE"
      OBVIOUS
    <2>3. QED
      BY <2>1, <2>2, AloofWrite, Names, LocalNames
  <1>3. OnlyIf(Meets("pm_val", {0, 1}),
               PciWrite("ROOT_PM_CAP", "pm_val", {}, {0, 1}, 0)) \in Aloof
    BY <1>2, AloofTests, Tests, LocalNames, BitSets
  <1>4. /\ PciWrite("ROOT_CONTROL", "original_ctrl", {22}, {}, 1) \in Aloof
        /\ PciWrite("ROOT_CONTROL", "original_ctrl", {}, {22}, 0) \in Aloof
    <2>1. /\ {} \in Values /\ {22} \in SUBSET Int
          /\ {22} \in Values /\ {} \in SUBSET Int
      BY BitSets, Constants
    <2>2. "ROOT_CONTROL" # "ENABLE"
      OBVIOUS
    <2>3. PciWrite("ROOT_CONTROL", "original_ctrl", {22}, {}, 1) \in Aloof
      BY <2>1, <2>2, AloofWrite, Names, LocalNames
    <2>4. PciWrite("ROOT_CONTROL", "original_ctrl", {}, {22}, 0) \in Aloof
      BY <2>1, <2>2, AloofWrite, Names, LocalNames
    <2>5. QED
      BY <2>3, <2>4
  <1>5. QED
    BY <1>1, <1>3, <1>4, AloofConcat DEF nv_pci_wake

LEMMA TypedSet ==
    ASSUME NEW r \in Regs, NEW v \in Values
    PROVE  Set(r, v) \in Typed
  BY Single DEF Set, Instructions

(* nv_gsp_force assigns ENABLE and is only typed.                           *)
LEMMA ForceTyped == nv_gsp_force \in Typed
  <1>1. /\ Set("ELCG_DIS", {19}) \in Careful /\ Set("RESET_MASK", {19}) \in Careful
        /\ Set("RESET", {19}) \in Careful /\ Set("MAILBOX0", A5A5A5A5) \in Careful
    BY CarefulSet, Names, BitSets, Constants
  <1>2. Load("result", "MAILBOX0") \in Careful
    BY CarefulLoad, Names, LocalNames
  <1>3. Report(Among("result", {A5A5A5A5})) \in Careful
    BY CarefulOthers, Tests, LocalNames, Constants
  <1>4. Set("ENABLE", {19}) \in Typed
    BY TypedSet, Names, BitSets
  <1>5. \A s \in Careful : s \in Typed
    BY DEF Careful
  <1>6. \A s, t \in Typed : s \o t \in Typed
    BY Concat
  <1>7. QED
    BY <1>1, <1>2, <1>3, <1>4, <1>5, <1>6 DEF nv_gsp_force

(* What is used of the programs.                                            *)
Forced == "nv_gsp_force"

LEMMA ProgramTyped ==
    ASSUME NEW t \in DOMAIN Program
    PROVE  /\ Program[t] \in Typed
           /\ t # Forced => Program[t] \in Careful \/ Program[t] \in Aloof
  <1>1. t # Forced => Program[t] \in Careful \/ Program[t] \in Aloof
    BY CarefulWake, CarefulMasterKey, CarefulPersistence, CarefulHandshake,
       CarefulAudit, CarefulFalconTest, CarefulMotherboard, CarefulProbe,
       CarefulStatus, CarefulPulse, CarefulIgnite, CarefulFind, CarefulLoader,
       AloofRepin, AloofValves, AloofCommand, AloofWake
       DEF Program, Forced
  <1>2. t = Forced => Program[t] \in Typed
    BY ForceTyped DEF Program, Forced
  <1>3. \A s : s \in Careful \/ s \in Aloof => s \in Typed
    BY DEF Careful, Aloof
  <1>4. QED
    BY <1>1, <1>2, <1>3

-----------------------------------------------------------------------------
(* Types.                                                                   *)
LEMMA InitType == Init => TypeOK
  <1> SUFFICES ASSUME Init PROVE TypeOK
    OBVIOUS
  <1>1. lockout \in BOOLEAN /\ refuses \in Refusals
    BY DEF Init
  <1>2. PICK enable \in Engines, pin \in Pins :
           /\ kept = enable
           /\ regs = [r \in Regs |->
                  CASE r = "ENABLE" -> enable
                    [] r = "GPU_BAR0" -> pin
                    [] r \in {"GPU_COMMAND", "ROOT_COMMAND"} -> {1, 2}
                    [] r = "GPP_D22" -> {0}
                    [] r = "BRIDGE" -> IF lockout THEN BADF5040 ELSE {0}
                    [] r \in {"BOOT_0", "FALCON", "ID", "GPU_ID"} -> {0, 7}
                    [] OTHER -> {}]
    BY DEF Init
  <1>3. /\ enable \in Values /\ pin \in Values /\ {1, 2} \in Values
        /\ {0} \in Values /\ BADF5040 \in Values /\ {0, 7} \in Values
        /\ {} \in Values
    <2>1. enable \in Values /\ pin \in {AC000000, AD000000}
      BY ToolsAssumption DEF Values
    <2>2. QED
      BY <2>1, Constants, BitSets
  <1>4. regs \in [Regs -> Values]
    <2>1. \A r \in Regs : regs[r] \in Values
      BY <1>2, <1>3
    <2>2. QED
      BY <1>2, <2>1
  <1>5. /\ memory = {} /\ runs = 0 /\ troubles = 0
        /\ tool = [p \in Process |-> "none"] /\ pc = [p \in Process |-> 0]
        /\ local = [p \in Process |-> [x \in Locals |-> {}]]
        /\ verdict = [p \in Process |-> "none"]
        /\ others = [p \in Process |-> {}] /\ before = [p \in Process |-> {}]
        /\ trouble = [p \in Process |-> {}]
    BY DEF Init
  <1>6. Running = {}
    BY <1>5 DEF Running
  <1>7. MaxRuns \in Nat /\ MaxTrouble \in Nat
    BY ToolsAssumption
  <1>8. kept \subseteq Bits
    BY <1>2, <1>3 DEF Values
  <1>9. QED
    BY <1>1, <1>3, <1>4, <1>5, <1>6, <1>7, <1>8 DEF TypeOK, Values

(* What is read, and what a write makes of the registers.                   *)
LEMMA ReadType ==
    ASSUME TypeOK, NEW base, NEW r \in Regs
    PROVE  ReadOf(base, r) \in Values
  BY Constants DEF ReadOf, TypeOK, Values

LEMMA WriteType ==
    ASSUME TypeOK, NEW base, NEW r \in Regs, NEW v \in Values,
           Write(base, r, v)
    PROVE  /\ regs' \in [Regs -> Values] /\ lockout' \in BOOLEAN
           /\ refuses' = refuses /\ memory' = memory
           /\ r # "ENABLE" => regs'["ENABLE"] = regs["ENABLE"]
           /\ regs'["ENABLE"] \in {v, regs["ENABLE"]}
  <1>1. regs \in [Regs -> Values] /\ lockout \in BOOLEAN /\ {} \in Values
    BY Constants DEF TypeOK, Values
  <1>2. \/ regs' = regs
        \/ regs' = [regs EXCEPT ![r] = v]
        \/ /\ r = "ROOT_CONTROL"
           /\ regs' = [regs EXCEPT ![r] = v, !["GPU_COMMAND"] = {}, !["GPU_BAR0"] = {}]
    BY DEF Write
  <1>3. lockout' \in BOOLEAN /\ refuses' = refuses /\ memory' = memory
    BY <1>1 DEF Write
  <1>4. CASE regs' = regs
    BY <1>1, <1>3, <1>4
  <1>5. CASE regs' = [regs EXCEPT ![r] = v]
    BY <1>1, <1>3, <1>5, Names
  <1>6. CASE /\ r = "ROOT_CONTROL"
             /\ regs' = [regs EXCEPT ![r] = v, !["GPU_COMMAND"] = {},
                                     !["GPU_BAR0"] = {}]
    BY <1>1, <1>3, <1>6, Names
  <1>7. QED
    BY <1>2, <1>4, <1>5, <1>6

(* The instruction a process is at.                                         *)
LEMMA InstrType ==
    ASSUME TypeOK, NEW p \in Process, pc[p] # 0
    PROVE  /\ p \in Running /\ tool[p] \in DOMAIN Program /\ tool[p] \in Tools
           /\ Program[tool[p]] \in Typed
           /\ DOMAIN Program[tool[p]] = 1 .. Len(Program[tool[p]])
           /\ Len(Program[tool[p]]) \in Nat
           /\ pc[p] \in 1 .. Len(Program[tool[p]])
           /\ Instr(p) \in Instructions
  <1>1. p \in Running
    BY DEF Running
  <1>2. tool[p] \in Tools /\ pc[p] \in DOMAIN Program[tool[p]]
    BY <1>1 DEF TypeOK
  <1>3. tool[p] \in DOMAIN Program
    BY <1>2, ToolsAssumption
  <1>4. Program[tool[p]] \in Typed
    BY <1>3, ProgramTyped
  <1>5. /\ DOMAIN Program[tool[p]] = 1 .. Len(Program[tool[p]])
        /\ Len(Program[tool[p]]) \in Nat
    BY <1>4, LenProperties DEF Typed
  <1>6. Instr(p) \in Instructions
    BY <1>2, <1>4, <1>5, ElementOfSeq DEF Instr, Typed
  <1>7. QED
    BY <1>1, <1>2, <1>3, <1>4, <1>5, <1>6

(* Where it goes.                                                           *)
LEMMA GoType ==
    ASSUME TypeOK, NEW p \in Process, pc[p] # 0, tool' = tool,
           NEW n, NEW l \in [Locals -> Values], GoWith(p, n, l)
    PROVE  /\ pc' \in [Process -> Nat] /\ local' \in [Process -> [Locals -> Values]]
           /\ \A q \in Running' :
                 tool'[q] \in Tools /\ pc'[q] \in DOMAIN Program[tool'[q]]
           /\ \A q \in Process : q # p => pc'[q] = pc[q] /\ local'[q] = local[q]
           /\ pc'[p] # 0 => /\ pc'[p] = n /\ n \in DOMAIN Program[tool[p]]
                            /\ local'[p] = l
  <1>1. pc \in [Process -> Nat] /\ local \in [Process -> [Locals -> Values]]
    BY DEF TypeOK, Values
  <1>2. NoLocals \in [Locals -> Values]
    BY Constants DEF NoLocals
  <1>3. n \in DOMAIN Program[tool[p]] => n \in Nat /\ n # 0
    BY InstrType
  <1>4. CASE n \in DOMAIN Program[tool[p]]
    <2>1. /\ pc' = [pc EXCEPT ![p] = n] /\ local' = [local EXCEPT ![p] = l]
          /\ n \in Nat
      BY <1>3, <1>4 DEF GoWith
    <2>2. /\ pc' \in [Process -> Nat] /\ local' \in [Process -> [Locals -> Values]]
          /\ pc'[p] = n /\ local'[p] = l
          /\ \A q \in Process : q # p => pc'[q] = pc[q] /\ local'[q] = local[q]
      BY <1>1, <2>1
    <2>3. ASSUME NEW q \in Running'
          PROVE  tool'[q] \in Tools /\ pc'[q] \in DOMAIN Program[tool'[q]]
      <3>1. q \in Process /\ pc'[q] # 0
        BY DEF Running
      <3>2. CASE q = p
        BY <1>4, <2>2, <3>2, InstrType
      <3>3. CASE q # p
        <4>1. q \in Running /\ pc'[q] = pc[q]
          BY <2>2, <3>1, <3>3 DEF Running
        <4>2. QED
          BY <4>1 DEF TypeOK
      <3>4. QED
        BY <3>2, <3>3
    <2>4. QED
      BY <1>4, <2>2, <2>3
  <1>5. CASE n \notin DOMAIN Program[tool[p]]
    <2>1. /\ pc' = [pc EXCEPT ![p] = 0] /\ local' = [local EXCEPT ![p] = NoLocals]
      BY <1>5 DEF GoWith
    <2>2. /\ pc' \in [Process -> Nat] /\ local' \in [Process -> [Locals -> Values]]
          /\ pc'[p] = 0
          /\ \A q \in Process : q # p => pc'[q] = pc[q] /\ local'[q] = local[q]
      BY <1>1, <1>2, <2>1
    <2>3. ASSUME NEW q \in Running'
          PROVE  tool'[q] \in Tools /\ pc'[q] \in DOMAIN Program[tool'[q]]
      <3>1. q \in Process /\ pc'[q] # 0
        BY DEF Running
      <3>2. q \in Running /\ pc'[q] = pc[q]
        BY <2>2, <3>1 DEF Running
      <3>3. QED
        BY <3>2 DEF TypeOK
    <2>4. QED
      BY <2>2, <2>3
  <1>6. QED
    BY <1>4, <1>5

(* What the instructions carry.                                             *)
LEMMA Fields ==
    ASSUME NEW i \in Instructions
    PROVE  /\ i.op = "load" => i.local \in Locals /\ i.reg \in Regs
           /\ i.op = "set" => i.reg \in Regs /\ i.value \in Values
           /\ i.op = "put" => i.reg \in Regs /\ i.local \in Locals
           /\ i.op = "copy" => i.what \in {"manifest", "firmware"}
           /\ i.op = "pci read" => i.local \in Locals /\ i.reg \in Regs
           /\ i.op = "pci write" => i.reg \in Regs /\ i.local \in Locals
           /\ i.op \in {"put", "pci write"} => i.on \in Values
  <1>1. i.op = "load" => i.local \in Locals /\ i.reg \in Regs
    BY DEF Instructions
  <1>2. i.op = "set" => i.reg \in Regs /\ i.value \in Values
    BY DEF Instructions
  <1>3. i.op = "put" => i.reg \in Regs /\ i.local \in Locals
    BY DEF Instructions
  <1>4. i.op = "copy" => i.what \in {"manifest", "firmware"}
    BY DEF Instructions
  <1>5. i.op = "pci read" => i.local \in Locals /\ i.reg \in Regs
    BY DEF Instructions
  <1>6. i.op = "pci write" => i.reg \in Regs /\ i.local \in Locals
    BY DEF Instructions
  <1>7. i.op \in {"put", "pci write"} => i.on \in Values
    BY DEF Instructions
  <1>8. QED
    BY <1>1, <1>2, <1>3, <1>4, <1>5, <1>6, <1>7

LEMMA WrittenType ==
    ASSUME TypeOK, NEW p \in Process, pc[p] # 0,
           Instr(p).op \in {"put", "pci write"}
    PROVE  Written(p) \in Values
  <1>1. Instr(p).local \in Locals /\ Instr(p).on \in Values
    BY InstrType, Fields
  <1>2. local \in [Process -> [Locals -> Values]]
    BY DEF TypeOK, Values
  <1>3. local[p][Instr(p).local] \in Values
    BY <1>1, <1>2
  <1>4. QED
    BY <1>1, <1>3 DEF Written, Values

(* Every step of a tool moves it on, with typed local variables.            *)
LEMMA RunGoes ==
    ASSUME TypeOK, NEW p \in Process, Run(p)
    PROVE  /\ pc[p] # 0 /\ tool' = tool
           /\ \E n, l : l \in [Locals -> Values] /\ GoWith(p, n, l)
  <1>1. local[p] \in [Locals -> Values]
    <2>1. local \in [Process -> [Locals -> Values]]
      BY DEF TypeOK, Values
    <2>2. QED
      BY <2>1
  <1>2. /\ pc[p] # 0 /\ tool' = tool
    BY DEF Run, LoadReg, SetReg, PutReg, CopyToMemory, PciReadReg, PciWriteReg,
           PciFails, Skip, Exit, Says, At
  <1>3. ASSUME NEW v \in Values, NEW x \in Locals
        PROVE  /\ [local[p] EXCEPT ![x] = v] \in [Locals -> Values]
               /\ [local[p] EXCEPT !.pi_data = v] \in [Locals -> Values]
               /\ [local[p] EXCEPT !.pi_data = v, ![x] = v] \in [Locals -> Values]
    BY <1>1
  <1> DEFINE Goes == \E n, l : l \in [Locals -> Values] /\ GoWith(p, n, l)
  <1>4. ASSUME NEW n, NEW l \in [Locals -> Values], GoWith(p, n, l)
        PROVE  Goes
    BY <1>4
  <1>5. ASSUME NEW n, Goto(p, n)
        PROVE  Goes
    BY <1>1, <1>4, <1>5 DEF Goto
  <1> HIDE DEF Goes
  <1>6. ASSUME LoadReg(p)
        PROVE  Goes
    <2>1. /\ Instr(p).op = "load"
          /\ GoWith(p, pc[p] + 1, [local[p] EXCEPT ![Instr(p).local] =
                                      ReadOf(MappedAt(tool[p]), Instr(p).reg)])
      BY <1>6 DEF LoadReg, At, Instr
    <2>2. /\ Instr(p).local \in Locals
          /\ ReadOf(MappedAt(tool[p]), Instr(p).reg) \in Values
      BY <1>2, <2>1, InstrType, Fields, ReadType
    <2>3. [local[p] EXCEPT ![Instr(p).local] = ReadOf(MappedAt(tool[p]), Instr(p).reg)]
            \in [Locals -> Values]
      BY <1>3, <2>2
    <2>4. QED
      BY <1>4, <2>1, <2>3
  <1>7. ASSUME SetReg(p) \/ PutReg(p) \/ CopyToMemory(p) \/ Skip(p) \/ Says(p)
        PROVE  Goes
    <2>1. \E n : Goto(p, n)
      BY <1>7 DEF SetReg, PutReg, CopyToMemory, Skip, Says
    <2>2. QED
      BY <1>5, <2>1
  <1>8. ASSUME Exit(p)
        PROVE  Goes
    <2>1. \E n : Goto(p, n)
      BY <1>8 DEF Exit
    <2>2. QED
      BY <1>5, <2>1
  <1>9. ASSUME PciReadReg(p)
        PROVE  Goes
    <2> DEFINE v == ReadOf({}, Instr(p).reg)
    <2>1. /\ Instr(p).op = "pci read"
          /\ GoWith(p, pc[p] + 1, [local[p] EXCEPT !.pi_data = v, ![Instr(p).local] = v])
      BY <1>9 DEF PciReadReg, At, Instr
    <2>2. /\ Instr(p).local \in Locals /\ v \in Values
      BY <1>2, <2>1, InstrType, Fields, ReadType
    <2>3. [local[p] EXCEPT !.pi_data = v, ![Instr(p).local] = v] \in [Locals -> Values]
      <3> HIDE DEF v
      <3> QED
        BY <1>3, <2>2
    <2>4. QED
      BY <1>4, <2>1, <2>3
  <1>10. ASSUME PciWriteReg(p)
        PROVE  Goes
    <2>1. /\ Instr(p).op = "pci write"
          /\ GoWith(p, pc[p] + 1, [local[p] EXCEPT !.pi_data = Written(p)])
      BY <1>10 DEF PciWriteReg, At, Instr
    <2>2. Written(p) \in Values
      BY <1>2, <2>1, WrittenType
    <2>3. [local[p] EXCEPT !.pi_data = Written(p)] \in [Locals -> Values]
      BY <1>3, <2>2, LocalNames
    <2>4. QED
      BY <1>4, <2>1, <2>3
  <1>11. ASSUME PciFails(p)
        PROVE  Goes
    <2> DEFINE next == pc[p] + 1 + Instr(p).then
    <2>1. CASE At(p, "pci write")
      <3>1. /\ Instr(p).op = "pci write"
            /\ GoWith(p, next, [local[p] EXCEPT !.pi_data = Written(p)])
        BY <1>11, <2>1 DEF PciFails, At, Instr
      <3>2. Written(p) \in Values
        BY <1>2, <3>1, WrittenType
      <3>3. [local[p] EXCEPT !.pi_data = Written(p)] \in [Locals -> Values]
        BY <1>3, <3>2, LocalNames
      <3>4. QED
        BY <1>4, <3>1, <3>3
    <2>2. CASE ~At(p, "pci write")
      <3>1. Instr(p).op = "pci read"
        BY <1>11, <2>2 DEF PciFails, At, Instr
      <3>2. Instr(p).local \in Locals
        BY <1>2, <3>1, InstrType, Fields
      <3>3. PICK v \in IF pc[p] = 1 THEN {{}, Ones} ELSE {local[p].pi_data} :
               GoWith(p, next, [local[p] EXCEPT !.pi_data = v, ![Instr(p).local] = v])
        BY <1>11, <2>2 DEF PciFails
      <3>4. local[p].pi_data \in Values
        BY <1>1, LocalNames
      <3>5. v \in Values
        BY <3>3, <3>4, Constants
      <3>6. [local[p] EXCEPT !.pi_data = v, ![Instr(p).local] = v] \in [Locals -> Values]
        BY <1>3, <3>2, <3>5
      <3>7. QED
        BY <1>4, <3>3, <3>6
    <2>3. QED
      BY <2>1, <2>2
  <1>12. Goes
    BY <1>6, <1>7, <1>8, <1>9, <1>10, <1>11 DEF Run
  <1>13. QED
    BY <1>2, <1>12 DEF Goes

(* What a step of a tool does to the card, and to the rest.                 *)
LEMMA RunWrites ==
    ASSUME TypeOK, NEW p \in Process, Run(p)
    PROVE  \/ UNCHANGED <<regs, lockout, refuses>> /\ memory' \subseteq {"manifest", "firmware"}
           \/ \E base, r, v : /\ r \in Regs /\ v \in Values /\ Write(base, r, v)
                              /\ \/ Instr(p).op = "set" /\ r = Instr(p).reg
                                 \/ /\ Instr(p).op = "put" /\ r = Instr(p).reg
                                    /\ v = Written(p)
                                 \/ Instr(p).op = "pci write" /\ r = Instr(p).reg
  <1>1. CASE LoadReg(p) \/ PciReadReg(p) \/ PciFails(p) \/ Skip(p) \/ Exit(p) \/ Says(p)
    <2>1. UNCHANGED card
      BY <1>1 DEF LoadReg, PciReadReg, PciFails, Skip, Exit, Says
    <2>2. QED
      BY <2>1 DEF card, TypeOK
  <1>2. CASE CopyToMemory(p)
    <2>1. Instr(p).op = "copy" /\ pc[p] # 0
      BY <1>2 DEF CopyToMemory, At, Instr
    <2>2. Instr(p).what \in {"manifest", "firmware"}
      BY <2>1, InstrType, Fields
    <2>3. memory \subseteq {"manifest", "firmware"}
      BY DEF TypeOK
    <2>4. QED
      BY <1>2, <2>2, <2>3 DEF CopyToMemory
  <1>3. CASE SetReg(p)
    <2>1. Instr(p).op = "set" /\ pc[p] # 0
      BY <1>3 DEF SetReg, At, Instr
    <2>2. Instr(p).reg \in Regs /\ Instr(p).value \in Values
      BY <2>1, InstrType, Fields
    <2>3. QED
      BY <1>3, <2>1, <2>2 DEF SetReg
  <1>4. CASE PutReg(p)
    <2>1. Instr(p).op = "put" /\ pc[p] # 0
      BY <1>4 DEF PutReg, At, Instr
    <2>2. Instr(p).reg \in Regs /\ Written(p) \in Values
      BY <2>1, InstrType, Fields, WrittenType
    <2>3. QED
      BY <1>4, <2>1, <2>2 DEF PutReg
  <1>5. CASE PciWriteReg(p)
    <2>1. Instr(p).op = "pci write" /\ pc[p] # 0
      BY <1>5 DEF PciWriteReg, At, Instr
    <2>2. Instr(p).reg \in Regs /\ Written(p) \in Values
      BY <2>1, InstrType, Fields, WrittenType
    <2>3. QED
      BY <1>5, <2>1, <2>2 DEF PciWriteReg
  <1>6. QED
    BY <1>1, <1>2, <1>3, <1>4, <1>5 DEF Run

LEMMA RunType ==
    ASSUME TypeOK, NEW p \in Process, Run(p)
    PROVE  TypeOK'
  <1>1. /\ pc' \in [Process -> Nat] /\ local' \in [Process -> [Locals -> Values]]
        /\ \A q \in Running' :
              tool'[q] \in Tools /\ pc'[q] \in DOMAIN Program[tool'[q]]
    BY RunGoes, GoType
  <1>2. /\ regs' \in [Regs -> Values] /\ lockout' \in BOOLEAN
        /\ refuses' \in Refusals /\ memory' \subseteq {"manifest", "firmware"}
    <2>1. /\ regs \in [Regs -> Values] /\ lockout \in BOOLEAN
          /\ refuses \in Refusals /\ memory \subseteq {"manifest", "firmware"}
      BY DEF TypeOK, Values
    <2>2. QED
      BY <2>1, RunWrites, WriteType
  <1>3. tool' \in [Process -> Tools \cup {"none"}]
    BY RunGoes DEF TypeOK
  <1>4. verdict' \in [Process -> {"none", "success", "failure"}]
    BY DEF TypeOK, Run, LoadReg, SetReg, PutReg, CopyToMemory, PciReadReg,
           PciWriteReg, PciFails, Skip, Exit, Says
  <1>5. /\ UNCHANGED <<others, before, kept, runs>>
        /\ \/ UNCHANGED <<trouble, troubles>>
           \/ /\ trouble' = [trouble EXCEPT ![p] = @ \cup {"ioctl"}]
              /\ \/ troubles' = troubles
                 \/ troubles < MaxTrouble /\ troubles' = troubles + 1
    BY DEF Run, LoadReg, SetReg, PutReg, CopyToMemory, PciReadReg,
           PciWriteReg, PciFails, Skip, Exit, Says, hist
  <1>6. trouble' \in [Process -> SUBSET Troubles]
    BY <1>5 DEF TypeOK, Troubles
  <1>7. troubles' \in 0 .. MaxTrouble
    BY <1>5, ToolsAssumption DEF TypeOK
  <1>8. QED
    BY <1>1, <1>2, <1>3, <1>4, <1>5, <1>6, <1>7 DEF TypeOK, Values

LEMMA StartType ==
    ASSUME TypeOK, NEW p \in Process, NEW t \in Tools, Start(p, t)
    PROVE  TypeOK'
  <1>1. 1 \in DOMAIN Program[t]
    <2>1. Program[t] \in Typed
      BY ProgramTyped, ToolsAssumption
    <2>2. /\ DOMAIN Program[t] = 1 .. Len(Program[t])
          /\ Len(Program[t]) \in Nat /\ Len(Program[t]) > 0
      BY <2>1, LenProperties DEF Typed
    <2>3. QED
      BY <2>2
  <1>2. /\ tool' = [tool EXCEPT ![p] = t] /\ pc' = [pc EXCEPT ![p] = 1]
        /\ local' = [local EXCEPT ![p] = NoLocals]
        /\ verdict' = [verdict EXCEPT ![p] = "none"]
        /\ before' = [before EXCEPT ![p] = regs["MAILBOX0"]]
        /\ runs < MaxRuns /\ runs' = runs + 1
        /\ UNCHANGED <<card, troubles>>
        /\ kept' \in {{}, kept}
    BY DEF Start
  <1>3. /\ regs' \in [Regs -> SUBSET Bits] /\ lockout' \in BOOLEAN
        /\ refuses' \in Refusals /\ memory' \subseteq {"manifest", "firmware"}
        /\ troubles' \in 0 .. MaxTrouble /\ kept' \subseteq Bits
    BY <1>2 DEF TypeOK, card
  <1>4. /\ tool' \in [Process -> Tools \cup {"none"}] /\ pc' \in [Process -> Nat]
        /\ verdict' \in [Process -> {"none", "success", "failure"}]
    BY <1>2 DEF TypeOK
  <1>5. runs' \in 0 .. MaxRuns
    BY <1>2, ToolsAssumption DEF TypeOK
  <1>6. local' \in [Process -> [Locals -> SUBSET Bits]]
    BY <1>2 DEF TypeOK, NoLocals
  <1>7. before' \in [Process -> SUBSET Bits]
    <2>1. regs["MAILBOX0"] \in SUBSET Bits
      BY Names DEF TypeOK
    <2>2. QED
      BY <1>2, <2>1 DEF TypeOK
  <1>8. \A q \in Running' : tool'[q] \in Tools /\ pc'[q] \in DOMAIN Program[tool'[q]]
    <2>1. SUFFICES ASSUME NEW q \in Process, pc'[q] # 0
                   PROVE  tool'[q] \in Tools /\ pc'[q] \in DOMAIN Program[tool'[q]]
      BY DEF Running
    <2>2. CASE q = p
      <3>1. tool'[q] = t /\ pc'[q] = 1
        BY <1>2, <2>2 DEF TypeOK
      <3>2. QED
        BY <1>1, <3>1
    <2>3. CASE q # p
      <3>1. tool'[q] = tool[q] /\ pc'[q] = pc[q]
        BY <1>2, <2>3 DEF TypeOK
      <3>2. q \in Running
        BY <2>1, <3>1 DEF Running
      <3>3. QED
        BY <3>1, <3>2 DEF TypeOK
    <2>4. QED
      BY <2>2, <2>3
  <1>9. others' \in [Process -> SUBSET Tools]
    <2>1. \A s \in Running : tool[s] \in Tools
      BY DEF TypeOK
    <2>2. {tool[s] : s \in Running} \in SUBSET Tools
      BY <2>1
    <2>3. others' = [q \in Process |->
                       IF q = p THEN {tool[s] : s \in Running}
                       ELSE IF q \in Running THEN others[q] \cup {t} ELSE others[q]]
      BY DEF Start
    <2>4. others \in [Process -> SUBSET Tools]
      BY DEF TypeOK
    <2>5. QED
      BY <2>2, <2>3, <2>4
  <1>10. trouble' \in [Process -> SUBSET Troubles]
    <2>1. trouble' = [trouble EXCEPT ![p] = (IF Silent(t) THEN {"silent"} ELSE {})
                                               \cup IF refuses # {} THEN {"refuses"} ELSE {}]
      BY DEF Start
    <2>2. (IF Silent(t) THEN {"silent"} ELSE {})
             \cup (IF refuses # {} THEN {"refuses"} ELSE {}) \in SUBSET Troubles
      BY DEF Troubles
    <2>3. QED
      BY <2>1, <2>2 DEF TypeOK
  <1>11. QED
    BY <1>3, <1>4, <1>5, <1>6, <1>7, <1>8, <1>9, <1>10 DEF TypeOK

LEMMA CardType ==
    ASSUME TypeOK, HaltTaken \/ ClearedByCard
    PROVE  TypeOK'
  <1>1. /\ regs' \in [Regs -> SUBSET Bits]
        /\ UNCHANGED <<lockout, refuses, memory, tool, pc, local, verdict, others,
                       before, kept, runs>>
    <2>1. {1, 2} \in SUBSET Bits /\ "STATUS" \in Regs /\ "ENABLE" \in Regs /\ "RESET" \in Regs
      BY Names DEF Bits
    <2>2. CASE HaltTaken
      BY <2>1, <2>2 DEF HaltTaken, TypeOK, hist
    <2>3. CASE ClearedByCard
      <3>1. PICK r \in {"ENABLE", "RESET"} :
               regs' = [regs EXCEPT ![r] = @ \ {17, 18, 19}]
        BY <2>3 DEF ClearedByCard
      <3>2. regs' \in [Regs -> SUBSET Bits]
        BY <2>1, <3>1 DEF TypeOK
      <3>3. QED
        BY <2>3, <3>2 DEF ClearedByCard
    <2>4. QED
      BY <2>2, <2>3
  <1>2. trouble' \in [Process -> SUBSET Troubles] /\ troubles' \in 0 .. MaxTrouble
    <2>1. CASE HaltTaken
      BY <2>1 DEF HaltTaken, hist, TypeOK
    <2>2. CASE ClearedByCard
      <3>1. troubles' \in 0 .. MaxTrouble
        BY <2>2, ToolsAssumption DEF ClearedByCard, TypeOK
      <3>2. trouble' = [p \in Process |->
                          trouble[p] \cup IF p \in Running THEN {"cleared"} ELSE {}]
        BY <2>2 DEF ClearedByCard
      <3>3. QED
        BY <3>1, <3>2 DEF TypeOK, Troubles
    <2>3. QED
      BY <2>1, <2>2
  <1>3. Running' = Running
    BY <1>1 DEF Running
  <1>4. \A q \in Running' : tool'[q] \in Tools /\ pc'[q] \in DOMAIN Program[tool'[q]]
    BY <1>1, <1>3 DEF TypeOK
  <1>5. QED
    BY <1>1, <1>2, <1>4 DEF TypeOK

LEMMA NextType == TypeOK /\ [Next]_vars => TypeOK'
  <1> SUFFICES ASSUME TypeOK, [Next]_vars PROVE TypeOK'
    OBVIOUS
  <1>1. CASE HaltTaken \/ ClearedByCard
    BY <1>1, CardType
  <1>2. CASE \E p \in Process : Run(p) \/ \E t \in Tools : Start(p, t)
    BY <1>2, RunType, StartType
  <1>3. CASE UNCHANGED vars
    <2>1. Running' = Running
      BY <1>3 DEF vars, Running
    <2>2. QED
      BY <1>3, <2>1 DEF vars, card, hist, TypeOK
  <1>4. QED
    BY <1>1, <1>2, <1>3 DEF Next

(* Type correctness: the registers hold 32-bit words and every tool that is *)
(* running is at an instruction of its program, however the ioctls of a run *)
(* fail and wherever its jumps lead.                                        *)
THEOREM TypeCorrect == Spec => []TypeOK
  <1>1. Init => TypeOK
    BY InitType
  <1>2. TypeOK /\ [Next]_vars => TypeOK'
    BY NextType
  <1>3. QED
    BY <1>1, <1>2, PTL DEF Spec

-----------------------------------------------------------------------------
(* The engines stay on.  A tool that is about to store to ENABLE holds what *)
(* it has just loaded, and that has every engine that is to be kept: the    *)
(* register had them when it was read, and it never loses one.  All ones    *)
(* (the card did not answer) has them, too.                                 *)
Reloaded ==
    \A p \in Running :
        Enabling(Instr(p)) => kept \ ToolBits \subseteq local[p][Instr(p).local]

ForceSpends == \A p \in Running : tool[p] = Forced => kept = {}

KeptInv == Reloaded /\ ForceSpends /\ EnginesKept

LEMMA InitKept == Init => KeptInv
  <1> SUFFICES ASSUME Init PROVE KeptInv
    OBVIOUS
  <1>1. Running = {}
    BY DEF Init, Running
  <1>2. regs["ENABLE"] = kept
    BY Names DEF Init
  <1>3. QED
    BY <1>1, <1>2 DEF KeptInv, Reloaded, ForceSpends, EnginesKept

(* What a running tool that does not assign ENABLE can be at.               *)
LEMMA AtCareful ==
    ASSUME TypeOK, NEW p \in Process, pc[p] # 0, tool[p] # Forced
    PROVE  /\ ~Assigning(Instr(p))
           /\ Enabling(Instr(p)) => Instr(p).off \subseteq ToolBits
  <1> DEFINE s == Program[tool[p]]
  <1>1. /\ pc[p] \in 1 .. Len(s) /\ Instr(p) = s[pc[p]]
        /\ s \in Careful \/ s \in Aloof
    BY InstrType, ProgramTyped DEF Instr
  <1> HIDE DEF s
  <1>2. CASE s \in Careful
    BY <1>1, <1>2 DEF Careful, Reloads, Pair
  <1>3. CASE s \in Aloof
    BY <1>1, <1>3 DEF Aloof
  <1>4. QED
    BY <1>1, <1>2, <1>3

(* A step of a tool brings it to an update of ENABLE from the load before   *)
(* it, or not at all.                                                       *)
LEMMA Arrives ==
    ASSUME TypeOK, NEW p \in Process, tool[p] # Forced, Run(p), pc'[p] # 0,
           Enabling(Instr(p)')
    PROVE  /\ LoadReg(p) /\ Instr(p).reg = "ENABLE"
           /\ Instr(p).local = Instr(p).local'
  <1> DEFINE s == Program[tool[p]]
             m == pc'[p]
  <1>1. /\ pc[p] # 0 /\ tool' = tool /\ pc[p] \in 1 .. Len(s)
        /\ Instr(p) = s[pc[p]] /\ Instr(p)' = s[m]
    BY RunGoes, InstrType DEF Instr
  <1>2. m \in 1 .. Len(s) /\ (s \in Careful \/ s \in Aloof)
    <2>1. p \in Running'
      BY DEF Running
    <2>2. m \in DOMAIN s
      BY <1>1, <2>1, RunType DEF TypeOK
    <2>3. QED
      BY <1>1, <2>2, InstrType, ProgramTyped
  <1> HIDE DEF s, m
  <1>3. s \in Careful /\ Reloads(s, m)
    BY <1>1, <1>2 DEF Careful, Aloof
  <1>4. /\ Instr(p).op \notin {"pci read", "pci write"}
        /\ ~(/\ Instr(p).op \in {"only if", "may skip"}
             /\ m = pc[p] + 1 + Instr(p).length)
    <2>1. /\ s[pc[p]].op \notin {"pci read", "pci write"}
          /\ s[pc[p]].op \in {"only if", "may skip"} =>
                /\ pc[p] + s[pc[p]].length <= Len(s)
                /\ pc[p] + s[pc[p]].length < Len(s) => ~Enabling(s[pc[p] + 1 + s[pc[p]].length])
      BY <1>1, <1>3 DEF Careful
    <2>2. ASSUME Instr(p).op \in {"only if", "may skip"},
                 m = pc[p] + 1 + Instr(p).length
          PROVE  FALSE
      <3>1. PICK l \in Nat : l = Instr(p).length
        BY <1>1, <2>2, InstrType DEF Instructions
      <3>2. m = pc[p] + 1 + l /\ m \in 1 .. Len(s) /\ pc[p] \in Nat /\ Len(s) \in Nat
        <4>1. m = pc[p] + 1 + l
          BY <2>2, <3>1
        <4>2. Len(s) \in Nat
          BY <1>1, InstrType DEF s
        <4>3. QED
          BY <1>1, <1>2, <4>1, <4>2
      <3>3. pc[p] + l < Len(s)
        BY <3>2
      <3>4. ~Enabling(s[m])
        BY <1>1, <2>1, <2>2, <3>1, <3>2, <3>3
      <3>5. QED
        BY <1>1, <3>4
    <2>3. QED
      BY <1>1, <2>1, <2>2
  <1>5. ASSUME NEW n, NEW l, GoWith(p, n, l)
        PROVE  m = n
    <2>1. pc \in [Process -> Nat]
      BY DEF TypeOK
    <2>2. QED
      BY <1>5, <2>1 DEF GoWith, m
  <1>6. ASSUME NEW n, Goto(p, n)
        PROVE  m = n
    BY <1>5, <1>6 DEF Goto
  <1>7. m # 0
    BY DEF m
  <1>8. m = pc[p] + 1
    <2>1. CASE LoadReg(p)
      BY <1>5, <2>1 DEF LoadReg
    <2>2. CASE SetReg(p) \/ PutReg(p) \/ CopyToMemory(p) \/ Says(p)
      BY <1>6, <2>2 DEF SetReg, PutReg, CopyToMemory, Says
    <2>3. CASE Skip(p)
      <3>1. Instr(p).op = "only if"
        BY <2>3 DEF Skip, At, Instr
      <3>2. m \in {pc[p] + 1, pc[p] + 1 + Instr(p).length}
        BY <1>6, <2>3 DEF Skip
      <3>3. QED
        BY <1>4, <3>1, <3>2
    <2>4. CASE Exit(p)
      <3>1. CASE At(p, "exit if") /\ Goto(p, IF True(p) THEN 0 ELSE pc[p] + 1)
        BY <1>6, <1>7, <3>1
      <3>2. CASE At(p, "may stop") /\ \E n \in {0, pc[p] + 1} : Goto(p, n)
        BY <1>6, <1>7, <3>2
      <3>3. CASE /\ At(p, "may skip")
                 /\ \E n \in {0, Instr(p).length} : Goto(p, pc[p] + 1 + n)
        <4>1. Instr(p).op = "may skip"
          BY <3>3 DEF At, Instr
        <4>2. PICK n \in {0, Instr(p).length} : Goto(p, pc[p] + 1 + n)
          BY <3>3
        <4>3. m = pc[p] + 1 + n
          BY <1>6, <4>2
        <4>4. n = 0
          BY <1>4, <4>1, <4>2, <4>3
        <4>5. QED
          BY <1>1, <4>3, <4>4, InstrType
      <3>4. QED
        BY <2>4, <3>1, <3>2, <3>3 DEF Exit
    <2>5. ~PciReadReg(p) /\ ~PciWriteReg(p) /\ ~PciFails(p)
      BY <1>4 DEF PciReadReg, PciWriteReg, PciFails, At, Instr
    <2>6. QED
      BY <2>1, <2>2, <2>3, <2>4, <2>5 DEF Run
  <1>9. Pair(s[pc[p]], s[m])
    <2>1. m - 1 = pc[p]
      BY <1>1, <1>8, InstrType
    <2>2. QED
      BY <1>3, <2>1 DEF Reloads
  <1>10. Instr(p).op = "load" /\ Instr(p).reg = "ENABLE" /\ Instr(p).local = Instr(p)'.local
    BY <1>1, <1>9 DEF Pair
  <1>11. LoadReg(p)
    BY <1>10 DEF Run, SetReg, PutReg, CopyToMemory, PciReadReg, PciWriteReg,
                 PciFails, Skip, Exit, Says, At, Instr
  <1>12. QED
    BY <1>10, <1>11

(* ENABLE loses no engine that is to be kept.                               *)
LEMMA RunKeeps ==
    ASSUME TypeOK, KeptInv, NEW p \in Process, Run(p)
    PROVE  kept' = kept /\ EnginesKept'
  <1>1. kept' = kept /\ pc[p] # 0
    BY RunGoes DEF Run, LoadReg, SetReg, PutReg, CopyToMemory, PciReadReg, PciWriteReg,
                   PciFails, Skip, Exit, Says, hist
  <1>2. CASE tool[p] = Forced
    <2>1. p \in Running
      BY <1>1 DEF Running
    <2>2. kept = {}
      BY <1>2, <2>1 DEF KeptInv, ForceSpends
    <2>3. QED
      BY <1>1, <2>2 DEF EnginesKept
  <1>3. CASE tool[p] # Forced
    <2>1. /\ ~Assigning(Instr(p))
          /\ Enabling(Instr(p)) => Instr(p).off \subseteq ToolBits
      BY <1>1, <1>3, AtCareful
    <2>2. CASE UNCHANGED regs
      BY <1>1, <2>2 DEF KeptInv, EnginesKept
    <2>3. ASSUME NEW base, NEW r \in Regs, NEW v \in Values, Write(base, r, v),
                 \/ Instr(p).op = "set" /\ r = Instr(p).reg
                 \/ /\ Instr(p).op = "put" /\ r = Instr(p).reg
                    /\ v = Written(p)
                 \/ Instr(p).op = "pci write" /\ r = Instr(p).reg
          PROVE  EnginesKept'
      <3>1. /\ r # "ENABLE" => regs'["ENABLE"] = regs["ENABLE"]
            /\ regs'["ENABLE"] \in {v, regs["ENABLE"]}
        BY <2>3, WriteType
      <3>2. CASE regs'["ENABLE"] = regs["ENABLE"]
        BY <1>1, <3>2 DEF KeptInv, EnginesKept
      <3>3. CASE r = "ENABLE" /\ regs'["ENABLE"] = v
        <4>1. Enabling(Instr(p)) /\ v = Written(p)
          BY <2>1, <2>3, <3>3 DEF Enabling, Assigning
        <4>2. p \in Running
          BY <1>1 DEF Running
        <4>3. kept \ ToolBits \subseteq local[p][Instr(p).local]
          BY <4>1, <4>2 DEF KeptInv, Reloaded
        <4>4. kept \ ToolBits \subseteq v
          BY <2>1, <4>1, <4>3 DEF Written
        <4>5. QED
          BY <1>1, <3>3, <4>4 DEF EnginesKept
      <3>4. QED
        BY <3>1, <3>2, <3>3
    <2>4. QED
      BY <1>1, <2>2, <2>3, RunWrites
  <1>4. QED
    BY <1>2, <1>3

LEMMA RunReloads ==
    ASSUME TypeOK, KeptInv, NEW p \in Process, Run(p)
    PROVE  Reloaded' /\ ForceSpends'
  <1>1. kept' = kept /\ tool' = tool /\ TypeOK' /\ pc[p] # 0
    BY RunGoes, RunKeeps, RunType
  <1>2. PICK n, l : l \in [Locals -> Values] /\ GoWith(p, n, l)
    BY RunGoes
  <1>3. /\ \A q \in Process : q # p => pc'[q] = pc[q] /\ local'[q] = local[q]
        /\ pc'[p] # 0 => local'[p] = l
    BY <1>1, <1>2, GoType
  <1>4. \A q \in Running' : q \in Running
    BY <1>1, <1>3 DEF Running
  <1>5. ForceSpends'
    BY <1>1, <1>4 DEF KeptInv, ForceSpends
  <1>6. ASSUME NEW q \in Running', Enabling(Instr(q)')
        PROVE  kept' \ ToolBits \subseteq local'[q][Instr(q)'.local]
    <2>1. q \in Process /\ q \in Running /\ pc'[q] # 0
      BY <1>4 DEF Running
    <2>2. CASE q # p
      <3>1. Instr(q)' = Instr(q) /\ local'[q] = local[q]
        BY <1>1, <1>3, <2>1, <2>2 DEF Instr
      <3>2. QED
        BY <1>1, <1>6, <2>1, <3>1 DEF KeptInv, Reloaded
    <2>3. CASE q = p /\ tool[p] = Forced
      <3>1. kept = {}
        BY <2>1, <2>3 DEF KeptInv, ForceSpends
      <3>2. QED
        BY <1>1, <3>1
    <2>4. CASE q = p /\ tool[p] # Forced
      <3>1. /\ LoadReg(p) /\ Instr(p).reg = "ENABLE"
            /\ Instr(p).local = Instr(p)'.local
        BY <1>6, <2>1, <2>4, Arrives
      <3>2. Instr(p).op = "load" /\ Instr(p).local \in Locals
        <4>1. Instr(p).op = "load"
          BY <3>1 DEF LoadReg, At, Instr
        <4>2. QED
          BY <1>1, <4>1, InstrType, Fields
      <3> DEFINE v == ReadOf(MappedAt(tool[p]), "ENABLE")
      <3>3. local'[p] = [local[p] EXCEPT ![Instr(p).local] = v]
        <4>1. GoWith(p, pc[p] + 1, [local[p] EXCEPT ![Instr(p).local] = v])
          BY <3>1 DEF LoadReg
        <4>2. [local[p] EXCEPT ![Instr(p).local] = v] \in [Locals -> Values]
          <5>1. v \in Values
            BY ReadType, Names
          <5>2. local \in [Process -> [Locals -> Values]]
            BY DEF TypeOK, Values
          <5>3. QED
            BY <5>1, <5>2
        <4>3. QED
          BY <1>1, <2>1, <2>4, <4>1, <4>2, GoType
      <3>4. kept \ ToolBits \subseteq v
        <4>1. v = Ones \/ v = regs["ENABLE"]
          BY DEF ReadOf, Falcon
        <4>2. kept \subseteq Bits /\ Ones = Bits
          BY DEF TypeOK, Ones, Bits
        <4>3. QED
          BY <4>1, <4>2 DEF KeptInv, EnginesKept
      <3>5. local'[p][Instr(p).local] = v
        <4>1. local[p] \in [Locals -> Values]
          <5>1. local \in [Process -> [Locals -> Values]]
            BY DEF TypeOK, Values
          <5>2. QED
            BY <5>1
        <4>2. QED
          BY <3>2, <3>3, <4>1
      <3>6. QED
        BY <1>1, <2>4, <3>1, <3>4, <3>5
    <2>5. QED
      BY <2>2, <2>3, <2>4
  <1>7. Reloaded'
    BY <1>6 DEF Reloaded
  <1>8. QED
    BY <1>5, <1>7

LEMMA StartKeeps ==
    ASSUME TypeOK, KeptInv, NEW p \in Process, NEW t \in Tools, Start(p, t)
    PROVE  KeptInv'
  <1>1. /\ tool' = [tool EXCEPT ![p] = t] /\ pc' = [pc EXCEPT ![p] = 1]
        /\ local' = [local EXCEPT ![p] = NoLocals]
        /\ kept' = IF t = Forced THEN {} ELSE kept
        /\ regs' = regs
    BY DEF Start, card, Forced
  <1>2. CASE t = Forced
    BY <1>1, <1>2 DEF KeptInv, Reloaded, ForceSpends, EnginesKept
  <1>3. CASE t # Forced
    <2>1. kept' = kept
      BY <1>1, <1>3
    <2>2. ASSUME NEW q \in Process, q # p
          PROVE  tool'[q] = tool[q] /\ pc'[q] = pc[q] /\ local'[q] = local[q]
      BY <1>1, <2>2 DEF TypeOK
    <2>3. tool'[p] = t /\ pc'[p] = 1
      BY <1>1 DEF TypeOK
    <2>4. ~Enabling(Program[t][1])
      <3>1. /\ Program[t] \in Typed
            /\ Program[t] \in Careful \/ Program[t] \in Aloof
        BY <1>3, ProgramTyped, ToolsAssumption
      <3>2. 1 \in 1 .. Len(Program[t])
        BY <3>1, LenProperties DEF Typed
      <3>3. CASE Program[t] \in Careful
        <4>1. Enabling(Program[t][1]) => Reloads(Program[t], 1)
          BY <3>2, <3>3 DEF Careful
        <4>2. QED
          BY <4>1 DEF Reloads
      <3>4. CASE Program[t] \in Aloof
        BY <3>2, <3>4 DEF Aloof
      <3>5. QED
        BY <3>1, <3>3, <3>4
    <2>5. ASSUME NEW q \in Running', q # p
          PROVE  /\ q \in Running /\ Instr(q)' = Instr(q)
                 /\ tool'[q] = tool[q] /\ local'[q] = local[q]
      BY <2>2, <2>5 DEF Running, Instr
    <2>6. Reloaded'
      <3>1. ASSUME NEW q \in Running', Enabling(Instr(q)')
            PROVE  kept' \ ToolBits \subseteq local'[q][Instr(q)'.local]
        <4>1. CASE q = p
          BY <2>3, <2>4, <3>1, <4>1 DEF Instr
        <4>2. CASE q # p
          BY <2>1, <2>5, <3>1, <4>2 DEF KeptInv, Reloaded
        <4>3. QED
          BY <4>1, <4>2
      <3>2. QED
        BY <3>1 DEF Reloaded
    <2>7. ForceSpends'
      <3>1. ASSUME NEW q \in Running', tool'[q] = Forced
            PROVE  kept' = {}
        <4>1. q # p
          BY <1>3, <2>3, <3>1
        <4>2. QED
          BY <2>1, <2>5, <3>1, <4>1 DEF KeptInv, ForceSpends
      <3>2. QED
        BY <3>1 DEF ForceSpends
    <2>8. EnginesKept'
      BY <1>1, <2>1 DEF KeptInv, EnginesKept
    <2>9. QED
      BY <2>6, <2>7, <2>8 DEF KeptInv
  <1>4. QED
    BY <1>2, <1>3

(* The card clears none but the tools' own bits.                            *)
LEMMA CardKeeps ==
    ASSUME TypeOK, KeptInv, HaltTaken \/ ClearedByCard
    PROVE  KeptInv'
  <1>1. UNCHANGED <<tool, pc, local, kept>>
    BY DEF HaltTaken, ClearedByCard, hist
  <1>2. regs["ENABLE"] \ {17, 18, 19} \subseteq regs'["ENABLE"]
    <2>1. CASE HaltTaken
      BY <2>1 DEF HaltTaken, TypeOK
    <2>2. CASE ClearedByCard
      <3>1. PICK r \in {"ENABLE", "RESET"} :
               regs' = [regs EXCEPT ![r] = @ \ {17, 18, 19}]
        BY <2>2 DEF ClearedByCard
      <3>2. QED
        BY <3>1, Names DEF TypeOK
    <2>3. QED
      BY <2>1, <2>2
  <1>3. EnginesKept'
    BY <1>1, <1>2 DEF KeptInv, EnginesKept, ToolBits
  <1>4. Running' = Running /\ \A q \in Process : Instr(q)' = Instr(q)
    BY <1>1 DEF Running, Instr
  <1>5. Reloaded' /\ ForceSpends'
    BY <1>1, <1>4 DEF KeptInv, Reloaded, ForceSpends, Running
  <1>6. QED
    BY <1>3, <1>5 DEF KeptInv

LEMMA NextKept == TypeOK /\ KeptInv /\ [Next]_vars => KeptInv'
  <1> SUFFICES ASSUME TypeOK, KeptInv, [Next]_vars PROVE KeptInv'
    OBVIOUS
  <1>1. CASE HaltTaken \/ ClearedByCard
    BY <1>1, CardKeeps
  <1>2. ASSUME NEW p \in Process, Run(p)
        PROVE  KeptInv'
    BY <1>2, RunKeeps, RunReloads DEF KeptInv
  <1>3. ASSUME NEW p \in Process, NEW t \in Tools, Start(p, t)
        PROVE  KeptInv'
    BY <1>3, StartKeeps
  <1>4. CASE UNCHANGED vars
    <2>1. Running' = Running /\ \A q \in Process : Instr(q)' = Instr(q)
      BY <1>4 DEF vars, Running, Instr
    <2>2. UNCHANGED <<kept, tool, local, regs>>
      BY <1>4 DEF vars, card, hist
    <2>3. QED
      BY <2>1, <2>2 DEF KeptInv, Reloaded, ForceSpends, EnginesKept, Running
  <1>5. QED
    BY <1>1, <1>2, <1>3, <1>4 DEF Next

(* No tool turns off an engine that is not its own, with any number of      *)
(* terminals and of runs: whatever they interleave, every store to ENABLE   *)
(* carries what was loaded before it, unless nv_gsp_force has assigned it.  *)
THEOREM EnginesStay == Spec => []EnginesKept
  <1>1. Init => KeptInv
    BY InitKept
  <1>2. TypeOK /\ KeptInv /\ [Next]_vars => KeptInv'
    BY NextKept
  <1>3. KeptInv => EnginesKept
    BY DEF KeptInv
  <1>4. QED
    BY <1>1, <1>2, <1>3, TypeCorrect, PTL DEF Spec

-----------------------------------------------------------------------------
(* The bus.  That it is released rests on where nv_pci_wake writes and how  *)
(* it can end, so its program is spelled out.                               *)
(* A program with one more instruction.                                     *)
LEMMA Longer ==
    ASSUME NEW s \in Typed, NEW t \in Typed, Len(t) = 1
    PROVE  /\ s \o t \in Typed /\ Len(s \o t) = Len(s) + 1
           /\ \A n \in 1 .. Len(s) : (s \o t)[n] = s[n]
           /\ (s \o t)[Len(s) + 1] = t[1]
  <1> DEFINE u == s \o t
  <1>1. /\ u \in Typed /\ Len(u) = Len(s) + Len(t)
        /\ \A n \in 1 .. Len(s) : u[n] = s[n]
        /\ \A n \in 1 .. Len(t) : u[Len(s) + n] = t[n]
    BY Concat
  <1> HIDE DEF u
  <1>2. 1 \in 1 .. Len(t)
    OBVIOUS
  <1>3. u[Len(s) + 1] = t[1]
    BY <1>1, <1>2
  <1>4. QED
    BY <1>1, <1>3 DEF u

(* nv_pci_wake: what it goes through.                                       *)
LEMMA WakeProgram ==
    /\ Len(nv_pci_wake) = 6
    /\ \A n \in {1, 4} : nv_pci_wake[n].op = "pci read"
    /\ nv_pci_wake[2].op = "only if" /\ nv_pci_wake[2].length = 1
    /\ \A n \in {3, 5, 6} : nv_pci_wake[n].op = "pci write"
    /\ nv_pci_wake[6].reg = "ROOT_CONTROL" /\ nv_pci_wake[6].on = {}
    /\ nv_pci_wake[6].off = {22}
  <1> DEFINE a == [op |-> "pci read", local |-> "pm_val", reg |-> "ROOT_PM_CAP", then |-> Quit]
             b == [op |-> "only if", cond |-> Meets("pm_val", {0, 1}), length |-> 1]
             c == [op |-> "pci write", reg |-> "ROOT_PM_CAP", local |-> "pm_val",
                   on |-> {}, off |-> {0, 1}, then |-> 0]
             d == [op |-> "pci read", local |-> "original_ctrl", reg |-> "ROOT_CONTROL",
                   then |-> Quit]
             e == [op |-> "pci write", reg |-> "ROOT_CONTROL", local |-> "original_ctrl",
                   on |-> {22}, off |-> {}, then |-> 1]
             f == [op |-> "pci write", reg |-> "ROOT_CONTROL", local |-> "original_ctrl",
                   on |-> {}, off |-> {22}, then |-> 0]
  <1>1. /\ {} \in Values /\ {22} \in Values /\ {0, 1} \in Values
        /\ {} \in SUBSET Int /\ {22} \in SUBSET Int /\ {0, 1} \in SUBSET Int
        /\ Quit \in Nat
    BY BitSets, Constants DEF Quit
  <1>2. a \in Instructions /\ d \in Instructions
    BY <1>1, Names, LocalNames DEF Instructions
  <1>3. b \in Instructions
    <2>1. Meets("pm_val", {0, 1}) \in Conditions
      BY <1>1, Tests, LocalNames
    <2>2. QED
      BY <2>1 DEF Instructions
  <1>4. c \in Instructions
    BY <1>1, Names, LocalNames DEF Instructions
  <1>5. e \in Instructions
    BY <1>1, Names, LocalNames DEF Instructions
  <1>6. f \in Instructions
    BY <1>1, Names, LocalNames DEF Instructions
  <1>7. /\ a.op = "pci read" /\ d.op = "pci read"
        /\ b.op = "only if" /\ b.length = 1
        /\ c.op = "pci write" /\ e.op = "pci write" /\ f.op = "pci write"
        /\ f.reg = "ROOT_CONTROL" /\ f.on = {} /\ f.off = {22}
    OBVIOUS
  <1>8. nv_pci_wake = (((<<a>> \o (<<b>> \o <<c>>)) \o <<d>>) \o <<e>>) \o <<f>>
    <2>1. Len(<<c>>) = 1
      OBVIOUS
    <2>2. PciWrite("ROOT_PM_CAP", "pm_val", {}, {0, 1}, 0) = <<c>>
      BY DEF PciWrite
    <2>3. QED
      BY <2>1, <2>2 DEF nv_pci_wake, PciRead, PciWrite, OnlyIf
  <1> HIDE DEF a, b, c, d, e, f
  <1> DEFINE A == <<a>>
             B == <<b>>
             C == <<c>>
             D == <<d>>
             E == <<e>>
             F == <<f>>
             v == A \o (B \o C)
             w == v \o D
             x == w \o E
             y == x \o F
  <1>9. /\ A \in Typed /\ Len(A) = 1 /\ A[1] = a
        /\ B \in Typed /\ Len(B) = 1 /\ B[1] = b
        /\ C \in Typed /\ Len(C) = 1 /\ C[1] = c
        /\ D \in Typed /\ Len(D) = 1 /\ D[1] = d
        /\ E \in Typed /\ Len(E) = 1 /\ E[1] = e
        /\ F \in Typed /\ Len(F) = 1 /\ F[1] = f
    BY <1>2, <1>3, <1>4, <1>5, <1>6, Single
  <1> HIDE DEF A, B, C, D, E, F
  <1>10. v \in Typed /\ Len(v) = 3 /\ v[1] = a /\ v[2] = b /\ v[3] = c
    <2> DEFINE l == B \o C
    <2>1. l \in Typed /\ Len(l) = 2 /\ l[1] = b /\ l[2] = c
      <3>1. /\ l \in Typed /\ Len(l) = Len(B) + 1 /\ l[Len(B) + 1] = C[1]
            /\ \A n \in 1 .. Len(B) : l[n] = B[n]
        BY <1>9, Longer
      <3> HIDE DEF l
      <3>2. Len(B) + 1 = 2 /\ \A n \in 1 .. 1 : l[n] = B[n]
        BY <1>9, <3>1
      <3>3. QED
        BY <1>9, <3>1, <3>2
    <2> HIDE DEF l
    <2> DEFINE u == A \o l
    <2>2. /\ u \in Typed /\ Len(u) = Len(A) + Len(l)
          /\ \A n \in 1 .. Len(A) : u[n] = A[n]
          /\ \A n \in 1 .. Len(l) : u[Len(A) + n] = l[n]
      BY <1>9, <2>1, Concat
    <2> HIDE DEF u
    <2>3. /\ Len(A) + Len(l) = 3 /\ Len(A) + 1 = 2 /\ Len(A) + 2 = 3
          /\ 1 \in 1 .. Len(A) /\ 1 \in 1 .. Len(l) /\ 2 \in 1 .. Len(l)
      BY <1>9, <2>1
    <2>4. u[1] = A[1] /\ u[2] = l[1] /\ u[3] = l[2]
      BY <2>2, <2>3
    <2>5. QED
      BY <1>9, <2>1, <2>2, <2>3, <2>4 DEF l, u
  <1> HIDE DEF v
  <1>11. /\ w \in Typed /\ Len(w) = 4 /\ w[1] = a /\ w[2] = b /\ w[3] = c /\ w[4] = d
    <2>1. /\ w \in Typed /\ Len(w) = Len(v) + 1
          /\ \A n \in 1 .. Len(v) : w[n] = v[n]
          /\ w[Len(v) + 1] = D[1]
      BY <1>9, <1>10, Longer
    <2> HIDE DEF w
    <2>2. Len(v) + 1 = 4 /\ \A n \in 1 .. 3 : w[n] = v[n]
      BY <1>9, <1>10, <2>1
    <2>3. QED
      BY <1>9, <1>10, <2>1, <2>2
  <1> HIDE DEF w
  <1>12. /\ x \in Typed /\ Len(x) = 5 /\ x[1] = a /\ x[2] = b /\ x[3] = c /\ x[4] = d
         /\ x[5] = e
    <2>1. /\ x \in Typed /\ Len(x) = Len(w) + 1
          /\ \A n \in 1 .. Len(w) : x[n] = w[n]
          /\ x[Len(w) + 1] = E[1]
      BY <1>9, <1>11, Longer
    <2> HIDE DEF x
    <2>2. Len(w) + 1 = 5 /\ \A n \in 1 .. 4 : x[n] = w[n]
      BY <1>9, <1>11, <2>1
    <2>3. QED
      BY <1>9, <1>11, <2>1, <2>2
  <1> HIDE DEF x
  <1>13. /\ Len(y) = 6 /\ y[1] = a /\ y[2] = b /\ y[3] = c /\ y[4] = d
         /\ y[5] = e /\ y[6] = f
    <2>1. /\ y \in Typed /\ Len(y) = Len(x) + 1
          /\ \A n \in 1 .. Len(x) : y[n] = x[n]
          /\ y[Len(x) + 1] = F[1]
      BY <1>9, <1>12, Longer
    <2> HIDE DEF y
    <2>2. Len(x) + 1 = 6 /\ \A n \in 1 .. 5 : y[n] = x[n]
      BY <1>9, <1>12, <2>1
    <2>3. QED
      BY <1>9, <1>12, <2>1, <2>2
  <1>14. y = nv_pci_wake
    BY <1>8 DEF A, B, C, D, E, F, v, w, x
  <1> HIDE DEF y
  <1>15. QED
    BY <1>7, <1>13, <1>14

(* A wake-up that ends without a failed ioctl has just released the bus.    *)
LEMMA WakeReleases ==
    ASSUME TypeOK, NEW p \in Process, Run(p), tool[p] = "nv_pci_wake",
           pc'[p] = 0, "ioctl" \notin trouble'[p]
    PROVE  ~InReset'
  <1> DEFINE s == nv_pci_wake
  <1>1. /\ pc[p] # 0 /\ Program[tool[p]] = s /\ pc[p] \in 1 .. 6 /\ Instr(p) = s[pc[p]]
        /\ DOMAIN s = 1 .. 6
    <2>1. pc[p] # 0
      BY RunGoes
    <2>2. Program[tool[p]] = s
      BY DEF Program
    <2>3. Len(s) = 6
      BY WakeProgram
    <2> HIDE DEF s
    <2>4. DOMAIN s = 1 .. Len(s) /\ pc[p] \in 1 .. Len(s)
      BY <2>1, <2>2, InstrType
    <2>5. QED
      BY <2>1, <2>2, <2>3, <2>4 DEF Instr
  <1>2. ~PciFails(p)
    BY DEF PciFails, TypeOK
  <1>3. ASSUME NEW n, NEW l, GoWith(p, n, l), n \in 1 .. 6
        PROVE  FALSE
    <2>1. pc \in [Process -> Nat]
      BY DEF TypeOK
    <2>2. QED
      BY <1>1, <1>3, <2>1 DEF GoWith
  <1>4. pc[p] \in {1, 2, 3, 4, 5, 6}
    BY <1>1
  <1>5. pc[p] = 6
    <2>1. CASE pc[p] \in {1, 4}
      <3>1. Instr(p).op = "pci read"
        BY <1>1, <2>1, WakeProgram
      <3>2. PciReadReg(p)
        BY <1>2, <3>1 DEF Run, LoadReg, SetReg, PutReg, CopyToMemory, PciWriteReg,
                          Skip, Exit, Says, At, Instr
      <3>3. \E l : GoWith(p, pc[p] + 1, l)
        BY <3>2 DEF PciReadReg
      <3>4. QED
        BY <1>3, <2>1, <3>3
    <2>2. CASE pc[p] \in {3, 5}
      <3>1. Instr(p).op = "pci write"
        BY <1>1, <2>2, WakeProgram
      <3>2. PciWriteReg(p)
        BY <1>2, <3>1 DEF Run, LoadReg, SetReg, PutReg, CopyToMemory, PciReadReg,
                          Skip, Exit, Says, At, Instr
      <3>3. \E l : GoWith(p, pc[p] + 1, l)
        BY <3>2 DEF PciWriteReg
      <3>4. QED
        BY <1>3, <2>2, <3>3
    <2>3. CASE pc[p] = 2
      <3>1. Instr(p).op = "only if" /\ Instr(p).length = 1
        BY <1>1, <2>3, WakeProgram
      <3>2. Skip(p)
        BY <1>2, <3>1 DEF Run, LoadReg, SetReg, PutReg, CopyToMemory, PciReadReg,
                          PciWriteReg, Exit, Says, At, Instr
      <3>3. \E n \in {3, 4} : GoWith(p, n, local[p])
        <4>1. \/ GoWith(p, pc[p] + 1, local[p])
              \/ GoWith(p, pc[p] + 1 + Instr(p).length, local[p])
          BY <3>2 DEF Skip, Goto
        <4>2. GoWith(p, 2 + 1, local[p]) \/ GoWith(p, 2 + 1 + 1, local[p])
          BY <2>3, <3>1, <4>1
        <4>3. 2 + 1 = 3 /\ 2 + 1 + 1 = 4
          OBVIOUS
        <4>4. QED
          BY <4>2, <4>3
      <3>4. QED
        BY <1>3, <3>3
    <2>4. QED
      BY <1>4, <2>1, <2>2, <2>3
  <1>6. /\ Instr(p).op = "pci write" /\ Instr(p).reg = "ROOT_CONTROL"
        /\ Instr(p).off = {22}
    BY <1>1, <1>5, WakeProgram
  <1>7. PciWriteReg(p)
    BY <1>2, <1>6 DEF Run, LoadReg, SetReg, PutReg, CopyToMemory, PciReadReg,
                      Skip, Exit, Says, At, Instr
  <1>8. Write({}, "ROOT_CONTROL", Written(p))
    BY <1>6, <1>7 DEF PciWriteReg
  <1>9. 22 \notin Written(p)
    BY <1>6 DEF Written
  <1>10. Lands({}, "ROOT_CONTROL")
    <2>1. "ROOT_CONTROL" \in Board /\ "ROOT_CONTROL" \notin Falcon \cup Engine \cup {"BOOT_0"}
      BY DEF Board, Falcon, Engine
    <2>2. refuses \subseteq Engine
      BY ToolsAssumption DEF TypeOK
    <2>3. Answers({}, "ROOT_CONTROL")
      BY DEF Answers, Board, GpuConfig
    <2>4. "ROOT_CONTROL" \notin refuses \cup {"BOOT_0"}
      BY <2>1, <2>2
    <2>5. QED
      BY <2>1, <2>3, <2>4 DEF Lands
  <1>11. regs' = [regs EXCEPT !["ROOT_CONTROL"] = Written(p)]
    BY <1>8, <1>9, <1>10 DEF Write
  <1>12. QED
    BY <1>9, <1>11, Names DEF InReset, TypeOK

(* No other step ends it.                                                  *)
LEMMA ReleasedStep ==
    TypeOK /\ [Next]_vars =>
        \A p \in Process :
            /\ Steps(p, "nv_pci_wake") /\ pc'[p] = 0 /\ "ioctl" \notin trouble'[p]
            /\ InReset'
            => \E q \in Process : pc'[q] # 0 /\ tool[q] = "nv_pci_wake"
  <1> SUFFICES ASSUME TypeOK, [Next]_vars, NEW p \in Process,
                      Steps(p, "nv_pci_wake"), pc'[p] = 0, "ioctl" \notin trouble'[p]
               PROVE  ~InReset'
    OBVIOUS
  <1>1. pc[p] # 0 /\ pc'[p] # pc[p] /\ tool[p] = "nv_pci_wake"
    BY DEF Steps
  <1>2. CASE HaltTaken \/ ClearedByCard \/ UNCHANGED vars
    BY <1>1, <1>2 DEF HaltTaken, ClearedByCard, vars
  <1>3. ASSUME NEW q \in Process, Run(q)
        PROVE  ~InReset'
    <2>1. CASE q = p
      BY <1>1, <1>3, <2>1, WakeReleases
    <2>2. CASE q # p
      <3>1. PICK n, l : l \in [Locals -> Values] /\ GoWith(q, n, l)
        BY <1>3, RunGoes
      <3>2. pc'[p] = pc[p]
        BY <1>3, <2>2, <3>1, RunGoes, GoType
      <3>3. QED
        BY <1>1, <3>2
    <2>3. QED
      BY <2>1, <2>2
  <1>4. ASSUME NEW q \in Process, NEW t \in Tools, Start(q, t)
        PROVE  ~InReset'
    <2>1. pc[q] = 0 /\ pc' = [pc EXCEPT ![q] = 1]
      BY <1>4 DEF Start
    <2>2. pc'[p] = pc[p]
      BY <1>1, <2>1 DEF TypeOK
    <2>3. QED
      BY <1>1, <2>2
  <1>5. QED
    BY <1>2, <1>3, <1>4 DEF Next

(* However many wake-ups hold the bus in reset at once, and whatever each   *)
(* has read of the bridge's control word while another held it, one that    *)
(* ends without a failed ioctl leaves the bus released.                     *)
THEOREM ResetReleased == Spec => BusReleased
  BY ReleasedStep, TypeCorrect, PTL DEF Spec, BusReleased

-----------------------------------------------------------------------------
(* Registers that a program never writes.                                   *)
Storing(i, s) == i.op \in {"set", "put", "pci write"} /\ i.reg \in s
Avoids(s) == {t \in Typed : \A n \in 1 .. Len(t) : ~Storing(t[n], s)}

LEMMA AvoidsConcat ==
    ASSUME NEW regset, NEW s \in Avoids(regset), NEW t \in Avoids(regset)
    PROVE  s \o t \in Avoids(regset)
  <1> DEFINE u == s \o t
  <1>1. /\ s \in Typed /\ t \in Typed /\ u \in Typed
        /\ Len(u) = Len(s) + Len(t)
        /\ Len(s) \in Nat /\ Len(t) \in Nat
        /\ \A n \in 1 .. Len(s) : u[n] = s[n]
        /\ \A n \in 1 .. Len(t) : u[Len(s) + n] = t[n]
    BY Concat DEF Avoids
  <1> HIDE DEF u
  <1>2. SUFFICES ASSUME NEW n \in 1 .. Len(u)
                 PROVE  ~Storing(u[n], regset)
    BY <1>1 DEF Avoids, u
  <1>3. CASE n \in 1 .. Len(s)
    BY <1>1, <1>3 DEF Avoids
  <1>4. CASE n \notin 1 .. Len(s)
    <2>1. n - Len(s) \in 1 .. Len(t) /\ n = Len(s) + (n - Len(s))
      BY <1>1, <1>4
    <2>2. u[n] = t[n - Len(s)]
      BY <1>1, <2>1
    <2>3. QED
      BY <2>1, <2>2 DEF Avoids
  <1>5. QED
    BY <1>3, <1>4

LEMMA AvoidsSingle ==
    ASSUME NEW regset, NEW h \in Instructions, ~Storing(h, regset)
    PROVE  <<h>> \in Avoids(regset)
  <1> DEFINE s == <<h>>
  <1>1. s \in Typed /\ Len(s) = 1 /\ s[1] = h
    BY Single
  <1> HIDE DEF s
  <1>2. \A n \in 1 .. Len(s) : s[n] = h
    BY <1>1
  <1>3. s \in Avoids(regset)
    BY <1>1, <1>2 DEF Avoids
  <1>4. QED
    BY <1>3 DEF s

(* The pieces of a program that write none of a set of registers.           *)
LEMMA AvoidsPieces ==
    ASSUME NEW regset
    PROVE  /\ \A x \in Locals, r \in Regs : Load(x, r) \in Avoids(regset)
           /\ \A r \in Regs \ regset :
                 /\ \A v \in Values : Set(r, v) \in Avoids(regset)
                 /\ \A x \in Locals : Put(r, x, {}, {}) \in Avoids(regset)
                 /\ \A b \in Values : Or(r, b) \in Avoids(regset)
                 /\ \A b \in SUBSET Int : AndNot(r, b) \in Avoids(regset)
           /\ MayStop \in Avoids(regset)
           /\ \A what \in {"manifest", "firmware"} : Copy(what) \in Avoids(regset)
           /\ \A c \in Conditions :
                 /\ ExitIf(c) \in Avoids(regset) /\ Report(c) \in Avoids(regset)
                 /\ \A t \in Avoids(regset) : OnlyIf(c, t) \in Avoids(regset)
  <1>1. \A x \in Locals, r \in Regs : Load(x, r) \in Avoids(regset)
    BY AvoidsSingle DEF Load, Instructions, Storing
  <1>2. ASSUME NEW r \in Regs \ regset, NEW v \in Values
        PROVE  Set(r, v) \in Avoids(regset)
    BY AvoidsSingle DEF Set, Instructions, Storing
  <1>3. ASSUME NEW r \in Regs \ regset, NEW x \in Locals, NEW on \in Values,
               NEW off \in SUBSET Int
        PROVE  Put(r, x, on, off) \in Avoids(regset)
    BY AvoidsSingle DEF Put, Instructions, Storing
  <1>4. ASSUME NEW r \in Regs \ regset, NEW on \in Values, NEW off \in SUBSET Int
        PROVE  Load("rmw", r) \o Put(r, "rmw", on, off) \in Avoids(regset)
    <2>1. Load("rmw", r) \in Avoids(regset) /\ Put(r, "rmw", on, off) \in Avoids(regset)
      BY <1>1, <1>3, LocalNames
    <2>2. QED
      BY <2>1, AvoidsConcat
  <1>5. {} \in Values /\ {} \in SUBSET Int
    BY BitSets, Constants
  <1>6. /\ MayStop \in Avoids(regset)
        /\ \A what \in {"manifest", "firmware"} : Copy(what) \in Avoids(regset)
    BY AvoidsSingle DEF MayStop, Copy, Instructions, Storing
  <1>7. ASSUME NEW c \in Conditions
        PROVE  ExitIf(c) \in Avoids(regset) /\ Report(c) \in Avoids(regset)
    BY AvoidsSingle DEF ExitIf, Report, Instructions, Storing
  <1>8. ASSUME NEW c \in Conditions, NEW t \in Avoids(regset)
        PROVE  OnlyIf(c, t) \in Avoids(regset)
    <2> DEFINE h == [op |-> "only if", cond |-> c, length |-> Len(t)]
    <2>1. Len(t) \in Nat
      BY LenProperties DEF Avoids, Typed
    <2>2. h \in Instructions /\ ~Storing(h, regset)
      BY <2>1 DEF Instructions, Storing
    <2> HIDE DEF h
    <2>3. <<h>> \in Avoids(regset)
      BY <2>2, AvoidsSingle
    <2>4. <<h>> \o t \in Avoids(regset)
      BY <2>3, AvoidsConcat
    <2>5. QED
      BY <2>4 DEF OnlyIf, h
  <1>9. \A r \in Regs \ regset :
           /\ \A v \in Values : Set(r, v) \in Avoids(regset)
           /\ \A x \in Locals : Put(r, x, {}, {}) \in Avoids(regset)
           /\ \A b \in Values : Or(r, b) \in Avoids(regset)
           /\ \A b \in SUBSET Int : AndNot(r, b) \in Avoids(regset)
    BY <1>2, <1>3, <1>4, <1>5 DEF Or, AndNot
  <1>10. QED
    BY <1>1, <1>6, <1>7, <1>8, <1>9

(* The way to the card: what decides whether it answers.  What the loader   *)
(* alone writes, and what the loader and the other users of the falcon's    *)
(* mailbox write.                                                           *)
Path      == {"GPU_BAR0", "GPU_COMMAND", "ROOT_CONTROL"}
Releases  == {"UNIT_RESET", "HOST_KEY"}
Mailboxes == {"MAILBOX0", "MAILBOX1", "OS", "CPUCTL"}

LEMMA Outside ==
    LET r == Regs \ (Path \cup Releases \cup Mailboxes)
    IN  /\ "GPP_G19" \in r /\ "GPP_D22" \in r /\ "LNK_CON" \in r /\ "LNK_TRN" \in r
        /\ "ENABLE_CONTROL" \in r /\ "RESET" \in r /\ "ENABLE" \in r
        /\ "PWR_MGMT_CTRL" \in r /\ "ELCG_DIS" \in r /\ "RESET_MASK" \in r
        /\ "VGA_MASTER_CTRL" \in r /\ "INTR_EN_0" \in r /\ "BOOT_0" \in r
        /\ "HALT" \in r /\ "SCRATCH_B" \in r /\ "SCRATCH_SEC2" \in r
        /\ "ENABLE_2" \in r
  BY Names DEF Path, Releases, Mailboxes

Bystanders == (DOMAIN Program) \ (PciTools \cup MailboxTools)

(* All but the configuration tools and the users of the mailbox leave both  *)
(* alone.                                                                   *)
LEMMA BystandersAvoid ==
    ASSUME NEW t \in Bystanders
    PROVE  Program[t] \in Avoids(Path \cup Releases \cup Mailboxes)
  <1> DEFINE a == Path \cup Releases \cup Mailboxes
             A == Avoids(a)
  <1>1. /\ \A x \in Locals, r \in Regs : Load(x, r) \in A
        /\ \A r \in Regs \ a :
              /\ \A v \in Values : Set(r, v) \in A
              /\ \A b \in Values : Or(r, b) \in A
              /\ \A b \in SUBSET Int : AndNot(r, b) \in A
        /\ MayStop \in A
        /\ \A c \in Conditions :
              /\ ExitIf(c) \in A /\ Report(c) \in A
              /\ \A s \in A : OnlyIf(c, s) \in A
    BY AvoidsPieces
  <1>2. \A s, u \in A : s \o u \in A
    BY AvoidsConcat
  <1>3. /\ "GPP_G19" \in Regs \ a /\ "GPP_D22" \in Regs \ a
        /\ "LNK_CON" \in Regs \ a /\ "LNK_TRN" \in Regs \ a
        /\ "ENABLE_CONTROL" \in Regs \ a /\ "RESET" \in Regs \ a
        /\ "ENABLE" \in Regs \ a /\ "PWR_MGMT_CTRL" \in Regs \ a
        /\ "ELCG_DIS" \in Regs \ a /\ "RESET_MASK" \in Regs \ a
        /\ "VGA_MASTER_CTRL" \in Regs \ a /\ "INTR_EN_0" \in Regs \ a
        /\ "BOOT_0" \in Regs \ a /\ "HALT" \in Regs \ a
    BY Outside
  <1> HIDE DEF a, A
  <1>4. motherboard_init \in A
    <2>1. /\ Or("GPP_G19", {0}) \in A /\ AndNot("GPP_D22", {0}) \in A
          /\ AndNot("LNK_CON", {4}) \in A /\ Or("LNK_TRN", {0}) \in A
      BY <1>1, <1>3, BitSets
    <2>2. QED
      BY <1>1, <1>2, <2>1 DEF motherboard_init
  <1>5. nv_gsp_status \in A
    <2>1. Load("status", "STATUS") \in A /\ Load("mbox0", "MAILBOX0") \in A
      BY <1>1, Names, LocalNames
    <2>2. ExitIf(Among("mbox0", {{}})) \in A /\ Report(Meets("status", {1})) \in A
      BY <1>1, Tests, LocalNames, BitSets, Constants
    <2>3. OnlyIf(Misses("status", {0}), ExitIf(Among("mbox0", {{}}))) \in A
      BY <1>1, <2>2, Tests, LocalNames, BitSets
    <2>4. QED
      BY <1>2, <2>1, <2>2, <2>3 DEF nv_gsp_status
  <1>6. nv_gsp_wake \in A
    <2>1. Set("ENABLE_CONTROL", {0}) \in A
      BY <1>1, <1>3, BitSets
    <2>2. Or("RESET", {18, 19}) \in A /\ Or("ENABLE", {18, 19}) \in A
      BY <1>1, <1>3, BitSets
    <2>3. Load("en_val", "ENABLE") \in A /\ Report(Meets("en_val", {19})) \in A
      BY <1>1, Names, LocalNames, Tests, BitSets
    <2>4. QED
      BY <1>2, <2>1, <2>2, <2>3 DEF nv_gsp_wake
  <1>7. nv_gpu_master_key \in A
    <2>1. Set("PWR_MGMT_CTRL", {}) \in A /\ Set("ENABLE_CONTROL", {0}) \in A
      BY <1>1, <1>3, BitSets, Constants
    <2>2. /\ Or("ELCG_DIS", {19}) \in A /\ Or("RESET_MASK", {19}) \in A
          /\ Or("RESET", {19}) \in A /\ Or("ENABLE", {19}) \in A
      BY <1>1, <1>3, BitSets
    <2>3. Load("reset_val", "RESET") \in A /\ Report(Meets("reset_val", {19})) \in A
      BY <1>1, Names, LocalNames, Tests, BitSets
    <2>4. QED
      BY <1>2, <2>1, <2>2, <2>3 DEF nv_gpu_master_key
  <1>8. nv_gpu_persistence \in A
    <2>1. Set("PWR_MGMT_CTRL", {}) \in A /\ Set("ELCG_DIS", {0}) \in A
      BY <1>1, <1>3, BitSets, Constants
    <2>2. /\ Or("ELCG_DIS", {18, 19}) \in A /\ Or("ENABLE", {18, 19}) \in A
          /\ Or("RESET", {18, 19}) \in A
      BY <1>1, <1>3, BitSets
    <2>3. Load("en_val", "ENABLE") \in A /\ Report(Meets("en_val", {19})) \in A
      BY <1>1, Names, LocalNames, Tests, BitSets
    <2>4. QED
      BY <1>2, <2>1, <2>2, <2>3 DEF nv_gpu_persistence
  <1>9. nv_gpu_handshake \in A
    <2>1. /\ Set("VGA_MASTER_CTRL", {}) \in A /\ Set("INTR_EN_0", {}) \in A
          /\ Set("INTR_EN_0", {0}) \in A /\ Or("RESET", {19}) \in A
      BY <1>1, <1>3, BitSets, Constants
    <2>2. Load("reset_val", "RESET") \in A /\ Report(Meets("reset_val", {19})) \in A
      BY <1>1, Names, LocalNames, Tests, BitSets
    <2>3. QED
      BY <1>2, <2>1, <2>2 DEF nv_gpu_handshake
  <1>10. nv_pmc_full_audit \in A
    <2>1. Or("BOOT_0", {17}) \in A /\ Or("ENABLE", {17}) \in A
      BY <1>1, <1>3, BitSets
    <2>2. Load("gsp_status", "STATUS") \in A /\ Report(Other("gsp_status", {{}})) \in A
      BY <1>1, Names, LocalNames, Tests, Constants
    <2>3. QED
      BY <1>2, <2>1, <2>2 DEF nv_pmc_full_audit
  <1>11. nv_gsp_pulse \in A
    <2>1. Load("pmc_enable", "ENABLE") \in A /\ Load("final_status", "STATUS") \in A
      BY <1>1, Names, LocalNames
    <2>2. Or("ENABLE", {17}) \in A /\ Set("HALT", {1}) \in A
      BY <1>1, <1>3, BitSets
    <2>3. OnlyIf(Misses("pmc_enable", {17}), Or("ENABLE", {17})) \in A
      BY <1>1, <2>2, Tests, LocalNames, BitSets
    <2>4. Report(Meets("final_status", {1})) \in A
      BY <1>1, Tests, LocalNames, BitSets
    <2>5. QED
      BY <1>2, <2>1, <2>2, <2>3, <2>4 DEF nv_gsp_pulse
  <1>12. prime_ignite \in A
    <2>1. Load("pmc_enable", "ENABLE") \in A /\ Load("pmc_reset", "RESET") \in A
      BY <1>1, Names, LocalNames
    <2>2. Report(Meets("pmc_reset", {31})) \in A
      BY <1>1, Tests, LocalNames, BitSets
    <2>3. OnlyIf(Meets("pmc_enable", {31}), Report(Meets("pmc_reset", {31}))) \in A
      BY <1>1, <2>2, Tests, LocalNames, BitSets
    <2>4. prime_dump_status \in A
      BY <1>2, <2>1, <2>3 DEF prime_dump_status
    <2>5. Set("ELCG_DIS", Ones) \in A /\ Set("VGA_MASTER_CTRL", {}) \in A
      BY <1>1, <1>3, Constants
    <2>6. Or("ENABLE", {14, 31}) \in A /\ Or("RESET", {31}) \in A
      BY <1>1, <1>3, BitSets
    <2>7. QED
      BY <1>2, <2>4, <2>5, <2>6 DEF prime_ignite
  <1>13. t \in {"motherboard_init", "nv_gsp_status", "nv_gsp_wake", "nv_gpu_master_key",
                "nv_gpu_persistence", "nv_gpu_handshake", "nv_pmc_full_audit",
                "nv_gsp_pulse", "prime_ignite"}
    BY DEF Bystanders, Program, PciTools, MailboxTools
  <1>14. Program[t] \in A
    BY <1>4, <1>5, <1>6, <1>7, <1>8, <1>9, <1>10, <1>11, <1>12, <1>13 DEF Program
  <1>15. QED
    BY <1>14 DEF A, a

(* The users of the mailbox leave the way to the card alone, and all but    *)
(* the loader what it alone writes.                                         *)
MailboxUsers == MailboxTools \ {"nv_load_gsp"}

LEMMA MailboxUsersAvoid ==
    ASSUME NEW t \in MailboxUsers
    PROVE  Program[t] \in Avoids(Path \cup Releases)
  <1> DEFINE a == Path \cup Releases
             A == Avoids(a)
  <1>1. /\ \A x \in Locals, r \in Regs : Load(x, r) \in A
        /\ \A r \in Regs \ a :
              /\ \A v \in Values : Set(r, v) \in A
              /\ \A x \in Locals : Put(r, x, {}, {}) \in A
        /\ \A c \in Conditions :
              /\ Report(c) \in A
              /\ \A s \in A : OnlyIf(c, s) \in A
    BY AvoidsPieces
  <1>2. \A s, u \in A : s \o u \in A
    BY AvoidsConcat
  <1>3. /\ "ELCG_DIS" \in Regs \ a /\ "RESET_MASK" \in Regs \ a /\ "RESET" \in Regs \ a
        /\ "ENABLE" \in Regs \ a /\ "MAILBOX0" \in Regs \ a
        /\ "SCRATCH_B" \in Regs \ a /\ "SCRATCH_SEC2" \in Regs \ a
    BY Names DEF Path, Releases
  <1> HIDE DEF a, A
  <1>4. nv_gsp_force \in A
    <2>1. /\ Set("ELCG_DIS", {19}) \in A /\ Set("RESET_MASK", {19}) \in A
          /\ Set("RESET", {19}) \in A /\ Set("ENABLE", {19}) \in A
          /\ Set("MAILBOX0", A5A5A5A5) \in A
      BY <1>1, <1>3, BitSets, Constants
    <2>2. Load("result", "MAILBOX0") \in A /\ Report(Among("result", {A5A5A5A5})) \in A
      BY <1>1, Names, LocalNames, Tests, Constants
    <2>3. QED
      BY <1>2, <2>1, <2>2 DEF nv_gsp_force
  <1>5. nv_falcon_test \in A
    <2>1. /\ Load("initial", "MAILBOX0") \in A /\ Load("result", "MAILBOX0") \in A
          /\ Report(Among("result", {DEADBEEF})) \in A
      BY <1>1, Names, LocalNames, Tests, Constants
    <2>2. Set("MAILBOX0", DEADBEEF) \in A /\ Put("MAILBOX0", "initial", {}, {}) \in A
      BY <1>1, <1>3, LocalNames, Constants
    <2>3. QED
      BY <1>2, <2>1, <2>2 DEF nv_falcon_test
  <1>6. nv_falcon_find \in A
    <2>1. ASSUME NEW i \in Regs, NEW r \in Regs \ a
          PROVE  probe_base(i, r) \in A
      <3>1. Load("id", i) \in A /\ Load("check", r) \in A /\ Set(r, A5A5A5A5) \in A
        BY <1>1, LocalNames, Constants
      <3>2. Other("id", {{}, Ones}) \in Conditions
        BY Tests, LocalNames, Constants
      <3>3. OnlyIf(Other("id", {{}, Ones}), Set(r, A5A5A5A5) \o Load("check", r)) \in A
        BY <1>1, <1>2, <3>1, <3>2
      <3>4. QED
        BY <1>2, <3>1, <3>3 DEF probe_base
    <2>2. /\ probe_base("ID", "MAILBOX0") \in A /\ probe_base("ID_B", "SCRATCH_B") \in A
          /\ probe_base("ID_SEC2", "SCRATCH_SEC2") \in A
      BY <1>3, <2>1, Names
    <2>3. QED
      BY <1>2, <2>2 DEF nv_falcon_find
  <1>7. t \in {"nv_gsp_force", "nv_falcon_test", "nv_falcon_find"}
    BY DEF MailboxUsers, MailboxTools
  <1>8. Program[t] \in A
    BY <1>4, <1>5, <1>6, <1>7 DEF Program
  <1>9. QED
    BY <1>8 DEF A, a

LEMMA LoaderAvoids == Program["nv_load_gsp"] \in Avoids(Path)
  <1> DEFINE A == Avoids(Path)
  <1>1. /\ \A x \in Locals, r \in Regs : Load(x, r) \in A
        /\ \A r \in Regs \ Path :
              /\ \A v \in Values : Set(r, v) \in A
              /\ \A b \in Values : Or(r, b) \in A
              /\ \A b \in SUBSET Int : AndNot(r, b) \in A
        /\ MayStop \in A
        /\ \A what \in {"manifest", "firmware"} : Copy(what) \in A
        /\ \A c \in Conditions :
              /\ ExitIf(c) \in A
              /\ \A s \in A : OnlyIf(c, s) \in A
    BY AvoidsPieces
  <1>2. \A s, u \in A : s \o u \in A
    BY AvoidsConcat
  <1>3. /\ "UNIT_RESET" \in Regs \ Path /\ "ENABLE" \in Regs \ Path
        /\ "ENABLE_2" \in Regs \ Path /\ "HOST_KEY" \in Regs \ Path
        /\ "ELCG_DIS" \in Regs \ Path /\ "MAILBOX0" \in Regs \ Path
        /\ "MAILBOX1" \in Regs \ Path /\ "OS" \in Regs \ Path /\ "CPUCTL" \in Regs \ Path
    BY Names DEF Path
  <1> HIDE DEF A
  <1>4. DeepScrub \in A
    <2>1. /\ AndNot("UNIT_RESET", {31}) \in A /\ AndNot("ENABLE", {31}) \in A
          /\ AndNot("ENABLE_2", {31}) \in A /\ Or("ENABLE", {31}) \in A
          /\ Or("ENABLE_2", {31}) \in A /\ Or("UNIT_RESET", {31}) \in A
      BY <1>1, <1>3, BitSets
    <2>2. Set("HOST_KEY", {0}) \in A /\ Set("ELCG_DIS", Ones) \in A
      BY <1>1, <1>3, BitSets, Constants
    <2>3. QED
      BY <1>2, <2>1, <2>2 DEF DeepScrub
  <1>5. PulseCheck \in A
    <2>1. Load("status", "BRIDGE") \in A /\ Load("falcon_id", "FALCON") \in A
      BY <1>1, Names, LocalNames
    <2>2. ExitIf(Among("falcon_id", {BADF5040, Ones})) \in A
      BY <1>1, Tests, LocalNames, Constants
    <2>3. Among("status", {BADF5040}) \in Conditions
      BY Tests, LocalNames, Constants
    <2>4. OnlyIf(Among("status", {BADF5040}),
                 Load("falcon_id", "FALCON")
                 \o ExitIf(Among("falcon_id", {BADF5040, Ones}))) \in A
      BY <1>1, <1>2, <2>1, <2>2, <2>3
    <2>5. QED
      BY <1>2, <2>1, <2>4 DEF PulseCheck
  <1>6. LoadFirmware \in A
    BY <1>1, <1>2 DEF LoadFirmware
  <1>7. PointAndShoot \in A
    <2>1. /\ Set("MAILBOX0", MANIFEST_AT) \in A /\ Set("MAILBOX1", {}) \in A
          /\ Set("OS", {0}) \in A /\ Set("CPUCTL", {0}) \in A
      BY <1>1, <1>3, BitSets, Constants
    <2>2. QED
      BY <1>2, <2>1 DEF PointAndShoot
  <1>8. QED
    BY <1>2, <1>4, <1>5, <1>6, <1>7 DEF nv_load_gsp, Program, A

(* Whoever is neither a configuration tool nor in the set named leaves the  *)
(* way to the card and the registers named alone.                           *)
LEMMA AllAvoid ==
    /\ \A t \in (DOMAIN Program) \ PciTools : Program[t] \in Avoids(Path)
    /\ \A t \in (DOMAIN Program) \ (PciTools \cup {"nv_load_gsp"}) :
          Program[t] \in Avoids(Path \cup Releases)
    /\ \A t \in (DOMAIN Program) \ (PciTools \cup MailboxTools) :
          Program[t] \in Avoids(Path \cup Releases \cup Mailboxes)
  <1>1. \A s, t : s \subseteq t => Avoids(t) \subseteq Avoids(s)
    BY DEF Avoids, Storing
  <1>2. \A t \in Bystanders : Program[t] \in Avoids(Path \cup Releases \cup Mailboxes)
    BY BystandersAvoid
  <1>3. \A t \in MailboxUsers : Program[t] \in Avoids(Path \cup Releases)
    BY MailboxUsersAvoid
  <1>4. /\ Path \subseteq Path \cup Releases
        /\ Path \cup Releases \subseteq Path \cup Releases \cup Mailboxes
    OBVIOUS
  <1>5. \A t \in (DOMAIN Program) \ (PciTools \cup {"nv_load_gsp"}) :
           t \in Bystanders \/ t \in MailboxUsers
    BY DEF Bystanders, MailboxUsers
  <1>6. \A t \in (DOMAIN Program) \ (PciTools \cup {"nv_load_gsp"}) :
           Program[t] \in Avoids(Path \cup Releases)
    <2>1. Avoids(Path \cup Releases \cup Mailboxes) \subseteq Avoids(Path \cup Releases)
      BY <1>1, <1>4
    <2>2. QED
      BY <1>2, <1>3, <1>5, <2>1
  <1>7. \A t \in (DOMAIN Program) \ PciTools : Program[t] \in Avoids(Path)
    <2>1. Avoids(Path \cup Releases) \subseteq Avoids(Path)
      BY <1>1, <1>4
    <2>2. QED
      BY <1>6, <2>1, LoaderAvoids
  <1>8. QED
    BY <1>2, <1>6, <1>7 DEF Bystanders

-----------------------------------------------------------------------------
(* What a step writes.                                                      *)
Reached(base) ==
    ~InReset /\ regs["GPU_BAR0"] = base /\ 1 \in regs["GPU_COMMAND"]

LEMMA ReachedIs ==
    ASSUME NEW base, NEW r \in Falcon \cup Engine
    PROVE  Answers(base, r) <=> Reached(base)
  <1>1. r \notin Board /\ r \notin GpuConfig
    BY DEF Falcon, Engine, Board, GpuConfig
  <1>2. QED
    BY <1>1 DEF Answers, Reached

LEMMA WriteCard ==
    ASSUME TypeOK, NEW base, NEW r \in Falcon \cup Engine, NEW v \in Values,
           Write(base, r, v)
    PROVE  /\ regs' = IF Reached(base) /\ (r \in Falcon => ~lockout)
                         /\ r \notin refuses \cup {"BOOT_0"}
                      THEN [regs EXCEPT ![r] = v] ELSE regs
           /\ lockout' \in {lockout, FALSE} /\ (r # "HOST_KEY" => lockout' = lockout)
           /\ UNCHANGED <<refuses, memory>>
           /\ \A b : Reached(b)' = Reached(b)
  <1>1. r # "ROOT_CONTROL" /\ r # "GPU_BAR0" /\ r # "GPU_COMMAND"
    BY DEF Falcon, Engine
  <1>2. Lands(base, r) <=> /\ Reached(base) /\ (r \in Falcon => ~lockout)
                           /\ r \notin refuses \cup {"BOOT_0"}
    BY ReachedIs DEF Lands
  <1>3. regs' = IF Lands(base, r) THEN [regs EXCEPT ![r] = v] ELSE regs
    BY <1>1 DEF Write
  <1>4. \A q \in Regs : q # r => regs'[q] = regs[q]
    BY <1>3 DEF TypeOK
  <1>5. \A b : Reached(b)' = Reached(b)
    BY <1>1, <1>4, Names DEF Reached, InReset
  <1>6. lockout' \in {lockout, FALSE} /\ (r # "HOST_KEY" => lockout' = lockout)
    BY DEF Write
  <1>7. QED
    BY <1>2, <1>3, <1>5, <1>6 DEF Write

(* A tool that avoids a set of registers, the bridge's control word among   *)
(* them, leaves them as they are.                                           *)
LEMMA RunAvoids ==
    ASSUME TypeOK, NEW p \in Process, Run(p), NEW s \in SUBSET Regs,
           Program[tool[p]] \in Avoids(s), "ROOT_CONTROL" \in s
    PROVE  /\ \A r \in s : regs'[r] = regs[r]
           /\ "HOST_KEY" \in s => lockout' = lockout
  <1>1. /\ pc[p] # 0 /\ pc[p] \in 1 .. Len(Program[tool[p]])
        /\ Instr(p) = Program[tool[p]][pc[p]]
    BY RunGoes, InstrType DEF Instr
  <1>2. ~Storing(Instr(p), s)
    BY <1>1 DEF Avoids
  <1>3. CASE UNCHANGED <<regs, lockout, refuses>>
    BY <1>3
  <1>4. ASSUME NEW base, NEW r \in Regs, NEW v \in Values, Write(base, r, v),
               Instr(p).op \in {"set", "put", "pci write"}, r = Instr(p).reg
        PROVE  /\ \A q \in s : regs'[q] = regs[q]
               /\ "HOST_KEY" \in s => lockout' = lockout
    <2>1. r \notin s
      BY <1>2, <1>4 DEF Storing
    <2>2. regs' = regs \/ regs' = [regs EXCEPT ![r] = v]
      BY <1>4, <2>1 DEF Write
    <2>3. regs \in [Regs -> Values]
      BY DEF TypeOK, Values
    <2>4. \A q \in s : regs'[q] = regs[q]
      BY <2>1, <2>2, <2>3
    <2>5. "HOST_KEY" \in s => lockout' = lockout
      BY <1>4, <2>1 DEF Write
    <2>6. QED
      BY <2>4, <2>5
  <1>5. QED
    BY <1>3, <1>4, RunWrites

(* What a step does, by the instruction.                                    *)
LEMMA RunIs ==
    ASSUME NEW p \in Process, Run(p)
    PROVE  /\ Instr(p).op = "load" => LoadReg(p)
           /\ Instr(p).op = "set" => SetReg(p)
           /\ Instr(p).op = "put" => PutReg(p)
           /\ Instr(p).op = "copy" => CopyToMemory(p)
           /\ Instr(p).op = "only if" => Skip(p)
           /\ Instr(p).op = "report" => Says(p)
           /\ Instr(p).op \in {"exit if", "may stop"} => Exit(p)
  BY DEF Run, LoadReg, SetReg, PutReg, CopyToMemory, PciReadReg, PciWriteReg,
         PciFails, Skip, Exit, Says, At, Instr

LEMMA RunEffects ==
    ASSUME TypeOK, NEW p \in Process, Run(p)
    PROVE  /\ Instr(p).op = "set" => Write(MappedAt(tool[p]), Instr(p).reg, Instr(p).value)
           /\ Instr(p).op = "put" => Write(MappedAt(tool[p]), Instr(p).reg, Written(p))
           /\ Instr(p).op = "copy" =>
                 /\ memory' = memory \cup {Instr(p).what}
                 /\ UNCHANGED <<regs, lockout, refuses>>
           /\ Instr(p).op \in {"load", "only if", "report", "exit if", "may stop"} =>
                 UNCHANGED card
           /\ pc'[p] # 0 =>
                 /\ Instr(p).op = "load" =>
                       local'[p] = [local[p] EXCEPT ![Instr(p).local] =
                                       ReadOf(MappedAt(tool[p]), Instr(p).reg)]
                 /\ Instr(p).op \in {"set", "put", "copy", "only if", "report",
                                     "exit if", "may stop"} => local'[p] = local[p]
                 /\ Instr(p).op \in {"load", "set", "put", "copy", "report",
                                     "exit if", "may stop"} => pc'[p] = pc[p] + 1
                 /\ Instr(p).op = "only if" =>
                       pc'[p] \in {pc[p] + 1, pc[p] + 1 + Instr(p).length}
  <1> DEFINE i == Instr(p)
  <1>1. /\ pc \in [Process -> Nat] /\ local \in [Process -> [Locals -> Values]]
      BY DEF TypeOK, Values
  <1>2. ASSUME NEW n, NEW l, GoWith(p, n, l), pc'[p] # 0
        PROVE  pc'[p] = n /\ local'[p] = l
    BY <1>1, <1>2 DEF GoWith
  <1>3. ASSUME NEW n, Goto(p, n), pc'[p] # 0
        PROVE  pc'[p] = n /\ local'[p] = local[p]
    BY <1>2, <1>3 DEF Goto
  <1>4. CASE i.op = "load"
    <2>1. LoadReg(p)
      BY <1>4, RunIs
    <2>2. GoWith(p, pc[p] + 1, [local[p] EXCEPT ![i.local] =
                                   ReadOf(MappedAt(tool[p]), i.reg)])
      BY <2>1 DEF LoadReg
    <2>3. UNCHANGED card
      BY <2>1 DEF LoadReg
    <2> HIDE DEF i
    <2>4. QED
      BY <1>2, <1>4, <2>2, <2>3 DEF i
  <1>5. CASE i.op = "set"
    <2>1. SetReg(p)
      BY <1>5, RunIs
    <2>2. Goto(p, pc[p] + 1) /\ Write(MappedAt(tool[p]), i.reg, i.value)
      BY <2>1 DEF SetReg
    <2> HIDE DEF i
    <2>3. QED
      BY <1>3, <1>5, <2>2 DEF i
  <1>6. CASE i.op = "put"
    <2>1. PutReg(p)
      BY <1>6, RunIs
    <2>2. Goto(p, pc[p] + 1) /\ Write(MappedAt(tool[p]), i.reg, Written(p))
      BY <2>1 DEF PutReg
    <2> HIDE DEF i
    <2>3. QED
      BY <1>3, <1>6, <2>2 DEF i
  <1>7. CASE i.op = "copy"
    <2>1. CopyToMemory(p)
      BY <1>7, RunIs
    <2>2. /\ Goto(p, pc[p] + 1) /\ memory' = memory \cup {i.what}
          /\ UNCHANGED <<regs, lockout, refuses>>
      BY <2>1 DEF CopyToMemory
    <2> HIDE DEF i
    <2>3. QED
      BY <1>3, <1>7, <2>2 DEF i
  <1>8. CASE i.op = "report"
    <2>1. Says(p)
      BY <1>8, RunIs
    <2>2. Goto(p, pc[p] + 1) /\ UNCHANGED card
      BY <2>1 DEF Says
    <2> HIDE DEF i
    <2>3. QED
      BY <1>3, <1>8, <2>2 DEF i
  <1>9. CASE i.op \in {"exit if", "may stop"}
    <2>1. Exit(p)
      BY <1>9, RunIs
    <2>2. UNCHANGED card
      BY <2>1 DEF Exit
    <2>3. Goto(p, 0) \/ Goto(p, pc[p] + 1)
      BY <1>9, <2>1 DEF Exit, At, Instr
    <2> HIDE DEF i
    <2>4. QED
      BY <1>3, <1>9, <2>2, <2>3 DEF i
  <1>10. CASE i.op = "only if"
    <2>1. Skip(p)
      BY <1>10, RunIs
    <2>2. /\ UNCHANGED card
          /\ Goto(p, pc[p] + 1) \/ Goto(p, pc[p] + 1 + i.length)
      BY <2>1 DEF Skip
    <2> HIDE DEF i
    <2>3. QED
      BY <1>3, <1>10, <2>2 DEF i
  <1>11. QED
    BY <1>4, <1>5, <1>6, <1>7, <1>8, <1>9, <1>10

LEMMA RunHistory ==
    ASSUME NEW p \in Process, Run(p)
    PROVE  UNCHANGED <<tool, others, before>> /\ memory \subseteq memory'
  BY DEF Run, LoadReg, SetReg, PutReg, CopyToMemory, PciReadReg, PciWriteReg,
         PciFails, Skip, Exit, Says, Write, card, hist

-----------------------------------------------------------------------------
(* Runs beside each other.                                                  *)
(* A run goes on by a step of its own.                                      *)
LEMMA OwnStep ==
    ASSUME TypeOK, [Next]_vars, NEW p \in Process, pc[p] # 0, pc'[p] # pc[p]
    PROVE  Run(p)
  <1>1. ~(HaltTaken \/ ClearedByCard \/ UNCHANGED vars)
    BY DEF HaltTaken, ClearedByCard, vars
  <1>2. ASSUME NEW q \in Process, NEW t \in Tools, Start(q, t)
        PROVE  FALSE
    BY <1>2 DEF Start, TypeOK
  <1>3. ASSUME NEW q \in Process, Run(q), q # p
        PROVE  FALSE
    <2>1. PICK n, l : l \in [Locals -> Values] /\ GoWith(q, n, l)
      BY <1>3, RunGoes
    <2>2. QED
      BY <1>3, <2>1, RunGoes, GoType
  <1>4. QED
    BY <1>1, <1>2, <1>3 DEF Next

(* Each run knows of the others.                                            *)
Known == \A p, q \in Running : p # q => tool[q] \in others[p]

LEMMA InitKnown == Init => Known
  BY DEF Init, Known, Running

LEMMA NextKnown == TypeOK /\ Known /\ [Next]_vars => Known'
  <1> SUFFICES ASSUME TypeOK, Known, [Next]_vars PROVE Known'
    OBVIOUS
  <1>1. CASE HaltTaken \/ ClearedByCard \/ UNCHANGED vars
    BY <1>1 DEF HaltTaken, ClearedByCard, vars, hist, Known, Running
  <1>2. ASSUME NEW p \in Process, Run(p)
        PROVE  Known'
    <2>1. pc[p] # 0 /\ \A q \in Process : q # p => pc'[q] = pc[q]
      <3>1. PICK n, l : l \in [Locals -> Values] /\ GoWith(p, n, l)
        BY <1>2, RunGoes
      <3>2. QED
        BY <1>2, <3>1, RunGoes, GoType
    <2>2. Running' \subseteq Running
      BY <2>1 DEF Running
    <2>3. QED
      BY <1>2, <2>2, RunHistory DEF Known
  <1>3. ASSUME NEW p \in Process, NEW t \in Tools, Start(p, t)
        PROVE  Known'
    <2>1. Running' = Running \cup {p} /\ p \notin Running
      BY <1>3 DEF Start, Running, TypeOK
    <2>2. /\ tool'[p] = t /\ \A q \in Process : q # p => tool'[q] = tool[q]
      BY <1>3 DEF Start, TypeOK
    <2>3. \A q \in Process :
             others'[q] = IF q = p THEN {tool[s] : s \in Running}
                          ELSE IF q \in Running THEN others[q] \cup {t} ELSE others[q]
      BY <1>3 DEF Start
    <2>4. ASSUME NEW q \in Running', NEW r \in Running', q # r
          PROVE  tool'[r] \in others'[q]
      <3>1. q \in Process /\ r \in Process
        BY DEF Running
      <3>2. CASE q = p
        BY <2>1, <2>2, <2>3, <2>4, <3>1, <3>2
      <3>3. CASE r = p
        BY <2>1, <2>2, <2>3, <2>4, <3>1, <3>3
      <3>4. CASE q # p /\ r # p
        <4>1. q \in Running /\ r \in Running /\ tool'[r] = tool[r]
          BY <2>1, <2>2, <3>1, <3>4
        <4>2. tool[r] \in others[q]
          BY <2>4, <4>1 DEF Known
        <4>3. others'[q] = others[q] \cup {t}
          BY <2>3, <3>1, <3>4, <4>1
        <4>4. QED
          BY <4>1, <4>2, <4>3
      <3>5. QED
        BY <3>2, <3>3, <3>4
    <2>5. QED
      BY <2>4 DEF Known
  <1>4. QED
    BY <1>1, <1>2, <1>3 DEF Next

(* A run and a step: the step is its own, or starts it, or is another's and *)
(* leaves the run and the registers in s, which the tools in ts would write, *)
(* as they are.                                                             *)
OwnRun(p) ==
    /\ Run(p) /\ p \in Running
    /\ tool'[p] = tool[p] /\ others'[p] = others[p] /\ before'[p] = before[p]

JustStarted(p) == pc'[p] = 1 /\ before'[p] = regs["MAILBOX0"] /\ UNCHANGED card

LeftAlone(p, ts, s) ==
    /\ p \in Running /\ pc'[p] = pc[p] /\ local'[p] = local[p]
    /\ tool'[p] = tool[p] /\ before'[p] = before[p]
    /\ others[p] \cap ts = {}
    /\ refuses' = refuses /\ memory \subseteq memory'
    /\ \A r \in s : regs'[r] = regs[r]
    /\ "HOST_KEY" \in s => lockout' = lockout

LEMMA Beside ==
    ASSUME TypeOK, Known, [Next]_vars, NEW p \in Running', NEW ts,
           others'[p] \cap ts = {},
           NEW s \in SUBSET (Regs \ {"STATUS", "ENABLE", "RESET"}), "ROOT_CONTROL" \in s,
           \A t \in (DOMAIN Program) \ ts : Program[t] \in Avoids(s)
    PROVE  OwnRun(p) \/ JustStarted(p) \/ LeftAlone(p, ts, s)
  <1>1. p \in Process /\ pc'[p] # 0
    BY DEF Running
  <1>2. CASE UNCHANGED vars
    BY <1>1, <1>2 DEF vars, card, hist, Running, LeftAlone
  <1>3. CASE HaltTaken \/ ClearedByCard
    <2>1. /\ UNCHANGED <<lockout, refuses, memory, tool, pc, local, others, before>>
      BY <1>3 DEF HaltTaken, ClearedByCard, hist
    <2>2. \A r \in s : regs'[r] = regs[r]
      <3>1. CASE HaltTaken
        BY <3>1 DEF HaltTaken, TypeOK
      <3>2. CASE ClearedByCard
        <4>1. PICK q \in {"ENABLE", "RESET"} :
                 regs' = [regs EXCEPT ![q] = @ \ {17, 18, 19}]
          BY <3>2 DEF ClearedByCard
        <4>2. QED
          BY <4>1 DEF TypeOK
      <3>3. QED
        BY <1>3, <3>1, <3>2
    <2>3. QED
      BY <1>1, <2>1, <2>2 DEF Running, LeftAlone
  <1>4. ASSUME NEW q \in Process, Run(q), q # p
        PROVE  LeftAlone(p, ts, s)
    <2>1. PICK n, l : l \in [Locals -> Values] /\ GoWith(q, n, l)
      BY <1>4, RunGoes
    <2>2. pc[q] # 0 /\ pc'[p] = pc[p] /\ local'[p] = local[p]
      BY <1>1, <1>4, <2>1, RunGoes, GoType
    <2>3. UNCHANGED <<tool, others, before>> /\ memory \subseteq memory'
      BY <1>4, RunHistory
    <2>4. p \in Running /\ q \in Running
      BY <1>1, <2>2 DEF Running
    <2>5. tool[q] \in (DOMAIN Program) \ ts
      <3>1. tool[q] \in others[p]
        BY <1>4, <2>4 DEF Known
      <3>2. QED
        BY <2>2, <2>3, <3>1, InstrType
    <2>6. /\ \A r \in s : regs'[r] = regs[r]
          /\ "HOST_KEY" \in s => lockout' = lockout
      BY <1>4, <2>5, RunAvoids
    <2>7. refuses' = refuses
      BY <1>4, RunWrites DEF Write
    <2>8. QED
      BY <2>2, <2>3, <2>4, <2>6, <2>7 DEF LeftAlone
  <1>5. ASSUME NEW q \in Process, NEW t \in Tools, Start(q, t)
        PROVE  JustStarted(p) \/ LeftAlone(p, ts, s)
    <2>1. CASE q = p
      BY <1>1, <1>5, <2>1 DEF Start, TypeOK, JustStarted
    <2>2. CASE q # p
      <3>1. /\ pc'[p] = pc[p] /\ local'[p] = local[p] /\ tool'[p] = tool[p]
            /\ before'[p] = before[p] /\ UNCHANGED card
        BY <1>1, <1>5, <2>2 DEF Start, TypeOK
      <3>2. p \in Running
        BY <1>1, <3>1 DEF Running
      <3>3. others'[p] = others[p] \cup {t}
        BY <1>1, <1>5, <2>2, <3>2 DEF Start
      <3>4. QED
        BY <3>1, <3>2, <3>3 DEF LeftAlone, card
    <2>3. QED
      BY <2>1, <2>2
  <1>6. ASSUME Run(p)
        PROVE  OwnRun(p)
    BY <1>1, <1>6, RunHistory, RunGoes DEF Running, OwnRun
  <1>7. QED
    BY <1>2, <1>3, <1>4, <1>5, <1>6 DEF Next

-----------------------------------------------------------------------------
(* The falcon's test.                                                       *)
LEMMA TestProgram ==
    /\ Len(nv_falcon_test) = 5
    /\ nv_falcon_test[1].op = "load" /\ nv_falcon_test[1].local = "initial"
    /\ nv_falcon_test[1].reg = "MAILBOX0"
    /\ nv_falcon_test[2].op = "set" /\ nv_falcon_test[2].reg = "MAILBOX0"
    /\ nv_falcon_test[3].op = "load" /\ nv_falcon_test[3].local = "result"
    /\ nv_falcon_test[4].op = "report"
    /\ nv_falcon_test[5].op = "put" /\ nv_falcon_test[5].reg = "MAILBOX0"
    /\ nv_falcon_test[5].local = "initial"
    /\ nv_falcon_test[5].on = {} /\ nv_falcon_test[5].off = {}
  <1> DEFINE a == [op |-> "load", local |-> "initial", reg |-> "MAILBOX0"]
             b == [op |-> "set", reg |-> "MAILBOX0", value |-> DEADBEEF]
             c == [op |-> "load", local |-> "result", reg |-> "MAILBOX0"]
             d == [op |-> "report", cond |-> Among("result", {DEADBEEF})]
             e == [op |-> "put", reg |-> "MAILBOX0", local |-> "initial",
                   on |-> {}, off |-> {}]
  <1>1. a \in Instructions /\ c \in Instructions
    BY Names, LocalNames DEF Instructions
  <1>2. b \in Instructions
    BY Names, Constants DEF Instructions
  <1>3. d \in Instructions
    <2>1. Among("result", {DEADBEEF}) \in Conditions
      BY Tests, LocalNames, Constants
    <2>2. QED
      BY <2>1 DEF Instructions
  <1>4. e \in Instructions
    BY Names, LocalNames, Constants, BitSets DEF Instructions
  <1>5. /\ a.op = "load" /\ a.local = "initial" /\ a.reg = "MAILBOX0"
        /\ b.op = "set" /\ b.reg = "MAILBOX0"
        /\ c.op = "load" /\ c.local = "result" /\ d.op = "report"
        /\ e.op = "put" /\ e.reg = "MAILBOX0" /\ e.local = "initial"
        /\ e.on = {} /\ e.off = {}
    OBVIOUS
  <1>6. nv_falcon_test = (((<<a>> \o <<b>>) \o <<c>>) \o <<d>>) \o <<e>>
    BY DEF nv_falcon_test, Load, Set, Report, Put
  <1> HIDE DEF a, b, c, d, e
  <1> DEFINE A == <<a>>
             B == <<b>>
             C == <<c>>
             D == <<d>>
             E == <<e>>
             v == A \o B
             w == v \o C
             x == w \o D
             y == x \o E
  <1>7. /\ A \in Typed /\ Len(A) = 1 /\ A[1] = a
        /\ B \in Typed /\ Len(B) = 1 /\ B[1] = b
        /\ C \in Typed /\ Len(C) = 1 /\ C[1] = c
        /\ D \in Typed /\ Len(D) = 1 /\ D[1] = d
        /\ E \in Typed /\ Len(E) = 1 /\ E[1] = e
    BY <1>1, <1>2, <1>3, <1>4, Single
  <1> HIDE DEF A, B, C, D, E
  <1>8. v \in Typed /\ Len(v) = 2 /\ v[1] = a /\ v[2] = b
    <2>1. /\ v \in Typed /\ Len(v) = Len(A) + 1
          /\ \A n \in 1 .. Len(A) : v[n] = A[n]
          /\ v[Len(A) + 1] = B[1]
      BY <1>7, Longer
    <2> HIDE DEF v
    <2>2. Len(A) + 1 = 2 /\ \A n \in 1 .. 1 : v[n] = A[n]
      BY <1>7, <2>1
    <2>3. QED
      BY <1>7, <2>1, <2>2
  <1> HIDE DEF v
  <1>9. w \in Typed /\ Len(w) = 3 /\ w[1] = a /\ w[2] = b /\ w[3] = c
    <2>1. /\ w \in Typed /\ Len(w) = Len(v) + 1
          /\ \A n \in 1 .. Len(v) : w[n] = v[n]
          /\ w[Len(v) + 1] = C[1]
      BY <1>7, <1>8, Longer
    <2> HIDE DEF w
    <2>2. Len(v) + 1 = 3 /\ \A n \in 1 .. 2 : w[n] = v[n]
      BY <1>8, <2>1
    <2>3. QED
      BY <1>7, <1>8, <2>1, <2>2
  <1> HIDE DEF w
  <1>10. x \in Typed /\ Len(x) = 4 /\ x[1] = a /\ x[2] = b /\ x[3] = c /\ x[4] = d
    <2>1. /\ x \in Typed /\ Len(x) = Len(w) + 1
          /\ \A n \in 1 .. Len(w) : x[n] = w[n]
          /\ x[Len(w) + 1] = D[1]
      BY <1>7, <1>9, Longer
    <2> HIDE DEF x
    <2>2. Len(w) + 1 = 4 /\ \A n \in 1 .. 3 : x[n] = w[n]
      BY <1>9, <2>1
    <2>3. QED
      BY <1>7, <1>9, <2>1, <2>2
  <1> HIDE DEF x
  <1>11. Len(y) = 5 /\ y[1] = a /\ y[2] = b /\ y[3] = c /\ y[4] = d /\ y[5] = e
    <2>1. /\ y \in Typed /\ Len(y) = Len(x) + 1
          /\ \A n \in 1 .. Len(x) : y[n] = x[n]
          /\ y[Len(x) + 1] = E[1]
      BY <1>7, <1>10, Longer
    <2> HIDE DEF y
    <2>2. Len(x) + 1 = 5 /\ \A n \in 1 .. 4 : y[n] = x[n]
      BY <1>10, <2>1
    <2>3. QED
      BY <1>7, <1>10, <2>1, <2>2
  <1>12. y = nv_falcon_test
    BY <1>6 DEF A, B, C, D, E, v, w, x
  <1> HIDE DEF y
  <1>13. QED
    BY <1>5, <1>11, <1>12

(* A test that has the mailbox to itself: as long as the card lets it       *)
(* through, it knows what to restore; otherwise it has changed nothing.     *)
Alone(p, ts) == others[p] \cap ts = {}

ScratchKept ==
    \A p \in Running :
        tool[p] = "nv_falcon_test" /\ Alone(p, PciTools \cup MailboxTools) =>
            IF Reached(AC000000) /\ ~lockout
            THEN /\ pc[p] <= 2 => regs["MAILBOX0"] = before[p]
                 /\ pc[p] > 1 => local[p]["initial"] = before[p]
            ELSE regs["MAILBOX0"] = before[p]

LEMMA InitScratch == Init => ScratchKept
  BY DEF Init, ScratchKept, Running

(* Reached depends on nothing but the way to the card.                      *)
LEMMA ReachedStays ==
    ASSUME \A r \in Path : regs'[r] = regs[r]
    PROVE  \A base : Reached(base)' = Reached(base)
  BY DEF Path, Reached, InReset

(* A step of a test, alone or not: where it goes, and what it leaves in the *)
(* mailbox.                                                                 *)
LEMMA TestStep ==
    ASSUME TypeOK, ScratchKept, NEW p \in Running, Run(p),
           tool[p] = "nv_falcon_test", Alone(p, PciTools \cup MailboxTools)
    PROVE  /\ Reached(AC000000)' = Reached(AC000000) /\ lockout' = lockout
           /\ IF Reached(AC000000) /\ ~lockout
              THEN /\ pc'[p] = 0 => regs'["MAILBOX0"] = before[p]
                   /\ pc'[p] # 0 => /\ pc'[p] > 1 /\ local'[p]["initial"] = before[p]
                                    /\ pc'[p] <= 2 => regs'["MAILBOX0"] = before[p]
              ELSE regs'["MAILBOX0"] = before[p]
  <1> DEFINE s == nv_falcon_test
             i == Instr(p)
             on == Reached(AC000000) /\ ~lockout
  <1>1. p \in Process /\ pc[p] # 0
    BY DEF Running
  <1>2. i = s[pc[p]] /\ pc[p] \in {1, 2, 3, 4, 5} /\ DOMAIN s = 1 .. 5 /\ i \in Instructions
    <2>1. Program[tool[p]] = s /\ Len(s) = 5
      BY TestProgram DEF Program
    <2> HIDE DEF s
    <2>2. i = s[pc[p]]
      BY <2>1 DEF Instr
    <2>3. pc[p] \in 1 .. 5 /\ DOMAIN s = 1 .. 5 /\ i \in Instructions
      BY <1>1, <2>1, InstrType
    <2>4. QED
      BY <2>2, <2>3
  <1>3. MappedAt(tool[p]) = AC000000
    BY DEF MappedAt
  <1>4. IF on
        THEN /\ pc[p] <= 2 => regs["MAILBOX0"] = before[p]
             /\ pc[p] > 1 => local[p]["initial"] = before[p]
        ELSE regs["MAILBOX0"] = before[p]
    BY DEF ScratchKept
  <1>5. "MAILBOX0" \in Falcon \cup Engine /\ "MAILBOX0" \in Falcon
        /\ "MAILBOX0" \notin refuses \cup {"BOOT_0"} /\ "MAILBOX0" \in Regs
    <2>1. refuses \subseteq Engine
      BY ToolsAssumption DEF TypeOK
    <2>2. "MAILBOX0" \notin Engine /\ "MAILBOX0" \in Falcon
      BY DEF Engine, Falcon
    <2>3. QED
      BY <2>1, <2>2, Names
  <1>6. ASSUME NEW v \in Values, Write(AC000000, "MAILBOX0", v)
        PROVE  /\ Reached(AC000000)' = Reached(AC000000) /\ lockout' = lockout
               /\ regs' = IF on THEN [regs EXCEPT !["MAILBOX0"] = v] ELSE regs
    BY <1>5, <1>6, WriteCard
  <1>7. pc \in [Process -> Nat] /\ local \in [Process -> [Locals -> Values]]
        /\ regs \in [Regs -> Values]
    BY DEF TypeOK, Values
  <1>8. CASE pc[p] = 1
    <2>1. i.op = "load" /\ i.local = "initial" /\ i.reg = "MAILBOX0"
      BY <1>2, <1>8, TestProgram
    <2>2. /\ UNCHANGED card
          /\ pc'[p] # 0 =>
                /\ pc'[p] = 2
                /\ local'[p] = [local[p] EXCEPT !["initial"] =
                                    ReadOf(AC000000, "MAILBOX0")]
      <3>1. /\ UNCHANGED card
            /\ pc'[p] # 0 =>
                  /\ pc'[p] = pc[p] + 1
                  /\ local'[p] = [local[p] EXCEPT ![i.local] =
                                      ReadOf(MappedAt(tool[p]), i.reg)]
        <4>1. i.op = "load"
          BY <2>1
        <4>2. QED
          BY <1>1, <4>1, RunEffects
      <3> HIDE DEF i
      <3>2. QED
        BY <1>3, <1>8, <2>1, <3>1
    <2>3. on => ReadOf(AC000000, "MAILBOX0") = regs["MAILBOX0"]
      BY <1>5, ReachedIs DEF ReadOf
    <2>4. UNCHANGED <<regs, lockout>>
      BY <2>2 DEF card
    <2>5. Reached(AC000000)' = Reached(AC000000)
      BY <2>4 DEF Reached, InReset
    <2>6. pc'[p] # 0 => local'[p]["initial"] = ReadOf(AC000000, "MAILBOX0")
      BY <1>1, <1>7, <2>2, LocalNames
    <2>7. QED
      BY <1>4, <1>8, <2>2, <2>3, <2>4, <2>5, <2>6
  <1>9. CASE pc[p] = 2
    <2>1. i.op = "set" /\ i.reg = "MAILBOX0" /\ i.value \in Values
      <3>1. i.op = "set" /\ i.reg = "MAILBOX0"
        BY <1>2, <1>9, TestProgram
      <3>2. QED
        BY <1>2, <3>1, Fields
    <2>2. /\ Write(AC000000, "MAILBOX0", i.value)
          /\ pc'[p] # 0 => pc'[p] = 3 /\ local'[p] = local[p]
      <3>1. /\ Write(MappedAt(tool[p]), i.reg, i.value)
            /\ pc'[p] # 0 => pc'[p] = pc[p] + 1 /\ local'[p] = local[p]
        <4>1. i.op = "set"
          BY <2>1
        <4>2. QED
          BY <1>1, <4>1, RunEffects
      <3> HIDE DEF i
      <3>2. QED
        BY <1>3, <1>9, <2>1, <3>1
    <2>3. pc'[p] # 0
      <3>1. SetReg(p)
        BY <1>1, <2>1, RunIs
      <3>2. Goto(p, 3)
        BY <1>9, <3>1 DEF SetReg
      <3>3. 3 \in DOMAIN Program[tool[p]]
        BY <1>2 DEF Program
      <3>4. QED
        BY <1>1, <1>7, <3>2, <3>3 DEF Goto, GoWith
    <2>4. QED
      BY <1>4, <1>6, <1>7, <1>9, <2>1, <2>2, <2>3
  <1>10. CASE pc[p] \in {3, 4}
    <2>1. (i.op = "load" /\ i.local = "result") \/ i.op = "report"
      BY <1>2, <1>10, TestProgram
    <2>2. UNCHANGED card
      BY <1>1, <2>1, RunEffects
    <2>3. UNCHANGED <<regs, lockout>>
      BY <2>2 DEF card
    <2>4. Reached(AC000000)' = Reached(AC000000)
      BY <2>3 DEF Reached, InReset
    <2>5. pc'[p] # 0 /\ pc'[p] > 1 /\ ~(pc'[p] <= 2)
      <3>1. \E l : GoWith(p, pc[p] + 1, l)
        BY <1>1, <2>1, RunIs DEF LoadReg, Says, Goto
      <3>2. /\ pc[p] + 1 \in DOMAIN Program[tool[p]]
            /\ pc[p] + 1 # 0 /\ pc[p] + 1 > 1 /\ ~(pc[p] + 1 <= 2)
        BY <1>2, <1>10 DEF Program
      <3>3. QED
        BY <1>1, <1>7, <3>1, <3>2 DEF GoWith
    <2>6. local'[p]["initial"] = local[p]["initial"]
      <3>1. CASE i.op = "load" /\ i.local = "result"
        <4>1. local'[p] = [local[p] EXCEPT ![i.local] =
                               ReadOf(MappedAt(tool[p]), i.reg)]
          BY <1>1, <2>5, <3>1, RunEffects
        <4> HIDE DEF i
        <4>2. QED
          BY <1>1, <1>7, <3>1, <4>1, LocalNames
      <3>2. CASE i.op = "report"
        BY <1>1, <2>5, <3>2, RunEffects
      <3>3. QED
        BY <2>1, <3>1, <3>2
    <2>7. QED
      BY <1>4, <1>10, <2>3, <2>4, <2>5, <2>6
  <1>11. CASE pc[p] = 5
    <2>1. /\ i.op = "put" /\ i.reg = "MAILBOX0" /\ i.local = "initial"
          /\ i.on = {} /\ i.off = {}
      BY <1>2, <1>11, TestProgram
    <2>2. Write(AC000000, "MAILBOX0", Written(p))
      BY <1>1, <1>3, <2>1, RunEffects
    <2>3. Written(p) = local[p]["initial"]
      BY <2>1 DEF Written
    <2>4. local[p]["initial"] \in Values
      BY <1>1, <1>7, LocalNames
    <2>5. pc'[p] = 0
      <3>1. PutReg(p)
        BY <1>1, <2>1, RunIs
      <3>2. Goto(p, 6)
        BY <1>11, <3>1 DEF PutReg
      <3>3. 6 \notin DOMAIN Program[tool[p]]
        BY <1>2 DEF Program
      <3>4. QED
        BY <1>1, <1>7, <3>2, <3>3 DEF Goto, GoWith
    <2>6. QED
      BY <1>4, <1>5, <1>6, <1>7, <1>11, <2>2, <2>3, <2>4, <2>5
  <1>12. QED
    BY <1>2, <1>8, <1>9, <1>10, <1>11

LEMMA NextScratch ==
    TypeOK /\ Known /\ ScratchKept /\ [Next]_vars => ScratchKept'
  <1> SUFFICES ASSUME TypeOK, Known, ScratchKept, [Next]_vars,
                      NEW p \in Running', tool'[p] = "nv_falcon_test",
                      others'[p] \cap (PciTools \cup MailboxTools) = {}
               PROVE  IF Reached(AC000000)' /\ ~lockout'
                      THEN /\ pc'[p] <= 2 => regs'["MAILBOX0"] = before'[p]
                           /\ pc'[p] > 1 => local'[p]["initial"] = before'[p]
                      ELSE regs'["MAILBOX0"] = before'[p]
    BY DEF ScratchKept, Alone
  <1> DEFINE s == Path \cup Releases \cup Mailboxes
             ts == PciTools \cup MailboxTools
  <1>1. /\ s \in SUBSET (Regs \ {"STATUS", "ENABLE", "RESET"}) /\ "ROOT_CONTROL" \in s
        /\ "HOST_KEY" \in s /\ "MAILBOX0" \in s /\ Path \subseteq s
    BY Names DEF Path, Releases, Mailboxes
  <1>2. \A t \in (DOMAIN Program) \ ts : Program[t] \in Avoids(s)
    BY AllAvoid
  <1>3. p \in Process /\ pc'[p] # 0
    BY DEF Running
  <1> HIDE DEF s
  <1>4. CASE OwnRun(p)
    BY <1>3, <1>4, TestStep DEF Alone, OwnRun
  <1>5. CASE JustStarted(p)
    BY <1>5 DEF card, JustStarted
  <1>6. CASE LeftAlone(p, ts, s)
    <2>1. /\ Reached(AC000000)' = Reached(AC000000) /\ lockout' = lockout
          /\ regs'["MAILBOX0"] = regs["MAILBOX0"]
      BY <1>1, <1>6, ReachedStays DEF LeftAlone
    <2>2. QED
      BY <1>6, <2>1 DEF ScratchKept, Alone, LeftAlone
  <1>7. OwnRun(p) \/ JustStarted(p) \/ LeftAlone(p, ts, s)
    <2>1. others'[p] \cap ts = {}
      OBVIOUS
    <2> HIDE DEF ts
    <2>2. QED
      BY <1>1, <1>2, <2>1, Beside
  <1>8. QED
    BY <1>4, <1>5, <1>6, <1>7

(* nv_falcon_test leaves the mailbox as it found it, whatever reads it got  *)
(* and whatever tools ran beside it, but the users of the mailbox and those *)
(* that move the card.                                                      *)
THEOREM TestRestores == Spec => ScratchRestored
  <1>1. TypeOK /\ ScratchKept /\ [Next]_vars =>
            \A p \in Process :
                /\ Steps(p, "nv_falcon_test") /\ pc'[p] = 0
                /\ others[p] \cap (PciTools \cup MailboxTools) = {}
                => regs'["MAILBOX0"] = before[p]
    <2> SUFFICES ASSUME TypeOK, ScratchKept, [Next]_vars, NEW p \in Process,
                        Steps(p, "nv_falcon_test"), pc'[p] = 0,
                        others[p] \cap (PciTools \cup MailboxTools) = {}
                 PROVE  regs'["MAILBOX0"] = before[p]
      OBVIOUS
    <2>1. pc[p] # 0 /\ pc'[p] # pc[p] /\ tool[p] = "nv_falcon_test" /\ p \in Running
      BY DEF Steps, Running
    <2>2. Run(p)
      BY <2>1, OwnStep
    <2>3. QED
      BY <2>1, <2>2, TestStep DEF Alone
  <1>2. Known /\ ScratchKept /\ TypeOK /\ [Next]_vars => (Known /\ ScratchKept)'
    BY NextKnown, NextScratch
  <1>3. Init => Known /\ ScratchKept
    BY InitKnown, InitScratch
  <1>4. QED
    BY <1>1, <1>2, <1>3, TypeCorrect, PTL DEF Spec, ScratchRestored

-----------------------------------------------------------------------------
(* The loader's program.                                                    *)
Updates(u, r) ==
    /\ u \in Typed /\ Len(u) = 2
    /\ u[1].op = "load" /\ u[2].op = "put" /\ u[2].reg = r

LEMMA UpdateShape ==
    ASSUME NEW r \in Regs, NEW on \in Values, NEW off \in SUBSET Int
    PROVE  /\ Updates(Load("rmw", r) \o Put(r, "rmw", on, off), r)
           /\ (Load("rmw", r) \o Put(r, "rmw", on, off))[2].off = off
  <1> DEFINE h == [op |-> "load", local |-> "rmw", reg |-> r]
             k == [op |-> "put", reg |-> r, local |-> "rmw", on |-> on, off |-> off]
             s == <<h>>
             t == <<k>>
             u == s \o t
  <1>1. h \in Instructions /\ k \in Instructions
    BY DEF Instructions, Locals
  <1>2. h.op = "load" /\ k.op = "put" /\ k.reg = r /\ k.off = off
    OBVIOUS
  <1> HIDE DEF h, k
  <1>3. s \in Typed /\ Len(s) = 1 /\ s[1] = h /\ t \in Typed /\ Len(t) = 1 /\ t[1] = k
    BY <1>1, Single
  <1> HIDE DEF s, t
  <1>4. /\ u \in Typed /\ Len(u) = Len(s) + 1
        /\ \A n \in 1 .. Len(s) : u[n] = s[n]
        /\ u[Len(s) + 1] = t[1]
    BY <1>3, Longer
  <1> HIDE DEF u
  <1>5. Len(u) = 2 /\ u[1] = h /\ u[2] = k
    BY <1>3, <1>4
  <1>6. u = Load("rmw", r) \o Put(r, "rmw", on, off)
    BY DEF u, s, t, h, k, Load, Put
  <1>7. Updates(u, r) /\ u[2].off = off
    BY <1>2, <1>4, <1>5 DEF Updates
  <1>8. QED
    BY <1>6, <1>7

LEMMA UpdatesShape ==
    /\ \A r \in Regs, b \in Values : Updates(Or(r, b), r)
    /\ \A r \in Regs, b \in SUBSET Int : Updates(AndNot(r, b), r) /\ AndNot(r, b)[2].off = b
  BY UpdateShape, BitSets, Constants DEF Or, AndNot


LEMMA SetShape ==
    ASSUME NEW r \in Regs, NEW v \in Values
    PROVE  /\ Set(r, v) \in Typed /\ Len(Set(r, v)) = 1
           /\ Set(r, v)[1].op = "set" /\ Set(r, v)[1].reg = r /\ Set(r, v)[1].value = v
  <1> DEFINE h == [op |-> "set", reg |-> r, value |-> v]
  <1>1. h \in Instructions
    BY DEF Instructions
  <1>2. h.op = "set" /\ h.reg = r /\ h.value = v
    OBVIOUS
  <1> HIDE DEF h
  <1>3. <<h>> \in Typed /\ Len(<<h>>) = 1 /\ <<h>>[1] = h
    BY <1>1, Single
  <1>4. Set(r, v) = <<h>>
    BY DEF Set, h
  <1>5. QED
    BY <1>2, <1>3, <1>4

LEMMA ScrubProgram ==
    /\ DeepScrub \in Typed /\ Len(DeepScrub) = 14
    /\ \A n \in {1, 3, 5, 7, 9, 11} : DeepScrub[n].op = "load"
    /\ \A n \in {2, 4, 6, 8, 10, 12} : DeepScrub[n].op = "put"
    /\ \A n \in {13, 14} : DeepScrub[n].op = "set"
    /\ \A n \in {2, 12} : DeepScrub[n].reg = "UNIT_RESET"
    /\ \A n \in {4, 8} : DeepScrub[n].reg = "ENABLE"
    /\ \A n \in {6, 10} : DeepScrub[n].reg = "ENABLE_2"
    /\ DeepScrub[2].off = {31}
    /\ DeepScrub[13].reg = "HOST_KEY" /\ DeepScrub[14].reg = "ELCG_DIS"
  <1> DEFINE a == AndNot("UNIT_RESET", {31})
             b == AndNot("ENABLE", {31})
             c == AndNot("ENABLE_2", {31})
             d == Or("ENABLE", {31})
             e == Or("ENABLE_2", {31})
             f == Or("UNIT_RESET", {31})
             g == Set("HOST_KEY", {0})
             h == Set("ELCG_DIS", Ones)
             s2 == a \o b
             s3 == s2 \o c
             s4 == s3 \o d
             s5 == s4 \o e
             s6 == s5 \o f
             s7 == s6 \o g
             s8 == s7 \o h
  <1>1. {} \in Values /\ {} \in SUBSET Int /\ {31} \in Values /\ {31} \in SUBSET Int
        /\ {0} \in Values /\ Ones \in Values
    BY BitSets, Constants
  <1>2. Updates(a, "UNIT_RESET") /\ a[2].off = {31}
    BY <1>1, UpdatesShape, Names
  <1>3. Updates(b, "ENABLE") /\ Updates(c, "ENABLE_2")
    BY <1>1, UpdatesShape, Names
  <1>4. Updates(d, "ENABLE") /\ Updates(e, "ENABLE_2") /\ Updates(f, "UNIT_RESET")
    BY <1>1, UpdatesShape, Names
  <1>5. /\ a \in Typed /\ b \in Typed /\ c \in Typed /\ d \in Typed /\ e \in Typed
        /\ f \in Typed
    BY <1>2, <1>3, <1>4 DEF Updates
  <1>6. /\ Len(a) = 2 /\ Len(b) = 2 /\ Len(c) = 2 /\ Len(d) = 2 /\ Len(e) = 2
        /\ Len(f) = 2
    BY <1>2, <1>3, <1>4 DEF Updates
  <1>8. /\ g \in Typed /\ Len(g) = 1 /\ g[1].op = "set" /\ g[1].reg = "HOST_KEY"
        /\ h \in Typed /\ Len(h) = 1 /\ h[1].op = "set" /\ h[1].reg = "ELCG_DIS"
    BY <1>1, SetShape, Names
  <1>9. s8 = DeepScrub
    BY DEF DeepScrub
  <1> HIDE DEF a, b, c, d, e, f, g, h
  <1>10. /\ s2 \in Typed /\ Len(s2) = 4
         /\ \A n \in 1 .. 2 : s2[n] = a[n]
         /\ \A n \in 1 .. 2 : s2[2 + n] = b[n]
    <2>1. /\ s2 \in Typed /\ Len(s2) = Len(a) + Len(b)
          /\ \A n \in 1 .. Len(a) : s2[n] = a[n]
          /\ \A n \in 1 .. Len(b) : s2[Len(a) + n] = b[n]
      BY <1>5, <1>8, Concat
    <2> HIDE DEF s2
    <2>2. Len(a) = 2 /\ Len(b) = 2
      BY <1>6, <1>8
    <2>3. QED
      BY <2>1, <2>2
  <1> HIDE DEF s2
  <1>11. /\ s3 \in Typed /\ Len(s3) = 6
         /\ \A n \in 1 .. 4 : s3[n] = s2[n]
         /\ \A n \in 1 .. 2 : s3[4 + n] = c[n]
    <2>1. s2 \in Typed /\ c \in Typed
      BY <1>5, <1>8, <1>10
    <2>2. /\ s3 \in Typed /\ Len(s3) = Len(s2) + Len(c)
          /\ \A n \in 1 .. Len(s2) : s3[n] = s2[n]
          /\ \A n \in 1 .. Len(c) : s3[Len(s2) + n] = c[n]
      BY <2>1, Concat
    <2> HIDE DEF s3
    <2>3. Len(s2) = 4 /\ Len(c) = 2
      BY <1>6, <1>8, <1>10
    <2>4. QED
      BY <2>2, <2>3
  <1> HIDE DEF s3
  <1>12. /\ s4 \in Typed /\ Len(s4) = 8
         /\ \A n \in 1 .. 6 : s4[n] = s3[n]
         /\ \A n \in 1 .. 2 : s4[6 + n] = d[n]
    <2>1. s3 \in Typed /\ d \in Typed
      BY <1>5, <1>8, <1>11
    <2>2. /\ s4 \in Typed /\ Len(s4) = Len(s3) + Len(d)
          /\ \A n \in 1 .. Len(s3) : s4[n] = s3[n]
          /\ \A n \in 1 .. Len(d) : s4[Len(s3) + n] = d[n]
      BY <2>1, Concat
    <2> HIDE DEF s4
    <2>3. Len(s3) = 6 /\ Len(d) = 2
      BY <1>6, <1>8, <1>11
    <2>4. QED
      BY <2>2, <2>3
  <1> HIDE DEF s4
  <1>13. /\ s5 \in Typed /\ Len(s5) = 10
         /\ \A n \in 1 .. 8 : s5[n] = s4[n]
         /\ \A n \in 1 .. 2 : s5[8 + n] = e[n]
    <2>1. s4 \in Typed /\ e \in Typed
      BY <1>5, <1>8, <1>12
    <2>2. /\ s5 \in Typed /\ Len(s5) = Len(s4) + Len(e)
          /\ \A n \in 1 .. Len(s4) : s5[n] = s4[n]
          /\ \A n \in 1 .. Len(e) : s5[Len(s4) + n] = e[n]
      BY <2>1, Concat
    <2> HIDE DEF s5
    <2>3. Len(s4) = 8 /\ Len(e) = 2
      BY <1>6, <1>8, <1>12
    <2>4. QED
      BY <2>2, <2>3
  <1> HIDE DEF s5
  <1>14. /\ s6 \in Typed /\ Len(s6) = 12
         /\ \A n \in 1 .. 10 : s6[n] = s5[n]
         /\ \A n \in 1 .. 2 : s6[10 + n] = f[n]
    <2>1. s5 \in Typed /\ f \in Typed
      BY <1>5, <1>8, <1>13
    <2>2. /\ s6 \in Typed /\ Len(s6) = Len(s5) + Len(f)
          /\ \A n \in 1 .. Len(s5) : s6[n] = s5[n]
          /\ \A n \in 1 .. Len(f) : s6[Len(s5) + n] = f[n]
      BY <2>1, Concat
    <2> HIDE DEF s6
    <2>3. Len(s5) = 10 /\ Len(f) = 2
      BY <1>6, <1>8, <1>13
    <2>4. QED
      BY <2>2, <2>3
  <1> HIDE DEF s6
  <1>15. /\ s7 \in Typed /\ Len(s7) = 13
         /\ \A n \in 1 .. 12 : s7[n] = s6[n]
         /\ \A n \in 1 .. 1 : s7[12 + n] = g[n]
    <2>1. s6 \in Typed /\ g \in Typed
      BY <1>5, <1>8, <1>14
    <2>2. /\ s7 \in Typed /\ Len(s7) = Len(s6) + Len(g)
          /\ \A n \in 1 .. Len(s6) : s7[n] = s6[n]
          /\ \A n \in 1 .. Len(g) : s7[Len(s6) + n] = g[n]
      BY <2>1, Concat
    <2> HIDE DEF s7
    <2>3. Len(s6) = 12 /\ Len(g) = 1
      BY <1>6, <1>8, <1>14
    <2>4. QED
      BY <2>2, <2>3
  <1> HIDE DEF s7
  <1>16. /\ s8 \in Typed /\ Len(s8) = 14
         /\ \A n \in 1 .. 13 : s8[n] = s7[n]
         /\ \A n \in 1 .. 1 : s8[13 + n] = h[n]
    <2>1. s7 \in Typed /\ h \in Typed
      BY <1>5, <1>8, <1>15
    <2>2. /\ s8 \in Typed /\ Len(s8) = Len(s7) + Len(h)
          /\ \A n \in 1 .. Len(s7) : s8[n] = s7[n]
          /\ \A n \in 1 .. Len(h) : s8[Len(s7) + n] = h[n]
      BY <2>1, Concat
    <2> HIDE DEF s8
    <2>3. Len(s7) = 13 /\ Len(h) = 1
      BY <1>6, <1>8, <1>15
    <2>4. QED
      BY <2>2, <2>3
  <1> HIDE DEF s8
  <1>17. /\ s8[1] = a[1] /\ s8[2] = a[2] /\ s8[3] = b[1] /\ s8[4] = b[2]
    BY <1>10, <1>11, <1>12, <1>13, <1>14, <1>15, <1>16
  <1>18. /\ s8[5] = c[1] /\ s8[6] = c[2] /\ s8[7] = d[1] /\ s8[8] = d[2]
    BY <1>11, <1>12, <1>13, <1>14, <1>15, <1>16
  <1>19. /\ s8[9] = e[1] /\ s8[10] = e[2] /\ s8[11] = f[1] /\ s8[12] = f[2]
         /\ s8[13] = g[1] /\ s8[14] = h[1] /\ Len(s8) = 14
    BY <1>13, <1>14, <1>15, <1>16
  <1>20. /\ \A n \in {1, 3, 5, 7, 9, 11} : s8[n].op = "load"
         /\ \A n \in {2, 4, 6, 8, 10, 12} : s8[n].op = "put"
         /\ \A n \in {2, 12} : s8[n].reg = "UNIT_RESET"
         /\ \A n \in {4, 8} : s8[n].reg = "ENABLE"
         /\ \A n \in {6, 10} : s8[n].reg = "ENABLE_2"
         /\ s8[2].off = {31}
    BY <1>2, <1>3, <1>4, <1>17, <1>18, <1>19 DEF Updates
  <1>21. /\ \A n \in {13, 14} : s8[n].op = "set"
         /\ s8[13].reg = "HOST_KEY" /\ s8[14].reg = "ELCG_DIS"
    BY <1>8, <1>19
  <1>22. QED
    BY <1>9, <1>16, <1>20, <1>21

(* Four instructions, however they are put together.                        *)
LEMMA Assoc ==
    ASSUME NEW s \in Typed, NEW t \in Typed, NEW u \in Typed
    PROVE  (s \o t) \o u = s \o (t \o u)
  BY ConcatAssociative DEF Typed

Units == {s \in Typed : Len(s) = 1}

Quad(w, a, b, c, d) ==
    /\ w \in Typed /\ Len(w) = 4
    /\ w[1] = a[1] /\ w[2] = b[1] /\ w[3] = c[1] /\ w[4] = d[1]

LEMMA Four ==
    ASSUME NEW a \in Units, NEW b \in Units, NEW c \in Units, NEW d \in Units
    PROVE  /\ Quad(((a \o b) \o c) \o d, a, b, c, d)
           /\ Quad(a \o (b \o (c \o d)), a, b, c, d)
  <1> DEFINE u == a \o b
             v == u \o c
             w == v \o d
  <1>1. /\ a \in Typed /\ Len(a) = 1 /\ b \in Typed /\ Len(b) = 1
        /\ c \in Typed /\ Len(c) = 1 /\ d \in Typed /\ Len(d) = 1
    BY DEF Units
  <1>2. u \in Typed /\ Len(u) = 2 /\ u[1] = a[1] /\ u[2] = b[1]
    <2>1. /\ u \in Typed /\ Len(u) = Len(a) + 1
          /\ \A n \in 1 .. Len(a) : u[n] = a[n]
          /\ u[Len(a) + 1] = b[1]
      BY <1>1, Longer
    <2> HIDE DEF u
    <2>2. QED
      BY <1>1, <2>1
  <1>3. a \o (b \o (c \o d)) = u \o (c \o d)
    <2>1. c \o d \in Typed
      BY <1>1, Concat
    <2>2. QED
      BY <1>1, <2>1, Assoc
  <1> HIDE DEF u
  <1>4. v \in Typed /\ Len(v) = 3 /\ v[1] = a[1] /\ v[2] = b[1] /\ v[3] = c[1]
    <2>1. /\ v \in Typed /\ Len(v) = Len(u) + 1
          /\ \A n \in 1 .. Len(u) : v[n] = u[n]
          /\ v[Len(u) + 1] = c[1]
      BY <1>1, <1>2, Longer
    <2> HIDE DEF v
    <2>2. QED
      BY <1>2, <2>1
  <1>5. u \o (c \o d) = w
    <2>1. u \in Typed /\ c \in Typed /\ d \in Typed
      BY <1>1, <1>2
    <2>2. (u \o c) \o d = u \o (c \o d)
      BY <2>1, Assoc
    <2>3. QED
      BY <2>2
  <1> HIDE DEF v
  <1>6. /\ w \in Typed /\ Len(w) = 4 /\ w[1] = a[1] /\ w[2] = b[1] /\ w[3] = c[1]
        /\ w[4] = d[1]
    <2>1. /\ w \in Typed /\ Len(w) = Len(v) + 1
          /\ \A n \in 1 .. Len(v) : w[n] = v[n]
          /\ w[Len(v) + 1] = d[1]
      BY <1>1, <1>4, Longer
    <2> HIDE DEF w
    <2>2. QED
      BY <1>4, <2>1
  <1> HIDE DEF w
  <1>7. Quad(w, a, b, c, d) /\ w = ((a \o b) \o c) \o d
    BY <1>6 DEF Quad, w, v, u
  <1>8. QED
    BY <1>3, <1>5, <1>7

LEMMA PulseProgram ==
    /\ PulseCheck \in Typed /\ Len(PulseCheck) = 4
    /\ PulseCheck[1].op = "load"
    /\ PulseCheck[2].op = "only if" /\ PulseCheck[2].length = 2
    /\ PulseCheck[3].op = "load" /\ PulseCheck[4].op = "exit if"
  <1> DEFINE a == [op |-> "load", local |-> "status", reg |-> "BRIDGE"]
             b == [op |-> "only if", cond |-> Among("status", {BADF5040}), length |-> 2]
             c == [op |-> "load", local |-> "falcon_id", reg |-> "FALCON"]
             d == [op |-> "exit if", cond |-> Among("falcon_id", {BADF5040, Ones})]
  <1>1. a \in Instructions /\ c \in Instructions
    BY Names, LocalNames DEF Instructions
  <1>2. b \in Instructions /\ d \in Instructions
    <2>1. /\ Among("status", {BADF5040}) \in Conditions
          /\ Among("falcon_id", {BADF5040, Ones}) \in Conditions
      BY Tests, LocalNames, Constants
    <2>2. QED
      BY <2>1 DEF Instructions
  <1>3. /\ a.op = "load" /\ b.op = "only if" /\ b.length = 2
        /\ c.op = "load" /\ d.op = "exit if"
    OBVIOUS
  <1>4. PulseCheck = <<a>> \o (<<b>> \o (<<c>> \o <<d>>))
    <2> DEFINE body == Load("falcon_id", "FALCON")
                       \o ExitIf(Among("falcon_id", {BADF5040, Ones}))
    <2>1. Len(body) = 2
      <3>1. body = <<c>> \o <<d>>
        BY DEF Load, ExitIf
      <3> HIDE DEF c, d, body
      <3>2. <<c>> \in Typed /\ Len(<<c>>) = 1 /\ <<d>> \in Typed /\ Len(<<d>>) = 1
        BY <1>1, <1>2, Single
      <3> DEFINE s == <<c>>
                 t == <<d>>
      <3>3. s \in Typed /\ Len(s) = 1 /\ t \in Typed /\ Len(t) = 1
        BY <3>2
      <3> HIDE DEF s, t
      <3>4. Len(s \o t) = 2
        BY <3>3, Longer
      <3>5. QED
        BY <3>1, <3>4 DEF s, t
    <2>2. PulseCheck = <<a>> \o (<<[op |-> "only if", cond |-> Among("status", {BADF5040}),
                                   length |-> Len(body)]>> \o body)
      BY DEF PulseCheck, OnlyIf, Load
    <2>3. body = <<c>> \o <<d>>
      BY DEF Load, ExitIf
    <2> HIDE DEF body
    <2>4. QED
      BY <2>1, <2>2, <2>3
  <1> HIDE DEF a, b, c, d
  <1> DEFINE A == <<a>>
             B == <<b>>
             C == <<c>>
             D == <<d>>
  <1>5. /\ A \in Typed /\ Len(A) = 1 /\ A[1] = a
        /\ B \in Typed /\ Len(B) = 1 /\ B[1] = b
        /\ C \in Typed /\ Len(C) = 1 /\ C[1] = c
        /\ D \in Typed /\ Len(D) = 1 /\ D[1] = d
    BY <1>1, <1>2, Single
  <1>6. PulseCheck = A \o (B \o (C \o D))
    BY <1>4
  <1> HIDE DEF A, B, C, D
  <1>7. /\ PulseCheck \in Typed /\ Len(PulseCheck) = 4
        /\ PulseCheck[1] = a /\ PulseCheck[2] = b /\ PulseCheck[3] = c /\ PulseCheck[4] = d
    <2>1. A \in Units /\ B \in Units /\ C \in Units /\ D \in Units
      BY <1>5 DEF Units
    <2>2. Quad(A \o (B \o (C \o D)), A, B, C, D)
      BY <2>1, Four
    <2>3. Quad(PulseCheck, A, B, C, D)
      BY <2>2, <1>6
    <2>4. QED
      BY <2>3, <1>5 DEF Quad
  <1>8. QED
    BY <1>3, <1>7

LEMMA FirmwareProgram ==
    /\ LoadFirmware \in Typed /\ Len(LoadFirmware) = 4
    /\ LoadFirmware[1].op = "may stop" /\ LoadFirmware[2].op = "may stop"
    /\ LoadFirmware[3].op = "copy" /\ LoadFirmware[3].what = "manifest"
    /\ LoadFirmware[4].op = "copy" /\ LoadFirmware[4].what = "firmware"
  <1> DEFINE a == [op |-> "may stop"]
             b == [op |-> "copy", what |-> "manifest"]
             c == [op |-> "copy", what |-> "firmware"]
  <1>1. a \in Instructions /\ b \in Instructions /\ c \in Instructions
    BY DEF Instructions
  <1>2. /\ a.op = "may stop" /\ b.op = "copy" /\ b.what = "manifest"
        /\ c.op = "copy" /\ c.what = "firmware"
    OBVIOUS
  <1>3. MayStop = <<a>> /\ Copy("manifest") = <<b>> /\ Copy("firmware") = <<c>>
    BY DEF MayStop, Copy
  <1> HIDE DEF a, b, c
  <1> DEFINE A == MayStop
             B == Copy("manifest")
             C == Copy("firmware")
  <1>4. /\ A \in Typed /\ Len(A) = 1 /\ A[1] = a
        /\ B \in Typed /\ Len(B) = 1 /\ B[1] = b
        /\ C \in Typed /\ Len(C) = 1 /\ C[1] = c
    BY <1>1, <1>3, Single
  <1>5. LoadFirmware = ((A \o A) \o B) \o C
    BY DEF LoadFirmware
  <1> HIDE DEF A, B, C
  <1>6. /\ LoadFirmware \in Typed /\ Len(LoadFirmware) = 4
        /\ LoadFirmware[1] = a /\ LoadFirmware[2] = a
        /\ LoadFirmware[3] = b /\ LoadFirmware[4] = c
    <2>1. A \in Units /\ A \in Units /\ B \in Units /\ C \in Units
      BY <1>4 DEF Units
    <2>2. Quad(((A \o A) \o B) \o C, A, A, B, C)
      BY <2>1, Four
    <2>3. Quad(LoadFirmware, A, A, B, C)
      BY <2>2, <1>5
    <2>4. QED
      BY <2>3, <1>4 DEF Quad
  <1>7. QED
    BY <1>2, <1>6

LEMMA ShootProgram ==
    /\ PointAndShoot \in Typed /\ Len(PointAndShoot) = 4
    /\ \A n \in 1 .. 4 : PointAndShoot[n].op = "set"
    /\ PointAndShoot[1].reg = "MAILBOX0" /\ PointAndShoot[1].value = MANIFEST_AT
    /\ PointAndShoot[2].reg = "MAILBOX1" /\ PointAndShoot[2].value = {}
    /\ PointAndShoot[3].reg = "OS" /\ PointAndShoot[3].value = {0}
    /\ PointAndShoot[4].reg = "CPUCTL"
  <1> DEFINE A == Set("MAILBOX0", MANIFEST_AT)
             B == Set("MAILBOX1", {})
             C == Set("OS", {0})
             D == Set("CPUCTL", {0})
  <1>1. /\ MANIFEST_AT \in Values /\ {} \in Values /\ {0} \in Values
    BY BitSets, Constants
  <1>2. /\ A \in Typed /\ Len(A) = 1 /\ A[1].op = "set" /\ A[1].reg = "MAILBOX0"
        /\ A[1].value = MANIFEST_AT
    BY <1>1, SetShape, Names
  <1>3. /\ B \in Typed /\ Len(B) = 1 /\ B[1].op = "set" /\ B[1].reg = "MAILBOX1"
        /\ B[1].value = {}
    BY <1>1, SetShape, Names
  <1>4. /\ C \in Typed /\ Len(C) = 1 /\ C[1].op = "set" /\ C[1].reg = "OS"
        /\ C[1].value = {0}
    BY <1>1, SetShape, Names
  <1>5. D \in Typed /\ Len(D) = 1 /\ D[1].op = "set" /\ D[1].reg = "CPUCTL"
    BY <1>1, SetShape, Names
  <1>6. PointAndShoot = ((A \o B) \o C) \o D
    BY DEF PointAndShoot
  <1> HIDE DEF A, B, C, D
  <1>7. /\ PointAndShoot \in Typed /\ Len(PointAndShoot) = 4
        /\ PointAndShoot[1] = A[1] /\ PointAndShoot[2] = B[1]
        /\ PointAndShoot[3] = C[1] /\ PointAndShoot[4] = D[1]
    <2>1. A \in Units /\ B \in Units /\ C \in Units /\ D \in Units
      BY <1>2, <1>3, <1>4, <1>5 DEF Units
    <2>2. Quad(((A \o B) \o C) \o D, A, B, C, D)
      BY <2>1, Four
    <2>3. Quad(PointAndShoot, A, B, C, D)
      BY <2>2, <1>6
    <2>4. QED
      BY <2>3, <1>2, <1>3, <1>4, <1>5 DEF Quad
  <1>8. \A n \in 1 .. 4 : n = 1 \/ n = 2 \/ n = 3 \/ n = 4
    OBVIOUS
  <1>9. QED
    BY <1>2, <1>3, <1>4, <1>5, <1>7, <1>8

(* The loader's twenty-six instructions.                                    *)
LoaderShape(s) ==
    /\ Len(s) = 26
    /\ \A n \in {1, 3, 5, 7, 9, 11, 15, 17} : s[n].op = "load"
    /\ \A n \in {2, 4, 6, 8, 10, 12} : s[n].op = "put"
    /\ \A n \in {13, 14, 23, 24, 25, 26} : s[n].op = "set"
    /\ \A n \in {2, 12} : s[n].reg = "UNIT_RESET"
    /\ \A n \in {4, 8} : s[n].reg = "ENABLE"
    /\ \A n \in {6, 10} : s[n].reg = "ENABLE_2"
    /\ s[2].off = {31}
    /\ s[13].reg = "HOST_KEY" /\ s[14].reg = "ELCG_DIS"
    /\ s[16].op = "only if" /\ s[16].length = 2
    /\ s[18].op = "exit if"
    /\ s[19].op = "may stop" /\ s[20].op = "may stop"
    /\ s[21].op = "copy" /\ s[21].what = "manifest"
    /\ s[22].op = "copy" /\ s[22].what = "firmware"
    /\ s[23].reg = "MAILBOX0" /\ s[23].value = MANIFEST_AT
    /\ s[24].reg = "MAILBOX1" /\ s[24].value = {}
    /\ s[25].reg = "OS" /\ s[25].value = {0}
    /\ s[26].reg = "CPUCTL"

LEMMA LoaderProgram == LoaderShape(nv_load_gsp)
  <1> DEFINE s == DeepScrub
             u == s \o PulseCheck
             v == u \o LoadFirmware
             w == v \o PointAndShoot
  <1>1. w = nv_load_gsp
    BY DEF nv_load_gsp
  <1>2. /\ s \in Typed /\ PulseCheck \in Typed /\ LoadFirmware \in Typed
        /\ PointAndShoot \in Typed /\ Len(s) = 14 /\ Len(PulseCheck) = 4
        /\ Len(LoadFirmware) = 4 /\ Len(PointAndShoot) = 4
    BY ScrubProgram, PulseProgram, FirmwareProgram, ShootProgram
  <1> HIDE DEF s
  <1>3. /\ u \in Typed /\ Len(u) = 18
        /\ \A n \in 1 .. 14 : u[n] = s[n]
        /\ \A n \in 1 .. 4 : u[14 + n] = PulseCheck[n]
    <2>1. /\ u \in Typed /\ Len(u) = Len(s) + Len(PulseCheck)
          /\ \A n \in 1 .. Len(s) : u[n] = s[n]
          /\ \A n \in 1 .. Len(PulseCheck) : u[Len(s) + n] = PulseCheck[n]
      BY <1>2, Concat
    <2> HIDE DEF u
    <2>2. QED
      BY <1>2, <2>1
  <1> HIDE DEF u
  <1>4. /\ v \in Typed /\ Len(v) = 22
        /\ \A n \in 1 .. 18 : v[n] = u[n]
        /\ \A n \in 1 .. 4 : v[18 + n] = LoadFirmware[n]
    <2>1. u \in Typed /\ Len(u) = 18
      BY <1>3
    <2>2. /\ v \in Typed /\ Len(v) = Len(u) + Len(LoadFirmware)
          /\ \A n \in 1 .. Len(u) : v[n] = u[n]
          /\ \A n \in 1 .. Len(LoadFirmware) : v[Len(u) + n] = LoadFirmware[n]
      BY <1>2, <2>1, Concat
    <2> HIDE DEF v
    <2>3. QED
      BY <1>2, <2>1, <2>2
  <1> HIDE DEF v
  <1>5. /\ Len(w) = 26
        /\ \A n \in 1 .. 22 : w[n] = v[n]
        /\ \A n \in 1 .. 4 : w[22 + n] = PointAndShoot[n]
    <2>1. v \in Typed /\ Len(v) = 22
      BY <1>4
    <2>2. /\ w \in Typed /\ Len(w) = Len(v) + Len(PointAndShoot)
          /\ \A n \in 1 .. Len(v) : w[n] = v[n]
          /\ \A n \in 1 .. Len(PointAndShoot) : w[Len(v) + n] = PointAndShoot[n]
      BY <1>2, <2>1, Concat
    <2> HIDE DEF w
    <2>3. QED
      BY <1>2, <2>1, <2>2
  <1> HIDE DEF w
  <1>6. \A n \in 1 .. 14 : w[n] = DeepScrub[n]
    BY <1>3, <1>4, <1>5 DEF s
  <1>7. /\ w[15] = PulseCheck[1] /\ w[16] = PulseCheck[2] /\ w[17] = PulseCheck[3]
        /\ w[18] = PulseCheck[4]
    BY <1>3, <1>4, <1>5
  <1>8. /\ w[19] = LoadFirmware[1] /\ w[20] = LoadFirmware[2]
        /\ w[21] = LoadFirmware[3] /\ w[22] = LoadFirmware[4]
    BY <1>4, <1>5
  <1>9. /\ w[23] = PointAndShoot[1] /\ w[24] = PointAndShoot[2]
        /\ w[25] = PointAndShoot[3] /\ w[26] = PointAndShoot[4]
    BY <1>5
  <1>10. /\ \A n \in {1, 3, 5, 7, 9, 11} : w[n].op = "load"
         /\ \A n \in {2, 4, 6, 8, 10, 12} : w[n].op = "put"
         /\ \A n \in {13, 14} : w[n].op = "set"
         /\ \A n \in {2, 12} : w[n].reg = "UNIT_RESET"
         /\ \A n \in {4, 8} : w[n].reg = "ENABLE"
         /\ \A n \in {6, 10} : w[n].reg = "ENABLE_2"
         /\ w[2].off = {31} /\ w[13].reg = "HOST_KEY" /\ w[14].reg = "ELCG_DIS"
    BY <1>6, ScrubProgram
  <1>11. /\ \A n \in {23, 24, 25, 26} : w[n].op = "set"
         /\ w[23].reg = "MAILBOX0" /\ w[23].value = MANIFEST_AT
         /\ w[24].reg = "MAILBOX1" /\ w[24].value = {}
         /\ w[25].reg = "OS" /\ w[25].value = {0} /\ w[26].reg = "CPUCTL"
    BY <1>9, ShootProgram
  <1>12. /\ \A n \in {15, 17} : w[n].op = "load"
         /\ w[16].op = "only if" /\ w[16].length = 2 /\ w[18].op = "exit if"
    BY <1>7, PulseProgram
  <1>13. /\ w[19].op = "may stop" /\ w[20].op = "may stop"
         /\ w[21].op = "copy" /\ w[21].what = "manifest"
         /\ w[22].op = "copy" /\ w[22].what = "firmware"
    BY <1>8, FirmwareProgram
  <1>14. \A n \in {1, 3, 5, 7, 9, 11, 15, 17} : w[n].op = "load"
    BY <1>10, <1>12
  <1>15. \A n \in {13, 14, 23, 24, 25, 26} : w[n].op = "set"
    BY <1>10, <1>11
  <1>16. Len(w) = 26
    BY <1>5
  <1>17. LoaderShape(w)
    BY <1>10, <1>11, <1>12, <1>13, <1>14, <1>15, <1>16 DEF LoaderShape
  <1>18. QED
    BY <1>1, <1>17

-----------------------------------------------------------------------------
(* The loader's steps.                                                      *)
Puts == {2, 4, 6, 8, 10, 12}
Sets == {13, 14, 23, 24, 25, 26}
Others == {1, 3, 5, 7, 9, 11, 15, 16, 17, 18, 19, 20, 21, 22}

LEMMA LoaderOps ==
    ASSUME NEW n \in 1 .. 26
    PROVE  /\ n \in Puts => nv_load_gsp[n].op = "put"
           /\ n \in Sets => nv_load_gsp[n].op = "set"
           /\ n \in Others \ {16} => nv_load_gsp[n].op \in {"load", "exit if", "may stop", "copy"}
           /\ n = 16 => nv_load_gsp[n].op = "only if" /\ nv_load_gsp[n].length = 2
           /\ n = 21 => nv_load_gsp[n].op = "copy" /\ nv_load_gsp[n].what = "manifest"
           /\ n = 22 => nv_load_gsp[n].op = "copy" /\ nv_load_gsp[n].what = "firmware"
  <1> DEFINE s == nv_load_gsp
  <1>1. LoaderShape(s)
    BY LoaderProgram
  <1> HIDE DEF s
  <1>2. n \in Puts => s[n].op = "put"
    <2>1. \A m \in {2, 4, 6, 8, 10, 12} : s[m].op = "put"
      BY <1>1 DEF LoaderShape
    <2>2. QED
      BY <2>1 DEF Puts
  <1>3. n \in Sets => s[n].op = "set"
    <2>1. \A m \in {13, 14, 23, 24, 25, 26} : s[m].op = "set"
      BY <1>1 DEF LoaderShape
    <2>2. QED
      BY <2>1 DEF Sets
  <1>4. n \in Others \ {16} => s[n].op \in {"load", "exit if", "may stop", "copy"}
    <2>1. /\ \A m \in {1, 3, 5, 7, 9, 11, 15, 17} : s[m].op = "load"
          /\ s[18].op = "exit if" /\ s[19].op = "may stop" /\ s[20].op = "may stop"
          /\ s[21].op = "copy" /\ s[22].op = "copy"
      BY <1>1 DEF LoaderShape
    <2>2. QED
      BY <2>1 DEF Others
  <1>5. /\ n = 16 => s[n].op = "only if" /\ s[n].length = 2
        /\ n = 21 => s[n].op = "copy" /\ s[n].what = "manifest"
        /\ n = 22 => s[n].op = "copy" /\ s[n].what = "firmware"
    <2>1. /\ s[16].op = "only if" /\ s[16].length = 2
          /\ s[21].op = "copy" /\ s[21].what = "manifest"
          /\ s[22].op = "copy" /\ s[22].what = "firmware"
      BY <1>1 DEF LoaderShape
    <2>2. QED
      BY <2>1
  <1>6. QED
    BY <1>2, <1>3, <1>4, <1>5 DEF s

LEMMA LoaderRegs ==
    ASSUME NEW n \in 1 .. 26
    PROVE  /\ n \in {2, 12} => nv_load_gsp[n].reg = "UNIT_RESET"
           /\ n \in {4, 8} => nv_load_gsp[n].reg = "ENABLE"
           /\ n \in {6, 10} => nv_load_gsp[n].reg = "ENABLE_2"
           /\ n = 13 => nv_load_gsp[n].reg = "HOST_KEY"
           /\ n = 14 => nv_load_gsp[n].reg = "ELCG_DIS"
           /\ n = 23 => nv_load_gsp[n].reg = "MAILBOX0" /\ nv_load_gsp[n].value = MANIFEST_AT
           /\ n = 24 => nv_load_gsp[n].reg = "MAILBOX1" /\ nv_load_gsp[n].value = {}
           /\ n = 25 => nv_load_gsp[n].reg = "OS" /\ nv_load_gsp[n].value = {0}
           /\ n = 26 => nv_load_gsp[n].reg = "CPUCTL"
           /\ n = 2 => nv_load_gsp[n].off = {31}
  <1> DEFINE s == nv_load_gsp
  <1>1. LoaderShape(s)
    BY LoaderProgram
  <1> HIDE DEF s
  <1>2. /\ \A m \in {2, 12} : s[m].reg = "UNIT_RESET"
        /\ \A m \in {4, 8} : s[m].reg = "ENABLE"
        /\ \A m \in {6, 10} : s[m].reg = "ENABLE_2"
    BY <1>1 DEF LoaderShape
  <1>3. /\ s[2].off = {31}
        /\ s[13].reg = "HOST_KEY" /\ s[14].reg = "ELCG_DIS"
        /\ s[23].reg = "MAILBOX0" /\ s[23].value = MANIFEST_AT
        /\ s[24].reg = "MAILBOX1" /\ s[24].value = {}
        /\ s[25].reg = "OS" /\ s[25].value = {0}
        /\ s[26].reg = "CPUCTL"
    BY <1>1 DEF LoaderShape
  <1>4. QED
    BY <1>2, <1>3 DEF s

LEMMA LoaderAt ==
    ASSUME TypeOK, NEW p \in Process, pc[p] # 0, tool[p] = "nv_load_gsp"
    PROVE  /\ Instr(p) = nv_load_gsp[pc[p]] /\ Instr(p) \in Instructions
           /\ pc[p] \in 1 .. 26 /\ DOMAIN Program[tool[p]] = 1 .. 26
           /\ MappedAt(tool[p]) = AD000000
  <1> DEFINE s == nv_load_gsp
  <1>1. Program[tool[p]] = s
    <2>1. Program["nv_load_gsp"] = s
      BY DEF Program
    <2>2. QED
      BY <2>1
  <1>2. Len(s) = 26
    BY LoaderProgram DEF LoaderShape
  <1> HIDE DEF s
  <1>3. Instr(p) = s[pc[p]]
    BY <1>1 DEF Instr
  <1>4. /\ pc[p] \in 1 .. Len(Program[tool[p]])
        /\ DOMAIN Program[tool[p]] = 1 .. Len(Program[tool[p]])
        /\ Instr(p) \in Instructions
    BY InstrType
  <1>5. MappedAt(tool[p]) = AD000000
    BY DEF MappedAt
  <1>6. QED
    BY <1>1, <1>2, <1>3, <1>4, <1>5 DEF s

(* What the loader's instructions write.                                    *)
Stored(p) == IF Instr(p).op = "set" THEN Instr(p).value ELSE Written(p)

LEMMA LoaderStep ==
    ASSUME TypeOK, NEW p \in Process, Run(p), tool[p] = "nv_load_gsp"
    PROVE  /\ \A b : Reached(b)' = Reached(b)
           /\ pc[p] \in Puts \cup Sets =>
                 /\ Instr(p).reg \in Falcon \cup Engine /\ Stored(p) \in Values
                 /\ regs' = IF /\ Reached(AD000000)
                               /\ Instr(p).reg \in Falcon => ~lockout
                               /\ Instr(p).reg \notin refuses \cup {"BOOT_0"}
                            THEN [regs EXCEPT ![Instr(p).reg] = Stored(p)] ELSE regs
                 /\ Instr(p).reg # "HOST_KEY" => lockout' = lockout
           /\ pc[p] \notin Puts \cup Sets => UNCHANGED <<regs, lockout>>
           /\ refuses' = refuses
  <1> DEFINE i == Instr(p)
             s == nv_load_gsp
  <1>1. /\ i = s[pc[p]] /\ i \in Instructions /\ pc[p] \in 1 .. 26
        /\ MappedAt(tool[p]) = AD000000 /\ pc[p] # 0
    BY RunGoes, LoaderAt
  <1> HIDE DEF s
  <1>3. CASE pc[p] \in Puts \cup Sets
    <2>1. /\ i.op \in {"put", "set"}
          /\ i.reg \in {"UNIT_RESET", "ENABLE", "ENABLE_2", "HOST_KEY", "ELCG_DIS",
                        "MAILBOX0", "MAILBOX1", "OS", "CPUCTL"}
      <3> HIDE DEF i
      <3>1. pc[p] \in Puts => i.op = "put" /\ i.reg \in {"UNIT_RESET", "ENABLE", "ENABLE_2"}
        BY <1>1, LoaderOps, LoaderRegs DEF s, Puts
      <3>2. pc[p] \in Sets => /\ i.op = "set"
                              /\ i.reg \in {"HOST_KEY", "ELCG_DIS",
                                            "MAILBOX0", "MAILBOX1", "OS", "CPUCTL"}
        BY <1>1, LoaderOps, LoaderRegs DEF s, Sets
      <3>3. QED
        BY <1>3, <3>1, <3>2
    <2>2. i.reg \in Falcon \cup Engine
      BY <2>1 DEF Falcon, Engine
    <2>3. Write(AD000000, i.reg, Stored(p))
      <3>1. CASE i.op = "set"
        BY <1>1, <3>1, RunEffects DEF Stored
      <3>2. CASE i.op = "put"
        BY <1>1, <3>2, RunEffects DEF Stored
      <3>3. QED
        BY <2>1, <3>1, <3>2
    <2>4. Stored(p) \in Values
      <3>1. CASE i.op = "set"
        BY <1>1, <3>1, Fields DEF Stored
      <3>2. CASE i.op = "put"
        BY <1>1, <3>2, WrittenType DEF Stored
      <3>3. QED
        BY <2>1, <3>1, <3>2
    <2> HIDE DEF i
    <2>5. QED
      BY <1>3, <2>2, <2>3, <2>4, WriteCard DEF i
  <1>4. CASE pc[p] \notin Puts \cup Sets
    <2>1. i.op \in {"load", "copy", "only if", "exit if", "may stop"}
      <3> HIDE DEF i
      <3>1. pc[p] \in Others
        BY <1>1, <1>4 DEF Puts, Sets, Others
      <3>2. QED
        BY <1>1, <3>1, LoaderOps DEF s
    <2>2. UNCHANGED <<regs, lockout, refuses>>
      BY <1>1, <2>1, RunEffects DEF card
    <2>3. \A b : Reached(b)' = Reached(b)
      BY <2>2 DEF Reached, InReset
    <2>4. QED
      BY <1>4, <2>2, <2>3
  <1>5. QED
    BY <1>3, <1>4

LEMMA LoaderGoes ==
    ASSUME TypeOK, NEW p \in Process, Run(p), tool[p] = "nv_load_gsp", pc'[p] # 0
    PROVE  /\ pc'[p] = pc[p] + 1 \/ (pc[p] = 16 /\ pc'[p] = 19)
           /\ pc'[p] \in 1 .. 26
  <1> DEFINE i == Instr(p)
             s == nv_load_gsp
  <1>1. /\ i = s[pc[p]] /\ pc[p] \in 1 .. 26 /\ pc[p] # 0
        /\ DOMAIN Program[tool[p]] = 1 .. 26
    BY RunGoes, LoaderAt
  <1> HIDE DEF s
  <1>3. CASE pc[p] = 16
    <2>1. i.op = "only if" /\ i.length = 2
      <3> HIDE DEF i
      <3>1. QED
        BY <1>1, <1>3, LoaderOps DEF s
    <2>2. pc'[p] \in {pc[p] + 1, pc[p] + 1 + i.length}
      BY <1>1, <2>1, RunEffects
    <2> HIDE DEF i
    <2>3. pc[p] + 1 = 17 /\ pc[p] + 1 + i.length = 19
      <3>1. /\ pc[p] = 16
            /\ i.length = 2
        BY <1>3, <2>1
      <3>2. 16 + 1 = 17 /\ 16 + 1 + 2 = 19
        OBVIOUS
      <3>3. QED
        BY <3>1, <3>2, Zenon
    <2>4. pc'[p] \in {17, 19}
      BY <2>2, <2>3
    <2>5. QED
      BY <1>3, <2>4
  <1>4. CASE pc[p] # 16
    <2>1. i.op \in {"load", "set", "put", "copy", "exit if", "may stop"}
      <3> HIDE DEF i
      <3>1. pc[p] \in Others \ {16} \/ pc[p] \in Puts \/ pc[p] \in Sets
        BY <1>1, <1>4 DEF Puts, Sets, Others
      <3>2. QED
        BY <1>1, <3>1, LoaderOps DEF s
    <2>2. pc'[p] = pc[p] + 1
      BY <1>1, <2>1, RunEffects
    <2>3. pc'[p] \in 1 .. 26
      <3>1. p \in Running' /\ TypeOK' /\ tool' = tool
        BY RunType, RunGoes DEF Running
      <3>2. pc'[p] \in DOMAIN Program[tool[p]]
        BY <3>1 DEF TypeOK
      <3>3. QED
        BY <1>1, <3>2
    <2>4. QED
      BY <2>2, <2>3
  <1>5. QED
    BY <1>3, <1>4

(* While the loader works on the power switches, the GSP is held in reset.  *)
UnitHeld ==
    \A p \in Running :
        /\ tool[p] = "nv_load_gsp" /\ Alone(p, PciTools \cup {"nv_load_gsp"})
        /\ "UNIT_RESET" \notin refuses /\ pc[p] \in 3 .. 11 /\ Reached(AD000000)
        => 31 \notin regs["UNIT_RESET"]

LEMMA InitHeld == Init => UnitHeld
  BY DEF Init, UnitHeld, Running

LEMMA LoaderHolds ==
    ASSUME TypeOK, UnitHeld, NEW p \in Running, Run(p),
           tool[p] = "nv_load_gsp", Alone(p, PciTools \cup {"nv_load_gsp"}),
           "UNIT_RESET" \notin refuses, pc'[p] \in 3 .. 11, Reached(AD000000)'
    PROVE  31 \notin regs'["UNIT_RESET"]
  <1> DEFINE i == Instr(p)
             s == nv_load_gsp
  <1>1. p \in Process /\ pc[p] # 0 /\ pc'[p] # 0
    BY DEF Running
  <1>2. i = s[pc[p]] /\ pc[p] \in 1 .. 26
    BY <1>1, LoaderAt
  <1>3. pc[p] = 2 \/ pc[p] \in 3 .. 10
    BY <1>1, <1>2, LoaderGoes
  <1>4. Reached(AD000000)
    BY <1>1, LoaderStep
  <1> HIDE DEF s
  <1>6. regs \in [Regs -> Values] /\ "UNIT_RESET" \in Regs
    BY Names DEF TypeOK, Values
  <1>7. CASE pc[p] = 2
    <2>1. i.op = "put" /\ i.reg = "UNIT_RESET" /\ i.off = {31}
      <3> HIDE DEF i
      <3>1. QED
        BY <1>2, <1>7, LoaderOps, LoaderRegs DEF s, Puts
    <2>2. 31 \notin Stored(p)
      BY <2>1 DEF Stored, Written
    <2>3. regs' = [regs EXCEPT !["UNIT_RESET"] = Stored(p)]
      <3>1. "UNIT_RESET" \notin Falcon /\ "UNIT_RESET" \notin refuses \cup {"BOOT_0"}
        BY DEF Falcon
      <3>2. regs' = IF /\ Reached(AD000000) /\ (i.reg \in Falcon => ~lockout)
                       /\ i.reg \notin refuses \cup {"BOOT_0"}
                    THEN [regs EXCEPT ![i.reg] = Stored(p)] ELSE regs
        BY <1>1, <1>7, LoaderStep DEF Puts
      <3> HIDE DEF i
      <3>3. QED
        BY <1>4, <2>1, <3>1, <3>2
    <2>4. QED
      BY <1>6, <2>2, <2>3
  <1>8. CASE pc[p] \in 3 .. 10
    <2>1. 31 \notin regs["UNIT_RESET"]
      BY <1>4, <1>8 DEF UnitHeld
    <2>2. regs'["UNIT_RESET"] = regs["UNIT_RESET"]
      <3>1. CASE pc[p] \in {4, 6, 8, 10}
        <4>1. i.reg \in {"ENABLE", "ENABLE_2"}
          <5> HIDE DEF i
          <5>1. QED
            BY <1>2, <3>1, LoaderRegs DEF s
        <4>2. regs' = regs \/ regs' = [regs EXCEPT ![i.reg] = Stored(p)]
          BY <1>1, <3>1, LoaderStep DEF Puts
        <4> HIDE DEF i
        <4>3. QED
          BY <1>6, <4>1, <4>2
      <3>2. CASE pc[p] \notin {4, 6, 8, 10}
        <4>1. pc[p] \notin Puts \cup Sets
          BY <1>8, <3>2 DEF Puts, Sets
        <4>2. QED
          BY <1>1, <4>1, LoaderStep
      <3>3. QED
        BY <3>1, <3>2
    <2>3. QED
      BY <2>1, <2>2
  <1>9. QED
    BY <1>3, <1>7, <1>8

LEMMA NextHeld == TypeOK /\ Known /\ UnitHeld /\ [Next]_vars => UnitHeld'
  <1> SUFFICES ASSUME TypeOK, Known, UnitHeld, [Next]_vars,
                      NEW p \in Running', tool'[p] = "nv_load_gsp",
                      others'[p] \cap (PciTools \cup {"nv_load_gsp"}) = {},
                      "UNIT_RESET" \notin refuses', pc'[p] \in 3 .. 11, Reached(AD000000)'
               PROVE  31 \notin regs'["UNIT_RESET"]
    BY DEF UnitHeld, Alone
  <1> DEFINE s == Path \cup Releases
             ts == PciTools \cup {"nv_load_gsp"}
  <1>1. /\ s \in SUBSET (Regs \ {"STATUS", "ENABLE", "RESET"}) /\ "ROOT_CONTROL" \in s
        /\ "UNIT_RESET" \in s /\ Path \subseteq s
    BY Names DEF Path, Releases
  <1>2. \A t \in (DOMAIN Program) \ ts : Program[t] \in Avoids(s)
    BY AllAvoid
  <1> HIDE DEF s
  <1>3. CASE OwnRun(p)
    <2>1. p \in Process /\ refuses' = refuses
      BY <1>3, LoaderStep DEF OwnRun, Running
    <2>2. QED
      BY <1>3, <2>1, LoaderHolds DEF Alone, OwnRun
  <1>4. CASE JustStarted(p)
    BY <1>4 DEF JustStarted
  <1>5. CASE LeftAlone(p, ts, s)
    <2>1. Reached(AD000000)' = Reached(AD000000)
      BY <1>1, <1>5, ReachedStays DEF LeftAlone
    <2>2. QED
      BY <1>1, <1>5, <2>1 DEF UnitHeld, Alone, LeftAlone
  <1>6. OwnRun(p) \/ JustStarted(p) \/ LeftAlone(p, ts, s)
    <2>1. others'[p] \cap ts = {}
      OBVIOUS
    <2> HIDE DEF ts
    <2>2. QED
      BY <1>1, <1>2, <2>1, Beside
  <1>7. QED
    BY <1>3, <1>4, <1>5, <1>6

(* The loader switches the GSP's power only while its reset is held,        *)
(* whatever tools run beside it, but another loader and those that move the *)
(* card, if the register of the reset takes writes.                         *)
THEOREM ScrubHeld ==
    ASSUME \A s \in Refusals : "UNIT_RESET" \notin s
    PROVE  Spec => ScrubInReset
  <1>1. TypeOK /\ UnitHeld /\ [Next]_vars =>
            \A p \in Process :
                /\ Steps(p, "nv_load_gsp")
                /\ others[p] \cap (PciTools \cup {"nv_load_gsp"}) = {}
                /\ \E r \in {"ENABLE", "ENABLE_2"} : (31 \in regs[r]) # (31 \in regs'[r])
                => 31 \notin regs["UNIT_RESET"]
    <2> SUFFICES ASSUME TypeOK, UnitHeld, [Next]_vars, NEW p \in Process,
                        Steps(p, "nv_load_gsp"),
                        others[p] \cap (PciTools \cup {"nv_load_gsp"}) = {},
                        NEW r \in {"ENABLE", "ENABLE_2"}, (31 \in regs[r]) # (31 \in regs'[r])
                 PROVE  31 \notin regs["UNIT_RESET"]
      OBVIOUS
    <2>1. /\ pc[p] # 0 /\ pc'[p] # pc[p] /\ tool[p] = "nv_load_gsp" /\ p \in Running
          /\ regs'[r] # regs[r]
      BY DEF Steps, Running
    <2>2. Run(p)
      BY <2>1, OwnStep
    <2>3. "UNIT_RESET" \notin refuses
      BY DEF TypeOK
    <2> DEFINE i == Instr(p)
               s == nv_load_gsp
    <2>4. i = s[pc[p]] /\ pc[p] \in 1 .. 26
      BY <2>1, LoaderAt
    <2>5. pc[p] \in Puts \cup Sets
      BY <2>1, <2>2, LoaderStep
    <2>6. /\ Reached(AD000000)
          /\ regs' = [regs EXCEPT ![i.reg] = Stored(p)]
      BY <2>1, <2>2, <2>5, LoaderStep
    <2> HIDE DEF i, s
    <2>7. r = i.reg
      <3>1. regs \in [Regs -> Values] /\ r \in Regs
        BY Names DEF TypeOK, Values
      <3>2. QED
        BY <2>1, <2>6, <3>1
    <2>8. pc[p] \in {4, 6, 8, 10}
      BY <2>4, <2>5, <2>7, LoaderRegs DEF s, Puts, Sets
    <2>9. QED
      BY <2>1, <2>3, <2>6, <2>8 DEF UnitHeld, Alone
  <1>2. Known /\ UnitHeld /\ TypeOK /\ [Next]_vars => (Known /\ UnitHeld)'
    BY NextKnown, NextHeld
  <1>3. Init => Known /\ UnitHeld
    BY InitKnown, InitHeld
  <1>4. QED
    BY <1>1, <1>2, <1>3, TypeCorrect, PTL DEF Spec, ScrubInReset

-----------------------------------------------------------------------------
(* What the loader has ready for the falcon, as far as it has come.         *)
BootReady ==
    \A p \in Running :
        tool[p] = "nv_load_gsp" /\ Alone(p, PciTools \cup MailboxTools) =>
            /\ pc[p] > 21 => "manifest" \in memory
            /\ pc[p] > 22 => "firmware" \in memory
            /\ Reached(AD000000) /\ ~lockout =>
                  /\ pc[p] > 23 => regs["MAILBOX0"] = MANIFEST_AT
                  /\ pc[p] > 24 => regs["MAILBOX1"] = {}
                  /\ pc[p] > 25 => regs["OS"] = {0}

LEMMA InitReady == Init => BootReady
  BY DEF Init, BootReady, Running

LEMMA LoaderMemory ==
    ASSUME TypeOK, NEW p \in Process, Run(p), tool[p] = "nv_load_gsp"
    PROVE  /\ memory \subseteq memory'
           /\ pc[p] = 21 => "manifest" \in memory'
           /\ pc[p] = 22 => "firmware" \in memory'
  <1> DEFINE i == Instr(p)
             s == nv_load_gsp
  <1>1. i = s[pc[p]] /\ pc[p] \in 1 .. 26
    BY RunGoes, LoaderAt
  <1>2. memory \subseteq memory'
    BY RunHistory
  <1>3. i.op = "copy" => memory' = memory \cup {i.what}
    BY RunEffects
  <1> HIDE DEF i, s
  <1>4. /\ pc[p] = 21 => i.op = "copy" /\ i.what = "manifest"
        /\ pc[p] = 22 => i.op = "copy" /\ i.what = "firmware"
    BY <1>1, LoaderOps DEF s
  <1>5. QED
    BY <1>2, <1>3, <1>4

(* The last four of its instructions.                                       *)
LEMMA LoaderShoots ==
    ASSUME TypeOK, NEW p \in Process, Run(p), tool[p] = "nv_load_gsp",
           pc[p] \in {23, 24, 25, 26}, Reached(AD000000), ~lockout
    PROVE  /\ lockout' = lockout
           /\ pc[p] = 23 => regs' = [regs EXCEPT !["MAILBOX0"] = MANIFEST_AT]
           /\ pc[p] = 24 => regs' = [regs EXCEPT !["MAILBOX1"] = {}]
           /\ pc[p] = 25 => regs' = [regs EXCEPT !["OS"] = {0}]
  <1> DEFINE i == Instr(p)
             s == nv_load_gsp
  <1>1. i = s[pc[p]] /\ pc[p] \in 1 .. 26
    BY RunGoes, LoaderAt
  <1>2. pc[p] \in Sets
    BY DEF Sets
  <1>3. /\ regs' = IF /\ Reached(AD000000) /\ (i.reg \in Falcon => ~lockout)
                      /\ i.reg \notin refuses \cup {"BOOT_0"}
                   THEN [regs EXCEPT ![i.reg] = Stored(p)] ELSE regs
        /\ i.reg # "HOST_KEY" => lockout' = lockout
    BY <1>2, LoaderStep
  <1>4. i.op = "set" => Stored(p) = i.value
    BY DEF Stored
  <1> HIDE DEF i, s
  <1>5. i.op = "set"
    BY <1>1, <1>2, LoaderOps DEF s
  <1>6. /\ pc[p] = 23 => i.reg = "MAILBOX0" /\ i.value = MANIFEST_AT
        /\ pc[p] = 24 => i.reg = "MAILBOX1" /\ i.value = {}
        /\ pc[p] = 25 => i.reg = "OS" /\ i.value = {0}
        /\ pc[p] = 26 => i.reg = "CPUCTL"
    BY <1>1, LoaderRegs DEF s
  <1>7. i.reg \in {"MAILBOX0", "MAILBOX1", "OS", "CPUCTL"}
    BY <1>6
  <1>8. i.reg \notin refuses \cup {"BOOT_0"} /\ i.reg # "HOST_KEY"
    <2>1. refuses \subseteq Engine
      BY ToolsAssumption DEF TypeOK
    <2>2. QED
      BY <1>7, <2>1 DEF Engine
  <1>9. regs' = [regs EXCEPT ![i.reg] = i.value]
    BY <1>3, <1>4, <1>5, <1>8
  <1>10. QED
    BY <1>3, <1>6, <1>8, <1>9

LEMMA LoaderReadies ==
    ASSUME TypeOK, BootReady, NEW p \in Running, Run(p), tool[p] = "nv_load_gsp",
           Alone(p, PciTools \cup MailboxTools), pc'[p] # 0
    PROVE  /\ pc'[p] > 21 => "manifest" \in memory'
           /\ pc'[p] > 22 => "firmware" \in memory'
           /\ Reached(AD000000)' /\ ~lockout' =>
                 /\ pc'[p] > 23 => regs'["MAILBOX0"] = MANIFEST_AT
                 /\ pc'[p] > 24 => regs'["MAILBOX1"] = {}
                 /\ pc'[p] > 25 => regs'["OS"] = {0}
  <1>1. p \in Process /\ pc[p] # 0
    BY DEF Running
  <1>2. pc[p] \in 1 .. 26
    BY <1>1, LoaderAt
  <1>3. /\ pc'[p] = pc[p] + 1 \/ (pc[p] = 16 /\ pc'[p] = 19)
        /\ pc'[p] \in 1 .. 26
    BY <1>1, LoaderGoes
  <1>4. /\ pc[p] > 21 => "manifest" \in memory
        /\ pc[p] > 22 => "firmware" \in memory
        /\ Reached(AD000000) /\ ~lockout =>
              /\ pc[p] > 23 => regs["MAILBOX0"] = MANIFEST_AT
              /\ pc[p] > 24 => regs["MAILBOX1"] = {}
    BY DEF BootReady
  <1>5. /\ memory \subseteq memory'
        /\ pc[p] = 21 => "manifest" \in memory'
        /\ pc[p] = 22 => "firmware" \in memory'
    BY <1>1, LoaderMemory
  <1>6. pc'[p] > 21 => "manifest" \in memory'
    <2>1. pc'[p] > 21 => pc[p] = 21 \/ pc[p] > 21
      BY <1>2, <1>3
    <2>2. QED
      BY <1>4, <1>5, <2>1
  <1>7. pc'[p] > 22 => "firmware" \in memory'
    <2>1. pc'[p] > 22 => pc[p] = 22 \/ pc[p] > 22
      BY <1>2, <1>3
    <2>2. QED
      BY <1>4, <1>5, <2>1
  <1>8. ASSUME Reached(AD000000)', ~lockout', pc'[p] > 23
        PROVE  /\ regs'["MAILBOX0"] = MANIFEST_AT
               /\ pc'[p] > 24 => regs'["MAILBOX1"] = {}
               /\ pc'[p] > 25 => regs'["OS"] = {0}
    <2>1. pc'[p] = pc[p] + 1 /\ pc[p] \in {23, 24, 25}
      BY <1>2, <1>3, <1>8
    <2>2. Reached(AD000000)
      BY <1>1, <1>8, LoaderStep
    <2>3. ~lockout
      <3>1. pc[p] \in Puts \cup Sets
        BY <2>1 DEF Sets
      <3>2. pc[p] \in 1 .. 26 /\ Instr(p) = nv_load_gsp[pc[p]]
        BY <1>1, LoaderAt
      <3>3. nv_load_gsp[pc[p]].reg # "HOST_KEY"
        BY <2>1, <3>2, LoaderRegs
      <3>4. lockout' = lockout
        BY <1>1, <3>1, <3>2, <3>3, LoaderStep
      <3>5. QED
        BY <1>8, <3>4
    <2>4. /\ pc[p] = 23 => regs' = [regs EXCEPT !["MAILBOX0"] = MANIFEST_AT]
          /\ pc[p] = 24 => regs' = [regs EXCEPT !["MAILBOX1"] = {}]
          /\ pc[p] = 25 => regs' = [regs EXCEPT !["OS"] = {0}]
      BY <1>1, <2>1, <2>2, <2>3, LoaderShoots
    <2>5. /\ regs \in [Regs -> Values]
          /\ "MAILBOX0" \in Regs /\ "MAILBOX1" \in Regs /\ "OS" \in Regs
      BY Names DEF TypeOK, Values
    <2>6. CASE pc[p] = 23
      <3>1. pc'[p] = 24
        BY <2>1, <2>6
      <3>2. QED
        BY <2>4, <2>5, <2>6, <3>1
    <2>7. CASE pc[p] = 24
      <3>1. pc'[p] = 25
        BY <2>1, <2>7
      <3>2. regs["MAILBOX0"] = MANIFEST_AT
        BY <1>4, <2>2, <2>3, <2>7
      <3>3. QED
        BY <2>4, <2>5, <2>7, <3>1, <3>2
    <2>8. CASE pc[p] = 25
      <3>1. regs["MAILBOX0"] = MANIFEST_AT /\ regs["MAILBOX1"] = {}
        BY <1>4, <2>2, <2>3, <2>8
      <3>2. QED
        BY <2>4, <2>5, <2>8, <3>1
    <2>9. QED
      BY <2>1, <2>6, <2>7, <2>8
  <1>9. ASSUME Reached(AD000000)', ~lockout'
        PROVE  /\ pc'[p] > 23 => regs'["MAILBOX0"] = MANIFEST_AT
               /\ pc'[p] > 24 => regs'["MAILBOX1"] = {}
               /\ pc'[p] > 25 => regs'["OS"] = {0}
    <2>1. (pc'[p] > 24 \/ pc'[p] > 25) => pc'[p] > 23
      BY <1>3
    <2>2. QED
      BY <1>8, <1>9, <2>1
  <1>10. QED
    BY <1>6, <1>7, <1>9

LEMMA NextReady == TypeOK /\ Known /\ BootReady /\ [Next]_vars => BootReady'
  <1> SUFFICES ASSUME TypeOK, Known, BootReady, [Next]_vars,
                      NEW p \in Running', tool'[p] = "nv_load_gsp",
                      others'[p] \cap (PciTools \cup MailboxTools) = {}
               PROVE  /\ pc'[p] > 21 => "manifest" \in memory'
                      /\ pc'[p] > 22 => "firmware" \in memory'
                      /\ Reached(AD000000)' /\ ~lockout' =>
                            /\ pc'[p] > 23 => regs'["MAILBOX0"] = MANIFEST_AT
                            /\ pc'[p] > 24 => regs'["MAILBOX1"] = {}
                            /\ pc'[p] > 25 => regs'["OS"] = {0}
    BY DEF BootReady, Alone
  <1> DEFINE s == Path \cup Releases \cup Mailboxes
             ts == PciTools \cup MailboxTools
  <1>1. /\ s \in SUBSET (Regs \ {"STATUS", "ENABLE", "RESET"}) /\ "ROOT_CONTROL" \in s
        /\ "HOST_KEY" \in s /\ "MAILBOX0" \in s /\ "MAILBOX1" \in s /\ "OS" \in s
        /\ Path \subseteq s
    BY Names DEF Path, Releases, Mailboxes
  <1>2. \A t \in (DOMAIN Program) \ ts : Program[t] \in Avoids(s)
    BY AllAvoid
  <1> HIDE DEF s
  <1>3. p \in Process /\ pc'[p] # 0
    BY DEF Running
  <1>4. CASE OwnRun(p)
    BY <1>3, <1>4, LoaderReadies DEF Alone, OwnRun
  <1>5. CASE JustStarted(p)
    BY <1>5 DEF JustStarted
  <1>6. CASE LeftAlone(p, ts, s)
    <2>1. /\ Reached(AD000000)' = Reached(AD000000) /\ lockout' = lockout
          /\ regs'["MAILBOX0"] = regs["MAILBOX0"] /\ regs'["MAILBOX1"] = regs["MAILBOX1"]
          /\ regs'["OS"] = regs["OS"]
      BY <1>1, <1>6, ReachedStays DEF LeftAlone
    <2>2. /\ p \in Running /\ pc'[p] = pc[p] /\ tool[p] = "nv_load_gsp"
          /\ others[p] \cap ts = {} /\ memory \subseteq memory'
      BY <1>6 DEF LeftAlone
    <2>3. /\ pc[p] > 21 => "manifest" \in memory
          /\ pc[p] > 22 => "firmware" \in memory
          /\ Reached(AD000000) /\ ~lockout =>
                /\ pc[p] > 23 => regs["MAILBOX0"] = MANIFEST_AT
                /\ pc[p] > 24 => regs["MAILBOX1"] = {}
                /\ pc[p] > 25 => regs["OS"] = {0}
      BY <2>2 DEF BootReady, Alone
    <2>4. QED
      BY <2>1, <2>2, <2>3
  <1>7. OwnRun(p) \/ JustStarted(p) \/ LeftAlone(p, ts, s)
    <2>1. others'[p] \cap ts = {}
      OBVIOUS
    <2> HIDE DEF ts
    <2>2. QED
      BY <1>1, <1>2, <2>1, Beside
  <1>8. QED
    BY <1>4, <1>5, <1>6, <1>7

(* When the loader starts the falcon, its mailboxes point to a manifest     *)
(* that is in memory with its firmware, whatever tools ran beside it, but   *)
(* the users of the mailbox and those that move the card.                   *)
THEOREM FalconBoots == Spec => BootArguments
  <1>1. TypeOK /\ BootReady /\ [Next]_vars =>
            \A p \in Process :
                /\ Steps(p, "nv_load_gsp")
                /\ others[p] \cap (PciTools \cup MailboxTools) = {}
                /\ 0 \notin regs["CPUCTL"] /\ 0 \in regs'["CPUCTL"]
                => /\ regs["MAILBOX0"] = MANIFEST_AT /\ regs["MAILBOX1"] = {}
                   /\ regs["OS"] = {0} /\ memory = {"manifest", "firmware"}
    <2> SUFFICES ASSUME TypeOK, BootReady, [Next]_vars, NEW p \in Process,
                        Steps(p, "nv_load_gsp"),
                        others[p] \cap (PciTools \cup MailboxTools) = {},
                        0 \notin regs["CPUCTL"], 0 \in regs'["CPUCTL"]
                 PROVE  /\ regs["MAILBOX0"] = MANIFEST_AT /\ regs["MAILBOX1"] = {}
                        /\ regs["OS"] = {0} /\ memory = {"manifest", "firmware"}
      OBVIOUS
    <2>1. /\ pc[p] # 0 /\ pc'[p] # pc[p] /\ tool[p] = "nv_load_gsp" /\ p \in Running
          /\ regs'["CPUCTL"] # regs["CPUCTL"]
      BY DEF Steps, Running
    <2>2. Run(p)
      BY <2>1, OwnStep
    <2> DEFINE i == Instr(p)
               s == nv_load_gsp
    <2>3. i = s[pc[p]] /\ pc[p] \in 1 .. 26
      BY <2>1, LoaderAt
    <2>4. pc[p] \in Puts \cup Sets
      BY <2>1, <2>2, LoaderStep
    <2>5. /\ Reached(AD000000) /\ (i.reg \in Falcon => ~lockout)
          /\ regs' = [regs EXCEPT ![i.reg] = Stored(p)]
      BY <2>1, <2>2, <2>4, LoaderStep
    <2> HIDE DEF i, s
    <2>6. i.reg = "CPUCTL"
      <3>1. regs \in [Regs -> Values] /\ "CPUCTL" \in Regs
        BY Names DEF TypeOK, Values
      <3>2. QED
        BY <2>1, <2>5, <3>1
    <2>7. pc[p] = 26 /\ ~lockout
      BY <2>3, <2>4, <2>5, <2>6, LoaderRegs DEF s, Puts, Sets, Falcon
    <2>8. memory \subseteq {"manifest", "firmware"}
      BY DEF TypeOK
    <2>9. /\ "manifest" \in memory /\ "firmware" \in memory
          /\ regs["MAILBOX0"] = MANIFEST_AT /\ regs["MAILBOX1"] = {} /\ regs["OS"] = {0}
      BY <2>1, <2>5, <2>7 DEF BootReady, Alone
    <2>10. QED
      BY <2>8, <2>9
  <1>2. Known /\ BootReady /\ TypeOK /\ [Next]_vars => (Known /\ BootReady)'
    BY NextKnown, NextReady
  <1>3. Init => Known /\ BootReady
    BY InitKnown, InitReady
  <1>4. QED
    BY <1>1, <1>2, <1>3, TypeCorrect, PTL DEF Spec, BootArguments

-----------------------------------------------------------------------------
(* The ghost probe's program: what comes before it asks for the GPU, and    *)
(* the nine instructions from there on.                                     *)
GhostHead ==
    MaySkip(AndNot("P2SB_CONTROL", {8}))
    \o MayStop \o AndNot("ROOT_PM", {0, 1}) \o Or("ROOT_COMMAND", {1, 2})
    \o MaySkip(AndNot("USB_PM", {0, 1})) \o MaySkip(AndNot("UCSI_PM", {0, 1}))
    \o MayStop

Asks == Len(GhostHead)

GhostShape(s) ==
    /\ Len(s) = Asks + 9
    /\ \A n \in 1 .. Asks : s[n] = GhostHead[n]
    /\ s[Asks + 1].op = "load" /\ s[Asks + 1].local = "gpu_cfg"
    /\ s[Asks + 1].reg = "GPU_ID"
    /\ s[Asks + 2].op = "exit if" /\ s[Asks + 2].cond = Among("gpu_cfg", {Ones})
    /\ s[Asks + 3].op = "load" /\ s[Asks + 6].op = "load" /\ s[Asks + 8].op = "load"
    /\ s[Asks + 4].op = "put" /\ s[Asks + 4].reg = "GPU_PM"
    /\ s[Asks + 5].op = "set" /\ s[Asks + 5].reg = "GPU_BAR0"
    /\ s[Asks + 5].value = AD000000
    /\ s[Asks + 7].op = "put" /\ s[Asks + 7].reg = "GPU_COMMAND"
    /\ s[Asks + 7].on = {1, 2} /\ s[Asks + 7].off = {}
    /\ s[Asks + 9].op = "put" /\ s[Asks + 9].reg = "GPU_ROM"

LEMMA HeadCareful == GhostHead \in Careful
  <1>1. /\ MaySkip(AndNot("P2SB_CONTROL", {8})) \in Careful
        /\ MaySkip(AndNot("USB_PM", {0, 1})) \in Careful
        /\ MaySkip(AndNot("UCSI_PM", {0, 1})) \in Careful
    BY CarefulParts, CarefulUpdates, Names, BitSets
  <1>2. /\ AndNot("ROOT_PM", {0, 1}) \in Careful /\ Or("ROOT_COMMAND", {1, 2}) \in Careful
        /\ MayStop \in Careful
    BY CarefulUpdates, CarefulOthers, Names, BitSets
  <1>3. QED
    BY <1>1, <1>2, CarefulConcat DEF GhostHead

(* One program after another.                                               *)
After(w, u, a) ==
    /\ w \in Typed /\ Len(w) = Len(u) + Len(a)
    /\ \A n \in 1 .. Len(u) : w[n] = u[n]
    /\ \A n \in 1 .. Len(a) : w[Len(u) + n] = a[n]

LEMMA AfterBoth ==
    ASSUME NEW u \in Typed, NEW a \in Typed
    PROVE  After(u \o a, u, a)
  BY Concat DEF After

LEMMA OrShape ==
    ASSUME NEW r \in Regs, NEW b \in Values
    PROVE  Or(r, b)[2].on = b /\ Or(r, b)[2].off = {}
  <1> DEFINE h == [op |-> "load", local |-> "rmw", reg |-> r]
             k == [op |-> "put", reg |-> r, local |-> "rmw", on |-> b, off |-> {}]
             s == <<h>>
             t == <<k>>
             u == s \o t
  <1>1. h \in Instructions /\ k \in Instructions
    BY LocalNames, BitSets DEF Instructions
  <1>2. k.on = b /\ k.off = {}
    OBVIOUS
  <1>3. u = Or(r, b)
    BY DEF Or, Load, Put
  <1> HIDE DEF h, k
  <1>4. s \in Typed /\ Len(s) = 1 /\ s[1] = h /\ t \in Typed /\ Len(t) = 1 /\ t[1] = k
    BY <1>1, Single
  <1> HIDE DEF s, t
  <1>5. u[Len(s) + 1] = t[1]
    BY <1>4, Longer
  <1> HIDE DEF u
  <1>6. u[2] = k
    BY <1>4, <1>5
  <1>7. QED
    BY <1>2, <1>3, <1>6

LEMMA GhostProgram == GhostShape(gpu_ghost_probe)
  <1> DEFINE a == Load("gpu_cfg", "GPU_ID")
             b == ExitIf(Among("gpu_cfg", {Ones}))
             c == AndNot("GPU_PM", {0, 1})
             d == Set("GPU_BAR0", AD000000)
             e == Or("GPU_COMMAND", {1, 2})
             f == AndNot("GPU_ROM", {0})
             w1 == GhostHead \o a
             w2 == w1 \o b
             w3 == w2 \o c
             w4 == w3 \o d
             w5 == w4 \o e
             w6 == w5 \o f
  <1>1. w6 = gpu_ghost_probe
    BY DEF gpu_ghost_probe, GhostHead
  <1>2. /\ a \in Typed /\ Len(a) = 1 /\ a[1].op = "load" /\ a[1].local = "gpu_cfg"
        /\ a[1].reg = "GPU_ID"
    <2> DEFINE h == [op |-> "load", local |-> "gpu_cfg", reg |-> "GPU_ID"]
    <2>1. h \in Instructions
      BY Names, LocalNames DEF Instructions
    <2>2. h.op = "load" /\ h.local = "gpu_cfg" /\ h.reg = "GPU_ID" /\ a = <<h>>
      BY DEF Load
    <2> HIDE DEF h, a
    <2>3. QED
      BY <2>1, <2>2, Single
  <1>3. /\ b \in Typed /\ Len(b) = 1 /\ b[1].op = "exit if"
        /\ b[1].cond = Among("gpu_cfg", {Ones})
    <2> DEFINE k == Among("gpu_cfg", {Ones})
               h == [op |-> "exit if", cond |-> k]
    <2>1. k \in Conditions
      BY Tests, LocalNames, Constants
    <2>2. b = <<h>>
      BY DEF ExitIf
    <2> HIDE DEF k, b
    <2>3. h \in Instructions /\ h.op = "exit if" /\ h.cond = k
      BY <2>1 DEF Instructions
    <2> HIDE DEF h
    <2>4. b \in Typed /\ Len(b) = 1 /\ b[1] = h
      BY <2>2, <2>3, Single
    <2>5. QED
      BY <2>3, <2>4 DEF k
  <1>4. {0, 1} \in SUBSET Int /\ {0} \in SUBSET Int /\ {1, 2} \in Values
    BY BitSets
  <1>5. Updates(c, "GPU_PM") /\ Updates(f, "GPU_ROM")
    BY <1>4, UpdatesShape, Names
  <1>6. Updates(e, "GPU_COMMAND") /\ e[2].on = {1, 2} /\ e[2].off = {}
    BY <1>4, UpdatesShape, OrShape, Names
  <1>7. /\ d \in Typed /\ Len(d) = 1 /\ d[1].op = "set" /\ d[1].reg = "GPU_BAR0"
        /\ d[1].value = AD000000
    BY SetShape, Names, Constants
  <1>8. GhostHead \in Typed /\ Asks \in Nat
    BY HeadCareful, LenProperties DEF Careful, Typed, Asks
  <1> DEFINE cond == Among("gpu_cfg", {Ones})
  <1> HIDE DEF a, b, c, d, e, f, cond
  <1>9. c \in Typed /\ Len(c) = 2 /\ e \in Typed /\ Len(e) = 2 /\ f \in Typed /\ Len(f) = 2
    BY <1>5, <1>6 DEF Updates
  <1>10. After(w1, GhostHead, a) /\ w1 \in Typed
    BY <1>2, <1>8, AfterBoth DEF After
  <1> HIDE DEF w1
  <1>11. After(w2, w1, b) /\ w2 \in Typed
    BY <1>3, <1>10, AfterBoth DEF After
  <1> HIDE DEF w2
  <1>12. After(w3, w2, c) /\ w3 \in Typed
    BY <1>9, <1>11, AfterBoth DEF After
  <1> HIDE DEF w3
  <1>13. After(w4, w3, d) /\ w4 \in Typed
    BY <1>7, <1>12, AfterBoth DEF After
  <1> HIDE DEF w4
  <1>14. After(w5, w4, e) /\ w5 \in Typed
    BY <1>9, <1>13, AfterBoth DEF After
  <1> HIDE DEF w5
  <1>15. After(w6, w5, f) /\ w6 \in Typed
    BY <1>9, <1>14, AfterBoth DEF After
  <1> HIDE DEF w6
  <1>16. /\ Len(w1) = Asks + 1 /\ w1[Asks + 1] = a[1]
         /\ \A n \in 1 .. Asks : w1[n] = GhostHead[n]
    BY <1>2, <1>8, <1>10 DEF After, Asks
  <1>17. /\ Len(w2) = Asks + 2 /\ w2[Asks + 2] = b[1]
         /\ \A n \in 1 .. Asks + 1 : w2[n] = w1[n]
    <2>1. Len(w1) \in Nat /\ Len(w1) + 1 = Asks + 2 /\ 1 \in 1 .. Len(b)
      <3>1. Asks \in Nat /\ Len(w1) = Asks + 1 /\ Len(b) = 1
        BY <1>3, <1>8, <1>16
      <3>2. QED
        BY <3>1
    <2>2. /\ Len(w2) = Len(w1) + 1 /\ w2[Len(w1) + 1] = b[1]
          /\ \A n \in 1 .. Len(w1) : w2[n] = w1[n]
      BY <1>3, <1>11, <2>1 DEF After
    <2>3. QED
      BY <1>16, <2>1, <2>2
  <1>18. /\ Len(w3) = Asks + 4 /\ w3[Asks + 3] = c[1] /\ w3[Asks + 4] = c[2]
         /\ \A n \in 1 .. Asks + 2 : w3[n] = w2[n]
    BY <1>8, <1>9, <1>12, <1>17 DEF After
  <1>19. /\ Len(w4) = Asks + 5 /\ w4[Asks + 5] = d[1]
         /\ \A n \in 1 .. Asks + 4 : w4[n] = w3[n]
    BY <1>7, <1>8, <1>13, <1>18 DEF After
  <1>20. /\ Len(w5) = Asks + 7 /\ w5[Asks + 6] = e[1] /\ w5[Asks + 7] = e[2]
         /\ \A n \in 1 .. Asks + 5 : w5[n] = w4[n]
    BY <1>8, <1>9, <1>14, <1>19 DEF After
  <1>21. /\ Len(w6) = Asks + 9 /\ w6[Asks + 8] = f[1] /\ w6[Asks + 9] = f[2]
         /\ \A n \in 1 .. Asks + 7 : w6[n] = w5[n]
    BY <1>8, <1>9, <1>15, <1>20 DEF After
  <1>22. /\ \A n \in 1 .. Asks : w6[n] = GhostHead[n]
         /\ w6[Asks + 1] = a[1] /\ w6[Asks + 2] = b[1]
    BY <1>8, <1>16, <1>17, <1>18, <1>19, <1>20, <1>21
  <1>23. /\ w6[Asks + 3] = c[1] /\ w6[Asks + 4] = c[2] /\ w6[Asks + 5] = d[1]
         /\ w6[Asks + 6] = e[1] /\ w6[Asks + 7] = e[2]
    BY <1>8, <1>18, <1>19, <1>20, <1>21
  <1>24. /\ a[1].op = "load" /\ a[1].local = "gpu_cfg" /\ a[1].reg = "GPU_ID"
         /\ b[1].op = "exit if" /\ b[1].cond = cond
         /\ c[1].op = "load" /\ c[2].op = "put" /\ c[2].reg = "GPU_PM"
         /\ d[1].op = "set" /\ d[1].reg = "GPU_BAR0" /\ d[1].value = AD000000
         /\ e[1].op = "load" /\ e[2].op = "put" /\ e[2].reg = "GPU_COMMAND"
         /\ e[2].on = {1, 2} /\ e[2].off = {}
         /\ f[1].op = "load" /\ f[2].op = "put" /\ f[2].reg = "GPU_ROM"
    BY <1>2, <1>3, <1>5, <1>6, <1>7 DEF Updates, cond
  <1>25. GhostShape(w6)
    BY <1>21, <1>22, <1>23, <1>24 DEF GhostShape, cond
  <1>26. QED
    BY <1>1, <1>25

-----------------------------------------------------------------------------
(* Where a step goes, whatever the instruction.                             *)
LEMMA PlusNone == \A n \in Nat : n + 1 + 0 = n + 1
  OBVIOUS

LEMMA RunJumps ==
    ASSUME TypeOK, NEW p \in Process, Run(p), pc'[p] # 0,
           Instr(p).op \notin {"pci read", "pci write"}
    PROVE  \/ pc'[p] = pc[p] + 1
           \/ /\ Instr(p).op \in {"only if", "may skip"}
              /\ pc'[p] = pc[p] + 1 + Instr(p).length
  <1> DEFINE i == Instr(p)
  <1>1. ASSUME NEW n, NEW l, GoWith(p, n, l)
        PROVE  pc'[p] = n
    BY <1>1 DEF GoWith, TypeOK
  <1>2. ASSUME NEW n, Goto(p, n)
        PROVE  pc'[p] = n
    BY <1>1, <1>2 DEF Goto
  <1>3. CASE Exit(p)
    <2>1. \/ Goto(p, 0) \/ Goto(p, pc[p] + 1)
          \/ i.op = "may skip" /\ \E n \in {0, i.length} : Goto(p, pc[p] + 1 + n)
      BY <1>3 DEF Exit, At, Instr
    <2>2. pc[p] + 1 + 0 = pc[p] + 1
      <3>1. pc[p] \in Nat
        BY DEF TypeOK
      <3>2. QED
        BY <3>1, PlusNone
    <2> HIDE DEF i
    <2>3. QED
      BY <1>2, <2>1, <2>2 DEF i
  <1>4. CASE Skip(p)
    <2>1. i.op = "only if"
      BY <1>4 DEF Skip, At, Instr
    <2>2. Goto(p, pc[p] + 1) \/ Goto(p, pc[p] + 1 + i.length)
      BY <1>4 DEF Skip
    <2> HIDE DEF i
    <2>3. QED
      BY <1>2, <2>1, <2>2 DEF i
  <1>5. CASE LoadReg(p) \/ SetReg(p) \/ PutReg(p) \/ CopyToMemory(p) \/ Says(p)
    <2>1. \E l : GoWith(p, pc[p] + 1, l)
      BY <1>5 DEF LoadReg, SetReg, PutReg, CopyToMemory, Says, Goto
    <2>2. QED
      BY <1>1, <2>1
  <1>6. ~(PciReadReg(p) \/ PciWriteReg(p) \/ PciFails(p))
    BY DEF PciReadReg, PciWriteReg, PciFails, At, Instr
  <1>7. QED
    BY <1>3, <1>4, <1>5, <1>6 DEF Run

(* A run passes an exit only if its condition fails.                        *)
LEMMA RunPasses ==
    ASSUME TypeOK, NEW p \in Process, Run(p), pc'[p] # 0, Instr(p).op = "exit if"
    PROVE  ~True(p)
  <1>1. pc[p] # 0 /\ Exit(p)
    BY RunGoes, RunIs
  <1>2. Goto(p, IF True(p) THEN 0 ELSE pc[p] + 1)
    BY <1>1 DEF Exit, At, Instr
  <1>3. ~Goto(p, 0)
    <2>1. ASSUME Goto(p, 0)
          PROVE  pc'[p] = 0
      BY <2>1 DEF Goto, GoWith, TypeOK
    <2>2. QED
      BY <2>1
  <1>4. QED
    BY <1>2, <1>3

(* A write to the GPU's configuration space.                                *)
LEMMA WriteConfig ==
    ASSUME TypeOK, NEW base, NEW r \in GpuConfig, NEW v, Write(base, r, v), ~InReset
    PROVE  regs' = [regs EXCEPT ![r] = v]
  <1>1. r \notin Falcon /\ r \notin Engine /\ r # "BOOT_0" /\ r # "ROOT_CONTROL"
        /\ r \notin Board
    BY DEF GpuConfig, Falcon, Engine, Board
  <1>2. r \notin refuses
    BY <1>1, ToolsAssumption DEF TypeOK
  <1>3. Lands(base, r)
    BY <1>1, <1>2 DEF Lands, Answers
  <1>4. QED
    BY <1>1, <1>3 DEF Write

-----------------------------------------------------------------------------
(* The ghost probe's steps.                                                 *)
LEMMA GhostAt ==
    ASSUME TypeOK, NEW p \in Process, pc[p] # 0, tool[p] = "gpu_ghost_probe"
    PROVE  /\ Instr(p) = gpu_ghost_probe[pc[p]] /\ Instr(p) \in Instructions
           /\ Asks \in Nat /\ pc[p] \in 1 .. Asks + 9
           /\ Len(Program[tool[p]]) = Asks + 9
           /\ DOMAIN Program[tool[p]] = 1 .. Asks + 9
           /\ MappedAt(tool[p]) = AC000000
  <1> DEFINE s == gpu_ghost_probe
  <1>1. Program[tool[p]] = s
    <2>1. Program["gpu_ghost_probe"] = s
      BY DEF Program
    <2>2. QED
      BY <2>1
  <1>2. Len(s) = Asks + 9
    BY GhostProgram DEF GhostShape
  <1> HIDE DEF s
  <1>3. Instr(p) = s[pc[p]]
    BY <1>1 DEF Instr
  <1>4. /\ pc[p] \in 1 .. Len(Program[tool[p]])
        /\ DOMAIN Program[tool[p]] = 1 .. Len(Program[tool[p]])
        /\ Instr(p) \in Instructions
    BY InstrType
  <1>5. MappedAt(tool[p]) = AC000000
    BY DEF MappedAt
  <1>6. Asks \in Nat
    BY HeadCareful, LenProperties DEF Careful, Typed, Asks
  <1>7. QED
    BY <1>1, <1>2, <1>3, <1>4, <1>5, <1>6 DEF s

LEMMA GhostGoes ==
    ASSUME TypeOK, NEW p \in Process, Run(p), tool[p] = "gpu_ghost_probe", pc'[p] # 0
    PROVE  /\ pc[p] <= Asks => pc'[p] <= Asks + 1
           /\ pc[p] > Asks => pc'[p] = pc[p] + 1
  <1> DEFINE i == Instr(p)
             s == gpu_ghost_probe
  <1>1. /\ i = s[pc[p]] /\ Asks \in Nat /\ pc[p] \in 1 .. Asks + 9 /\ i \in Instructions
    BY RunGoes, GhostAt
  <1>2. i.op \notin {"pci read", "pci write"} =>
            \/ pc'[p] = pc[p] + 1
            \/ i.op \in {"only if", "may skip"} /\ pc'[p] = pc[p] + 1 + i.length
    BY RunJumps
  <1>3. GhostShape(s)
    BY GhostProgram
  <1>4. i.op \in {"only if", "may skip"} => i.length \in Nat
    BY <1>1 DEF Instructions
  <1> HIDE DEF i, s
  <1>5. CASE pc[p] <= Asks
    <2> DEFINE h == GhostHead[pc[p]]
    <2>1. i = h
      <3>1. \A n \in 1 .. Asks : s[n] = GhostHead[n]
        BY <1>3 DEF GhostShape
      <3>2. pc[p] \in 1 .. Asks
        BY <1>1, <1>5
      <3>3. QED
        BY <1>1, <3>1, <3>2
    <2>2. /\ h.op \notin {"pci read", "pci write"}
          /\ h.op \in {"only if", "may skip"} => pc[p] + h.length <= Asks
      <3> DEFINE t == GhostHead
      <3>1. pc[p] \in 1 .. Len(t) /\ Len(t) = Asks /\ t \in Careful
        BY <1>1, <1>5, HeadCareful DEF Asks
      <3> HIDE DEF t
      <3>2. /\ t[pc[p]].op \notin {"pci read", "pci write"}
            /\ t[pc[p]].op \in {"only if", "may skip"} =>
                  pc[p] + t[pc[p]].length <= Len(t)
        BY <3>1 DEF Careful
      <3>3. h = t[pc[p]]
        BY DEF t
      <3> HIDE DEF h
      <3>4. QED
        BY <3>1, <3>2, <3>3
    <2> HIDE DEF h
    <2>3. /\ i.op \notin {"pci read", "pci write"}
          /\ i.op \in {"only if", "may skip"} => pc[p] + i.length <= Asks
      BY <2>1, <2>2
    <2>4. CASE pc'[p] = pc[p] + 1
      BY <1>1, <1>5, <2>4
    <2>5. CASE i.op \in {"only if", "may skip"} /\ pc'[p] = pc[p] + 1 + i.length
      <3> DEFINE k == i.length
      <3>1. k \in Nat /\ pc[p] + k <= Asks /\ pc'[p] = pc[p] + 1 + k
        BY <1>4, <2>3, <2>5
      <3> HIDE DEF k
      <3>2. pc'[p] <= Asks + 1
        BY <1>1, <3>1
      <3>3. QED
        BY <1>1, <1>5, <3>2
    <2>6. pc'[p] <= Asks + 1
      <3>1. \/ pc'[p] = pc[p] + 1
            \/ i.op \in {"only if", "may skip"} /\ pc'[p] = pc[p] + 1 + i.length
        BY <1>2, <2>3
      <3>2. QED
        BY <1>5, <2>4, <2>5, <3>1
    <2>7. QED
      BY <1>1, <1>5, <2>6
  <1>6. CASE pc[p] > Asks
    <2>1. i.op \in {"load", "put", "set", "exit if"}
      <3>1. \/ pc[p] = Asks + 1 \/ pc[p] = Asks + 2 \/ pc[p] = Asks + 3
            \/ pc[p] = Asks + 4 \/ pc[p] = Asks + 5 \/ pc[p] = Asks + 6
            \/ pc[p] = Asks + 7 \/ pc[p] = Asks + 8 \/ pc[p] = Asks + 9
        BY <1>1, <1>6
      <3>2. QED
        BY <1>1, <1>3, <3>1 DEF GhostShape
    <2>2. i.op \notin {"pci read", "pci write"} /\ i.op \notin {"only if", "may skip"}
      BY <2>1
    <2>3. pc'[p] = pc[p] + 1
      BY <1>2, <2>2
    <2>4. QED
      BY <1>1, <1>6, <2>3
  <1>7. QED
    BY <1>1, <1>5, <1>6

(* What the probe stores once it has found the GPU.                         *)
LEMMA GhostWrites ==
    ASSUME TypeOK, NEW p \in Process, Run(p), tool[p] = "gpu_ghost_probe",
           pc[p] > Asks + 2, ~InReset
    PROVE  \/ /\ pc[p] \in {Asks + 3, Asks + 6, Asks + 8} /\ regs' = regs
           \/ /\ pc[p] = Asks + 4
              /\ regs' = [regs EXCEPT !["GPU_PM"] = Written(p)]
           \/ /\ pc[p] = Asks + 5
              /\ regs' = [regs EXCEPT !["GPU_BAR0"] = AD000000]
           \/ /\ pc[p] = Asks + 7 /\ 1 \in Written(p)
              /\ regs' = [regs EXCEPT !["GPU_COMMAND"] = Written(p)]
           \/ /\ pc[p] = Asks + 9
              /\ regs' = [regs EXCEPT !["GPU_ROM"] = Written(p)]
  <1> DEFINE i == Instr(p)
             s == gpu_ghost_probe
  <1>1. i = s[pc[p]] /\ Asks \in Nat /\ pc[p] \in 1 .. Asks + 9
    BY RunGoes, GhostAt
  <1>2. GhostShape(s)
    BY GhostProgram
  <1>3. /\ i.op = "load" => regs' = regs
        /\ i.op = "set" => Write(MappedAt(tool[p]), i.reg, i.value)
        /\ i.op = "put" => Write(MappedAt(tool[p]), i.reg, Written(p))
    BY RunEffects DEF card
  <1>4. Written(p) = (local[p][i.local] \cup i.on) \ i.off
    BY DEF Written
  <1>5. /\ "GPU_PM" \in GpuConfig /\ "GPU_BAR0" \in GpuConfig
        /\ "GPU_COMMAND" \in GpuConfig /\ "GPU_ROM" \in GpuConfig
    BY DEF GpuConfig
  <1> HIDE DEF i, s
  <1>6. CASE pc[p] \in {Asks + 3, Asks + 6, Asks + 8}
    <2>1. i.op = "load"
      BY <1>1, <1>2, <1>6 DEF GhostShape
    <2>2. QED
      BY <1>3, <1>6, <2>1
  <1>7. CASE pc[p] = Asks + 4
    <2>1. i.op = "put" /\ i.reg = "GPU_PM"
      BY <1>1, <1>2, <1>7 DEF GhostShape
    <2>2. Write(MappedAt(tool[p]), "GPU_PM", Written(p))
      BY <1>3, <2>1
    <2>3. QED
      BY <1>5, <1>7, <2>2, WriteConfig
  <1>8. CASE pc[p] = Asks + 5
    <2>1. i.op = "set" /\ i.reg = "GPU_BAR0" /\ i.value = AD000000
      BY <1>1, <1>2, <1>8 DEF GhostShape
    <2>2. Write(MappedAt(tool[p]), "GPU_BAR0", AD000000)
      BY <1>3, <2>1
    <2>3. QED
      BY <1>5, <1>8, <2>2, WriteConfig
  <1>9. CASE pc[p] = Asks + 7
    <2>1. i.op = "put" /\ i.reg = "GPU_COMMAND" /\ i.on = {1, 2} /\ i.off = {}
      BY <1>1, <1>2, <1>9 DEF GhostShape
    <2>2. Write(MappedAt(tool[p]), "GPU_COMMAND", Written(p))
      BY <1>3, <2>1
    <2>3. 1 \in Written(p)
      BY <1>4, <2>1
    <2>4. QED
      BY <1>5, <1>9, <2>2, <2>3, WriteConfig
  <1>10. CASE pc[p] = Asks + 9
    <2>1. i.op = "put" /\ i.reg = "GPU_ROM"
      BY <1>1, <1>2, <1>10 DEF GhostShape
    <2>2. Write(MappedAt(tool[p]), "GPU_ROM", Written(p))
      BY <1>3, <2>1
    <2>3. QED
      BY <1>5, <1>10, <2>2, WriteConfig
  <1>11. QED
    <2>1. \/ pc[p] \in {Asks + 3, Asks + 6, Asks + 8} \/ pc[p] = Asks + 4
          \/ pc[p] = Asks + 5 \/ pc[p] = Asks + 7 \/ pc[p] = Asks + 9
      BY <1>1
    <2>2. QED
      BY <1>6, <1>7, <1>8, <1>9, <1>10, <2>1

(* What the ghost probe has opened, as far as it has come.                  *)
GhostReady ==
    \A p \in Running :
        tool[p] = "gpu_ghost_probe" /\ Alone(p, PciTools) =>
            /\ pc[p] = Asks + 2 /\ InReset => local[p]["gpu_cfg"] = Ones
            /\ pc[p] > Asks + 2 => ~InReset
            /\ pc[p] > Asks + 5 => regs["GPU_BAR0"] = AD000000
            /\ pc[p] > Asks + 7 => 1 \in regs["GPU_COMMAND"]

LEMMA InitGhost == Init => GhostReady
  BY DEF Init, GhostReady, Running

LEMMA GhostReadies ==
    ASSUME TypeOK, GhostReady, NEW p \in Running, Run(p), tool[p] = "gpu_ghost_probe",
           Alone(p, PciTools), pc'[p] # 0
    PROVE  /\ pc'[p] = Asks + 2 /\ InReset' => local'[p]["gpu_cfg"] = Ones
           /\ pc'[p] > Asks + 2 => ~InReset'
           /\ pc'[p] > Asks + 5 => regs'["GPU_BAR0"] = AD000000
           /\ pc'[p] > Asks + 7 => 1 \in regs'["GPU_COMMAND"]
  <1> DEFINE i == Instr(p)
             s == gpu_ghost_probe
  <1>1. p \in Process /\ pc[p] # 0
    BY DEF Running
  <1>2. /\ i = s[pc[p]] /\ Asks \in Nat /\ pc[p] \in 1 .. Asks + 9
        /\ MappedAt(tool[p]) = AC000000
    BY <1>1, GhostAt
  <1>3. /\ pc[p] <= Asks => pc'[p] <= Asks + 1
        /\ pc[p] > Asks => pc'[p] = pc[p] + 1
        /\ pc'[p] \in Nat
    <2>1. pc'[p] \in Nat
      <3>1. TypeOK'
        BY <1>1, RunType
      <3>2. QED
        BY <1>1, <3>1 DEF TypeOK
    <2>2. QED
      BY <1>1, <2>1, GhostGoes
  <1>4. GhostShape(s)
    BY GhostProgram
  <1>5. /\ pc[p] = Asks + 2 /\ InReset => local[p]["gpu_cfg"] = Ones
        /\ pc[p] > Asks + 2 => ~InReset
        /\ pc[p] > Asks + 5 => regs["GPU_BAR0"] = AD000000
        /\ pc[p] > Asks + 7 => 1 \in regs["GPU_COMMAND"]
    BY DEF GhostReady
  <1>6. CASE pc[p] <= Asks
    BY <1>2, <1>3, <1>6
  <1>7. CASE pc[p] = Asks + 1
    <2>1. pc'[p] = Asks + 2
      BY <1>2, <1>3, <1>7
    <2> HIDE DEF s
    <2>2. i.op = "load" /\ i.local = "gpu_cfg" /\ i.reg = "GPU_ID"
      <3> HIDE DEF i
      <3>1. QED
        BY <1>2, <1>4, <1>7 DEF GhostShape
    <2>3. /\ regs' = regs
          /\ local'[p] = [local[p] EXCEPT ![i.local] = ReadOf(AC000000, i.reg)]
      BY <1>1, <1>2, <2>2, RunEffects DEF card
    <2>4. local[p] \in [Locals -> Values]
      <3>1. local \in [Process -> [Locals -> Values]]
        BY DEF TypeOK, Values
      <3>2. QED
        BY <1>1, <3>1
    <2> HIDE DEF i
    <2>5. local'[p]["gpu_cfg"] = ReadOf(AC000000, "GPU_ID")
      BY <2>2, <2>3, <2>4, LocalNames
    <2>6. InReset => ReadOf(AC000000, "GPU_ID") = Ones
      <3>1. "GPU_ID" \in GpuConfig /\ "GPU_ID" \notin Board /\ "GPU_ID" \notin Falcon
        BY DEF Board, GpuConfig, Falcon
      <3>2. InReset => ~Answers(AC000000, "GPU_ID")
        BY <3>1 DEF Answers
      <3>3. QED
        BY <3>1, <3>2 DEF ReadOf
    <2>7. InReset' = InReset
      BY <2>3 DEF InReset
    <2>8. QED
      BY <1>2, <2>1, <2>5, <2>6, <2>7
  <1>8. CASE pc[p] = Asks + 2
    <2>1. pc'[p] = Asks + 3
      BY <1>2, <1>3, <1>8
    <2> HIDE DEF s
    <2>2. i.op = "exit if" /\ i.cond = Among("gpu_cfg", {Ones})
      <3> HIDE DEF i
      <3>1. QED
        BY <1>2, <1>4, <1>8 DEF GhostShape
    <2>3. ~True(p) /\ regs' = regs
      BY <1>1, <2>2, RunPasses, RunEffects DEF card
    <2>4. local[p]["gpu_cfg"] # Ones
      <3> DEFINE c == Among("gpu_cfg", {Ones})
      <3>1. ~Holds(i.cond, local[p][i.cond.local])
        BY <2>3 DEF True
      <3>2. c.local = "gpu_cfg" /\ c.is = "among" /\ c.arg = {Ones}
        BY DEF Among
      <3> HIDE DEF c, i
      <3>3. ~Holds(c, local[p]["gpu_cfg"])
        BY <2>2, <3>1, <3>2 DEF c
      <3>4. QED
        BY <3>2, <3>3 DEF Holds
    <2>5. ~InReset /\ InReset' = InReset
      BY <1>5, <1>8, <2>3, <2>4 DEF InReset
    <2>6. QED
      BY <1>2, <2>1, <2>5
  <1>9. CASE pc[p] > Asks + 2
    <2>1. ~InReset /\ pc'[p] = pc[p] + 1
      BY <1>2, <1>3, <1>5, <1>9
    <2> HIDE DEF i, s
    <2>2. /\ regs \in [Regs -> Values] /\ "GPU_BAR0" \in Regs /\ "GPU_COMMAND" \in Regs
      BY Names DEF TypeOK, Values
    <2>3. \/ /\ pc[p] \in {Asks + 3, Asks + 6, Asks + 8} /\ regs' = regs
          \/ /\ pc[p] = Asks + 4
             /\ regs' = [regs EXCEPT !["GPU_PM"] = Written(p)]
          \/ /\ pc[p] = Asks + 5
             /\ regs' = [regs EXCEPT !["GPU_BAR0"] = AD000000]
          \/ /\ pc[p] = Asks + 7 /\ 1 \in Written(p)
             /\ regs' = [regs EXCEPT !["GPU_COMMAND"] = Written(p)]
          \/ /\ pc[p] = Asks + 9
             /\ regs' = [regs EXCEPT !["GPU_ROM"] = Written(p)]
      BY <1>1, <1>9, <2>1, GhostWrites
    <2>4. regs'["ROOT_CONTROL"] = regs["ROOT_CONTROL"]
      BY <2>2, <2>3, Names
    <2>5. /\ pc[p] = Asks + 5 => regs'["GPU_BAR0"] = AD000000
          /\ pc[p] # Asks + 5 => regs'["GPU_BAR0"] = regs["GPU_BAR0"]
      BY <1>2, <2>2, <2>3
    <2>6. /\ pc[p] = Asks + 7 => 1 \in regs'["GPU_COMMAND"]
          /\ pc[p] # Asks + 7 => regs'["GPU_COMMAND"] = regs["GPU_COMMAND"]
      BY <1>2, <2>2, <2>3
    <2>7. ~InReset'
      BY <2>1, <2>4 DEF InReset
    <2>8. QED
      BY <1>2, <1>5, <1>9, <2>1, <2>5, <2>6, <2>7
  <1>10. QED
    BY <1>2, <1>6, <1>7, <1>8, <1>9

LEMMA NextGhost == TypeOK /\ Known /\ GhostReady /\ [Next]_vars => GhostReady'
  <1> SUFFICES ASSUME TypeOK, Known, GhostReady, [Next]_vars,
                      NEW p \in Running', tool'[p] = "gpu_ghost_probe",
                      others'[p] \cap PciTools = {}
               PROVE  /\ pc'[p] = Asks + 2 /\ InReset' => local'[p]["gpu_cfg"] = Ones
                      /\ pc'[p] > Asks + 2 => ~InReset'
                      /\ pc'[p] > Asks + 5 => regs'["GPU_BAR0"] = AD000000
                      /\ pc'[p] > Asks + 7 => 1 \in regs'["GPU_COMMAND"]
    BY DEF GhostReady, Alone, Asks
  <1> DEFINE s == Path
             ts == PciTools
  <1>1. /\ s \in SUBSET (Regs \ {"STATUS", "ENABLE", "RESET"}) /\ "ROOT_CONTROL" \in s
        /\ "GPU_BAR0" \in s /\ "GPU_COMMAND" \in s
    BY Names DEF Path
  <1>2. \A t \in (DOMAIN Program) \ ts : Program[t] \in Avoids(s)
    BY AllAvoid
  <1> HIDE DEF s, ts
  <1>3. p \in Process /\ pc'[p] # 0 /\ Asks \in Nat
    BY HeadCareful, LenProperties DEF Running, Careful, Typed, Asks
  <1>4. CASE OwnRun(p)
    BY <1>3, <1>4, GhostReadies DEF Alone, OwnRun
  <1>5. CASE JustStarted(p)
    <2>1. pc'[p] = 1
      BY <1>5 DEF JustStarted
    <2>2. QED
      BY <1>3, <2>1
  <1>6. CASE LeftAlone(p, ts, s)
    <2>1. /\ InReset' = InReset /\ regs'["GPU_BAR0"] = regs["GPU_BAR0"]
          /\ regs'["GPU_COMMAND"] = regs["GPU_COMMAND"]
      BY <1>1, <1>6 DEF LeftAlone, InReset
    <2>2. /\ p \in Running /\ pc'[p] = pc[p] /\ local'[p] = local[p]
          /\ tool[p] = "gpu_ghost_probe" /\ others[p] \cap ts = {}
      BY <1>6 DEF LeftAlone
    <2>3. /\ pc[p] = Asks + 2 /\ InReset => local[p]["gpu_cfg"] = Ones
          /\ pc[p] > Asks + 2 => ~InReset
          /\ pc[p] > Asks + 5 => regs["GPU_BAR0"] = AD000000
          /\ pc[p] > Asks + 7 => 1 \in regs["GPU_COMMAND"]
      BY <2>2 DEF GhostReady, Alone, ts
    <2>4. QED
      BY <2>1, <2>2, <2>3
  <1>7. OwnRun(p) \/ JustStarted(p) \/ LeftAlone(p, ts, s)
    <2>1. others'[p] \cap ts = {}
      BY DEF ts
    <2>2. QED
      BY <1>1, <1>2, <2>1, Beside
  <1>8. QED
    BY <1>4, <1>5, <1>6, <1>7

(* When the ghost probe says that the path is unlocked, the card answers at *)
(* 0xAD000000, whether or not the other functions were awake and whatever   *)
(* tools ran beside it, but those that change the configuration.            *)
THEOREM PathOpens == Spec => PathUnlocked
  <1>1. TypeOK /\ GhostReady /\ [Next]_vars =>
            \A p \in Process :
                /\ Steps(p, "gpu_ghost_probe") /\ pc[p] = Len(Program["gpu_ghost_probe"])
                /\ others[p] \cap PciTools = {}
                => Answers(AD000000, "BOOT_0")'
    <2> SUFFICES ASSUME TypeOK, GhostReady, [Next]_vars, NEW p \in Process,
                        Steps(p, "gpu_ghost_probe"),
                        pc[p] = Len(Program["gpu_ghost_probe"]),
                        others[p] \cap PciTools = {}
                 PROVE  Answers(AD000000, "BOOT_0")'
      OBVIOUS
    <2>1. /\ pc[p] # 0 /\ pc'[p] # pc[p] /\ tool[p] = "gpu_ghost_probe" /\ p \in Running
      BY DEF Steps, Running
    <2>2. Run(p)
      BY <2>1, OwnStep
    <2>3. pc[p] = Asks + 9 /\ Asks \in Nat
      BY <2>1, GhostAt
    <2>4. ~InReset /\ regs["GPU_BAR0"] = AD000000 /\ 1 \in regs["GPU_COMMAND"]
      BY <2>1, <2>3 DEF GhostReady, Alone
    <2>5. regs' = [regs EXCEPT !["GPU_ROM"] = Written(p)]
      BY <2>1, <2>2, <2>3, <2>4, GhostWrites
    <2>6. regs \in [Regs -> Values]
      BY DEF TypeOK, Values
    <2>7. ~InReset' /\ regs'["GPU_BAR0"] = AD000000 /\ 1 \in regs'["GPU_COMMAND"]
      BY <2>4, <2>5, <2>6, Names DEF InReset
    <2>8. "BOOT_0" \notin Board /\ "BOOT_0" \notin GpuConfig
      BY DEF Board, GpuConfig
    <2>9. QED
      BY <2>7, <2>8 DEF Answers
  <1>2. Known /\ GhostReady /\ TypeOK /\ [Next]_vars => (Known /\ GhostReady)'
    BY NextKnown, NextGhost
  <1>3. Init => Known /\ GhostReady
    BY InitKnown, InitGhost
  <1>4. QED
    BY <1>1, <1>2, <1>3, TypeCorrect, PTL DEF Spec, PathUnlocked

-----------------------------------------------------------------------------
(* Runs alone.                                                              *)
(* A run nothing has gone wrong with but what ts names.                     *)
Quiet == {"refuses", "ioctl"}
Clean(p, ts) == others[p] = {} /\ trouble[p] \subseteq ts

LEMMA RunTrouble ==
    ASSUME TypeOK, NEW p \in Process, Run(p)
    PROVE  /\ trouble'[p] \in {trouble[p], trouble[p] \cup {"ioctl"}}
           /\ ~PciFails(p) => trouble' = trouble
           /\ PciFails(p) => "ioctl" \in trouble'[p]
  <1>1. CASE PciFails(p)
    <2>1. trouble' = [trouble EXCEPT ![p] = @ \cup {"ioctl"}]
      BY <1>1 DEF PciFails
    <2>2. trouble \in [Process -> SUBSET Troubles]
      BY DEF TypeOK
    <2>3. QED
      BY <1>1, <2>1, <2>2
  <1>2. CASE ~PciFails(p)
    <2>1. trouble' = trouble
      BY <1>2 DEF Run, LoadReg, SetReg, PutReg, CopyToMemory, PciReadReg, PciWriteReg,
                  Skip, Exit, Says, hist
    <2>2. QED
      BY <1>2, <2>1
  <1>3. QED
    BY <1>1, <1>2

(* A step of the card's that does not turn bits off.                        *)
Still(p) ==
    /\ p \in Running /\ pc'[p] = pc[p] /\ local'[p] = local[p] /\ tool'[p] = tool[p]
    /\ others'[p] = others[p] /\ trouble'[p] = trouble[p]
    /\ UNCHANGED <<refuses, lockout>>
    /\ \/ regs' = regs
       \/ regs["STATUS"] = {} /\ regs' = [regs EXCEPT !["STATUS"] = {1, 2}]

(* Beside a run that is alone only the card acts.                           *)
LEMMA Solo ==
    ASSUME TypeOK, Known, [Next]_vars, NEW p \in Running', NEW ts,
           Clean(p, ts)', "cleared" \notin ts
    PROVE  \/ OwnRun(p) /\ Clean(p, ts)
           \/ \E t \in Tools : Start(p, t)
           \/ Still(p) /\ Clean(p, ts)
  <1>1. p \in Process /\ pc'[p] # 0
    BY DEF Running
  <1>2. others'[p] = {} /\ trouble'[p] \subseteq ts
    BY DEF Clean
  <1>3. CASE UNCHANGED vars
    BY <1>1, <1>2, <1>3 DEF vars, card, hist, Running, Still, Clean
  <1>4. CASE HaltTaken
    BY <1>1, <1>2, <1>4 DEF HaltTaken, hist, Running, Still, Clean
  <1>5. CASE ClearedByCard
    <2>1. p \in Running /\ trouble'[p] = trouble[p] \cup {"cleared"}
      BY <1>1, <1>5 DEF ClearedByCard, Running
    <2>2. QED
      BY <1>2, <2>1
  <1>6. ASSUME NEW q \in Process, Run(q), q # p
        PROVE  FALSE
    <2>1. PICK n, l : l \in [Locals -> Values] /\ GoWith(q, n, l)
      BY <1>6, RunGoes
    <2>2. pc[q] # 0 /\ pc'[p] = pc[p]
      BY <1>1, <1>6, <2>1, RunGoes, GoType
    <2>3. p \in Running /\ q \in Running /\ others' = others
      BY <1>1, <1>6, <2>2, RunHistory DEF Running
    <2>4. tool[q] \in others[p]
      BY <1>6, <2>3 DEF Known
    <2>5. QED
      BY <1>2, <2>3, <2>4
  <1>7. ASSUME Run(p)
        PROVE  OwnRun(p) /\ Clean(p, ts)
    <2>1. OwnRun(p)
      BY <1>1, <1>7, RunHistory, RunGoes DEF Running, OwnRun
    <2>2. trouble[p] \subseteq trouble'[p]
      BY <1>1, <1>7, RunTrouble
    <2>3. QED
      BY <1>2, <2>1, <2>2 DEF OwnRun, Clean
  <1>8. ASSUME NEW q \in Process, NEW t \in Tools, Start(q, t), q # p
        PROVE  FALSE
    <2>1. pc'[p] = pc[p]
      BY <1>1, <1>8 DEF Start, TypeOK
    <2>2. p \in Running
      BY <1>1, <2>1 DEF Running
    <2>3. others'[p] = others[p] \cup {t}
      BY <1>1, <1>8, <2>2 DEF Start
    <2>4. QED
      BY <1>2, <2>3
  <1>9. QED
    BY <1>3, <1>4, <1>5, <1>6, <1>7, <1>8 DEF Next

(* What a run finds when it starts.                                         *)
LEMMA Starts ==
    ASSUME TypeOK, NEW p \in Process, NEW t \in Tools, Start(p, t)
    PROVE  /\ tool'[p] = t /\ pc'[p] = 1 /\ local'[p] = NoLocals /\ verdict'[p] = "none"
           /\ "silent" \in trouble'[p] \/ ~Silent(t)
           /\ "refuses" \in trouble'[p] \/ refuses = {}
           /\ UNCHANGED card
  BY DEF TypeOK, Start

-----------------------------------------------------------------------------
(* Where a step goes, once more: forward.                                   *)
LEMMA Lengths ==
    ASSUME NEW i \in Instructions
    PROVE  /\ i.op \in {"only if", "may skip"} => i.length \in Nat
           /\ i.op \in {"pci read", "pci write"} => i.then \in Nat
  <1>1. i.op = "only if" => i.length \in Nat
    BY DEF Instructions
  <1>2. i.op = "may skip" => i.length \in Nat
    BY DEF Instructions
  <1>3. i.op = "pci read" => i.then \in Nat
    BY DEF Instructions
  <1>4. i.op = "pci write" => i.then \in Nat
    BY DEF Instructions
  <1>5. QED
    BY <1>1, <1>2, <1>3, <1>4

LEMMA PlusMore ==
    \A m, n \in Nat : /\ m + 1 \in Nat /\ m + 1 > m
                     /\ m + 1 + n \in Nat /\ m + 1 + n > m
  OBVIOUS

LEMMA RunForward ==
    ASSUME TypeOK, NEW p \in Process, Run(p), pc'[p] # 0
    PROVE  pc[p] \in Nat /\ pc'[p] \in Nat /\ pc'[p] > pc[p]
  <1> DEFINE i == Instr(p)
  <1>1. pc[p] \in Nat /\ pc[p] # 0 /\ i \in Instructions
    BY RunGoes, InstrType DEF TypeOK
  <1>2. /\ i.op \in {"only if", "may skip"} => i.length \in Nat
        /\ i.op \in {"pci read", "pci write"} => i.then \in Nat
    BY <1>1, Lengths
  <1>3. CASE i.op \notin {"pci read", "pci write"}
    <2>1. \/ pc'[p] = pc[p] + 1
          \/ i.op \in {"only if", "may skip"} /\ pc'[p] = pc[p] + 1 + i.length
      BY <1>3, RunJumps
    <2> HIDE DEF i
    <2>2. QED
      BY <1>1, <1>2, <2>1, PlusMore
  <1>4. CASE i.op \in {"pci read", "pci write"}
    <2>1. PciReadReg(p) \/ PciWriteReg(p) \/ PciFails(p)
      BY <1>4 DEF Run, LoadReg, SetReg, PutReg, CopyToMemory, Skip, Exit, Says, At, Instr
    <2>2. \E l : GoWith(p, pc[p] + 1, l) \/ GoWith(p, pc[p] + 1 + i.then, l)
      BY <2>1 DEF PciReadReg, PciWriteReg, PciFails
    <2> HIDE DEF i
    <2>3. ASSUME NEW n, NEW l, GoWith(p, n, l)
          PROVE  pc'[p] = n
      BY <2>3 DEF GoWith, TypeOK
    <2>4. pc'[p] = pc[p] + 1 \/ pc'[p] = pc[p] + 1 + i.then
      BY <2>2, <2>3
    <2>5. QED
      BY <1>1, <1>2, <1>4, <2>4, PlusMore
  <1>5. QED
    BY <1>3, <1>4
-----------------------------------------------------------------------------
(* Programs that check their work.                                          *)
Straight  == {"load", "set", "put"}
CardTools == (DOMAIN Program) \ PciTools
OfCard    == Falcon \cup Engine

(* What comes before m in s leads to m, or ends the run.                    *)
Leads(s, m) ==
    \A j \in 1 .. m : \/ s[j].op \in Straight
                      \/ s[j].op = "only if" /\ j + s[j].length < m

(* s loads r into x at m, and keeps it until it reports at n.               *)
Reads(s, x, r, m, n) ==
    /\ m \in 1 .. Len(s) /\ n \in 1 .. Len(s) /\ m < n
    /\ s[m].op = "load" /\ s[m].local = x /\ s[m].reg = r
    /\ Leads(s, m)
    /\ \A j \in m + 1 .. n - 1 : /\ s[j].op \in {"load", "only if", "exit if"}
                                 /\ s[j].op = "load" => s[j].local # x
    /\ \A j \in 1 .. Len(s) : s[j].op = "report" <=> j = n

(* s stores to r at k what meets c, and nothing else until n.               *)
Meeting(i, c) ==
    \/ i.op = "set" /\ Holds(c, i.value)
    \/ i.op = "put" /\ i.off = {} /\ c.is = "meets" /\ i.on \cap c.arg # {}

Settles(s, c, r, k, n) ==
    /\ k \in 1 .. Len(s) /\ n \in 1 .. Len(s) /\ k < n
    /\ s[k].reg = r /\ Meeting(s[k], c)
    /\ \A j \in 1 .. k : s[j].op \in Straight
    /\ \A j \in k + 1 .. n : ~Storing(s[j], {r})

(* The registers that only the tools write, and that they can write.        *)
Settable == OfCard \ {"BOOT_0", "STATUS"}

(* The way to the card, for a run alone that it has answered.               *)
WayOpen ==
    \A p \in Running :
        /\ Clean(p, Quiet) =>
              /\ tool[p] \in CardTools => Reached(MappedAt(tool[p])) /\ ~lockout
              /\ tool[p] \in {"nv_gpu_repin", "nv_gpu_open_valves"} => ~InReset
        /\ Clean(p, {}) => refuses = {}

(* What has been loaded is what the register holds; the falcon may have     *)
(* taken a halt since its status was read.                                  *)
Reading ==
    \A p \in Running :
        Clean(p, Quiet) /\ tool[p] \in CardTools =>
            \A x \in Locals, r \in OfCard, m, n \in Nat :
                Reads(Program[tool[p]], x, r, m, n) /\ pc[p] \in m + 1 .. n =>
                    local[p][x] = regs[r] \/ (local[p][x] = {} /\ r = "STATUS")

(* What has been stored is what the register holds.                         *)
Settled ==
    \A p \in Running :
        Clean(p, {}) /\ tool[p] \in CardTools =>
            \A c \in Conditions, r \in Settable, k, n \in Nat :
                Settles(Program[tool[p]], c, r, k, n) /\ pc[p] \in k + 1 .. n =>
                    Holds(c, regs[r])

LEMMA InitAlone == Init => WayOpen /\ Reading /\ Settled
  BY DEF Init, WayOpen, Reading, Settled, Running

(* A straight instruction is followed by the next.                          *)
LEMMA StraightOn ==
    ASSUME TypeOK, NEW p \in Process, Run(p), pc'[p] # 0, Instr(p).op \in Straight
    PROVE  pc'[p] = pc[p] + 1
  BY RunEffects DEF Straight

LEMMA StraightLeads ==
    ASSUME NEW s, NEW m, \A j \in 1 .. m : s[j].op \in Straight
    PROVE  Leads(s, m)
  BY DEF Leads

LEMMA PlusLess ==
    ASSUME NEW a \in Nat, NEW b \in Nat, NEW c \in Nat, a + b < c
    PROVE  a < c /\ a + 1 <= c /\ a + 1 + b <= c
  OBVIOUS

(* Where a run comes from that is past j and not past n, when what comes    *)
(* before j leads there.                                                    *)
LEMMA ComesFrom ==
    ASSUME TypeOK, NEW p \in Process, Run(p), NEW j \in Nat, NEW n \in Nat,
           pc'[p] \in j + 1 .. n, Leads(Program[tool[p]], j)
    PROVE  /\ pc[p] \in j .. n - 1 /\ pc[p] \in Nat
           /\ pc[p] = j => pc'[p] = j + 1
           /\ Instr(p) = Program[tool[p]][pc[p]]
  <1> DEFINE i == Instr(p)
  <1>1. pc'[p] # 0
    OBVIOUS
  <1>2. pc[p] \in Nat /\ pc'[p] \in Nat /\ pc'[p] > pc[p] /\ pc[p] # 0
    BY <1>1, RunForward, RunGoes
  <1>3. i = Program[tool[p]][pc[p]] /\ i \in Instructions
    BY <1>2, InstrType DEF Instr
  <1>4. ASSUME pc[p] <= j
        PROVE  pc'[p] = pc[p] + 1 \/ (pc[p] < j /\ pc'[p] <= j)
    <2>1. pc[p] \in 1 .. j
      BY <1>2, <1>4
    <2>2. i.op \in Straight \/ (i.op = "only if" /\ pc[p] + i.length < j)
      BY <1>3, <2>1 DEF Leads
    <2>3. CASE i.op \in Straight
      BY <1>1, <2>3, StraightOn
    <2>4. CASE i.op = "only if" /\ pc[p] + i.length < j
      <3> DEFINE k == i.length
      <3>1. k \in Nat
        BY <1>3, <2>4, Lengths
      <3>2. pc'[p] = pc[p] + 1 \/ pc'[p] = pc[p] + 1 + k
        BY <1>1, <2>4, RunJumps
      <3>3. pc[p] + k < j
        BY <2>4
      <3> HIDE DEF i, k
      <3>4. pc[p] < j /\ pc[p] + 1 <= j /\ pc[p] + 1 + k <= j
        BY <1>2, <3>1, <3>3, PlusLess
      <3>5. QED
        BY <3>2, <3>4
    <2>5. QED
      BY <2>2, <2>3, <2>4
  <1> HIDE DEF i
  <1>5. QED
    BY <1>2, <1>3, <1>4 DEF i

(* The run's own step keeps the card in reach.                              *)
LEMMA OwnReaches ==
    ASSUME TypeOK, NEW p \in Process, Run(p), tool[p] \in CardTools
    PROVE  /\ \A b : Reached(b)' = Reached(b)
           /\ lockout' \in {lockout, FALSE}
  <1>1. Program[tool[p]] \in Avoids(Path)
    BY AllAvoid DEF CardTools
  <1>2. Path \in SUBSET Regs /\ "ROOT_CONTROL" \in Path
    BY Names DEF Path
  <1>3. \A r \in Path : regs'[r] = regs[r]
    BY <1>1, <1>2, RunAvoids
  <1>4. lockout' \in {lockout, FALSE}
    BY RunWrites DEF Write
  <1>5. QED
    BY <1>3, <1>4, ReachedStays

LEMMA OwnReads ==
    ASSUME TypeOK, WayOpen, Reading, NEW p \in Running, OwnRun(p), Clean(p, Quiet),
           tool[p] \in CardTools, NEW x \in Locals, NEW r \in OfCard,
           NEW m \in Nat, NEW n \in Nat,
           Reads(Program[tool[p]], x, r, m, n), pc'[p] \in m + 1 .. n
    PROVE  local'[p][x] = regs'[r] \/ (local'[p][x] = {} /\ r = "STATUS")
  <1> DEFINE i == Instr(p)
             s == Program[tool[p]]
  <1>1. p \in Process /\ Run(p) /\ pc'[p] # 0
    BY DEF OwnRun, Running
  <1>2. /\ m \in 1 .. Len(s) /\ n \in 1 .. Len(s) /\ m < n
        /\ s[m].op = "load" /\ s[m].local = x /\ s[m].reg = r
        /\ Leads(s, m)
        /\ \A j \in m + 1 .. n - 1 : /\ s[j].op \in {"load", "only if", "exit if"}
                                     /\ s[j].op = "load" => s[j].local # x
    BY DEF Reads
  <1>3. pc[p] \in m .. n - 1 /\ i = s[pc[p]]
    BY <1>1, <1>2, ComesFrom
  <1>4. local[p] \in [Locals -> Values]
    <2>1. local \in [Process -> [Locals -> Values]]
      BY DEF TypeOK, Values
    <2>2. QED
      BY <1>1, <2>1
  <1>5. Reached(MappedAt(tool[p])) /\ ~lockout
    BY DEF WayOpen
  <1>6. CASE pc[p] = m
    <2> HIDE DEF s
    <2>1. i.op = "load" /\ i.local = x /\ i.reg = r
      <3> HIDE DEF i
      <3>1. QED
        BY <1>2, <1>3, <1>6
    <2>2. /\ regs' = regs
          /\ local'[p] = [local[p] EXCEPT ![i.local] = ReadOf(MappedAt(tool[p]), i.reg)]
      BY <1>1, <2>1, RunEffects DEF card
    <2>3. ReadOf(MappedAt(tool[p]), r) = regs[r]
      <3>1. Answers(MappedAt(tool[p]), r)
        BY <1>5, ReachedIs DEF OfCard
      <3>2. QED
        BY <1>5, <3>1 DEF ReadOf
    <2> HIDE DEF i
    <2>4. QED
      BY <1>4, <2>1, <2>2, <2>3
  <1>7. CASE pc[p] # m
    <2>1. pc[p] \in m + 1 .. n - 1 /\ pc[p] \in m + 1 .. n
      <3>1. m \in Nat /\ n \in Nat /\ m < n /\ pc[p] \in m .. n - 1
        BY <1>2, <1>3
      <3> HIDE DEF i, s
      <3>2. QED
        BY <1>7, <3>1
    <2>2. local[p][x] = regs[r] \/ (local[p][x] = {} /\ r = "STATUS")
      BY <2>1 DEF Reading
    <2> HIDE DEF s
    <2>3. i.op \in {"load", "only if", "exit if"} /\ (i.op = "load" => i.local # x)
      <3> HIDE DEF i
      <3>1. QED
        BY <1>2, <1>3, <2>1
    <2>4. /\ regs' = regs
          /\ i.op = "load" =>
                local'[p] = [local[p] EXCEPT ![i.local] = ReadOf(MappedAt(tool[p]), i.reg)]
          /\ i.op \in {"only if", "exit if"} => local'[p] = local[p]
      BY <1>1, <2>3, RunEffects DEF card
    <2> HIDE DEF i
    <2>5. local'[p][x] = local[p][x]
      BY <1>4, <2>3, <2>4
    <2>6. QED
      BY <2>2, <2>4, <2>5
  <1>8. QED
    BY <1>6, <1>7

LEMMA OwnSettles ==
    ASSUME TypeOK, WayOpen, Settled, NEW p \in Running, OwnRun(p), Clean(p, {}),
           tool[p] \in CardTools, NEW c \in Conditions, NEW r \in Settable,
           NEW k \in Nat, NEW n \in Nat,
           Settles(Program[tool[p]], c, r, k, n), pc'[p] \in k + 1 .. n
    PROVE  Holds(c, regs'[r])
  <1> DEFINE i == Instr(p)
             s == Program[tool[p]]
  <1>1. p \in Process /\ Run(p) /\ pc'[p] # 0 /\ pc[p] # 0
    BY DEF OwnRun, Running
  <1>2. /\ k \in 1 .. Len(s) /\ n \in 1 .. Len(s) /\ k < n
        /\ s[k].reg = r /\ Meeting(s[k], c)
        /\ \A j \in 1 .. k : s[j].op \in Straight
        /\ \A j \in k + 1 .. n : ~Storing(s[j], {r})
    BY DEF Settles
  <1>3. pc[p] \in k .. n - 1 /\ i = s[pc[p]]
    <2>1. Leads(s, k)
      BY <1>2, StraightLeads
    <2>2. QED
      BY <1>1, <1>2, <2>1, ComesFrom
  <1>4. r \in Regs /\ r \in OfCard /\ r # "BOOT_0" /\ regs \in [Regs -> Values]
    BY DEF Settable, OfCard, Regs, TypeOK, Values
  <1>5. Reached(MappedAt(tool[p])) /\ ~lockout /\ refuses = {}
    BY DEF WayOpen, Clean, Quiet
  <1>6. CASE pc[p] = k
    <2> HIDE DEF s
    <2>1. i.reg = r /\ Meeting(i, c)
      <3> HIDE DEF i
      <3>1. QED
        BY <1>2, <1>3, <1>6
    <2>2. i.op \in {"set", "put"}
      BY <2>1 DEF Meeting
    <2>3. ASSUME NEW v \in Values, Write(MappedAt(tool[p]), r, v)
          PROVE  regs'[r] = v
      <3>1. regs' = [regs EXCEPT ![r] = v]
        BY <1>4, <1>5, <2>3, WriteCard DEF OfCard
      <3>2. QED
        BY <1>4, <3>1
    <2>4. CASE i.op = "set"
      <3>1. i.value \in Values
        BY <1>1, <2>4, InstrType, Fields
      <3>2. Write(MappedAt(tool[p]), r, i.value)
        BY <1>1, <2>1, <2>4, RunEffects
      <3>3. Holds(c, i.value)
        BY <2>1, <2>4 DEF Meeting
      <3> HIDE DEF i
      <3>4. QED
        BY <2>3, <3>1, <3>2, <3>3
    <2>5. CASE i.op = "put"
      <3>1. Written(p) \in Values
        BY <1>1, <2>5, WrittenType
      <3>2. Write(MappedAt(tool[p]), r, Written(p))
        BY <1>1, <2>1, <2>5, RunEffects
      <3>3. i.off = {} /\ c.is = "meets" /\ i.on \cap c.arg # {}
        BY <2>1, <2>5 DEF Meeting
      <3>4. i.on \subseteq Written(p)
        BY <3>3 DEF Written
      <3> HIDE DEF i
      <3>5. Holds(c, Written(p))
        BY <3>3, <3>4 DEF Holds
      <3>6. QED
        BY <2>3, <3>1, <3>2, <3>5
    <2>6. QED
      BY <2>2, <2>4, <2>5
  <1>7. CASE pc[p] # k
    <2>1. pc[p] \in k + 1 .. n
      <3>1. k \in Nat /\ n \in Nat /\ k < n /\ pc[p] \in k .. n - 1
        BY <1>2, <1>3
      <3> HIDE DEF i, s
      <3>2. QED
        BY <1>7, <3>1
    <2>2. Holds(c, regs[r])
      BY <2>1 DEF Settled
    <2> HIDE DEF s
    <2>3. ~Storing(i, {r})
      <3> HIDE DEF i
      <3>1. QED
        BY <1>2, <1>3, <2>1
    <2>4. regs'[r] = regs[r]
      <3>1. ASSUME NEW base, NEW q \in Regs, NEW v \in Values, Write(base, q, v),
                   i.op \in {"set", "put", "pci write"}, q = i.reg
            PROVE  regs'[r] = regs[r]
        <4>1. q # r
          BY <2>3, <3>1 DEF Storing
        <4>2. \/ regs' = regs \/ regs' = [regs EXCEPT ![q] = v]
              \/ regs' = [regs EXCEPT ![q] = v, !["GPU_COMMAND"] = {}, !["GPU_BAR0"] = {}]
          BY <3>1 DEF Write
        <4>3. r # "GPU_COMMAND" /\ r # "GPU_BAR0"
          BY <1>4 DEF OfCard, Falcon, Engine
        <4>4. QED
          BY <1>4, <4>1, <4>2, <4>3
      <3>2. CASE regs' = regs
        BY <3>2
      <3>3. QED
        BY <1>1, <3>1, <3>2, RunWrites
    <2>5. QED
      BY <2>2, <2>4
  <1>8. QED
    BY <1>6, <1>7

-----------------------------------------------------------------------------
(* The configuration tools that check their work: their programs.           *)
Ioctl(s, op, x, r, then) ==
    /\ s \in Units /\ s[1].op = op /\ s[1].local = x /\ s[1].reg = r /\ s[1].then = then

LEMMA ReadUnit ==
    ASSUME NEW x \in Locals, NEW r \in Regs, NEW then \in Nat
    PROVE  Ioctl(PciRead(x, r, then), "pci read", x, r, then)
  <1> DEFINE h == [op |-> "pci read", local |-> x, reg |-> r, then |-> then]
  <1>1. h \in Instructions
    BY DEF Instructions
  <1>2. h.op = "pci read" /\ h.local = x /\ h.reg = r /\ h.then = then
    OBVIOUS
  <1>3. PciRead(x, r, then) = <<h>>
    BY DEF PciRead
  <1> HIDE DEF h
  <1>4. <<h>> \in Typed /\ Len(<<h>>) = 1 /\ <<h>>[1] = h
    BY <1>1, Single
  <1>5. QED
    BY <1>2, <1>3, <1>4 DEF Ioctl, Units

LEMMA WriteUnit ==
    ASSUME NEW x \in Locals, NEW r \in Regs, NEW then \in Nat, NEW on \in Values
    PROVE  /\ Ioctl(PciWrite(r, x, on, {}, then), "pci write", x, r, then)
           /\ PciWrite(r, x, on, {}, then)[1].on = on
           /\ PciWrite(r, x, on, {}, then)[1].off = {}
  <1> DEFINE h == [op |-> "pci write", reg |-> r, local |-> x, on |-> on,
                   off |-> {}, then |-> then]
  <1>1. h \in Instructions
    BY DEF Instructions
  <1>2. /\ h.op = "pci write" /\ h.local = x /\ h.reg = r /\ h.then = then
        /\ h.on = on /\ h.off = {}
    OBVIOUS
  <1>3. PciWrite(r, x, on, {}, then) = <<h>>
    BY DEF PciWrite
  <1> HIDE DEF h
  <1>4. <<h>> \in Typed /\ Len(<<h>>) = 1 /\ <<h>>[1] = h
    BY <1>1, Single
  <1>5. QED
    BY <1>2, <1>3, <1>4 DEF Ioctl, Units

LEMMA ReportUnit ==
    ASSUME NEW c \in Conditions
    PROVE  Report(c) \in Units /\ Report(c)[1].op = "report" /\ Report(c)[1].cond = c
  <1> DEFINE h == [op |-> "report", cond |-> c]
  <1>1. h \in Instructions
    BY DEF Instructions
  <1>2. h.op = "report" /\ h.cond = c
    OBVIOUS
  <1>3. Report(c) = <<h>>
    BY DEF Report
  <1> HIDE DEF h
  <1>4. <<h>> \in Typed /\ Len(<<h>>) = 1 /\ <<h>>[1] = h
    BY <1>1, Single
  <1>5. QED
    BY <1>2, <1>3, <1>4 DEF Units

Window == Bytes4({}, {2, 3, 5, 7}, {}, {0, 2, 3, 5, 7})

LEMMA WindowIs ==
    Window \in Values /\ Window # AC000000
  <1>1. Window \in Values
    BY DEF Window, Bytes4, Values, Bits
  <1>2. 10 \in Window
    <2>1. 10 \in {8 + i : i \in {2, 3, 5, 7}}
      OBVIOUS
    <2>2. QED
      BY <2>1 DEF Window, Bytes4
  <1>3. 10 \notin AC000000
    BY DEF AC000000, Bytes4
  <1>4. QED
    BY <1>1, <1>2, <1>3

RepinShape(s) ==
    /\ s \in Typed /\ Len(s) = 4
    /\ s[1].op = "pci write" /\ s[1].reg = "GPU_BAR0" /\ s[1].local = "zero"
    /\ s[1].on = AC000000 /\ s[1].off = {} /\ s[1].then = 0
    /\ s[2].op = "pci write" /\ s[2].reg = "ROOT_WINDOW" /\ s[2].local = "zero"
    /\ s[2].on = Window /\ s[2].off = {} /\ s[2].then = 0
    /\ s[3].op = "pci read" /\ s[3].reg = "GPU_BAR0" /\ s[3].local = "pi_data"
    /\ s[3].then = 0
    /\ s[4].op = "report" /\ s[4].cond = Among("pi_data", {AC000000})

LEMMA RepinProgram == RepinShape(nv_gpu_repin)
  <1> DEFINE a == PciWrite("GPU_BAR0", "zero", AC000000, {}, 0)
             b == PciWrite("ROOT_WINDOW", "zero", Window, {}, 0)
             c == PciRead("pi_data", "GPU_BAR0", 0)
             k == Among("pi_data", {AC000000})
             d == Report(k)
             s == ((a \o b) \o c) \o d
  <1>1. s = nv_gpu_repin
    BY DEF nv_gpu_repin, Window
  <1>2. k \in Conditions
    BY Tests, LocalNames, Constants
  <1> HIDE DEF k
  <1>3. /\ Ioctl(a, "pci write", "zero", "GPU_BAR0", 0) /\ a[1].on = AC000000 /\ a[1].off = {}
        /\ Ioctl(b, "pci write", "zero", "ROOT_WINDOW", 0) /\ b[1].on = Window /\ b[1].off = {}
        /\ Ioctl(c, "pci read", "pi_data", "GPU_BAR0", 0)
    <2>1. /\ "GPU_BAR0" \in Regs /\ "ROOT_WINDOW" \in Regs /\ 0 \in Nat
          /\ "zero" \in Locals /\ "pi_data" \in Locals
          /\ AC000000 \in Values /\ Window \in Values
      BY Names, LocalNames, Constants, WindowIs
    <2>2. Ioctl(a, "pci write", "zero", "GPU_BAR0", 0) /\ a[1].on = AC000000 /\ a[1].off = {}
      <3> DEFINE v == AC000000
      <3>1. v \in Values
        BY <2>1
      <3> HIDE DEF v
      <3>2. /\ Ioctl(PciWrite("GPU_BAR0", "zero", v, {}, 0), "pci write", "zero", "GPU_BAR0", 0)
            /\ PciWrite("GPU_BAR0", "zero", v, {}, 0)[1].on = v
            /\ PciWrite("GPU_BAR0", "zero", v, {}, 0)[1].off = {}
        BY <2>1, <3>1, WriteUnit
      <3>3. QED
        BY <3>2 DEF v
    <2>3. Ioctl(b, "pci write", "zero", "ROOT_WINDOW", 0) /\ b[1].on = Window /\ b[1].off = {}
      <3> DEFINE v == Window
      <3>1. v \in Values
        BY <2>1
      <3> HIDE DEF v
      <3>2. /\ Ioctl(PciWrite("ROOT_WINDOW", "zero", v, {}, 0),
                     "pci write", "zero", "ROOT_WINDOW", 0)
            /\ PciWrite("ROOT_WINDOW", "zero", v, {}, 0)[1].on = v
            /\ PciWrite("ROOT_WINDOW", "zero", v, {}, 0)[1].off = {}
        BY <2>1, <3>1, WriteUnit
      <3>3. QED
        BY <3>2 DEF v
    <2>4. Ioctl(c, "pci read", "pi_data", "GPU_BAR0", 0)
      BY <2>1, ReadUnit
    <2>5. QED
      BY <2>2, <2>3, <2>4
  <1>4. d \in Units /\ d[1].op = "report" /\ d[1].cond = k
    BY <1>2, ReportUnit
  <1> HIDE DEF a, b, c, d
  <1>5. Quad(s, a, b, c, d)
    BY <1>3, <1>4, Four DEF Ioctl
  <1> HIDE DEF s
  <1>6. RepinShape(s)
    BY <1>3, <1>4, <1>5 DEF RepinShape, Quad, Ioctl, k
  <1>7. QED
    BY <1>1, <1>6

ValvesShape(s) ==
    /\ s \in Typed /\ Len(s) = 4
    /\ s[1].op = "pci read" /\ s[1].reg = "GPU_COMMAND" /\ s[1].local = "cmd"
    /\ s[1].then = 0
    /\ s[2].op = "pci write" /\ s[2].reg = "GPU_COMMAND" /\ s[2].local = "cmd"
    /\ s[2].on = {1, 2} /\ s[2].off = {} /\ s[2].then = 99
    /\ s[3].op = "pci read" /\ s[3].reg = "GPU_COMMAND" /\ s[3].local = "pi_data"
    /\ s[3].then = 0
    /\ s[4].op = "report" /\ s[4].cond = Meets("pi_data", {1})

LEMMA ValvesProgram == ValvesShape(nv_gpu_open_valves)
  <1> DEFINE a == PciRead("cmd", "GPU_COMMAND", 0)
             b == PciWrite("GPU_COMMAND", "cmd", {1, 2}, {}, 99)
             c == PciRead("pi_data", "GPU_COMMAND", 0)
             k == Meets("pi_data", {1})
             d == Report(k)
             s == ((a \o b) \o c) \o d
  <1>1. s = nv_gpu_open_valves
    BY DEF nv_gpu_open_valves, Quit
  <1>2. k \in Conditions
    BY Tests, LocalNames, BitSets
  <1> HIDE DEF k
  <1>3. /\ Ioctl(a, "pci read", "cmd", "GPU_COMMAND", 0)
        /\ Ioctl(b, "pci write", "cmd", "GPU_COMMAND", 99) /\ b[1].on = {1, 2} /\ b[1].off = {}
        /\ Ioctl(c, "pci read", "pi_data", "GPU_COMMAND", 0)
    <2>1. /\ "GPU_COMMAND" \in Regs /\ 0 \in Nat /\ 99 \in Nat
          /\ "cmd" \in Locals /\ "pi_data" \in Locals /\ {1, 2} \in Values
      BY Names, LocalNames, BitSets
    <2>2. Ioctl(a, "pci read", "cmd", "GPU_COMMAND", 0)
      BY <2>1, ReadUnit
    <2>3. Ioctl(b, "pci write", "cmd", "GPU_COMMAND", 99) /\ b[1].on = {1, 2} /\ b[1].off = {}
      <3> DEFINE v == {1, 2}
      <3>1. v \in Values
        BY <2>1
      <3> HIDE DEF v
      <3>2. /\ Ioctl(PciWrite("GPU_COMMAND", "cmd", v, {}, 99),
                     "pci write", "cmd", "GPU_COMMAND", 99)
            /\ PciWrite("GPU_COMMAND", "cmd", v, {}, 99)[1].on = v
            /\ PciWrite("GPU_COMMAND", "cmd", v, {}, 99)[1].off = {}
        BY <2>1, <3>1, WriteUnit
      <3>3. QED
        BY <3>2 DEF v
    <2>4. Ioctl(c, "pci read", "pi_data", "GPU_COMMAND", 0)
      BY <2>1, ReadUnit
    <2>5. QED
      BY <2>2, <2>3, <2>4
  <1>4. d \in Units /\ d[1].op = "report" /\ d[1].cond = k
    BY <1>2, ReportUnit
  <1> HIDE DEF a, b, c, d
  <1>5. Quad(s, a, b, c, d)
    BY <1>3, <1>4, Four DEF Ioctl
  <1> HIDE DEF s
  <1>6. ValvesShape(s)
    BY <1>3, <1>4, <1>5 DEF ValvesShape, Quad, Ioctl, k
  <1>7. QED
    BY <1>1, <1>6

-----------------------------------------------------------------------------
(* What an ioctl does, whether or not it fails.                             *)
LEMMA PciReads ==
    ASSUME TypeOK, NEW p \in Process, Run(p), pc'[p] # 0, Instr(p).op = "pci read"
    PROVE  /\ UNCHANGED card
           /\ \E v : /\ local'[p] = [local[p] EXCEPT !.pi_data = v, ![Instr(p).local] = v]
                     /\ \/ pc'[p] = pc[p] + 1 /\ v = ReadOf({}, Instr(p).reg)
                        \/ /\ PciFails(p) /\ pc'[p] = pc[p] + 1 + Instr(p).then
                           /\ pc[p] # 1 => v = local[p].pi_data
  <1> DEFINE i == Instr(p)
             with(v) == [local[p] EXCEPT !.pi_data = v, ![i.local] = v]
  <1>1. /\ pc \in [Process -> Nat] /\ local \in [Process -> [Locals -> Values]]
    BY DEF TypeOK, Values
  <1>2. ASSUME NEW n, NEW l, GoWith(p, n, l)
        PROVE  pc'[p] = n /\ local'[p] = l
    BY <1>1, <1>2 DEF GoWith
  <1>3. PciReadReg(p) \/ PciFails(p)
    BY DEF Run, LoadReg, SetReg, PutReg, CopyToMemory, PciWriteReg, Skip, Exit, Says, At,
           Instr
  <1>4. UNCHANGED card
    BY <1>3 DEF PciReadReg, PciFails
  <1>5. CASE PciReadReg(p)
    <2>1. GoWith(p, pc[p] + 1, with(ReadOf({}, i.reg)))
      BY <1>5 DEF PciReadReg
    <2> HIDE DEF i
    <2>2. QED
      BY <1>2, <1>4, <2>1 DEF i
  <1>6. CASE PciFails(p)
    <2>1. ~At(p, "pci write")
      BY DEF At, Instr
    <2>2. PICK v : /\ GoWith(p, pc[p] + 1 + i.then, with(v))
                   /\ pc[p] # 1 => v = local[p].pi_data
      BY <1>6, <2>1 DEF PciFails
    <2> HIDE DEF i
    <2>3. QED
      BY <1>2, <1>4, <1>6, <2>2 DEF i
  <1>7. QED
    BY <1>3, <1>5, <1>6

LEMMA PciWrites ==
    ASSUME TypeOK, NEW p \in Process, Run(p), pc'[p] # 0, Instr(p).op = "pci write"
    PROVE  /\ local'[p] = [local[p] EXCEPT !.pi_data = Written(p)]
           /\ \/ /\ pc'[p] = pc[p] + 1
                 /\ Write({}, Instr(p).reg, Written(p))
              \/ /\ PciFails(p) /\ pc'[p] = pc[p] + 1 + Instr(p).then
                 /\ UNCHANGED card
  <1> DEFINE i == Instr(p)
             l == [local[p] EXCEPT !.pi_data = Written(p)]
  <1>1. /\ pc \in [Process -> Nat] /\ local \in [Process -> [Locals -> Values]]
    BY DEF TypeOK, Values
  <1>2. ASSUME NEW n, GoWith(p, n, l)
        PROVE  pc'[p] = n /\ local'[p] = l
    BY <1>1, <1>2 DEF GoWith
  <1>3. PciWriteReg(p) \/ PciFails(p)
    BY DEF Run, LoadReg, SetReg, PutReg, CopyToMemory, PciReadReg, Skip, Exit, Says, At,
           Instr
  <1>4. CASE PciWriteReg(p)
    <2>1. GoWith(p, pc[p] + 1, l) /\ Write({}, i.reg, Written(p))
      BY <1>4 DEF PciWriteReg
    <2> HIDE DEF i, l
    <2>2. QED
      BY <1>2, <2>1 DEF i, l
  <1>5. CASE PciFails(p)
    <2>1. At(p, "pci write")
      BY <1>5 DEF PciFails, At, Instr
    <2>2. GoWith(p, pc[p] + 1 + i.then, l) /\ UNCHANGED card
      BY <1>5, <2>1 DEF PciFails
    <2> HIDE DEF i, l
    <2>3. QED
      BY <1>2, <1>5, <2>2 DEF i, l
  <1>6. QED
    BY <1>3, <1>4, <1>5

-----------------------------------------------------------------------------
(* What nv_gpu_repin and nv_gpu_open_valves know of the registers they set. *)
Repinned ==
    \A p \in Running :
        tool[p] = "nv_gpu_repin" /\ Clean(p, Quiet) =>
            /\ pc[p] <= 2 => local[p]["zero"] = {}
            /\ pc[p] = 3 => local[p]["pi_data"] # AC000000
            /\ pc[p] = 4 /\ local[p]["pi_data"] = AC000000 => regs["GPU_BAR0"] = AC000000
            /\ Clean(p, {}) =>
                  /\ pc[p] > 1 => regs["GPU_BAR0"] = AC000000
                  /\ pc[p] = 4 => local[p]["pi_data"] = AC000000

Opened ==
    \A p \in Running :
        tool[p] = "nv_gpu_open_valves" /\ Clean(p, Quiet) /\ pc[p] > 2 =>
            local[p]["pi_data"] = regs["GPU_COMMAND"] /\ 1 \in regs["GPU_COMMAND"]

LEMMA InitPci == Init => Repinned /\ Opened
  BY DEF Init, Repinned, Opened, Running

LEMMA RepinAt ==
    ASSUME TypeOK, NEW p \in Process, pc[p] # 0, tool[p] = "nv_gpu_repin"
    PROVE  /\ Instr(p) = nv_gpu_repin[pc[p]] /\ pc[p] \in 1 .. 4
           /\ DOMAIN Program[tool[p]] = 1 .. 4
           /\ Program[tool[p]] \in Avoids({"ROOT_CONTROL"})
  <1> DEFINE s == nv_gpu_repin
  <1>1. Program[tool[p]] = s
    <2>1. Program["nv_gpu_repin"] = s
      BY DEF Program
    <2>2. QED
      BY <2>1
  <1> HIDE DEF s
  <1>2. RepinShape(s)
    BY RepinProgram DEF s
  <1>3. Len(s) = 4 /\ s \in Typed
    BY <1>2 DEF RepinShape
  <1>4. Instr(p) = s[pc[p]]
    BY <1>1 DEF Instr
  <1>5. pc[p] \in 1 .. 4 /\ DOMAIN Program[tool[p]] = 1 .. 4
    BY <1>1, <1>3, InstrType
  <1>6. \A n \in 1 .. Len(s) : ~Storing(s[n], {"ROOT_CONTROL"})
    <2>1. \A n \in {1, 2, 3, 4} : ~Storing(s[n], {"ROOT_CONTROL"})
      BY <1>2 DEF RepinShape, Storing
    <2>2. QED
      BY <1>3, <2>1
  <1>7. QED
    BY <1>1, <1>3, <1>4, <1>5, <1>6 DEF Avoids, s

LEMMA ValvesAt ==
    ASSUME TypeOK, NEW p \in Process, pc[p] # 0, tool[p] = "nv_gpu_open_valves"
    PROVE  /\ Instr(p) = nv_gpu_open_valves[pc[p]] /\ pc[p] \in 1 .. 4
           /\ DOMAIN Program[tool[p]] = 1 .. 4
           /\ Program[tool[p]] \in Avoids({"ROOT_CONTROL"})
  <1> DEFINE s == nv_gpu_open_valves
  <1>1. Program[tool[p]] = s
    <2>1. Program["nv_gpu_open_valves"] = s
      BY DEF Program
    <2>2. QED
      BY <2>1
  <1> HIDE DEF s
  <1>2. ValvesShape(s)
    BY ValvesProgram DEF s
  <1>3. Len(s) = 4 /\ s \in Typed
    BY <1>2 DEF ValvesShape
  <1>4. Instr(p) = s[pc[p]]
    BY <1>1 DEF Instr
  <1>5. pc[p] \in 1 .. 4 /\ DOMAIN Program[tool[p]] = 1 .. 4
    BY <1>1, <1>3, InstrType
  <1>6. \A n \in 1 .. Len(s) : ~Storing(s[n], {"ROOT_CONTROL"})
    <2>1. \A n \in {1, 2, 3, 4} : ~Storing(s[n], {"ROOT_CONTROL"})
      BY <1>2 DEF ValvesShape, Storing
    <2>2. QED
      BY <1>3, <2>1
  <1>7. QED
    BY <1>1, <1>3, <1>4, <1>5, <1>6 DEF Avoids, s

(* What a configuration register holds is what an ioctl reads of it.        *)
LEMMA ReadConfig ==
    ASSUME NEW r \in GpuConfig, ~InReset
    PROVE  ReadOf({}, r) = regs[r]
  <1>1. r \notin Board /\ r \notin Falcon
    BY DEF GpuConfig, Board, Falcon
  <1>2. QED
    BY <1>1 DEF ReadOf, Answers

LEMMA ConfigNames ==
    /\ "GPU_BAR0" \in GpuConfig /\ "GPU_COMMAND" \in GpuConfig
    /\ "ROOT_WINDOW" \notin GpuConfig
  BY DEF GpuConfig

(* nv_gpu_repin goes on.                                                    *)
LEMMA OwnRepins ==
    ASSUME TypeOK, WayOpen, Repinned, NEW p \in Running, OwnRun(p), Clean(p, Quiet),
           tool[p] = "nv_gpu_repin", pc'[p] # 0
    PROVE  /\ pc'[p] <= 2 => local'[p]["zero"] = {}
           /\ pc'[p] = 3 => local'[p]["pi_data"] # AC000000
           /\ pc'[p] = 4 /\ local'[p]["pi_data"] = AC000000 => regs'["GPU_BAR0"] = AC000000
           /\ Clean(p, {})' =>
                 /\ pc'[p] > 1 => regs'["GPU_BAR0"] = AC000000
                 /\ pc'[p] = 4 => local'[p]["pi_data"] = AC000000
  <1> DEFINE i == Instr(p)
             s == nv_gpu_repin
  <1>1. p \in Process /\ Run(p) /\ pc[p] # 0
    BY DEF OwnRun, Running
  <1>2. i = s[pc[p]] /\ pc[p] \in 1 .. 4
    BY <1>1, RepinAt
  <1>3. RepinShape(s)
    BY RepinProgram
  <1>4. ~InReset
    BY DEF WayOpen
  <1>5. local[p] \in [Locals -> Values] /\ regs \in [Regs -> Values]
    <2>1. local \in [Process -> [Locals -> Values]] /\ regs \in [Regs -> Values]
      BY DEF TypeOK, Values
    <2>2. QED
      BY <1>1, <2>1
  <1>6. /\ pc[p] <= 2 => local[p]["zero"] = {}
        /\ pc[p] = 3 => local[p]["pi_data"] # AC000000
        /\ Clean(p, {}) => (pc[p] > 1 => regs["GPU_BAR0"] = AC000000)
    BY DEF Repinned
  <1>7. /\ "pi_data" \in Locals /\ "zero" \in Locals /\ "GPU_BAR0" \in Regs
        /\ "ROOT_WINDOW" \in Regs
    BY LocalNames, Names
  <1>8. ASSUME Clean(p, {})'
        PROVE  Clean(p, {}) /\ ~PciFails(p)
    <2>1. trouble'[p] = {} /\ others'[p] = {}
      BY <1>8 DEF Clean
    <2>2. ~PciFails(p)
      BY <1>1, <2>1, RunTrouble
    <2>3. trouble' = trouble /\ others'[p] = others[p]
      BY <1>1, <2>2, RunTrouble DEF OwnRun
    <2>4. QED
      BY <2>1, <2>2, <2>3 DEF Clean
  <1>9. CASE pc[p] = 1
    <2> HIDE DEF s
    <2>1. /\ i.op = "pci write" /\ i.reg = "GPU_BAR0" /\ i.local = "zero"
          /\ i.on = AC000000 /\ i.off = {} /\ i.then = 0
      <3> HIDE DEF i
      <3>1. QED
        BY <1>2, <1>3, <1>9 DEF RepinShape
    <2>2. /\ local'[p] = [local[p] EXCEPT !.pi_data = Written(p)]
          /\ \/ pc'[p] = pc[p] + 1 /\ Write({}, i.reg, Written(p))
             \/ PciFails(p) /\ pc'[p] = pc[p] + 1 + i.then
      BY <1>1, <2>1, PciWrites
    <2>3. Written(p) = AC000000
      <3>1. Written(p) = (local[p][i.local] \cup i.on) \ i.off
        BY DEF Written
      <3>2. local[p]["zero"] = {}
        BY <1>6, <1>9
      <3> HIDE DEF i
      <3>3. Written(p) = ({} \cup AC000000) \ {}
        BY <2>1, <3>1, <3>2
      <3>4. QED
        BY <3>3
    <2> HIDE DEF i
    <2>4. pc'[p] = 2
      <3>1. pc'[p] = 1 + 1 \/ pc'[p] = 1 + 1 + 0
        BY <1>9, <2>1, <2>2
      <3>2. QED
        BY <3>1
    <2>5. local'[p]["zero"] = {}
      BY <1>5, <1>6, <1>7, <1>9, <2>2
    <2>6. Clean(p, {})' => regs'["GPU_BAR0"] = AC000000
      <3>1. ASSUME Write({}, "GPU_BAR0", AC000000)
            PROVE  regs'["GPU_BAR0"] = AC000000
        BY <1>4, <1>5, <1>7, <3>1, WriteConfig, ConfigNames
      <3>2. QED
        BY <1>8, <2>1, <2>2, <2>3, <3>1
    <2>7. QED
      BY <2>4, <2>5, <2>6
  <1>10. CASE pc[p] = 2
    <2> HIDE DEF s
    <2>1. /\ i.op = "pci write" /\ i.reg = "ROOT_WINDOW" /\ i.local = "zero"
          /\ i.on = Window /\ i.off = {} /\ i.then = 0
      <3> HIDE DEF i
      <3>1. QED
        BY <1>2, <1>3, <1>10 DEF RepinShape
    <2>2. /\ local'[p] = [local[p] EXCEPT !.pi_data = Written(p)]
          /\ \/ pc'[p] = pc[p] + 1 /\ Write({}, i.reg, Written(p))
             \/ PciFails(p) /\ pc'[p] = pc[p] + 1 + i.then /\ UNCHANGED card
      BY <1>1, <2>1, PciWrites
    <2>3. Written(p) = Window
      <3>1. Written(p) = (local[p][i.local] \cup i.on) \ i.off
        BY DEF Written
      <3>2. local[p]["zero"] = {}
        BY <1>6, <1>10
      <3> HIDE DEF i
      <3>3. Written(p) = ({} \cup Window) \ {}
        BY <2>1, <3>1, <3>2
      <3>4. QED
        BY <3>3
    <2> HIDE DEF i
    <2>4. pc'[p] = 3
      <3>1. pc'[p] = 2 + 1 \/ pc'[p] = 2 + 1 + 0
        BY <1>10, <2>1, <2>2
      <3>2. QED
        BY <3>1
    <2>5. local'[p]["pi_data"] # AC000000
      BY <1>5, <1>7, <2>2, <2>3, WindowIs
    <2>6. regs'["GPU_BAR0"] = regs["GPU_BAR0"]
      <3>1. ASSUME NEW v, Write({}, "ROOT_WINDOW", v)
            PROVE  regs'["GPU_BAR0"] = regs["GPU_BAR0"]
        <4>1. regs' = regs \/ regs' = [regs EXCEPT !["ROOT_WINDOW"] = v]
          BY <3>1 DEF Write
        <4>2. QED
          BY <1>5, <1>7, <4>1
      <3>2. QED
        BY <2>1, <2>2, <3>1 DEF card
    <2>7. QED
      BY <1>6, <1>8, <1>10, <2>4, <2>5, <2>6
  <1>11. CASE pc[p] = 3
    <2> HIDE DEF s
    <2>1. /\ i.op = "pci read" /\ i.reg = "GPU_BAR0" /\ i.local = "pi_data" /\ i.then = 0
      <3> HIDE DEF i
      <3>1. QED
        BY <1>2, <1>3, <1>11 DEF RepinShape
    <2>2. UNCHANGED card
      BY <1>1, <2>1, PciReads
    <2>3. PICK v : /\ local'[p] = [local[p] EXCEPT !.pi_data = v, ![i.local] = v]
                   /\ \/ pc'[p] = pc[p] + 1 /\ v = ReadOf({}, i.reg)
                      \/ /\ PciFails(p) /\ pc'[p] = pc[p] + 1 + i.then
                         /\ pc[p] # 1 => v = local[p].pi_data
      BY <1>1, <2>1, PciReads
    <2> HIDE DEF i
    <2>4. pc'[p] = 4
      <3>1. pc'[p] = 3 + 1 \/ pc'[p] = 3 + 1 + 0
        BY <1>11, <2>1, <2>3
      <3>2. QED
        BY <3>1
    <2>5. local'[p]["pi_data"] = v
      BY <1>5, <1>7, <2>1, <2>3
    <2>6. v = regs["GPU_BAR0"] \/ (PciFails(p) /\ v # AC000000)
      <3>1. ReadOf({}, "GPU_BAR0") = regs["GPU_BAR0"]
        BY <1>4, ReadConfig, ConfigNames
      <3>2. local[p].pi_data # AC000000 /\ pc[p] # 1
        BY <1>6, <1>11
      <3>3. QED
        BY <2>1, <2>3, <3>1, <3>2
    <2>7. regs' = regs
      BY <2>2 DEF card
    <2>8. QED
      BY <1>6, <1>8, <1>11, <2>4, <2>5, <2>6, <2>7
  <1>12. CASE pc[p] = 4
    <2> HIDE DEF s
    <2>1. i.op = "report"
      <3> HIDE DEF i
      <3>1. QED
        BY <1>2, <1>3, <1>12 DEF RepinShape
    <2>2. pc'[p] = pc[p] + 1
      BY <1>1, <2>1, RunEffects
    <2>3. TypeOK'
      BY <1>1, RunType
    <2>4. pc'[p] \in 1 .. 4
      <3>1. pc'[p] \in DOMAIN Program[tool'[p]]
        BY <1>1, <2>3 DEF TypeOK, Running
      <3>2. tool'[p] = tool[p]
        BY DEF OwnRun
      <3>3. QED
        BY <1>1, <3>1, <3>2, RepinAt
    <2>5. QED
      BY <1>12, <2>2, <2>4
  <1>13. QED
    BY <1>2, <1>9, <1>10, <1>11, <1>12

(* nv_gpu_open_valves goes on.                                              *)
LEMMA OwnOpens ==
    ASSUME TypeOK, WayOpen, Opened, NEW p \in Running, OwnRun(p), Clean(p, Quiet),
           tool[p] = "nv_gpu_open_valves", pc'[p] # 0, pc'[p] > 2
    PROVE  local'[p]["pi_data"] = regs'["GPU_COMMAND"] /\ 1 \in regs'["GPU_COMMAND"]
  <1> DEFINE i == Instr(p)
             s == nv_gpu_open_valves
  <1>1. p \in Process /\ Run(p) /\ pc[p] # 0
    BY DEF OwnRun, Running
  <1>2. i = s[pc[p]] /\ pc[p] \in 1 .. 4
    BY <1>1, ValvesAt
  <1>3. ValvesShape(s)
    BY ValvesProgram
  <1>4. ~InReset
    BY DEF WayOpen
  <1>5. local[p] \in [Locals -> Values] /\ regs \in [Regs -> Values]
    <2>1. local \in [Process -> [Locals -> Values]] /\ regs \in [Regs -> Values]
      BY DEF TypeOK, Values
    <2>2. QED
      BY <1>1, <2>1
  <1>6. pc[p] > 2 => /\ local[p]["pi_data"] = regs["GPU_COMMAND"]
                     /\ 1 \in regs["GPU_COMMAND"]
    BY DEF Opened
  <1>7. "pi_data" \in Locals /\ "cmd" \in Locals /\ "GPU_COMMAND" \in Regs
    BY LocalNames, Names
  <1>8. pc'[p] \in 1 .. 4
    <2>1. TypeOK'
      BY <1>1, RunType
    <2>2. pc'[p] \in DOMAIN Program[tool'[p]]
      BY <1>1, <2>1 DEF TypeOK, Running
    <2>3. tool'[p] = tool[p]
      BY DEF OwnRun
    <2>4. QED
      BY <1>1, <2>2, <2>3, ValvesAt
  <1>9. CASE pc[p] = 1
    <2> HIDE DEF s
    <2>1. i.op = "pci read" /\ i.then = 0
      <3> HIDE DEF i
      <3>1. QED
        BY <1>2, <1>3, <1>9 DEF ValvesShape
    <2>2. pc'[p] = pc[p] + 1 \/ pc'[p] = pc[p] + 1 + i.then
      BY <1>1, <2>1, PciReads
    <2> HIDE DEF i
    <2>3. pc'[p] = 1 + 1 \/ pc'[p] = 1 + 1 + 0
      BY <1>9, <2>1, <2>2
    <2>4. QED
      BY <2>3
  <1>10. CASE pc[p] = 2
    <2> HIDE DEF s
    <2>1. /\ i.op = "pci write" /\ i.reg = "GPU_COMMAND" /\ i.local = "cmd"
          /\ i.on = {1, 2} /\ i.off = {} /\ i.then = 99
      <3> HIDE DEF i
      <3>1. QED
        BY <1>2, <1>3, <1>10 DEF ValvesShape
    <2>2. /\ local'[p] = [local[p] EXCEPT !.pi_data = Written(p)]
          /\ \/ pc'[p] = pc[p] + 1 /\ Write({}, i.reg, Written(p))
             \/ pc'[p] = pc[p] + 1 + i.then
      BY <1>1, <2>1, PciWrites
    <2>3. 1 \in Written(p)
      BY <2>1 DEF Written
    <2> HIDE DEF i
    <2>4. Write({}, "GPU_COMMAND", Written(p))
      <3>1. pc'[p] # 2 + 1 + 99
        BY <1>8
      <3>2. QED
        BY <1>10, <2>1, <2>2, <3>1
    <2>5. regs'["GPU_COMMAND"] = Written(p)
      BY <1>4, <1>5, <1>7, <2>4, WriteConfig, ConfigNames
    <2>6. local'[p]["pi_data"] = Written(p)
      BY <1>5, <1>7, <2>2
    <2>7. QED
      BY <2>3, <2>5, <2>6
  <1>11. CASE pc[p] = 3
    <2> HIDE DEF s
    <2>1. i.op = "pci read" /\ i.reg = "GPU_COMMAND" /\ i.local = "pi_data"
      <3> HIDE DEF i
      <3>1. QED
        BY <1>2, <1>3, <1>11 DEF ValvesShape
    <2>2. UNCHANGED card
      BY <1>1, <2>1, PciReads
    <2>3. PICK v : /\ local'[p] = [local[p] EXCEPT !.pi_data = v, ![i.local] = v]
                   /\ v = ReadOf({}, i.reg) \/ (pc[p] # 1 => v = local[p].pi_data)
      BY <1>1, <2>1, PciReads
    <2> HIDE DEF i
    <2>4. local'[p]["pi_data"] = v
      BY <1>5, <1>7, <2>1, <2>3
    <2>5. v = regs["GPU_COMMAND"]
      <3>1. ReadOf({}, "GPU_COMMAND") = regs["GPU_COMMAND"]
        BY <1>4, ReadConfig, ConfigNames
      <3>2. local[p].pi_data = regs["GPU_COMMAND"] /\ pc[p] # 1
        BY <1>6, <1>11
      <3>3. QED
        BY <2>1, <2>3, <3>1, <3>2
    <2>6. QED
      BY <1>6, <1>11, <2>2, <2>4, <2>5 DEF card
  <1>12. CASE pc[p] = 4
    <2> HIDE DEF s
    <2>1. i.op = "report"
      <3> HIDE DEF i
      <3>1. QED
        BY <1>2, <1>3, <1>12 DEF ValvesShape
    <2>2. pc'[p] = pc[p] + 1
      BY <1>1, <2>1, RunEffects
    <2>3. QED
      BY <1>8, <1>12, <2>2
  <1>13. QED
    BY <1>2, <1>9, <1>10, <1>11, <1>12

(* The card's own steps, but for the status of a halt, and for the bits it  *)
(* clears, leave the registers alone.                                       *)
LEMMA StillRegs ==
    ASSUME TypeOK, NEW p, Still(p)
    PROVE  /\ \A r \in Regs \ {"STATUS"} : regs'[r] = regs[r]
           /\ \A b : Reached(b)' = Reached(b)
           /\ InReset' = InReset /\ lockout' = lockout
  <1>1. regs \in [Regs -> Values]
    BY DEF TypeOK, Values
  <1>2. \A r \in Regs \ {"STATUS"} : regs'[r] = regs[r]
    BY <1>1 DEF Still
  <1>3. Path \subseteq Regs \ {"STATUS"} /\ "ROOT_CONTROL" \in Path
    BY Names DEF Path
  <1>4. \A r \in Path : regs'[r] = regs[r]
    BY <1>2, <1>3
  <1>5. \A b : Reached(b)' = Reached(b)
    BY <1>4, ReachedStays
  <1>6. InReset' = InReset
    BY <1>3, <1>4 DEF InReset
  <1>7. QED
    BY <1>2, <1>5, <1>6 DEF Still

LEMMA NextWay == TypeOK /\ Known /\ WayOpen /\ [Next]_vars => WayOpen'
  <1> SUFFICES ASSUME TypeOK, Known, WayOpen, [Next]_vars, NEW p \in Running'
               PROVE  /\ Clean(p, Quiet)' =>
                            /\ tool'[p] \in CardTools =>
                                  Reached(MappedAt(tool[p]))' /\ ~lockout'
                            /\ tool'[p] \in {"nv_gpu_repin", "nv_gpu_open_valves"} =>
                                  ~InReset'
                      /\ Clean(p, {})' => refuses' = {}
    BY DEF WayOpen, CardTools
  <1>1. p \in Process /\ pc'[p] # 0
    BY DEF Running
  <1>2. ASSUME Clean(p, Quiet)', tool'[p] \in CardTools
        PROVE  Reached(MappedAt(tool[p]))' /\ ~lockout'
    <2>1. CASE OwnRun(p) /\ Clean(p, Quiet)
      <3>1. tool'[p] = tool[p] /\ p \in Running /\ Run(p)
        BY <2>1 DEF OwnRun
      <3>2. Reached(MappedAt(tool[p])) /\ ~lockout
        BY <1>2, <2>1, <3>1 DEF WayOpen
      <3>3. (\A b : Reached(b)' = Reached(b)) /\ lockout' \in {lockout, FALSE}
        BY <1>1, <1>2, <3>1, OwnReaches
      <3>4. Reached(MappedAt(tool[p]))' = Reached(MappedAt(tool[p]))
        BY <3>1, <3>3 DEF Reached, InReset, MappedAt
      <3>5. lockout' = lockout \/ lockout' = FALSE
        BY <3>3
      <3>6. ~lockout'
        BY <3>2, <3>5
      <3>7. QED
        BY <3>2, <3>4, <3>6
    <2>2. CASE \E t \in Tools : Start(p, t)
      <3>1. PICK t \in Tools : Start(p, t)
        BY <2>2
      <3>2. tool'[p] = t /\ UNCHANGED card /\ ~Silent(t)
        BY <1>1, <1>2, <3>1, Starts DEF Clean, Quiet
      <3>3. Answers(MappedAt(t), "ENABLE") /\ ~lockout
        BY <1>2, <3>2 DEF CardTools, Silent
      <3>4. Reached(MappedAt(t))
        <4>1. "ENABLE" \in Falcon \cup Engine
          BY DEF Engine
        <4>2. QED
          BY <3>3, <4>1, ReachedIs
      <3>5. QED
        BY <3>2, <3>3, <3>4 DEF card, Reached, InReset
    <2>3. CASE Still(p) /\ Clean(p, Quiet)
      <3>1. tool'[p] = tool[p] /\ p \in Running
        BY <2>3 DEF Still
      <3>2. Reached(MappedAt(tool[p])) /\ ~lockout
        BY <1>2, <2>3, <3>1 DEF WayOpen
      <3>3. (\A b : Reached(b)' = Reached(b)) /\ lockout' = lockout
        BY <2>3, StillRegs
      <3>4. Reached(MappedAt(tool[p]))' = Reached(MappedAt(tool[p]))
        BY <3>1, <3>3 DEF Reached, InReset, MappedAt
      <3>5. QED
        BY <3>2, <3>3, <3>4
    <2>4. QED
      <3>1. "cleared" \notin Quiet
        BY DEF Quiet
      <3>2. QED
        BY <1>2, <2>1, <2>2, <2>3, <3>1, Solo
  <1>3. ASSUME Clean(p, Quiet)', tool'[p] \in {"nv_gpu_repin", "nv_gpu_open_valves"}
        PROVE  ~InReset'
    <2>1. CASE OwnRun(p) /\ Clean(p, Quiet)
      <3>1. tool'[p] = tool[p] /\ p \in Running /\ Run(p) /\ pc[p] # 0
        BY <2>1 DEF OwnRun, Running
      <3>2. ~InReset
        BY <1>3, <2>1, <3>1 DEF WayOpen
      <3>3. Program[tool[p]] \in Avoids({"ROOT_CONTROL"})
        BY <1>1, <1>3, <3>1, RepinAt, ValvesAt
      <3>4. regs'["ROOT_CONTROL"] = regs["ROOT_CONTROL"]
        <4>1. {"ROOT_CONTROL"} \in SUBSET Regs
          BY Names
        <4>2. QED
          BY <1>1, <3>1, <3>3, <4>1, RunAvoids
      <3>5. QED
        BY <3>2, <3>4 DEF InReset
    <2>2. CASE \E t \in Tools : Start(p, t)
      <3>1. PICK t \in Tools : Start(p, t)
        BY <2>2
      <3>2. tool'[p] = t /\ UNCHANGED card /\ ~Silent(t)
        BY <1>1, <1>3, <3>1, Starts DEF Clean, Quiet
      <3>3. ~InReset
        BY <1>3, <3>2 DEF Silent, PciTools
      <3>4. QED
        BY <3>2, <3>3 DEF card, InReset
    <2>3. CASE Still(p) /\ Clean(p, Quiet)
      <3>1. tool'[p] = tool[p] /\ p \in Running
        BY <2>3 DEF Still
      <3>2. QED
        BY <1>3, <2>3, <3>1, StillRegs DEF WayOpen
    <2>4. QED
      <3>1. "cleared" \notin Quiet
        BY DEF Quiet
      <3>2. QED
        BY <1>3, <2>1, <2>2, <2>3, <3>1, Solo
  <1>4. ASSUME Clean(p, {})'
        PROVE  refuses' = {}
    <2>1. CASE OwnRun(p) /\ Clean(p, {})
      <3>1. refuses = {} /\ Run(p)
        BY <2>1 DEF OwnRun, WayOpen
      <3>2. refuses' = refuses
        BY <1>1, <3>1, RunWrites DEF Write
      <3>3. QED
        BY <3>1, <3>2
    <2>2. CASE \E t \in Tools : Start(p, t)
      <3>1. PICK t \in Tools : Start(p, t)
        BY <2>2
      <3>2. UNCHANGED card /\ refuses = {}
        BY <1>1, <1>4, <3>1, Starts DEF Clean
      <3>3. QED
        BY <3>2 DEF card
    <2>3. CASE Still(p) /\ Clean(p, {})
      BY <2>3 DEF Still, WayOpen
    <2>4. QED
      BY <1>4, <2>1, <2>2, <2>3, Solo
  <1>5. QED
    BY <1>2, <1>3, <1>4

LEMMA NextReading ==
    TypeOK /\ Known /\ WayOpen /\ Reading /\ [Next]_vars => Reading'
  <1> SUFFICES ASSUME TypeOK, Known, WayOpen, Reading, [Next]_vars, NEW p \in Running',
                      Clean(p, Quiet)', tool'[p] \in CardTools
               PROVE  (\A x \in Locals, r \in OfCard, m, n \in Nat :
                          Reads(Program[tool[p]], x, r, m, n) /\ pc[p] \in m + 1 .. n =>
                             local[p][x] = regs[r] \/ (local[p][x] = {} /\ r = "STATUS"))'
    BY DEF Reading, CardTools
  <1> SUFFICES ASSUME NEW x \in Locals, NEW r \in OfCard, NEW m \in Nat, NEW n \in Nat,
                      Reads(Program[tool[p]], x, r, m, n)', pc'[p] \in m + 1 .. n
               PROVE  local'[p][x] = regs'[r] \/ (local'[p][x] = {} /\ r = "STATUS")
    BY DEF OfCard, Locals
  <1>1. Reads(Program[tool'[p]], x, r, m, n)
    BY DEF Reads
  <1>2. CASE OwnRun(p) /\ Clean(p, Quiet)
    <2>1. tool'[p] = tool[p] /\ p \in Running
      BY <1>2 DEF OwnRun
    <2>2. QED
      BY <1>1, <1>2, <2>1, OwnReads
  <1>3. CASE \E t \in Tools : Start(p, t)
    <2>1. pc'[p] = 1
      BY <1>3, Starts DEF Running
    <2>2. m \in 1 .. Len(Program[tool'[p]])
      BY <1>1 DEF Reads
    <2>3. QED
      BY <2>1, <2>2
  <1>4. CASE Still(p) /\ Clean(p, Quiet)
    <2>1. /\ tool'[p] = tool[p] /\ p \in Running /\ pc'[p] = pc[p] /\ local'[p] = local[p]
      BY <1>4 DEF Still
    <2>2. local[p][x] = regs[r] \/ (local[p][x] = {} /\ r = "STATUS")
      <3>1. Reads(Program[tool[p]], x, r, m, n) /\ pc[p] \in m + 1 .. n
        BY <1>1, <2>1
      <3>2. QED
        BY <1>4, <2>1, <3>1 DEF Reading
    <2>3. regs \in [Regs -> Values] /\ r \in Regs
      BY DEF TypeOK, Values, OfCard, Regs
    <2>4. CASE r = "STATUS"
      <3>1. regs'[r] = regs[r] \/ regs[r] = {}
        BY <1>4, <2>4 DEF Still
      <3>2. QED
        BY <2>1, <2>2, <2>4, <3>1
    <2>5. CASE r # "STATUS"
      <3>1. regs'[r] = regs[r]
        BY <1>4, <2>3, <2>5, StillRegs
      <3>2. QED
        BY <2>1, <2>2, <2>5, <3>1
    <2>6. QED
      BY <2>4, <2>5
  <1>5. QED
    <2>1. "cleared" \notin Quiet
      BY DEF Quiet
    <2>2. QED
      BY <1>2, <1>3, <1>4, <2>1, Solo

LEMMA NextSettled ==
    TypeOK /\ Known /\ WayOpen /\ Settled /\ [Next]_vars => Settled'
  <1> SUFFICES ASSUME TypeOK, Known, WayOpen, Settled, [Next]_vars, NEW p \in Running',
                      Clean(p, {})', tool'[p] \in CardTools
               PROVE  (\A c \in Conditions, r \in Settable, k, n \in Nat :
                          Settles(Program[tool[p]], c, r, k, n) /\ pc[p] \in k + 1 .. n =>
                             Holds(c, regs[r]))'
    BY DEF Settled, CardTools
  <1> SUFFICES ASSUME NEW c \in Conditions, NEW r \in Settable, NEW k \in Nat, NEW n \in Nat,
                      Settles(Program[tool[p]], c, r, k, n)', pc'[p] \in k + 1 .. n
               PROVE  Holds(c, regs[r])'
    BY DEF Settable, OfCard, Conditions, Locals, Values
  <1>1. Settles(Program[tool'[p]], c, r, k, n)
    BY DEF Settles, Meeting, Storing, Holds
  <1>2. CASE OwnRun(p) /\ Clean(p, {})
    <2>1. tool'[p] = tool[p] /\ p \in Running
      BY <1>2 DEF OwnRun
    <2>2. QED
      BY <1>1, <1>2, <2>1, OwnSettles DEF Holds
  <1>3. CASE \E t \in Tools : Start(p, t)
    <2>1. pc'[p] = 1
      BY <1>3, Starts DEF Running
    <2>2. k \in 1 .. Len(Program[tool'[p]])
      BY <1>1 DEF Settles
    <2>3. QED
      BY <2>1, <2>2
  <1>4. CASE Still(p) /\ Clean(p, {})
    <2>1. tool'[p] = tool[p] /\ p \in Running /\ pc'[p] = pc[p]
      BY <1>4 DEF Still
    <2>2. Holds(c, regs[r])
      <3>1. Settles(Program[tool[p]], c, r, k, n) /\ pc[p] \in k + 1 .. n
        BY <1>1, <2>1
      <3>2. QED
        BY <1>4, <2>1, <3>1 DEF Settled
    <2>3. r \in Regs /\ r # "STATUS"
      BY DEF Settable, OfCard, Regs
    <2>4. regs'[r] = regs[r]
      BY <1>4, <2>3, StillRegs
    <2>5. QED
      BY <2>2, <2>4 DEF Holds
  <1>5. QED
    BY <1>2, <1>3, <1>4, Solo

LEMMA NextPci ==
    TypeOK /\ Known /\ WayOpen /\ Repinned /\ Opened /\ [Next]_vars => (Repinned /\ Opened)'
  <1> SUFFICES ASSUME TypeOK, Known, WayOpen, Repinned, Opened, [Next]_vars
               PROVE  (Repinned /\ Opened)'
    OBVIOUS
  <1>1. "cleared" \notin Quiet
    BY DEF Quiet
  <1>2. /\ "zero" \in Locals /\ "GPU_BAR0" \in Regs \ {"STATUS"}
        /\ "GPU_COMMAND" \in Regs \ {"STATUS"}
    BY Names, LocalNames
  <1>3. ASSUME NEW p \in Running', tool'[p] = "nv_gpu_repin", Clean(p, Quiet)'
        PROVE  /\ pc'[p] <= 2 => local'[p]["zero"] = {}
               /\ pc'[p] = 3 => local'[p]["pi_data"] # AC000000
               /\ pc'[p] = 4 /\ local'[p]["pi_data"] = AC000000 =>
                     regs'["GPU_BAR0"] = AC000000
               /\ Clean(p, {})' =>
                     /\ pc'[p] > 1 => regs'["GPU_BAR0"] = AC000000
                     /\ pc'[p] = 4 => local'[p]["pi_data"] = AC000000
    <2>1. CASE OwnRun(p) /\ Clean(p, Quiet)
      <3>1. tool'[p] = tool[p] /\ p \in Running /\ pc'[p] # 0
        BY <2>1 DEF OwnRun, Running
      <3>2. QED
        BY <1>3, <2>1, <3>1, OwnRepins
    <2>2. CASE \E t \in Tools : Start(p, t)
      <3>1. pc'[p] = 1 /\ local'[p] = NoLocals
        BY <2>2, Starts DEF Running
      <3>2. QED
        BY <1>2, <3>1 DEF NoLocals
    <2>3. CASE Still(p) /\ Clean(p, Quiet)
      <3>1. /\ tool'[p] = tool[p] /\ p \in Running /\ pc'[p] = pc[p]
            /\ local'[p] = local[p] /\ Clean(p, {})' = Clean(p, {})
        BY <2>3 DEF Still, Clean
      <3>2. regs'["GPU_BAR0"] = regs["GPU_BAR0"]
        BY <1>2, <2>3, StillRegs
      <3>3. tool[p] = "nv_gpu_repin"
        BY <1>3, <3>1
      <3>4. /\ pc[p] <= 2 => local[p]["zero"] = {}
            /\ pc[p] = 3 => local[p]["pi_data"] # AC000000
            /\ pc[p] = 4 /\ local[p]["pi_data"] = AC000000 => regs["GPU_BAR0"] = AC000000
            /\ Clean(p, {}) =>
                  /\ pc[p] > 1 => regs["GPU_BAR0"] = AC000000
                  /\ pc[p] = 4 => local[p]["pi_data"] = AC000000
        BY <2>3, <3>1, <3>3 DEF Repinned
      <3>5. QED
        BY <3>1, <3>2, <3>4
    <2>4. QED
      BY <1>1, <1>3, <2>1, <2>2, <2>3, Solo
  <1>4. ASSUME NEW p \in Running', tool'[p] = "nv_gpu_open_valves", Clean(p, Quiet)',
               pc'[p] > 2
        PROVE  local'[p]["pi_data"] = regs'["GPU_COMMAND"] /\ 1 \in regs'["GPU_COMMAND"]
    <2>1. CASE OwnRun(p) /\ Clean(p, Quiet)
      <3>1. tool'[p] = tool[p] /\ p \in Running /\ pc'[p] # 0
        BY <2>1 DEF OwnRun, Running
      <3>2. QED
        BY <1>4, <2>1, <3>1, OwnOpens
    <2>2. CASE \E t \in Tools : Start(p, t)
      <3>1. pc'[p] = 1
        BY <2>2, Starts DEF Running
      <3>2. QED
        BY <1>4, <3>1
    <2>3. CASE Still(p) /\ Clean(p, Quiet)
      <3>1. /\ tool'[p] = tool[p] /\ p \in Running /\ pc'[p] = pc[p]
            /\ local'[p] = local[p]
        BY <2>3 DEF Still
      <3>2. regs'["GPU_COMMAND"] = regs["GPU_COMMAND"]
        BY <1>2, <2>3, StillRegs
      <3>3. local[p]["pi_data"] = regs["GPU_COMMAND"] /\ 1 \in regs["GPU_COMMAND"]
        BY <1>4, <2>3, <3>1 DEF Opened
      <3>4. QED
        BY <3>1, <3>2, <3>3
    <2>4. QED
      BY <1>1, <1>4, <2>1, <2>2, <2>3, Solo
  <1>5. Repinned'
    BY <1>3 DEF Repinned
  <1>6. Opened'
    BY <1>4 DEF Opened
  <1>7. QED
    BY <1>5, <1>6

-----------------------------------------------------------------------------
(* Programs that check their work, put together.                            *)
Line == {s \in Typed : \A n \in 1 .. Len(s) : s[n].op \in Straight}

Firming(c, r) ==
    {s \in Line : \E k \in 1 .. Len(s) :
        /\ s[k].reg = r /\ Meeting(s[k], c)
        /\ \A j \in k + 1 .. Len(s) : ~Storing(s[j], {r})}

LEMMA InHalves ==
    ASSUME NEW a \in Nat, NEW b \in Nat, NEW n \in 1 .. a + b
    PROVE  \/ n \in 1 .. a
           \/ n > a /\ n - a \in 1 .. b /\ n = a + (n - a)
  OBVIOUS

LEMMA LineConcat ==
    ASSUME NEW s \in Line, NEW t \in Line
    PROVE  s \o t \in Line
  <1> DEFINE u == s \o t
  <1>1. s \in Typed /\ t \in Typed /\ Len(s) \in Nat /\ Len(t) \in Nat
    BY LenProperties DEF Line, Typed
  <1>2. After(u, s, t)
    BY <1>1, AfterBoth
  <1> HIDE DEF u
  <1>3. /\ u \in Typed /\ Len(u) = Len(s) + Len(t)
        /\ \A n \in 1 .. Len(s) : u[n] = s[n]
        /\ \A n \in 1 .. Len(t) : u[Len(s) + n] = t[n]
    BY <1>2 DEF After
  <1>4. ASSUME NEW n \in 1 .. Len(u)
        PROVE  u[n].op \in Straight
    <2>1. CASE n \in 1 .. Len(s)
      BY <1>3, <2>1 DEF Line
    <2>2. CASE n - Len(s) \in 1 .. Len(t) /\ n = Len(s) + (n - Len(s))
      <3>1. u[n] = t[n - Len(s)]
        BY <1>3, <2>2
      <3>2. QED
        BY <2>2, <3>1 DEF Line
    <2>3. QED
      BY <1>1, <1>3, <2>1, <2>2, InHalves
  <1>5. u \in Line
    BY <1>3, <1>4 DEF Line
  <1>6. QED
    BY <1>5 DEF u

LEMMA LoadUnit ==
    ASSUME NEW x \in Locals, NEW r \in Regs
    PROVE  /\ Load(x, r) \in Units /\ Load(x, r)[1].op = "load"
           /\ Load(x, r)[1].local = x /\ Load(x, r)[1].reg = r
  <1> DEFINE h == [op |-> "load", local |-> x, reg |-> r]
  <1>1. h \in Instructions
    BY DEF Instructions
  <1>2. h.op = "load" /\ h.local = x /\ h.reg = r
    OBVIOUS
  <1>3. Load(x, r) = <<h>>
    BY DEF Load
  <1> HIDE DEF h
  <1>4. <<h>> \in Typed /\ Len(<<h>>) = 1 /\ <<h>>[1] = h
    BY <1>1, Single
  <1>5. QED
    BY <1>2, <1>3, <1>4 DEF Units

LEMMA LinePieces ==
    /\ \A x \in Locals, r \in Regs : Load(x, r) \in Line
    /\ \A r \in Regs, v \in Values : Set(r, v) \in Line
    /\ \A r \in Regs, b \in Values : Or(r, b) \in Line
  <1>1. ASSUME NEW x \in Locals, NEW r \in Regs
        PROVE  Load(x, r) \in Line
    <2> DEFINE s == Load(x, r)
    <2>1. s \in Typed /\ Len(s) = 1 /\ s[1].op = "load"
      BY LoadUnit DEF Units
    <2> HIDE DEF s
    <2>2. \A n \in 1 .. Len(s) : n = 1
      BY <2>1
    <2>3. s \in Line
      BY <2>1, <2>2 DEF Line, Straight
    <2>4. QED
      BY <2>3 DEF s
  <1>2. ASSUME NEW r \in Regs, NEW v \in Values
        PROVE  Set(r, v) \in Line
    <2> DEFINE s == Set(r, v)
    <2>1. s \in Typed /\ Len(s) = 1 /\ s[1].op = "set"
      BY SetShape
    <2> HIDE DEF s
    <2>2. s \in Line
      BY <2>1 DEF Line, Straight
    <2>3. QED
      BY <2>2 DEF s
  <1>3. ASSUME NEW r \in Regs, NEW b \in Values
        PROVE  Or(r, b) \in Line
    <2> DEFINE s == Or(r, b)
    <2>1. s \in Typed /\ Len(s) = 2 /\ s[1].op = "load" /\ s[2].op = "put"
      BY UpdatesShape DEF Updates
    <2> HIDE DEF s
    <2>2. s \in Line
      BY <2>1 DEF Line, Straight
    <2>3. QED
      BY <2>2 DEF s
  <1>4. QED
    BY <1>1, <1>2, <1>3

LEMMA FirmingPieces ==
    ASSUME NEW c, NEW r \in Regs
    PROVE  /\ \A v \in Values : Holds(c, v) => Set(r, v) \in Firming(c, r)
           /\ \A b \in Values :
                 c.is = "meets" /\ b \cap c.arg # {} => Or(r, b) \in Firming(c, r)
  <1>1. ASSUME NEW v \in Values, Holds(c, v)
        PROVE  Set(r, v) \in Firming(c, r)
    <2> DEFINE s == Set(r, v)
    <2>1. s \in Line /\ Len(s) = 1 /\ s[1].op = "set" /\ s[1].reg = r /\ s[1].value = v
      BY SetShape, LinePieces
    <2> HIDE DEF s
    <2>2. Meeting(s[1], c)
      BY <1>1, <2>1 DEF Meeting
    <2>3. 1 \in 1 .. Len(s) /\ \A j \in 1 + 1 .. Len(s) : FALSE
      BY <2>1
    <2>4. s \in Firming(c, r)
      BY <2>1, <2>2, <2>3 DEF Firming
    <2>5. QED
      BY <2>4 DEF s
  <1>2. ASSUME NEW b \in Values, c.is = "meets", b \cap c.arg # {}
        PROVE  Or(r, b) \in Firming(c, r)
    <2> DEFINE s == Or(r, b)
    <2>1. /\ s \in Line /\ Len(s) = 2 /\ s[2].op = "put" /\ s[2].reg = r
          /\ s[2].on = b /\ s[2].off = {}
      BY UpdatesShape, OrShape, LinePieces DEF Updates
    <2> HIDE DEF s
    <2>2. Meeting(s[2], c)
      BY <1>2, <2>1 DEF Meeting
    <2>3. 2 \in 1 .. Len(s) /\ \A j \in 2 + 1 .. Len(s) : FALSE
      BY <2>1
    <2>4. s \in Firming(c, r)
      BY <2>1, <2>2, <2>3 DEF Firming
    <2>5. QED
      BY <2>4 DEF s
  <1>3. QED
    BY <1>1, <1>2

(* What comes before makes no difference.                                   *)
LEMMA FirmingAfter ==
    ASSUME NEW c, NEW r, NEW s \in Line, NEW t \in Firming(c, r)
    PROVE  s \o t \in Firming(c, r)
  <1> DEFINE u == s \o t
  <1>1. /\ s \in Typed /\ t \in Typed /\ t \in Line /\ Len(s) \in Nat /\ Len(t) \in Nat
    BY LenProperties DEF Line, Typed, Firming
  <1>2. After(u, s, t) /\ u \in Line
    BY <1>1, AfterBoth, LineConcat
  <1> HIDE DEF u
  <1>3. /\ Len(u) = Len(s) + Len(t)
        /\ \A n \in 1 .. Len(t) : u[Len(s) + n] = t[n]
    BY <1>2 DEF After
  <1>4. PICK k \in 1 .. Len(t) :
           /\ t[k].reg = r /\ Meeting(t[k], c)
           /\ \A j \in k + 1 .. Len(t) : ~Storing(t[j], {r})
    BY DEF Firming
  <1>5. Len(s) + k \in 1 .. Len(u) /\ u[Len(s) + k] = t[k]
    BY <1>1, <1>3
  <1>6. ASSUME NEW j \in Len(s) + k + 1 .. Len(u)
        PROVE  ~Storing(u[j], {r})
    <2>1. /\ j - Len(s) \in k + 1 .. Len(t) /\ j - Len(s) \in 1 .. Len(t)
          /\ j = Len(s) + (j - Len(s))
      BY <1>1, <1>3
    <2>2. u[j] = t[j - Len(s)]
      BY <1>3, <2>1
    <2>3. QED
      BY <1>4, <2>1, <2>2
  <1>7. u \in Firming(c, r)
    BY <1>2, <1>4, <1>5, <1>6 DEF Firming
  <1>8. QED
    BY <1>7 DEF u

(* Nor does what comes after, if it leaves the register alone.              *)
LEMMA FirmingBefore ==
    ASSUME NEW c, NEW r, NEW s \in Firming(c, r), NEW t \in Line, t \in Avoids({r})
    PROVE  s \o t \in Firming(c, r)
  <1> DEFINE u == s \o t
  <1>1. /\ s \in Typed /\ t \in Typed /\ s \in Line /\ Len(s) \in Nat /\ Len(t) \in Nat
    BY LenProperties DEF Line, Typed, Firming
  <1>2. After(u, s, t) /\ u \in Line
    BY <1>1, AfterBoth, LineConcat
  <1> HIDE DEF u
  <1>3. /\ Len(u) = Len(s) + Len(t)
        /\ \A n \in 1 .. Len(s) : u[n] = s[n]
        /\ \A n \in 1 .. Len(t) : u[Len(s) + n] = t[n]
    BY <1>2 DEF After
  <1>4. PICK k \in 1 .. Len(s) :
           /\ s[k].reg = r /\ Meeting(s[k], c)
           /\ \A j \in k + 1 .. Len(s) : ~Storing(s[j], {r})
    BY DEF Firming
  <1>5. k \in 1 .. Len(u) /\ u[k] = s[k]
    BY <1>1, <1>3
  <1>6. ASSUME NEW j \in k + 1 .. Len(u)
        PROVE  ~Storing(u[j], {r})
    <2>1. j \in 1 .. Len(s) + Len(t)
      BY <1>1, <1>3
    <2>2. CASE j \in 1 .. Len(s)
      <3>1. j \in k + 1 .. Len(s)
        BY <1>1, <2>2
      <3>2. QED
        BY <1>3, <1>4, <2>2, <3>1
    <2>3. CASE j - Len(s) \in 1 .. Len(t) /\ j = Len(s) + (j - Len(s))
      <3>1. u[j] = t[j - Len(s)]
        BY <1>3, <2>3
      <3>2. QED
        BY <2>3, <3>1 DEF Avoids
    <2>4. QED
      BY <1>1, <2>1, <2>2, <2>3, InHalves
  <1>7. u \in Firming(c, r)
    BY <1>2, <1>4, <1>5, <1>6 DEF Firming
  <1>8. QED
    BY <1>7 DEF u

-----------------------------------------------------------------------------
(* A program whose report on c is what it read back of r, and the same with *)
(* c brought about before.                                                  *)
Vouches(s, c, r) ==
    \E m, n \in Nat : Reads(s, c.local, r, m, n) /\ s[n].cond = c

Trusty(s, c, r) ==
    \E k, m, n \in Nat :
        /\ Reads(s, c.local, r, m, n) /\ s[n].cond = c /\ Settles(s, c, r, k, n)

LEMMA LineEnd ==
    ASSUME NEW c \in Conditions, NEW r \in Regs, NEW f \in Line
    PROVE  LET s == (f \o Load(c.local, r)) \o Report(c)
               h == Len(f)
           IN  /\ s \in Typed /\ h \in Nat /\ Len(s) = h + 2
               /\ \A n \in 1 .. h : s[n] = f[n]
               /\ s[h + 1].op = "load" /\ s[h + 2].op = "report" /\ s[h + 2].cond = c
               /\ Reads(s, c.local, r, h + 1, h + 2)
  <1> DEFINE a == Load(c.local, r)
             b == Report(c)
             w == f \o a
             s == w \o b
             h == Len(f)
  <1>1. f \in Typed /\ h \in Nat
    BY LenProperties DEF Line, Typed
  <1>2. c.local \in Locals
    BY DEF Conditions
  <1>3. /\ a \in Typed /\ Len(a) = 1 /\ a[1].op = "load" /\ a[1].local = c.local
        /\ a[1].reg = r
    BY <1>2, LoadUnit DEF Units
  <1>4. b \in Typed /\ Len(b) = 1 /\ b[1].op = "report" /\ b[1].cond = c
    BY ReportUnit DEF Units
  <1> HIDE DEF a, b
  <1>5. After(w, f, a) /\ w \in Typed
    BY <1>1, <1>3, AfterBoth DEF After
  <1> HIDE DEF w
  <1>6. After(s, w, b) /\ s \in Typed
    BY <1>4, <1>5, AfterBoth DEF After
  <1> HIDE DEF s
  <1>7. Len(w) = h + 1 /\ w[h + 1] = a[1] /\ \A n \in 1 .. h : w[n] = f[n]
    BY <1>3, <1>5 DEF After
  <1> HIDE DEF h
  <1>8. /\ Len(s) = h + 2 /\ s[h + 2] = b[1] /\ \A n \in 1 .. h + 1 : s[n] = w[n]
    <2>1. h + 1 + 1 = h + 2 /\ 1 \in 1 .. Len(b)
      BY <1>1, <1>4
    <2>2. Len(s) = h + 1 + 1 /\ s[h + 1 + 1] = b[1]
      BY <1>4, <1>6, <1>7, <2>1 DEF After
    <2>3. QED
      BY <1>6, <1>7, <2>1, <2>2 DEF After
  <1>9. s[h + 1] = a[1] /\ \A n \in 1 .. h : s[n] = f[n]
    <2>1. h + 1 \in 1 .. h + 1 /\ \A n \in 1 .. h : n \in 1 .. h + 1
      BY <1>1
    <2>2. QED
      BY <1>7, <1>8, <2>1
  <1>10. \A n \in 1 .. h : f[n].op \in Straight
    BY DEF Line, h
  <1>11. Reads(s, c.local, r, h + 1, h + 2)
    <2>1. \A j \in 1 .. h + 1 : s[j].op \in Straight
      <3>1. \A j \in 1 .. h + 1 : j \in 1 .. h \/ j = h + 1
        BY <1>1
      <3>2. s[h + 1].op \in Straight
        BY <1>3, <1>9 DEF Straight
      <3>3. QED
        BY <1>9, <1>10, <3>1, <3>2
    <2>2. \A j \in 1 .. Len(s) : s[j].op = "report" <=> j = h + 2
      <3>1. \A j \in 1 .. Len(s) : j \in 1 .. h + 1 \/ j = h + 2
        BY <1>1, <1>8
      <3>2. h + 2 \notin 1 .. h + 1
        BY <1>1
      <3>3. QED
        BY <1>4, <1>8, <2>1, <3>1, <3>2 DEF Straight
    <2>3. h + 1 \in 1 .. Len(s) /\ h + 2 \in 1 .. Len(s) /\ h + 1 < h + 2
      BY <1>1, <1>8
    <2>4. s[h + 1].op = "load" /\ s[h + 1].local = c.local /\ s[h + 1].reg = r
      BY <1>3, <1>9
    <2> DEFINE m == h + 1
               n == h + 2
    <2>5. /\ m \in 1 .. Len(s) /\ n \in 1 .. Len(s) /\ m < n
          /\ s[m].op = "load" /\ s[m].local = c.local /\ s[m].reg = r
          /\ Leads(s, m)
      BY <2>1, <2>3, <2>4, StraightLeads
    <2>6. \A j \in 1 .. Len(s) : s[j].op = "report" <=> j = n
      BY <2>2
    <2>7. \A j \in m + 1 .. n - 1 : FALSE
      BY <1>1
    <2> HIDE DEF m, n
    <2>8. Reads(s, c.local, r, m, n)
      BY <2>5, <2>6, <2>7 DEF Reads
    <2>9. QED
      BY <2>8 DEF m, n
  <1>12. /\ s \in Typed /\ h \in Nat /\ Len(s) = h + 2
         /\ \A n \in 1 .. h : s[n] = f[n]
         /\ s[h + 1].op = "load" /\ s[h + 2].op = "report" /\ s[h + 2].cond = c
    BY <1>1, <1>3, <1>4, <1>6, <1>8, <1>9
  <1>13. QED
    BY <1>11, <1>12 DEF s, w, a, b, h

LEMMA TrustyEnd ==
    ASSUME NEW c \in Conditions, NEW r \in Regs, NEW f \in Firming(c, r)
    PROVE  LET s == (f \o Load(c.local, r)) \o Report(c)
           IN  s \in Typed /\ Trusty(s, c, r)
  <1> DEFINE s == (f \o Load(c.local, r)) \o Report(c)
             h == Len(f)
  <1>1. f \in Line
    BY DEF Firming
  <1>2. /\ s \in Typed /\ h \in Nat /\ Len(s) = h + 2
        /\ \A n \in 1 .. h : s[n] = f[n]
        /\ s[h + 1].op = "load" /\ s[h + 2].op = "report" /\ s[h + 2].cond = c
        /\ Reads(s, c.local, r, h + 1, h + 2)
    BY <1>1, LineEnd
  <1>3. \A n \in 1 .. h : f[n].op \in Straight
    BY <1>1 DEF Line
  <1>4. PICK k \in 1 .. h :
            /\ f[k].reg = r /\ Meeting(f[k], c)
            /\ \A j \in k + 1 .. h : ~Storing(f[j], {r})
    BY DEF Firming
  <1> HIDE DEF s, h
  <1>5. Settles(s, c, r, k, h + 2)
    <2>1. k \in 1 .. Len(s) /\ h + 2 \in 1 .. Len(s) /\ k < h + 2
      BY <1>2
    <2>2. s[k].reg = r /\ Meeting(s[k], c)
      BY <1>2, <1>4
    <2>3. \A j \in 1 .. k : s[j].op \in Straight
      <3>1. \A j \in 1 .. k : j \in 1 .. h
        BY <1>2
      <3>2. QED
        BY <1>2, <1>3, <3>1
    <2>4. ASSUME NEW j \in k + 1 .. h + 2
          PROVE  ~Storing(s[j], {r})
      <3>1. (j \in k + 1 .. h /\ j \in 1 .. h) \/ j = h + 1 \/ j = h + 2
        BY <1>2
      <3>2. ~Storing(s[h + 1], {r}) /\ ~Storing(s[h + 2], {r})
        BY <1>2 DEF Storing
      <3>3. QED
        BY <1>2, <1>4, <3>1, <3>2
    <2>5. QED
      BY <2>1, <2>2, <2>3, <2>4 DEF Settles
  <1>6. h + 1 \in Nat /\ h + 2 \in Nat /\ k \in Nat
    BY <1>2
  <1>7. Trusty(s, c, r)
    BY <1>2, <1>5, <1>6 DEF Trusty
  <1>8. QED
    BY <1>2, <1>7 DEF s

LEMMA Ranges ==
    ASSUME NEW k \in Nat, NEW m \in Nat, NEW n \in Nat, NEW l \in Nat,
           k \in 1 .. l, m \in 1 .. l, n \in 1 .. l, k < n, m < n
    PROVE  /\ \A j \in 1 .. n : j \in 1 .. l
           /\ \A j \in 1 .. m : j \in 1 .. n
           /\ \A j \in 1 .. k : j \in 1 .. n
           /\ \A j \in m + 1 .. n - 1 : j \in 1 .. n
           /\ \A j \in k + 1 .. n : j \in 1 .. n
           /\ \A j \in 1 .. l + 1 : j \in 1 .. l \/ j = l + 1
           /\ l + 1 # n /\ m \in 1 .. n /\ n \in 1 .. n /\ k \in 1 .. n
           /\ m \in 1 .. l + 1 /\ n \in 1 .. l + 1 /\ k \in 1 .. l + 1
  OBVIOUS

LEMMA TrustyMore ==
    ASSUME NEW c, NEW r, NEW s \in Typed, Trusty(s, c, r), NEW t \in Units,
           t[1].op # "report"
    PROVE  Trusty(s \o t, c, r)
  <1> DEFINE u == s \o t
             x == c.local
             l == Len(s)
  <1>1. /\ Len(u) = l + 1 /\ l \in Nat
        /\ \A n \in 1 .. l : u[n] = s[n]
        /\ u[l + 1] = t[1]
    BY Longer, LenProperties DEF Units, Typed
  <1> HIDE DEF u, x
  <1>2. PICK k \in Nat, m \in Nat, n \in Nat :
           Reads(s, x, r, m, n) /\ s[n].cond = c /\ Settles(s, c, r, k, n)
    BY DEF Trusty, x
  <1>3. /\ m \in 1 .. l /\ n \in 1 .. l /\ m < n
        /\ s[m].op = "load" /\ s[m].local = x /\ s[m].reg = r
        /\ Leads(s, m)
        /\ \A j \in m + 1 .. n - 1 : /\ s[j].op \in {"load", "only if", "exit if"}
                                     /\ s[j].op = "load" => s[j].local # x
        /\ \A j \in 1 .. l : s[j].op = "report" <=> j = n
    BY <1>2 DEF Reads
  <1>4. /\ k \in 1 .. l /\ k < n /\ s[k].reg = r /\ Meeting(s[k], c)
        /\ \A j \in 1 .. k : s[j].op \in Straight
        /\ \A j \in k + 1 .. n : ~Storing(s[j], {r})
    BY <1>2 DEF Settles
  <1> HIDE DEF l
  <1>5. k \in 1 .. l /\ m \in 1 .. l /\ n \in 1 .. l /\ k < n /\ m < n /\ l \in Nat
    BY <1>1, <1>3, <1>4
  <1>6. /\ \A j \in 1 .. n : j \in 1 .. l
        /\ \A j \in 1 .. m : j \in 1 .. n
        /\ \A j \in 1 .. k : j \in 1 .. n
        /\ \A j \in m + 1 .. n - 1 : j \in 1 .. n
        /\ \A j \in k + 1 .. n : j \in 1 .. n
        /\ \A j \in 1 .. l + 1 : j \in 1 .. l \/ j = l + 1
        /\ l + 1 # n /\ m \in 1 .. n /\ n \in 1 .. n /\ k \in 1 .. n
        /\ m \in 1 .. l + 1 /\ n \in 1 .. l + 1 /\ k \in 1 .. l + 1
    BY <1>5, Ranges
  <1>7. \A j \in 1 .. n : u[j] = s[j]
    BY <1>1, <1>6
  <1>8. Reads(u, x, r, m, n)
    <2>1. Leads(u, m)
      <3>1. \A j \in 1 .. m : u[j] = s[j]
        BY <1>7, <1>6
      <3>2. QED
        BY <1>3, <3>1 DEF Leads
    <2>2. \A j \in m + 1 .. n - 1 : /\ u[j].op \in {"load", "only if", "exit if"}
                                    /\ u[j].op = "load" => u[j].local # x
      BY <1>3, <1>7, <1>6
    <2>3. \A j \in 1 .. Len(u) : u[j].op = "report" <=> j = n
      BY <1>1, <1>3, <1>6
    <2>4. u[m] = s[m] /\ m \in 1 .. Len(u) /\ n \in 1 .. Len(u) /\ m < n
      BY <1>1, <1>3, <1>7, <1>6
    <2>5. QED
      BY <1>3, <2>1, <2>2, <2>3, <2>4 DEF Reads
  <1>9. Settles(u, c, r, k, n)
    <2>1. \A j \in 1 .. k : u[j].op \in Straight
      BY <1>4, <1>7, <1>6
    <2>2. \A j \in k + 1 .. n : ~Storing(u[j], {r})
      BY <1>4, <1>7, <1>6
    <2>3. u[k] = s[k] /\ k \in 1 .. Len(u) /\ n \in 1 .. Len(u) /\ k < n
      BY <1>1, <1>4, <1>7, <1>6
    <2>4. QED
      BY <1>4, <2>1, <2>2, <2>3 DEF Settles
  <1>10. u[n].cond = c
    BY <1>2, <1>7, <1>6
  <1>11. Trusty(u, c, r)
    BY <1>8, <1>9, <1>10 DEF Trusty, x
  <1>12. QED
    BY <1>11 DEF u

-----------------------------------------------------------------------------
(* The conditions the tools report on.                                      *)
MeetsPowered   == Meets("en_val", {19})
MeetsReleased  == Meets("reset_val", {19})
MeetsIgnited   == Meets("pmc_reset", {31})
HoldsPattern   == Among("result", {A5A5A5A5})
HoldsBeef      == Among("result", {DEADBEEF})
MeetsHalted    == Meets("status", {1})
MeetsStopped   == Meets("final_status", {1})
HoldsAny       == Other("gsp_status", {{}})

LEMMA TheirConditions ==
    /\ MeetsPowered \in Conditions /\ MeetsPowered.local = "en_val"
    /\ MeetsReleased \in Conditions /\ MeetsReleased.local = "reset_val"
    /\ MeetsIgnited \in Conditions /\ MeetsIgnited.local = "pmc_reset"
    /\ HoldsPattern \in Conditions /\ HoldsPattern.local = "result"
    /\ HoldsBeef \in Conditions /\ HoldsBeef.local = "result"
    /\ MeetsHalted \in Conditions /\ MeetsHalted.local = "status"
    /\ MeetsStopped \in Conditions /\ MeetsStopped.local = "final_status"
    /\ HoldsAny \in Conditions /\ HoldsAny.local = "gsp_status"
  <1>1. {19} \in Values /\ {31} \in Values /\ {1} \in Values
    BY BitSets
  <1>2. /\ MeetsPowered \in Conditions /\ MeetsReleased \in Conditions
        /\ MeetsIgnited \in Conditions /\ MeetsHalted \in Conditions
        /\ MeetsStopped \in Conditions
    BY <1>1, Tests, LocalNames DEF MeetsPowered, MeetsReleased, MeetsIgnited, MeetsHalted,
                                   MeetsStopped
  <1>3. HoldsPattern \in Conditions /\ HoldsBeef \in Conditions
    BY Tests, LocalNames, Constants DEF HoldsPattern, HoldsBeef
  <1>4. HoldsAny \in Conditions
    BY Tests, LocalNames, Constants DEF HoldsAny
  <1>5. QED
    BY <1>2, <1>3, <1>4 DEF MeetsPowered, MeetsReleased, MeetsIgnited, MeetsHalted,
                      MeetsStopped, HoldsPattern, HoldsBeef, HoldsAny, Meets, Among, Other

(* What they bring about.                                                   *)
LEMMA Brings ==
    /\ Or("ENABLE", {18, 19}) \in Firming(MeetsPowered, "ENABLE")
    /\ Or("RESET", {19}) \in Firming(MeetsReleased, "RESET")
    /\ Or("RESET", {31}) \in Firming(MeetsIgnited, "RESET")
    /\ Set("MAILBOX0", A5A5A5A5) \in Firming(HoldsPattern, "MAILBOX0")
    /\ Set("MAILBOX0", DEADBEEF) \in Firming(HoldsBeef, "MAILBOX0")
  <1>1. {18, 19} \in Values /\ {19} \in Values /\ {31} \in Values
    BY BitSets
  <1>2. Or("ENABLE", {18, 19}) \in Firming(MeetsPowered, "ENABLE")
    <2>1. MeetsPowered.is = "meets" /\ {18, 19} \cap MeetsPowered.arg # {}
      BY DEF MeetsPowered, Meets
    <2>2. QED
      BY <1>1, <2>1, FirmingPieces, Names
  <1>3. Or("RESET", {19}) \in Firming(MeetsReleased, "RESET")
    <2>1. MeetsReleased.is = "meets" /\ {19} \cap MeetsReleased.arg # {}
      BY DEF MeetsReleased, Meets
    <2>2. QED
      BY <1>1, <2>1, FirmingPieces, Names
  <1>4. Or("RESET", {31}) \in Firming(MeetsIgnited, "RESET")
    <2>1. MeetsIgnited.is = "meets" /\ {31} \cap MeetsIgnited.arg # {}
      BY DEF MeetsIgnited, Meets
    <2>2. QED
      BY <1>1, <2>1, FirmingPieces, Names
  <1>5. Set("MAILBOX0", A5A5A5A5) \in Firming(HoldsPattern, "MAILBOX0")
    <2>1. Holds(HoldsPattern, A5A5A5A5)
      BY DEF HoldsPattern, Among, Holds
    <2>2. QED
      BY <2>1, FirmingPieces, Names, Constants
  <1>6. Set("MAILBOX0", DEADBEEF) \in Firming(HoldsBeef, "MAILBOX0")
    <2>1. Holds(HoldsBeef, DEADBEEF)
      BY DEF HoldsBeef, Among, Holds
    <2>2. QED
      BY <2>1, FirmingPieces, Names, Constants
  <1>7. QED
    BY <1>2, <1>3, <1>4, <1>5, <1>6

LEMMA WakeTrusty == Trusty(nv_gsp_wake, MeetsPowered, "ENABLE")
  <1> DEFINE a == Set("ENABLE_CONTROL", {0}) \o Or("RESET", {18, 19})
             b == Or("ENABLE", {18, 19})
             f == a \o b
             c == MeetsPowered
  <1>1. {18, 19} \in Values /\ {0} \in Values
    BY BitSets
  <1>2. a \in Line
    <2>1. Set("ENABLE_CONTROL", {0}) \in Line /\ Or("RESET", {18, 19}) \in Line
      BY <1>1, LinePieces, Names
    <2>2. QED
      BY <2>1, LineConcat
  <1>3. b \in Firming(c, "ENABLE")
    BY Brings
  <1> HIDE DEF a, b
  <1>4. f \in Firming(c, "ENABLE")
    BY <1>2, <1>3, FirmingAfter
  <1> HIDE DEF f, c
  <1>5. c \in Conditions /\ c.local = "en_val"
    BY TheirConditions DEF c
  <1>6. Trusty((f \o Load("en_val", "ENABLE")) \o Report(c), c, "ENABLE")
    BY <1>4, <1>5, TrustyEnd, Names
  <1>7. QED
    BY <1>6 DEF nv_gsp_wake, f, a, b, c, MeetsPowered

LEMMA MasterKeyTrusty == Trusty(nv_gpu_master_key, MeetsReleased, "RESET")
  <1> DEFINE a == Set("PWR_MGMT_CTRL", {}) \o Set("ENABLE_CONTROL", {0})
                  \o Or("ELCG_DIS", {19}) \o Or("RESET_MASK", {19})
             b == Or("RESET", {19})
             d == Or("ENABLE", {19})
             f == (a \o b) \o d
             c == MeetsReleased
  <1>1. {19} \in Values /\ {0} \in Values /\ {} \in Values
    BY BitSets, Constants
  <1>2. a \in Line
    <2>1. /\ Set("PWR_MGMT_CTRL", {}) \in Line /\ Set("ENABLE_CONTROL", {0}) \in Line
          /\ Or("ELCG_DIS", {19}) \in Line /\ Or("RESET_MASK", {19}) \in Line
      BY <1>1, LinePieces, Names
    <2>2. QED
      BY <2>1, LineConcat
  <1>3. b \in Firming(c, "RESET")
    BY Brings
  <1>4. d \in Line /\ d \in Avoids({"RESET"})
    BY <1>1, LinePieces, AvoidsPieces, Names
  <1> HIDE DEF a, b, d
  <1>5. f \in Firming(c, "RESET")
    BY <1>2, <1>3, <1>4, FirmingAfter, FirmingBefore
  <1> HIDE DEF f, c
  <1>6. c \in Conditions /\ c.local = "reset_val"
    BY TheirConditions DEF c
  <1>7. Trusty((f \o Load("reset_val", "RESET")) \o Report(c), c, "RESET")
    BY <1>5, <1>6, TrustyEnd, Names
  <1>8. QED
    BY <1>7 DEF nv_gpu_master_key, f, a, b, d, c, MeetsReleased

LEMMA ForceTrusty == Trusty(nv_gsp_force, HoldsPattern, "MAILBOX0")
  <1> DEFINE a == Set("ELCG_DIS", {19}) \o Set("RESET_MASK", {19})
                  \o Set("RESET", {19}) \o Set("ENABLE", {19})
             b == Set("MAILBOX0", A5A5A5A5)
             f == a \o b
             c == HoldsPattern
  <1>1. {19} \in Values
    BY BitSets
  <1>2. a \in Line
    <2>1. /\ Set("ELCG_DIS", {19}) \in Line /\ Set("RESET_MASK", {19}) \in Line
          /\ Set("RESET", {19}) \in Line /\ Set("ENABLE", {19}) \in Line
      BY <1>1, LinePieces, Names
    <2>2. QED
      BY <2>1, LineConcat
  <1>3. b \in Firming(c, "MAILBOX0")
    BY Brings
  <1> HIDE DEF a, b
  <1>4. f \in Firming(c, "MAILBOX0")
    BY <1>2, <1>3, FirmingAfter
  <1> HIDE DEF f, c
  <1>5. c \in Conditions /\ c.local = "result"
    BY TheirConditions DEF c
  <1>6. Trusty((f \o Load("result", "MAILBOX0")) \o Report(c), c, "MAILBOX0")
    BY <1>4, <1>5, TrustyEnd, Names
  <1>7. QED
    BY <1>6 DEF nv_gsp_force, f, a, b, c, HoldsPattern

LEMMA PersistenceTrusty == Trusty(nv_gpu_persistence, MeetsPowered, "ENABLE")
  <1> DEFINE a == Set("PWR_MGMT_CTRL", {}) \o Set("ELCG_DIS", {0})
                  \o Or("ELCG_DIS", {18, 19})
             b == Or("ENABLE", {18, 19})
             d == Or("RESET", {18, 19})
             f == (a \o b) \o d
             c == MeetsPowered
  <1>1. {18, 19} \in Values /\ {0} \in Values /\ {} \in Values
    BY BitSets, Constants
  <1>2. a \in Line
    <2>1. /\ Set("PWR_MGMT_CTRL", {}) \in Line /\ Set("ELCG_DIS", {0}) \in Line
          /\ Or("ELCG_DIS", {18, 19}) \in Line
      BY <1>1, LinePieces, Names
    <2>2. QED
      BY <2>1, LineConcat
  <1>3. b \in Firming(c, "ENABLE")
    BY Brings
  <1>4. d \in Line /\ d \in Avoids({"ENABLE"})
    BY <1>1, LinePieces, AvoidsPieces, Names
  <1> HIDE DEF a, b, d
  <1>5. f \in Firming(c, "ENABLE")
    BY <1>2, <1>3, <1>4, FirmingAfter, FirmingBefore
  <1> HIDE DEF f, c
  <1>6. c \in Conditions /\ c.local = "en_val"
    BY TheirConditions DEF c
  <1>7. Trusty((f \o Load("en_val", "ENABLE")) \o Report(c), c, "ENABLE")
    BY <1>5, <1>6, TrustyEnd, Names
  <1>8. QED
    BY <1>7 DEF nv_gpu_persistence, f, a, b, d, c, MeetsPowered

LEMMA HandshakeTrusty == Trusty(nv_gpu_handshake, MeetsReleased, "RESET")
  <1> DEFINE a == Set("VGA_MASTER_CTRL", {}) \o Set("INTR_EN_0", {})
                  \o Set("INTR_EN_0", {0})
             b == Or("RESET", {19})
             f == a \o b
             c == MeetsReleased
  <1>1. {0} \in Values /\ {} \in Values
    BY BitSets, Constants
  <1>2. a \in Line
    <2>1. /\ Set("VGA_MASTER_CTRL", {}) \in Line /\ Set("INTR_EN_0", {}) \in Line
          /\ Set("INTR_EN_0", {0}) \in Line
      BY <1>1, LinePieces, Names
    <2>2. QED
      BY <2>1, LineConcat
  <1>3. b \in Firming(c, "RESET")
    BY Brings
  <1> HIDE DEF a, b
  <1>4. f \in Firming(c, "RESET")
    BY <1>2, <1>3, FirmingAfter
  <1> HIDE DEF f, c
  <1>5. c \in Conditions /\ c.local = "reset_val"
    BY TheirConditions DEF c
  <1>6. Trusty((f \o Load("reset_val", "RESET")) \o Report(c), c, "RESET")
    BY <1>4, <1>5, TrustyEnd, Names
  <1>7. QED
    BY <1>6 DEF nv_gpu_handshake, f, a, b, c, MeetsReleased

LEMMA TestTrusty == Trusty(nv_falcon_test, HoldsBeef, "MAILBOX0")
  <1> DEFINE a == Load("initial", "MAILBOX0")
             b == Set("MAILBOX0", DEADBEEF)
             f == a \o b
             c == HoldsBeef
             s == (f \o Load("result", "MAILBOX0")) \o Report(c)
             t == Put("MAILBOX0", "initial", {}, {})
  <1>1. a \in Line
    BY LinePieces, Names, LocalNames
  <1>2. b \in Firming(c, "MAILBOX0")
    BY Brings
  <1>3. s \o t = nv_falcon_test
    BY DEF nv_falcon_test, HoldsBeef
  <1>4. t \in Units /\ t[1].op # "report"
    <2> DEFINE h == [op |-> "put", reg |-> "MAILBOX0", local |-> "initial",
                     on |-> {}, off |-> {}]
    <2>1. h \in Instructions
      BY Names, LocalNames, Constants, BitSets DEF Instructions
    <2>2. h.op # "report"
      OBVIOUS
    <2>3. t = <<h>>
      BY DEF Put
    <2> HIDE DEF h, t
    <2>4. <<h>> \in Typed /\ Len(<<h>>) = 1 /\ <<h>>[1] = h
      BY <2>1, Single
    <2>5. QED
      BY <2>2, <2>3, <2>4 DEF Units
  <1> HIDE DEF a, b, t
  <1>5. f \in Firming(c, "MAILBOX0")
    BY <1>1, <1>2, FirmingAfter
  <1> HIDE DEF f, c
  <1>6. c \in Conditions /\ c.local = "result"
    BY TheirConditions DEF c
  <1>7. s \in Typed /\ Trusty(s, c, "MAILBOX0")
    BY <1>5, <1>6, TrustyEnd, Names
  <1> HIDE DEF s
  <1>8. Trusty(s \o t, c, "MAILBOX0")
    BY <1>4, <1>7, TrustyMore
  <1>9. QED
    BY <1>3, <1>8 DEF c

-----------------------------------------------------------------------------
(* A report that another check leads to.                                    *)
LEMMA OnlyUnit ==
    ASSUME NEW c \in Conditions, NEW t \in Units
    PROVE  LET s == OnlyIf(c, t)
           IN  /\ s \in Typed /\ Len(s) = 2 /\ s[2] = t[1]
               /\ s[1].op = "only if" /\ s[1].cond = c /\ s[1].length = 1
  <1> DEFINE h == [op |-> "only if", cond |-> c, length |-> 1]
             a == <<h>>
             s == a \o t
  <1>1. t \in Typed /\ Len(t) = 1
    BY DEF Units
  <1>2. h \in Instructions
    BY DEF Instructions
  <1>3. h.op = "only if" /\ h.cond = c /\ h.length = 1
    OBVIOUS
  <1>4. s = OnlyIf(c, t)
    BY <1>1 DEF OnlyIf
  <1> HIDE DEF h
  <1>5. a \in Typed /\ Len(a) = 1 /\ a[1] = h
    BY <1>2, Single
  <1> HIDE DEF a
  <1>6. s \in Typed /\ Len(s) = 1 + 1 /\ s[1] = a[1] /\ s[1 + 1] = t[1]
    <2>1. /\ s \in Typed /\ Len(s) = Len(a) + 1
          /\ \A n \in 1 .. Len(a) : s[n] = a[n]
          /\ s[Len(a) + 1] = t[1]
      BY <1>1, <1>5, Longer
    <2> HIDE DEF s
    <2>2. 1 \in 1 .. Len(a)
      BY <1>5
    <2>3. QED
      BY <1>5, <2>1, <2>2
  <1> HIDE DEF s
  <1>7. s \in Typed /\ Len(s) = 2 /\ s[1] = h /\ s[2] = t[1]
    <2>1. 1 + 1 = 2
      OBVIOUS
    <2>2. QED
      BY <1>5, <1>6, <2>1
  <1>8. QED
    BY <1>3, <1>4, <1>7

(* nv_gsp_status.                                                           *)
StatusShape(s) ==
    /\ s \in Typed /\ Len(s) = 5
    /\ s[1].op = "load" /\ s[1].local = "status" /\ s[1].reg = "STATUS"
    /\ s[2].op = "load" /\ s[2].local = "mbox0"
    /\ s[3].op = "only if" /\ s[4].op = "exit if"
    /\ s[5].op = "report" /\ s[5].cond = MeetsHalted

LEMMA StatusProgram == StatusShape(nv_gsp_status)
  <1> DEFINE a == Load("status", "STATUS")
             b == Load("mbox0", "MAILBOX0")
             e == ExitIf(Among("mbox0", {{}}))
             d == OnlyIf(Misses("status", {0}), e)
             f == Report(MeetsHalted)
             u == a \o b
             v == u \o d
             s == v \o f
  <1>1. s = nv_gsp_status
    BY DEF nv_gsp_status, MeetsHalted
  <1>2. /\ a \in Units /\ a[1].op = "load" /\ a[1].local = "status" /\ a[1].reg = "STATUS"
        /\ b \in Units /\ b[1].op = "load" /\ b[1].local = "mbox0"
    BY LoadUnit, Names, LocalNames
  <1>3. e \in Units /\ e[1].op = "exit if"
    <2> DEFINE c == Among("mbox0", {{}})
               h == [op |-> "exit if", cond |-> c]
    <2>1. c \in Conditions
      BY Tests, LocalNames, Constants
    <2> HIDE DEF c
    <2>2. h \in Instructions /\ h.op = "exit if"
      BY <2>1 DEF Instructions
    <2>3. e = <<h>>
      BY DEF ExitIf, c
    <2> HIDE DEF h, e
    <2>4. <<h>> \in Typed /\ Len(<<h>>) = 1 /\ <<h>>[1] = h
      BY <2>2, Single
    <2>5. QED
      BY <2>2, <2>3, <2>4 DEF Units
  <1> HIDE DEF e
  <1>4. d \in Typed /\ Len(d) = 2 /\ d[1].op = "only if" /\ d[2].op = "exit if"
    <2>1. Misses("status", {0}) \in Conditions
      BY Tests, LocalNames, BitSets
    <2>2. QED
      BY <1>3, <2>1, OnlyUnit
  <1>5. f \in Units /\ f[1].op = "report" /\ f[1].cond = MeetsHalted
    BY ReportUnit, TheirConditions
  <1> HIDE DEF a, b, d, f
  <1>6. u \in Typed /\ Len(u) = 1 + 1 /\ u[1] = a[1] /\ u[1 + 1] = b[1]
    <2>1. a \in Typed /\ Len(a) = 1 /\ b \in Typed /\ Len(b) = 1
      BY <1>2 DEF Units
    <2>2. /\ u \in Typed /\ Len(u) = Len(a) + 1
          /\ \A n \in 1 .. Len(a) : u[n] = a[n]
          /\ u[Len(a) + 1] = b[1]
      BY <2>1, Longer
    <2> HIDE DEF u
    <2>3. 1 \in 1 .. Len(a)
      BY <2>1
    <2>4. QED
      BY <2>1, <2>2, <2>3
  <1> HIDE DEF u
  <1>7. u \in Typed /\ Len(u) = 2 /\ u[1] = a[1] /\ u[2] = b[1]
    <2>1. 1 + 1 = 2
      OBVIOUS
    <2>2. QED
      BY <1>6, <2>1
  <1>8. After(v, u, d)
    BY <1>4, <1>7, AfterBoth
  <1> HIDE DEF v
  <1>9. /\ v \in Typed /\ Len(v) = 4 /\ v[1] = a[1] /\ v[2] = b[1]
        /\ v[3] = d[1] /\ v[4] = d[2]
    <2>1. 2 + 2 = 4 /\ 2 + 1 = 3 /\ 1 \in 1 .. 2 /\ 2 \in 1 .. 2
      OBVIOUS
    <2>2. /\ v \in Typed /\ Len(v) = 2 + 2 /\ v[1] = u[1] /\ v[2] = u[2]
          /\ v[2 + 1] = d[1] /\ v[2 + 2] = d[2]
      BY <1>4, <1>7, <1>8, <2>1 DEF After
    <2>3. QED
      BY <1>7, <2>1, <2>2
  <1>10. /\ s \in Typed /\ Len(s) = 5 /\ s[1] = a[1] /\ s[2] = b[1]
         /\ s[3] = d[1] /\ s[4] = d[2] /\ s[5] = f[1]
    <2>1. f \in Typed /\ Len(f) = 1 /\ 4 + 1 = 5
      BY <1>5 DEF Units
    <2>2. /\ s \in Typed /\ Len(s) = Len(v) + 1 /\ s[Len(v) + 1] = f[1]
          /\ \A n \in 1 .. Len(v) : s[n] = v[n]
      BY <1>9, <2>1, Longer
    <2> HIDE DEF s
    <2>3. /\ s \in Typed /\ Len(s) = 4 + 1 /\ s[4 + 1] = f[1]
          /\ \A n \in 1 .. 4 : s[n] = v[n]
      BY <1>9, <2>2
    <2>4. 1 \in 1 .. 4 /\ 2 \in 1 .. 4 /\ 3 \in 1 .. 4 /\ 4 \in 1 .. 4
      OBVIOUS
    <2>5. QED
      BY <1>9, <2>1, <2>3, <2>4
  <1> HIDE DEF s
  <1>11. StatusShape(s)
    BY <1>2, <1>4, <1>5, <1>10 DEF StatusShape
  <1>12. QED
    BY <1>1, <1>11

LEMMA StatusVouches == Vouches(nv_gsp_status, MeetsHalted, "STATUS")
  <1> DEFINE s == nv_gsp_status
             n == 5
  <1>1. StatusShape(s)
    BY StatusProgram
  <1> HIDE DEF s
  <1>2. \A j \in 1 .. 5 : j = 1 \/ j = 2 \/ j = 3 \/ j = 4 \/ j = 5
    OBVIOUS
  <1>3. \A j \in 1 .. Len(s) : s[j].op = "report" <=> j = 5
    BY <1>1, <1>2 DEF StatusShape
  <1>4. \A j \in 1 .. 1 : s[j].op \in Straight
    <2>1. \A j \in 1 .. 1 : j = 1
      OBVIOUS
    <2>2. QED
      BY <1>1, <2>1 DEF StatusShape, Straight
  <1>5. \A j \in 2 .. 4 : /\ s[j].op \in {"load", "only if", "exit if"}
                          /\ s[j].op = "load" => s[j].local # "status"
    <2>1. \A j \in 2 .. 4 : j = 2 \/ j = 3 \/ j = 4
      OBVIOUS
    <2>2. QED
      BY <1>1, <2>1 DEF StatusShape
  <1>6. /\ 1 \in 1 .. Len(s) /\ 5 \in 1 .. Len(s) /\ 1 < 5 /\ 1 + 1 = 2 /\ 5 - 1 = 4
    <2>1. Len(s) = 5
      BY <1>1 DEF StatusShape
    <2>2. QED
      BY <2>1
  <1>7. Reads(s, "status", "STATUS", 1, 5)
    <2> DEFINE k == 1
    <2>1. /\ k \in 1 .. Len(s) /\ n \in 1 .. Len(s) /\ k < n
          /\ \A j \in 1 .. k : s[j].op \in Straight
          /\ k + 1 = 2 /\ n - 1 = 4
          /\ s[k].op = "load" /\ s[k].local = "status" /\ s[k].reg = "STATUS"
      BY <1>1, <1>4, <1>6 DEF StatusShape
    <2>2. \A j \in 1 .. Len(s) : s[j].op = "report" <=> j = n
      BY <1>3
    <2> HIDE DEF k, n
    <2>3. Reads(s, "status", "STATUS", k, n)
      BY <1>5, <2>1, <2>2, StraightLeads DEF Reads
    <2>4. QED
      BY <2>3 DEF k, n
  <1>8. s[5].cond = MeetsHalted /\ MeetsHalted.local = "status"
    BY <1>1, TheirConditions DEF StatusShape
  <1>9. Vouches(s, MeetsHalted, "STATUS")
    BY <1>7, <1>8 DEF Vouches
  <1>10. QED
    BY <1>9 DEF s

(* nv_pmc_full_audit.                                                       *)
LEMMA AuditVouches == Vouches(nv_pmc_full_audit, HoldsAny, "STATUS")
  <1> DEFINE f == Or("BOOT_0", {17}) \o Or("ENABLE", {17})
             s == (f \o Load(HoldsAny.local, "STATUS")) \o Report(HoldsAny)
             h == Len(f)
  <1>1. s = nv_pmc_full_audit
    BY TheirConditions DEF nv_pmc_full_audit, HoldsAny
  <1>2. f \in Line
    <2>1. {17} \in Values
      BY BitSets
    <2>2. Or("BOOT_0", {17}) \in Line /\ Or("ENABLE", {17}) \in Line
      BY <2>1, LinePieces, Names
    <2>3. QED
      BY <2>2, LineConcat
  <1> HIDE DEF f
  <1>3. /\ h \in Nat /\ s[h + 2].cond = HoldsAny
        /\ Reads(s, HoldsAny.local, "STATUS", h + 1, h + 2)
    <2>1. HoldsAny \in Conditions /\ "STATUS" \in Regs
      BY TheirConditions, Names
    <2>2. QED
      BY <1>2, <2>1, LineEnd
  <1> HIDE DEF s, h
  <1>4. h + 1 \in Nat /\ h + 2 \in Nat
    BY <1>3
  <1>5. Vouches(s, HoldsAny, "STATUS")
    BY <1>3, <1>4 DEF Vouches
  <1>6. QED
    BY <1>1, <1>5

(* nv_gsp_pulse.                                                            *)
GspPulseShape(s) ==
    /\ s \in Typed /\ Len(s) = 7
    /\ s[1].op = "load"
    /\ s[2].op = "only if" /\ s[2].length = 2
    /\ s[3].op = "load" /\ s[4].op = "put" /\ s[5].op = "set"
    /\ s[6].op = "load" /\ s[6].local = "final_status" /\ s[6].reg = "STATUS"
    /\ s[7].op = "report" /\ s[7].cond = MeetsStopped

LEMMA GspPulseProgram == GspPulseShape(nv_gsp_pulse)
  <1> DEFINE a == Load("pmc_enable", "ENABLE")
             g == Misses("pmc_enable", {17})
             k == [op |-> "only if", cond |-> g, length |-> 2]
             b == Or("ENABLE", {17})
             d == <<k>> \o b
             e == Set("HALT", {1})
             l == Load("final_status", "STATUS")
             f == Report(MeetsStopped)
             u == a \o d
             v == u \o e
             w == v \o l
             s == w \o f
  <1>1. a \in Units /\ a[1].op = "load"
    BY LoadUnit, Names, LocalNames
  <1>2. b \in Typed /\ Len(b) = 2 /\ b[1].op = "load" /\ b[2].op = "put"
    <2>1. {17} \in Values
      BY BitSets
    <2>2. Updates(b, "ENABLE")
      BY <2>1, UpdatesShape, Names
    <2>3. QED
      BY <2>2 DEF Updates
  <1>3. s = nv_gsp_pulse
    BY <1>2 DEF nv_gsp_pulse, MeetsStopped, OnlyIf
  <1>4. k \in Instructions /\ k.op = "only if" /\ k.length = 2
    <2>1. g \in Conditions
      BY Tests, LocalNames, BitSets
    <2> HIDE DEF g
    <2>2. QED
      BY <2>1 DEF Instructions
  <1> HIDE DEF k, b
  <1>5. /\ d \in Typed /\ Len(d) = 3
        /\ d[1].op = "only if" /\ d[1].length = 2 /\ d[2].op = "load" /\ d[3].op = "put"
    <2> DEFINE c == <<k>>
    <2>1. c \in Typed /\ Len(c) = 1 /\ c[1] = k
      BY <1>4, Single
    <2> HIDE DEF c
    <2>2. After(c \o b, c, b)
      BY <1>2, <2>1, AfterBoth
    <2>3. d = c \o b
      BY DEF c
    <2> HIDE DEF d
    <2>4. /\ d \in Typed /\ Len(d) = 1 + 2 /\ d[1] = c[1]
          /\ d[1 + 1] = b[1] /\ d[1 + 2] = b[2]
      BY <1>2, <2>1, <2>2, <2>3 DEF After
    <2>5. 1 + 1 = 2 /\ 1 + 2 = 3
      OBVIOUS
    <2>6. QED
      BY <1>2, <1>4, <2>1, <2>4, <2>5
  <1> HIDE DEF d
  <1>6. e \in Typed /\ Len(e) = 1 /\ e[1].op = "set"
    <2>1. {1} \in Values /\ "HALT" \in Regs
      BY Names, BitSets
    <2>2. QED
      BY <2>1, SetShape
  <1>7. l \in Typed /\ Len(l) = 1 /\ l[1].op = "load" /\ l[1].local = "final_status"
        /\ l[1].reg = "STATUS"
    BY LoadUnit, Names, LocalNames DEF Units
  <1>8. f \in Typed /\ Len(f) = 1 /\ f[1].op = "report" /\ f[1].cond = MeetsStopped
    BY ReportUnit, TheirConditions DEF Units
  <1>9. a \in Typed /\ Len(a) = 1
    BY <1>1 DEF Units
  <1> HIDE DEF a, e, l, f
  <1>10. After(u, a, d)
    BY <1>5, <1>9, AfterBoth
  <1> HIDE DEF u
  <1>11. /\ u \in Typed /\ Len(u) = 4 /\ u[1] = a[1]
         /\ u[2] = d[1] /\ u[3] = d[2] /\ u[4] = d[3]
    <2>1. 1 + 3 = 4 /\ 1 + 1 = 2 /\ 1 + 2 = 3
      OBVIOUS
    <2>2. /\ u \in Typed /\ Len(u) = 1 + 3
          /\ \A n \in 1 .. 1 : u[n] = a[n]
          /\ \A n \in 1 .. 3 : u[1 + n] = d[n]
      BY <1>5, <1>9, <1>10 DEF After
    <2>3. 1 \in 1 .. 1 /\ 1 \in 1 .. 3 /\ 2 \in 1 .. 3 /\ 3 \in 1 .. 3
      OBVIOUS
    <2>4. u[1] = a[1] /\ u[1 + 1] = d[1] /\ u[1 + 2] = d[2] /\ u[1 + 3] = d[3]
      BY <2>2, <2>3
    <2>5. QED
      BY <2>1, <2>2, <2>4
  <1>12. v \in Typed /\ Len(v) = Len(u) + 1 /\ (\A n \in 1 .. Len(u) : v[n] = u[n])
         /\ v[Len(u) + 1] = e[1]
    BY <1>6, <1>11, Longer
  <1> HIDE DEF v
  <1>13. v \in Typed /\ Len(v) = 5 /\ (\A n \in 1 .. 4 : v[n] = u[n]) /\ v[5] = e[1]
    <2>1. 4 + 1 = 5
      OBVIOUS
    <2>2. QED
      BY <1>11, <1>12, <2>1
  <1>14. w \in Typed /\ Len(w) = Len(v) + 1 /\ (\A n \in 1 .. Len(v) : w[n] = v[n])
         /\ w[Len(v) + 1] = l[1]
    BY <1>7, <1>13, Longer
  <1> HIDE DEF w
  <1>15. w \in Typed /\ Len(w) = 6 /\ (\A n \in 1 .. 5 : w[n] = v[n]) /\ w[6] = l[1]
    <2>1. 5 + 1 = 6
      OBVIOUS
    <2>2. QED
      BY <1>13, <1>14, <2>1
  <1>16. s \in Typed /\ Len(s) = Len(w) + 1 /\ (\A n \in 1 .. Len(w) : s[n] = w[n])
         /\ s[Len(w) + 1] = f[1]
    BY <1>8, <1>15, Longer
  <1> HIDE DEF s
  <1>17. s \in Typed /\ Len(s) = 7 /\ (\A n \in 1 .. 6 : s[n] = w[n]) /\ s[7] = f[1]
    <2>1. 6 + 1 = 7
      OBVIOUS
    <2>2. QED
      BY <1>15, <1>16, <2>1
  <1>18. /\ s[1] = a[1] /\ s[2] = d[1] /\ s[3] = d[2] /\ s[4] = d[3]
         /\ s[5] = e[1] /\ s[6] = l[1] /\ s[7] = f[1]
    <2>1. \A n \in {1, 2, 3, 4} : n \in 1 .. 4 /\ n \in 1 .. 5 /\ n \in 1 .. 6
      OBVIOUS
    <2>2. 5 \in 1 .. 5 /\ 5 \in 1 .. 6 /\ 6 \in 1 .. 6
      OBVIOUS
    <2>3. \A n \in {1, 2, 3, 4} : s[n] = u[n]
      BY <1>13, <1>15, <1>17, <2>1
    <2>4. s[5] = e[1] /\ s[6] = l[1] /\ s[7] = f[1]
      BY <1>13, <1>15, <1>17, <2>2
    <2>5. QED
      BY <1>11, <2>3, <2>4
  <1>19. GspPulseShape(s)
    BY <1>1, <1>5, <1>6, <1>7, <1>8, <1>17, <1>18 DEF GspPulseShape
  <1>20. QED
    BY <1>3, <1>19

LEMMA PulseVouches == Vouches(nv_gsp_pulse, MeetsStopped, "STATUS")
  <1> DEFINE s == nv_gsp_pulse
  <1>1. GspPulseShape(s)
    BY GspPulseProgram
  <1> HIDE DEF s
  <1>2. \A j \in 1 .. 7 : j = 1 \/ j = 2 \/ j = 3 \/ j = 4 \/ j = 5 \/ j = 6 \/ j = 7
    OBVIOUS
  <1>3. \A j \in 1 .. Len(s) : s[j].op = "report" <=> j = 7
    BY <1>1, <1>2 DEF GspPulseShape
  <1>4. Leads(s, 6)
    <2>1. \A j \in 1 .. 6 : j = 1 \/ j = 2 \/ j = 3 \/ j = 4 \/ j = 5 \/ j = 6
      OBVIOUS
    <2>2. /\ s[1].op \in Straight /\ s[3].op \in Straight /\ s[4].op \in Straight
          /\ s[5].op \in Straight /\ s[6].op \in Straight
      BY <1>1 DEF GspPulseShape, Straight
    <2>3. s[2].op = "only if" /\ 2 + s[2].length < 6
      <3>1. s[2].op = "only if" /\ s[2].length = 2
        BY <1>1 DEF GspPulseShape
      <3>2. 2 + 2 < 6
        OBVIOUS
      <3>3. QED
        BY <3>1, <3>2
    <2>4. QED
      BY <2>1, <2>2, <2>3 DEF Leads
  <1>5. 6 \in 1 .. Len(s) /\ 7 \in 1 .. Len(s) /\ 6 < 7
    <2>1. Len(s) = 7
      BY <1>1 DEF GspPulseShape
    <2>2. QED
      BY <2>1
  <1>6. Reads(s, "final_status", "STATUS", 6, 7)
    <2> DEFINE m == 6
               n == 7
    <2>1. /\ m \in 1 .. Len(s) /\ n \in 1 .. Len(s) /\ m < n /\ Leads(s, m)
          /\ s[m].op = "load" /\ s[m].local = "final_status" /\ s[m].reg = "STATUS"
      BY <1>1, <1>4, <1>5 DEF GspPulseShape
    <2>2. \A j \in m + 1 .. n - 1 : FALSE
      OBVIOUS
    <2>3. \A j \in 1 .. Len(s) : s[j].op = "report" <=> j = n
      BY <1>3
    <2> HIDE DEF m, n
    <2>4. Reads(s, "final_status", "STATUS", m, n)
      BY <2>1, <2>2, <2>3 DEF Reads
    <2>5. QED
      BY <2>4 DEF m, n
  <1>7. s[7].cond = MeetsStopped /\ MeetsStopped.local = "final_status"
    BY <1>1, TheirConditions DEF GspPulseShape
  <1>8. Vouches(s, MeetsStopped, "STATUS")
    BY <1>6, <1>7 DEF Vouches
  <1>9. QED
    BY <1>8 DEF s

-----------------------------------------------------------------------------
(* prime_ignite: its status audit after what it does.                       *)
IgniteHead == ((Set("ELCG_DIS", Ones) \o Set("VGA_MASTER_CTRL", {}))
                  \o Or("ENABLE", {14, 31})) \o Or("RESET", {31})
Powered    == Meets("pmc_enable", {31})

AuditShape(s, h) ==
    /\ s[h + 1].op = "load" /\ s[h + 1].local = "pmc_enable" /\ s[h + 1].reg = "ENABLE"
    /\ s[h + 2].op = "load" /\ s[h + 2].local = "pmc_reset" /\ s[h + 2].reg = "RESET"
    /\ s[h + 3].op = "only if" /\ s[h + 3].cond = Powered /\ s[h + 3].length = 1
    /\ s[h + 4].op = "report" /\ s[h + 4].cond = MeetsIgnited

LEMMA AuditProgram ==
    /\ prime_dump_status \in Typed /\ Len(prime_dump_status) = 4
    /\ AuditShape(prime_dump_status, 0)
  <1> DEFINE a == Load("pmc_enable", "ENABLE")
             b == Load("pmc_reset", "RESET")
             f == Report(MeetsIgnited)
             d == OnlyIf(Powered, f)
             u == a \o b
             s == u \o d
  <1>1. s = prime_dump_status
    BY DEF prime_dump_status, MeetsIgnited, Powered
  <1>2. /\ a \in Units /\ a[1].op = "load" /\ a[1].local = "pmc_enable" /\ a[1].reg = "ENABLE"
        /\ b \in Units /\ b[1].op = "load" /\ b[1].local = "pmc_reset" /\ b[1].reg = "RESET"
    BY LoadUnit, Names, LocalNames
  <1>3. f \in Units /\ f[1].op = "report" /\ f[1].cond = MeetsIgnited
    BY ReportUnit, TheirConditions
  <1> HIDE DEF f
  <1>4. /\ d \in Typed /\ Len(d) = 2 /\ d[1].op = "only if" /\ d[1].cond = Powered
        /\ d[1].length = 1 /\ d[2] = f[1]
    <2>1. Powered \in Conditions
      BY Tests, LocalNames, BitSets DEF Powered
    <2>2. QED
      BY <1>3, <2>1, OnlyUnit
  <1> HIDE DEF a, b, d
  <1>5. u \in Typed /\ Len(u) = 1 + 1 /\ u[1] = a[1] /\ u[1 + 1] = b[1]
    <2>1. a \in Typed /\ Len(a) = 1 /\ b \in Typed /\ Len(b) = 1
      BY <1>2 DEF Units
    <2>2. /\ u \in Typed /\ Len(u) = Len(a) + 1
          /\ \A n \in 1 .. Len(a) : u[n] = a[n]
          /\ u[Len(a) + 1] = b[1]
      BY <2>1, Longer
    <2> HIDE DEF u
    <2>3. 1 \in 1 .. Len(a)
      BY <2>1
    <2>4. QED
      BY <2>1, <2>2, <2>3
  <1> HIDE DEF u
  <1>6. u \in Typed /\ Len(u) = 2 /\ u[1] = a[1] /\ u[2] = b[1]
    <2>1. 1 + 1 = 2
      OBVIOUS
    <2>2. QED
      BY <1>5, <2>1
  <1>7. After(s, u, d)
    BY <1>4, <1>6, AfterBoth
  <1> HIDE DEF s
  <1>8. /\ s \in Typed /\ Len(s) = 4 /\ s[1] = a[1] /\ s[2] = b[1]
        /\ s[3] = d[1] /\ s[4] = d[2]
    <2>1. 2 + 2 = 4 /\ 2 + 1 = 3 /\ 1 \in 1 .. 2 /\ 2 \in 1 .. 2
      OBVIOUS
    <2>2. /\ s \in Typed /\ Len(s) = 2 + 2 /\ s[1] = u[1] /\ s[2] = u[2]
          /\ s[2 + 1] = d[1] /\ s[2 + 2] = d[2]
      BY <1>4, <1>6, <1>7, <2>1 DEF After
    <2>3. QED
      BY <1>6, <2>1, <2>2
  <1>9. AuditShape(s, 0)
    <2>1. 0 + 1 = 1 /\ 0 + 2 = 2 /\ 0 + 3 = 3 /\ 0 + 4 = 4
      OBVIOUS
    <2>2. QED
      BY <1>2, <1>3, <1>4, <1>8, <2>1 DEF AuditShape
  <1>10. QED
    BY <1>1, <1>8, <1>9

LEMMA IgniteFirms == IgniteHead \in Firming(MeetsIgnited, "RESET")
  <1> DEFINE v == Ones
             a == (Set("ELCG_DIS", v) \o Set("VGA_MASTER_CTRL", {}))
                     \o Or("ENABLE", {14, 31})
             b == Or("RESET", {31})
             c == MeetsIgnited
  <1>1. {14, 31} \in Values /\ v \in Values /\ {} \in Values
    BY BitSets, Constants
  <1>2. IgniteHead = a \o b
    BY DEF IgniteHead
  <1> HIDE DEF v
  <1>3. a \in Line
    <2>1. /\ Set("ELCG_DIS", v) \in Line /\ Set("VGA_MASTER_CTRL", {}) \in Line
          /\ Or("ENABLE", {14, 31}) \in Line
      BY <1>1, LinePieces, Names
    <2>2. QED
      BY <2>1, LineConcat
  <1>4. b \in Firming(c, "RESET")
    BY Brings
  <1> HIDE DEF a, b, c
  <1>5. a \o b \in Firming(c, "RESET")
    BY <1>3, <1>4, FirmingAfter
  <1>6. QED
    BY <1>2, <1>5 DEF c

(* The whole of it, audit included.                                         *)
LEMMA IgniteProgram ==
    LET s == prime_ignite
        h == Len(IgniteHead)
    IN  /\ h \in Nat /\ h > 0 /\ s \in Typed /\ Len(s) = h + 4 /\ AuditShape(s, h)
        /\ \A j \in 1 .. h : s[j].op \in Straight
        /\ \E k \in 1 .. h : /\ s[k].reg = "RESET" /\ Meeting(s[k], MeetsIgnited)
                             /\ \A j \in k + 1 .. h : ~Storing(s[j], {"RESET"})
  <1> DEFINE f == IgniteHead
             d == prime_dump_status
             s == f \o d
             h == Len(f)
  <1>1. s = prime_ignite
    <2> DEFINE v == Ones
               x == Set("ELCG_DIS", v)
               y == Set("VGA_MASTER_CTRL", {})
               z == Or("ENABLE", {14, 31})
               w == Or("RESET", {31})
    <2>1. prime_ignite = (((x \o y) \o z) \o w) \o d
      BY DEF prime_ignite
    <2>2. f = ((x \o y) \o z) \o w
      BY DEF IgniteHead
    <2>3. QED
      BY <2>1, <2>2
  <1>2. f \in Firming(MeetsIgnited, "RESET")
    BY IgniteFirms
  <1>3. d \in Typed /\ Len(d) = 4 /\ AuditShape(d, 0)
    BY AuditProgram
  <1> HIDE DEF f, d
  <1>4. f \in Typed /\ h \in Nat /\ h > 0
    BY <1>2, LenProperties DEF Firming, Line, Typed
  <1>5. After(s, f, d)
    BY <1>3, <1>4, AfterBoth
  <1> HIDE DEF s
  <1>6. /\ s \in Typed /\ Len(s) = h + 4 /\ \A n \in 1 .. h : s[n] = f[n]
        /\ s[h + 1] = d[1] /\ s[h + 2] = d[2] /\ s[h + 3] = d[3] /\ s[h + 4] = d[4]
    <2>1. 1 \in 1 .. 4 /\ 2 \in 1 .. 4 /\ 3 \in 1 .. 4 /\ 4 \in 1 .. 4
      OBVIOUS
    <2>2. QED
      BY <1>3, <1>5, <2>1 DEF After
  <1>7. AuditShape(s, h)
    <2>1. 0 + 1 = 1 /\ 0 + 2 = 2 /\ 0 + 3 = 3 /\ 0 + 4 = 4
      OBVIOUS
    <2> HIDE DEF h
    <2>2. QED
      BY <1>3, <1>6, <2>1 DEF AuditShape
  <1>8. \A j \in 1 .. h : s[j].op \in Straight
    BY <1>2, <1>6 DEF Firming, Line
  <1>9. PICK k \in 1 .. h : /\ f[k].reg = "RESET" /\ Meeting(f[k], MeetsIgnited)
                            /\ \A j \in k + 1 .. h : ~Storing(f[j], {"RESET"})
    BY <1>2 DEF Firming
  <1>10. \A j \in k + 1 .. h : j \in 1 .. h
    <2>1. h \in Nat /\ k \in 1 .. h
      BY <1>4
    <2> HIDE DEF h
    <2>2. QED
      BY <2>1
  <1>11. s[k] = f[k] /\ \A j \in k + 1 .. h : s[j] = f[j]
    BY <1>6, <1>10
  <1>12. \E i \in 1 .. h : /\ s[i].reg = "RESET" /\ Meeting(s[i], MeetsIgnited)
                           /\ \A j \in i + 1 .. h : ~Storing(s[j], {"RESET"})
    BY <1>9, <1>11
  <1>13. QED
    BY <1>1, <1>4, <1>6, <1>7, <1>8, <1>12 DEF f

LEMMA IgniteReads ==
    LET s == prime_ignite
        h == Len(IgniteHead)
    IN  /\ Reads(s, "pmc_enable", "ENABLE", h + 1, h + 4)
        /\ Reads(s, "pmc_reset", "RESET", h + 2, h + 4)
        /\ \E k \in Nat : Settles(s, MeetsIgnited, "RESET", k, h + 4)
  <1> DEFINE s == prime_ignite
             h == Len(IgniteHead)
  <1>1. /\ h \in Nat /\ h > 0 /\ Len(s) = h + 4 /\ AuditShape(s, h)
        /\ \A j \in 1 .. h : s[j].op \in Straight
        /\ \E k \in 1 .. h : /\ s[k].reg = "RESET" /\ Meeting(s[k], MeetsIgnited)
                             /\ \A j \in k + 1 .. h : ~Storing(s[j], {"RESET"})
    BY IgniteProgram
  <1> HIDE DEF s, h
  <1>2. h \in Nat /\ h > 0
    BY <1>1
  <1>3. /\ \A j \in 1 .. h + 4 : j \in 1 .. h \/ j = h + 1 \/ j = h + 2 \/ j = h + 3 \/ j = h + 4
        /\ \A j \in 1 .. h + 1 : j \in 1 .. h \/ j = h + 1
        /\ \A j \in 1 .. h + 2 : j \in 1 .. h \/ j = h + 1 \/ j = h + 2
        /\ \A j \in h + 1 + 1 .. h + 4 - 1 : j = h + 2 \/ j = h + 3
        /\ \A j \in h + 2 + 1 .. h + 4 - 1 : j = h + 3
        /\ h + 1 \in 1 .. h + 4 /\ h + 2 \in 1 .. h + 4 /\ h + 4 \in 1 .. h + 4
        /\ h + 1 < h + 4 /\ h + 2 < h + 4
        /\ h + 4 \notin 1 .. h /\ h + 4 # h + 1 /\ h + 4 # h + 2 /\ h + 4 # h + 3
    BY <1>2
  <1>4. \A j \in 1 .. Len(s) : s[j].op = "report" <=> j = h + 4
    BY <1>1, <1>3 DEF AuditShape, Straight
  <1>5. \A j \in 1 .. h + 2 : s[j].op \in Straight
    BY <1>1, <1>3 DEF AuditShape, Straight
  <1>6. Reads(s, "pmc_enable", "ENABLE", h + 1, h + 4)
    <2> DEFINE m == h + 1
               n == h + 4
    <2>1. /\ m \in 1 .. Len(s) /\ n \in 1 .. Len(s) /\ m < n
          /\ s[m].op = "load" /\ s[m].local = "pmc_enable" /\ s[m].reg = "ENABLE"
      BY <1>1, <1>3 DEF AuditShape
    <2>2. \A j \in 1 .. m : s[j].op \in Straight
      BY <1>1, <1>3 DEF AuditShape, Straight
    <2>3. \A j \in m + 1 .. n - 1 : /\ s[j].op \in {"load", "only if", "exit if"}
                                    /\ s[j].op = "load" => s[j].local # "pmc_enable"
      <3>1. /\ s[h + 2].op = "load" /\ s[h + 2].local # "pmc_enable"
            /\ s[h + 3].op = "only if"
        BY <1>1 DEF AuditShape
      <3>2. \A j \in m + 1 .. n - 1 : j = h + 2 \/ j = h + 3
        BY <1>2
      <3> HIDE DEF m, n
      <3>3. QED
        BY <3>1, <3>2
    <2>4. \A j \in 1 .. Len(s) : s[j].op = "report" <=> j = n
      BY <1>4
    <2> HIDE DEF m, n
    <2>5. Reads(s, "pmc_enable", "ENABLE", m, n)
      BY <2>1, <2>2, <2>3, <2>4, StraightLeads DEF Reads
    <2>6. QED
      BY <2>5 DEF m, n
  <1>7. Reads(s, "pmc_reset", "RESET", h + 2, h + 4)
    <2> DEFINE m == h + 2
               n == h + 4
    <2>1. /\ m \in 1 .. Len(s) /\ n \in 1 .. Len(s) /\ m < n
          /\ s[m].op = "load" /\ s[m].local = "pmc_reset" /\ s[m].reg = "RESET"
      BY <1>1, <1>3 DEF AuditShape
    <2>2. \A j \in 1 .. m : s[j].op \in Straight
      BY <1>5
    <2>3. \A j \in m + 1 .. n - 1 : /\ s[j].op \in {"load", "only if", "exit if"}
                                    /\ s[j].op = "load" => s[j].local # "pmc_reset"
      <3>1. /\ s[h + 2].op = "load" /\ s[h + 2].local # "pmc_enable"
            /\ s[h + 3].op = "only if"
        BY <1>1 DEF AuditShape
      <3>2. \A j \in m + 1 .. n - 1 : j = h + 3
        BY <1>2
      <3> HIDE DEF m, n
      <3>3. QED
        BY <3>1, <3>2
    <2>4. \A j \in 1 .. Len(s) : s[j].op = "report" <=> j = n
      BY <1>4
    <2> HIDE DEF m, n
    <2>5. Reads(s, "pmc_reset", "RESET", m, n)
      BY <2>1, <2>2, <2>3, <2>4, StraightLeads DEF Reads
    <2>6. QED
      BY <2>5 DEF m, n
  <1>8. \E k \in Nat : Settles(s, MeetsIgnited, "RESET", k, h + 4)
    <2>1. PICK k \in 1 .. h : /\ s[k].reg = "RESET" /\ Meeting(s[k], MeetsIgnited)
                              /\ \A j \in k + 1 .. h : ~Storing(s[j], {"RESET"})
      BY <1>1
    <2>2. /\ k \in Nat /\ k \in 1 .. h + 4 /\ k < h + 4
          /\ \A j \in 1 .. k : j \in 1 .. h
          /\ \A j \in k + 1 .. h + 4 :
                j \in k + 1 .. h \/ j = h + 1 \/ j = h + 2 \/ j = h + 3 \/ j = h + 4
      BY <1>2
    <2>3. \A j \in {h + 1, h + 2, h + 3, h + 4} : ~Storing(s[j], {"RESET"})
      BY <1>1 DEF AuditShape, Storing
    <2>4. \A j \in k + 1 .. h + 4 : ~Storing(s[j], {"RESET"})
      BY <2>1, <2>2, <2>3
    <2>5. \A j \in 1 .. k : s[j].op \in Straight
      BY <1>1, <2>2
    <2>6. k \in 1 .. Len(s) /\ h + 4 \in 1 .. Len(s) /\ k < h + 4
      BY <1>1, <1>3, <2>2
    <2>7. Settles(s, MeetsIgnited, "RESET", k, h + 4)
      BY <2>1, <2>4, <2>5, <2>6 DEF Settles
    <2>8. QED
      BY <2>2, <2>7
  <1>9. QED
    BY <1>6, <1>7, <1>8 DEF s, h

LEMMA IgniteTrusty == Trusty(prime_ignite, MeetsIgnited, "RESET")
  <1> DEFINE s == prime_ignite
             h == Len(IgniteHead)
  <1>1. h \in Nat /\ s[h + 4].cond = MeetsIgnited
    BY IgniteProgram DEF AuditShape
  <1>2. PICK k \in Nat : Settles(s, MeetsIgnited, "RESET", k, h + 4)
    BY IgniteReads
  <1>3. Reads(s, "pmc_reset", "RESET", h + 2, h + 4)
    BY IgniteReads
  <1>4. MeetsIgnited.local = "pmc_reset"
    BY TheirConditions
  <1>5. h + 2 \in Nat /\ h + 4 \in Nat
    BY <1>1
  <1> HIDE DEF s, h
  <1>6. Trusty(s, MeetsIgnited, "RESET")
    BY <1>1, <1>2, <1>3, <1>4, <1>5 DEF Trusty
  <1>7. QED
    BY <1>6 DEF s

-----------------------------------------------------------------------------
(* The report of prime_ignite comes only after the power was seen.          *)
Passed ==
    \A p \in Running :
        tool[p] = "prime_ignite" /\ Clean(p, Quiet) /\ pc[p] = Len(IgniteHead) + 4 =>
            31 \in local[p]["pmc_enable"]

LEMMA InitPassed == Init => Passed
  BY DEF Init, Passed, Running

LEMMA IgniteIs == Program["prime_ignite"] = prime_ignite
  BY DEF Program

LEMMA OwnPasses ==
    ASSUME TypeOK, NEW p \in Running, OwnRun(p), tool[p] = "prime_ignite",
           pc'[p] = Len(IgniteHead) + 4
    PROVE  31 \in local'[p]["pmc_enable"]
  <1> DEFINE s == prime_ignite
             h == Len(IgniteHead)
             i == Instr(p)
  <1>1. p \in Process /\ Run(p)
    BY DEF OwnRun, Running
  <1>2. /\ h \in Nat /\ h > 0 /\ Len(s) = h + 4 /\ AuditShape(s, h)
        /\ \A j \in 1 .. h : s[j].op \in Straight
    BY IgniteProgram
  <1>3. Program[tool[p]] = s
    BY IgniteIs
  <1> HIDE DEF s, h
  <1>4. h \in Nat /\ pc'[p] = h + 4
    BY <1>2 DEF h
  <1>5. \A j \in 1 .. h + 2 : s[j].op \in Straight
    <2>1. \A j \in 1 .. h + 2 : j \in 1 .. h \/ j = h + 1 \/ j = h + 2
      BY <1>4
    <2>2. QED
      BY <1>2, <2>1 DEF AuditShape, Straight
  <1>6. /\ pc[p] \in h + 2 .. h + 4 - 1 /\ pc[p] \in Nat
        /\ pc[p] = h + 2 => pc'[p] = h + 2 + 1
        /\ i = s[pc[p]]
    <2> DEFINE k == h + 2
               n == h + 4
    <2>1. k \in Nat /\ n \in Nat /\ pc'[p] \in k + 1 .. n
      BY <1>4
    <2>2. Leads(Program[tool[p]], k)
      BY <1>3, <1>5, StraightLeads
    <2> HIDE DEF k, n
    <2>3. /\ pc[p] \in k .. n - 1 /\ pc[p] \in Nat
          /\ pc[p] = k => pc'[p] = k + 1
          /\ i = Program[tool[p]][pc[p]]
      BY <1>1, <2>1, <2>2, ComesFrom
    <2>4. i = s[pc[p]]
      BY <1>3, <2>3
    <2> HIDE DEF i
    <2>5. pc[p] \in k .. n - 1
      BY <2>3
    <2>6. pc[p] = k => pc'[p] = k + 1
      BY <2>3
    <2>7. /\ pc[p] \in h + 2 .. h + 4 - 1
          /\ pc[p] = h + 2 => pc'[p] = h + 2 + 1
      <3>1. pc[p] \in h + 2 .. h + 4 - 1
        BY <1>4, <2>5 DEF k, n
      <3>2. pc[p] = h + 2 => pc'[p] = h + 2 + 1
        BY <2>6 DEF k
      <3>3. QED
        BY <3>1, <3>2
    <2>8. QED
      BY <2>3, <2>4, <2>7
  <1>7. pc[p] = h + 3 /\ i = s[h + 3]
    <2>1. pc[p] = h + 3
      BY <1>4, <1>6
    <2>2. QED
      BY <1>6, <2>1
  <1>8. i.op = "only if" /\ i.cond = Powered /\ i.length = 1
    BY <1>2, <1>7 DEF AuditShape
  <1>9. Skip(p) /\ True(p)
    <2>1. Skip(p)
      BY <1>1, <1>8 DEF Run, LoadReg, SetReg, PutReg, CopyToMemory, PciReadReg, PciWriteReg,
                        PciFails, Exit, Says, At, Instr, i
    <2>2. ~True(p) => GoWith(p, pc[p] + 1 + 1, local[p])
      BY <1>8, <2>1 DEF Skip, Goto
    <2>3. ~True(p) => pc'[p] = pc[p] + 1 + 1 \/ pc'[p] = 0
      BY <1>1, <2>2 DEF GoWith, TypeOK
    <2>4. QED
      BY <1>4, <1>7, <2>1, <2>3
  <1>10. Holds(Powered, local[p]["pmc_enable"])
    <2>1. Instr(p).cond = Powered
      BY <1>8
    <2>2. Powered.local = "pmc_enable"
      BY DEF Powered, Meets
    <2>3. QED
      BY <1>9, <2>1, <2>2 DEF True
  <1>11. 31 \in local[p]["pmc_enable"]
    BY <1>10 DEF Holds, Powered, Meets
  <1>12. local'[p] = local[p]
    <2>1. pc'[p] # 0
      BY <1>4
    <2>2. QED
      BY <1>1, <1>8, <2>1, RunEffects
  <1>13. QED
    BY <1>11, <1>12

LEMMA NextPassed == TypeOK /\ Known /\ Passed /\ [Next]_vars => Passed'
  <1> SUFFICES ASSUME TypeOK, Known, Passed, [Next]_vars, NEW p \in Running',
                      tool'[p] = "prime_ignite", Clean(p, Quiet)',
                      pc'[p] = Len(IgniteHead) + 4
               PROVE  31 \in local'[p]["pmc_enable"]
    BY DEF Passed
  <1>1. "cleared" \notin Quiet
    BY DEF Quiet
  <1>2. CASE OwnRun(p) /\ Clean(p, Quiet)
    BY <1>2, OwnPasses DEF OwnRun
  <1>3. ASSUME NEW t \in Tools, Start(p, t)
        PROVE  FALSE
    <2>1. p \in Process /\ Len(IgniteHead) \in Nat
      BY IgniteProgram DEF Running
    <2>2. pc'[p] = 1
      BY <1>3, <2>1, Starts
    <2>3. QED
      BY <2>1, <2>2
  <1>4. CASE Still(p) /\ Clean(p, Quiet)
    BY <1>4 DEF Still, Passed
  <1>5. QED
    BY <1>1, <1>2, <1>3, <1>4, Solo

-----------------------------------------------------------------------------
(* Reports.                                                                 *)
LEMMA VerdictBy ==
    ASSUME TypeOK, [Next]_vars, NEW p \in Process, verdict'[p] # verdict[p]
    PROVE  Says(p) \/ verdict'[p] = "none"
  <1>1. CASE HaltTaken \/ ClearedByCard \/ UNCHANGED vars
    BY <1>1 DEF HaltTaken, ClearedByCard, vars
  <1>2. ASSUME NEW q \in Process, Run(q)
        PROVE  Says(p)
    <2>1. Says(q)
      BY <1>2 DEF Run, LoadReg, SetReg, PutReg, CopyToMemory, PciReadReg, PciWriteReg,
                  PciFails, Skip, Exit
    <2>2. QED
      BY <2>1 DEF Says, TypeOK
  <1>3. ASSUME NEW q \in Process, NEW t \in Tools, Start(q, t)
        PROVE  verdict'[p] = "none"
    BY <1>3 DEF Start, TypeOK
  <1>4. QED
    BY <1>1, <1>2, <1>3 DEF Next

LEMMA SaysWhat ==
    ASSUME TypeOK, NEW p \in Process, Says(p)
    PROVE  /\ p \in Running /\ Instr(p).op = "report" /\ pc[p] # 0 /\ Run(p)
           /\ UNCHANGED <<card, tool, others, trouble>>
           /\ verdict'[p] = IF True(p) THEN "success" ELSE "failure"
  <1>1. At(p, "report") /\ Run(p) /\ UNCHANGED <<card, tool, others, trouble>>
    BY DEF Says, Run, hist
  <1>2. verdict'[p] = IF True(p) THEN "success" ELSE "failure"
    BY DEF Says, TypeOK
  <1>3. QED
    BY <1>1, <1>2 DEF At, Instr, Running

(* What is reported on is what was read.                                    *)
LEMMA ReportRead ==
    ASSUME TypeOK, Reading, NEW p \in Process, Says(p), Clean(p, Quiet),
           tool[p] \in CardTools, NEW c \in Conditions, NEW r \in OfCard,
           Vouches(Program[tool[p]], c, r)
    PROVE  /\ Instr(p).cond = c
           /\ \/ local[p][c.local] = regs[r]
              \/ local[p][c.local] = {} /\ r = "STATUS"
  <1> DEFINE s == Program[tool[p]]
  <1>1. p \in Running /\ Instr(p).op = "report" /\ pc[p] # 0
    BY SaysWhat
  <1>2. Instr(p) = s[pc[p]] /\ pc[p] \in 1 .. Len(s)
    BY <1>1, InstrType DEF Instr
  <1>3. PICK m \in Nat, n \in Nat : Reads(s, c.local, r, m, n) /\ s[n].cond = c
    BY DEF Vouches
  <1>4. m < n /\ \A j \in 1 .. Len(s) : s[j].op = "report" <=> j = n
    BY <1>3 DEF Reads
  <1>5. pc[p] = n
    BY <1>1, <1>2, <1>4
  <1>6. pc[p] \in m + 1 .. n
    <2>1. m \in Nat /\ n \in Nat /\ m < n
      BY <1>4
    <2> HIDE DEF s
    <2>2. QED
      BY <1>5, <2>1
  <1>7. c.local \in Locals
    BY DEF Conditions
  <1>8. local[p][c.local] = regs[r] \/ (local[p][c.local] = {} /\ r = "STATUS")
    BY <1>1, <1>3, <1>6, <1>7 DEF Reading
  <1>9. QED
    BY <1>2, <1>3, <1>5, <1>8

LEMMA TrustyVouches ==
    ASSUME NEW s, NEW c, NEW r, Trusty(s, c, r)
    PROVE  Vouches(s, c, r)
  BY DEF Trusty, Vouches

LEMMA TrustyTrue ==
    ASSUME TypeOK, Reading, Settled, NEW p \in Process, Says(p), Clean(p, {}),
           tool[p] \in CardTools, NEW c \in Conditions, NEW r \in Settable,
           Trusty(Program[tool[p]], c, r)
    PROVE  True(p)
  <1> DEFINE s == Program[tool[p]]
  <1>1. p \in Running /\ Instr(p).op = "report" /\ pc[p] # 0
    BY SaysWhat
  <1>2. r \in OfCard /\ r # "STATUS"
    BY DEF Settable
  <1>3. Clean(p, Quiet)
    BY DEF Clean, Quiet
  <1>4. Instr(p).cond = c /\ local[p][c.local] = regs[r]
    BY <1>2, <1>3, ReportRead, TrustyVouches
  <1>5. Instr(p) = s[pc[p]] /\ pc[p] \in 1 .. Len(s)
    BY <1>1, InstrType DEF Instr
  <1>6. PICK k \in Nat, m \in Nat, n \in Nat :
           Reads(s, c.local, r, m, n) /\ Settles(s, c, r, k, n)
    BY DEF Trusty
  <1>7. k < n /\ \A j \in 1 .. Len(s) : s[j].op = "report" <=> j = n
    BY <1>6 DEF Reads, Settles
  <1>8. pc[p] = n
    BY <1>1, <1>5, <1>7
  <1>9. pc[p] \in k + 1 .. n
    <2>1. k \in Nat /\ n \in Nat /\ k < n
      BY <1>7
    <2> HIDE DEF s
    <2>2. QED
      BY <1>8, <2>1
  <1>10. Holds(c, regs[r])
    BY <1>1, <1>6, <1>9 DEF Settled
  <1>11. QED
    BY <1>4, <1>10 DEF True

-----------------------------------------------------------------------------
(* The tools that report on what they have stored, and on the falcon.       *)
Checkers == {"nv_gsp_wake", "nv_gpu_persistence", "nv_gpu_master_key", "nv_gpu_handshake",
             "prime_ignite", "nv_gsp_force", "nv_falcon_test"}
Watchers == {"nv_gsp_status", "nv_gsp_pulse", "nv_pmc_full_audit"}

LEMMA CheckersAre ==
    /\ Verifying = Checkers \cup {"nv_gpu_repin", "nv_gpu_open_valves"}
    /\ Checkers \cup Watchers \subseteq CardTools
    /\ \A t : Claims(t) # {} => t \in Verifying \cup Watchers
  <1>1. DOMAIN Program = {"nv_pci_wake", "nv_gpu_repin", "nv_gpu_open_valves", "cmd_reg_on",
            "gpu_ghost_probe", "motherboard_init", "nv_gsp_status", "nv_load_gsp",
            "nv_gsp_wake", "nv_gpu_master_key", "nv_gsp_force", "nv_gpu_persistence",
            "nv_gpu_handshake", "nv_pmc_full_audit", "nv_gsp_pulse", "prime_ignite",
            "nv_falcon_test", "nv_falcon_find"}
    BY DEF Program
  <1>2. Checkers \cup Watchers \subseteq CardTools
    BY <1>1 DEF Checkers, Watchers, CardTools, PciTools
  <1>3. Verifying = Checkers \cup {"nv_gpu_repin", "nv_gpu_open_valves"}
    BY DEF Verifying, Checkers
  <1>4. \A t : t \notin Verifying \cup Watchers => Claims(t) = {}
    BY DEF Claims, Verifying, Watchers
  <1>5. QED
    BY <1>2, <1>3, <1>4

(* What each of them reports on, and that this is what it claims.           *)
LEMMA CheckersTrusty ==
    ASSUME NEW t \in Checkers
    PROVE  \E c \in Conditions, r \in Settable :
              /\ Trusty(Program[t], c, r)
              /\ \A v : Holds(c, v) => \A q \in Claims(t) : q.local = r => Holds(q, v)
              /\ \A q \in Claims(t) : q.local = r \/ t = "prime_ignite"
              /\ t = "prime_ignite" => r = "RESET"
  <1>1. "ENABLE" \in Settable /\ "RESET" \in Settable /\ "MAILBOX0" \in Settable
    BY DEF Settable, OfCard, Falcon, Engine
  <1>2. CASE t \in {"nv_gsp_wake", "nv_gpu_persistence"}
    <2> DEFINE q == Meets("ENABLE", {19})
    <2>1. Program["nv_gsp_wake"] = nv_gsp_wake /\ Program["nv_gpu_persistence"] = nv_gpu_persistence
      BY DEF Program
    <2>2. Trusty(Program[t], MeetsPowered, "ENABLE")
      BY <1>2, <2>1, WakeTrusty, PersistenceTrusty
    <2>3. Claims(t) = {q}
      BY <1>2 DEF Claims
    <2>4. q.local = "ENABLE" /\ \A v : Holds(MeetsPowered, v) => Holds(q, v)
      BY DEF Holds, MeetsPowered, Meets
    <2> HIDE DEF q
    <2>5. QED
      BY <1>1, <1>2, <2>2, <2>3, <2>4, TheirConditions
  <1>3. CASE t \in {"nv_gpu_master_key", "nv_gpu_handshake"}
    <2> DEFINE q == Meets("RESET", {19})
    <2>1. /\ Program["nv_gpu_master_key"] = nv_gpu_master_key
          /\ Program["nv_gpu_handshake"] = nv_gpu_handshake
      BY DEF Program
    <2>2. Trusty(Program[t], MeetsReleased, "RESET")
      BY <1>3, <2>1, MasterKeyTrusty, HandshakeTrusty
    <2>3. Claims(t) = {q}
      BY <1>3 DEF Claims
    <2>4. q.local = "RESET" /\ \A v : Holds(MeetsReleased, v) => Holds(q, v)
      BY DEF Holds, MeetsReleased, Meets
    <2> HIDE DEF q
    <2>5. QED
      BY <1>1, <1>3, <2>2, <2>3, <2>4, TheirConditions
  <1>4. CASE t = "prime_ignite"
    <2> DEFINE q == Meets("RESET", {31})
               e == Meets("ENABLE", {31})
    <2>1. Trusty(Program[t], MeetsIgnited, "RESET")
      BY <1>4, IgniteIs, IgniteTrusty
    <2>2. Claims(t) = {e, q}
      BY <1>4 DEF Claims
    <2>3. /\ e.local = "ENABLE" /\ q.local = "RESET"
          /\ \A v : Holds(MeetsIgnited, v) => Holds(q, v)
      BY DEF Holds, MeetsIgnited, Meets
    <2> HIDE DEF q, e
    <2>4. QED
      BY <1>1, <1>4, <2>1, <2>2, <2>3, TheirConditions
  <1>5. CASE t = "nv_gsp_force"
    <2> DEFINE q == Among("MAILBOX0", {A5A5A5A5})
    <2>1. Program["nv_gsp_force"] = nv_gsp_force
      BY DEF Program
    <2>2. Trusty(Program[t], HoldsPattern, "MAILBOX0")
      BY <1>5, <2>1, ForceTrusty
    <2>3. Claims(t) = {q}
      BY <1>5 DEF Claims
    <2>4. q.local = "MAILBOX0" /\ \A v : Holds(HoldsPattern, v) => Holds(q, v)
      BY DEF Holds, HoldsPattern, Among
    <2> HIDE DEF q
    <2>5. QED
      BY <1>1, <1>5, <2>2, <2>3, <2>4, TheirConditions
  <1>6. CASE t = "nv_falcon_test"
    <2> DEFINE q == Among("MAILBOX0", {DEADBEEF})
    <2>1. Program["nv_falcon_test"] = nv_falcon_test
      BY DEF Program
    <2>2. Trusty(Program[t], HoldsBeef, "MAILBOX0")
      BY <1>6, <2>1, TestTrusty
    <2>3. Claims(t) = {q}
      BY <1>6 DEF Claims
    <2>4. q.local = "MAILBOX0" /\ \A v : Holds(HoldsBeef, v) => Holds(q, v)
      BY DEF Holds, HoldsBeef, Among
    <2> HIDE DEF q
    <2>5. QED
      BY <1>1, <1>6, <2>2, <2>3, <2>4, TheirConditions
  <1>7. QED
    BY <1>2, <1>3, <1>4, <1>5, <1>6 DEF Checkers

(* The same of the falcon's status; none reports success on a status of 0.  *)
LEMMA WatchersVouch ==
    ASSUME NEW t \in Watchers
    PROVE  \E c \in Conditions :
              /\ Vouches(Program[t], c, "STATUS") /\ ~Holds(c, {})
              /\ \A q \in Claims(t) :
                    q.local = "STATUS" /\ \A v : Holds(c, v) => Holds(q, v)
  <1>1. CASE t = "nv_gsp_status"
    <2> DEFINE q == Meets("STATUS", {1})
    <2>1. Program["nv_gsp_status"] = nv_gsp_status
      BY DEF Program
    <2>2. Vouches(Program[t], MeetsHalted, "STATUS")
      BY <1>1, <2>1, StatusVouches
    <2>3. Claims(t) = {q}
      BY <1>1 DEF Claims
    <2>4. /\ q.local = "STATUS" /\ ~Holds(MeetsHalted, {})
          /\ \A v : Holds(MeetsHalted, v) => Holds(q, v)
      BY DEF Holds, MeetsHalted, Meets
    <2> HIDE DEF q
    <2>5. QED
      BY <2>2, <2>3, <2>4, TheirConditions
  <1>2. CASE t = "nv_gsp_pulse"
    <2> DEFINE q == Meets("STATUS", {1})
    <2>1. Program["nv_gsp_pulse"] = nv_gsp_pulse
      BY DEF Program
    <2>2. Vouches(Program[t], MeetsStopped, "STATUS")
      BY <1>2, <2>1, PulseVouches
    <2>3. Claims(t) = {q}
      BY <1>2 DEF Claims
    <2>4. /\ q.local = "STATUS" /\ ~Holds(MeetsStopped, {})
          /\ \A v : Holds(MeetsStopped, v) => Holds(q, v)
      BY DEF Holds, MeetsStopped, Meets
    <2> HIDE DEF q
    <2>5. QED
      BY <2>2, <2>3, <2>4, TheirConditions
  <1>3. CASE t = "nv_pmc_full_audit"
    <2> DEFINE q == Other("STATUS", {{}})
    <2>1. Program["nv_pmc_full_audit"] = nv_pmc_full_audit
      BY DEF Program
    <2>2. Vouches(Program[t], HoldsAny, "STATUS")
      BY <1>3, <2>1, AuditVouches
    <2>3. Claims(t) = {q}
      BY <1>3 DEF Claims
    <2>4. /\ q.local = "STATUS" /\ ~Holds(HoldsAny, {})
          /\ \A v : Holds(HoldsAny, v) => Holds(q, v)
      BY DEF Holds, HoldsAny, Other
    <2> HIDE DEF q
    <2>5. QED
      BY <2>2, <2>3, <2>4, TheirConditions
  <1>4. QED
    BY <1>1, <1>2, <1>3 DEF Watchers

-----------------------------------------------------------------------------
(* What a verdict is worth.                                                 *)
AloneInv == Known /\ WayOpen /\ Reading /\ Settled /\ Repinned /\ Opened /\ Passed

LEMMA InitAloneInv == Init => AloneInv
  BY InitKnown, InitAlone, InitPci, InitPassed DEF AloneInv

LEMMA NextAloneInv == TypeOK /\ AloneInv /\ [Next]_vars => AloneInv'
  <1> SUFFICES ASSUME TypeOK, AloneInv, [Next]_vars PROVE AloneInv'
    OBVIOUS
  <1>1. Known /\ WayOpen /\ Reading /\ Settled /\ Repinned /\ Opened /\ Passed
    BY DEF AloneInv
  <1>2. Known' /\ WayOpen' /\ Reading' /\ Settled'
    BY <1>1, NextKnown, NextWay, NextReading, NextSettled
  <1>3. (Repinned /\ Opened)' /\ Passed'
    BY <1>1, NextPci, NextPassed
  <1>4. QED
    BY <1>2, <1>3 DEF AloneInv

(* The two configuration tools at their report.                             *)
LEMMA RepinReports ==
    ASSUME TypeOK, AloneInv, NEW p \in Process, Says(p), Clean(p, Quiet),
           tool[p] = "nv_gpu_repin"
    PROVE  /\ True(p) => regs["GPU_BAR0"] = AC000000
           /\ Clean(p, {}) => True(p)
  <1>1. p \in Running /\ Instr(p).op = "report" /\ pc[p] # 0
    BY SaysWhat
  <1>2. Instr(p) = nv_gpu_repin[pc[p]] /\ pc[p] \in 1 .. 4
    BY <1>1, RepinAt
  <1>3. RepinShape(nv_gpu_repin)
    BY RepinProgram
  <1>4. pc[p] = 4
    <2>1. \A n \in 1 .. 4 : n = 1 \/ n = 2 \/ n = 3 \/ n = 4
      OBVIOUS
    <2>2. QED
      BY <1>1, <1>2, <1>3, <2>1 DEF RepinShape
  <1>5. Instr(p).cond = Among("pi_data", {AC000000})
    BY <1>2, <1>3, <1>4 DEF RepinShape
  <1>6. True(p) <=> local[p]["pi_data"] = AC000000
    BY <1>5 DEF True, Holds, Among
  <1>7. Repinned
    BY DEF AloneInv
  <1>8. /\ local[p]["pi_data"] = AC000000 => regs["GPU_BAR0"] = AC000000
        /\ Clean(p, {}) => local[p]["pi_data"] = AC000000
    BY <1>1, <1>4, <1>7 DEF Repinned
  <1>9. QED
    BY <1>6, <1>8

LEMMA ValvesReport ==
    ASSUME TypeOK, AloneInv, NEW p \in Process, Says(p), Clean(p, Quiet),
           tool[p] = "nv_gpu_open_valves"
    PROVE  1 \in regs["GPU_COMMAND"] /\ True(p)
  <1>1. p \in Running /\ Instr(p).op = "report" /\ pc[p] # 0
    BY SaysWhat
  <1>2. Instr(p) = nv_gpu_open_valves[pc[p]] /\ pc[p] \in 1 .. 4
    BY <1>1, ValvesAt
  <1>3. ValvesShape(nv_gpu_open_valves)
    BY ValvesProgram
  <1>4. pc[p] = 4
    <2>1. \A n \in 1 .. 4 : n = 1 \/ n = 2 \/ n = 3 \/ n = 4
      OBVIOUS
    <2>2. QED
      BY <1>1, <1>2, <1>3, <2>1 DEF ValvesShape
  <1>5. Instr(p).cond = Meets("pi_data", {1})
    BY <1>2, <1>3, <1>4 DEF ValvesShape
  <1>6. Opened
    BY DEF AloneInv
  <1>7. local[p]["pi_data"] = regs["GPU_COMMAND"] /\ 1 \in regs["GPU_COMMAND"]
    BY <1>1, <1>4, <1>6 DEF Opened
  <1>8. True(p)
    BY <1>5, <1>7 DEF True, Holds, Meets
  <1>9. QED
    BY <1>7, <1>8

(* Nothing went wrong: the report is of success.                            *)
LEMMA CleanSucceeds ==
    ASSUME TypeOK, AloneInv, NEW p \in Process, Says(p), Clean(p, {}), tool[p] \in Verifying
    PROVE  True(p)
  <1>1. Clean(p, Quiet)
    BY DEF Clean, Quiet
  <1>2. CASE tool[p] \in Checkers
    <2>1. PICK c \in Conditions, r \in Settable : Trusty(Program[tool[p]], c, r)
      BY <1>2, CheckersTrusty
    <2>2. tool[p] \in CardTools /\ Reading /\ Settled
      BY <1>2, CheckersAre DEF AloneInv
    <2>3. QED
      BY <2>1, <2>2, TrustyTrue
  <1>3. CASE tool[p] = "nv_gpu_repin"
    BY <1>1, <1>3, RepinReports
  <1>4. CASE tool[p] = "nv_gpu_open_valves"
    BY <1>1, <1>4, ValvesReport
  <1>5. QED
    BY <1>2, <1>3, <1>4, CheckersAre

(* What a verdict rests on is not taken back after the run.                 *)
LEMMA VerdictKept ==
    ASSUME TypeOK, [Next]_vars, NEW p \in Process
    PROVE  \/ verdict'[p] = "none"
           \/ /\ tool'[p] = tool[p] /\ others[p] \subseteq others'[p]
              /\ trouble[p] \subseteq trouble'[p]
  <1>1. CASE HaltTaken \/ UNCHANGED vars
    BY <1>1 DEF HaltTaken, vars, hist
  <1>2. CASE ClearedByCard
    BY <1>2 DEF ClearedByCard
  <1>3. ASSUME NEW q \in Process, Run(q)
        PROVE  /\ tool'[p] = tool[p] /\ others[p] \subseteq others'[p]
               /\ trouble[p] \subseteq trouble'[p]
    <2>1. tool' = tool /\ others' = others
      BY <1>3, RunHistory
    <2>2. trouble[p] \subseteq trouble'[p]
      <3>1. CASE p = q
        BY <1>3, <3>1, RunTrouble
      <3>2. CASE p # q
        <4>1. trouble' = trouble \/ trouble' = [trouble EXCEPT ![q] = @ \cup {"ioctl"}]
          BY <1>3, RunTrouble DEF PciFails
        <4>2. QED
          BY <3>2, <4>1 DEF TypeOK
      <3>3. QED
        BY <3>1, <3>2
    <2>3. QED
      BY <2>1, <2>2
  <1>4. ASSUME NEW q \in Process, NEW t \in Tools, Start(q, t)
        PROVE  \/ verdict'[p] = "none"
               \/ /\ tool'[p] = tool[p] /\ others[p] \subseteq others'[p]
                  /\ trouble[p] \subseteq trouble'[p]
    <2>1. CASE q = p
      BY <1>4, <2>1, Starts
    <2>2. CASE q # p
      BY <1>4, <2>2 DEF Start, TypeOK
    <2>3. QED
      BY <2>1, <2>2
  <1>5. QED
    BY <1>1, <1>2, <1>3, <1>4 DEF Next

(* A tool that blames the hardware is right: whatever the bits the engines  *)
(* start with and wherever BAR0 is, no run that nothing went wrong with,    *)
(* beside no other, of a tool that checks its own work ends in a failure.   *)
THEOREM FailureIsBlamed == Spec => []AloneSucceeds
  <1>1. Init => AloneInv /\ AloneSucceeds
    <2>1. Init => AloneSucceeds
      BY DEF Init, AloneSucceeds
    <2>2. QED
      BY <2>1, InitAloneInv
  <1>2. TypeOK /\ AloneInv /\ AloneSucceeds /\ [Next]_vars => AloneSucceeds'
    <2> SUFFICES ASSUME TypeOK, AloneInv, AloneSucceeds, [Next]_vars, NEW p \in Process,
                        verdict'[p] = "failure", tool'[p] \in Verifying,
                        others'[p] = {}, trouble'[p] = {}
                 PROVE  FALSE
      BY DEF AloneSucceeds, Verifying
    <2>1. tool'[p] = tool[p] /\ others[p] = {} /\ trouble[p] = {}
      BY VerdictKept
    <2>2. CASE verdict'[p] = verdict[p]
      BY <2>1, <2>2 DEF AloneSucceeds
    <2>3. CASE verdict'[p] # verdict[p]
      <3>1. Says(p)
        BY <2>3, VerdictBy
      <3>2. Clean(p, {})
        BY <2>1 DEF Clean
      <3>3. True(p)
        BY <2>1, <3>1, <3>2, CleanSucceeds
      <3>4. QED
        BY <3>1, <3>3, SaysWhat
    <2>4. QED
      BY <2>2, <2>3
  <1>3. TypeOK /\ AloneInv /\ [Next]_vars => AloneInv'
    BY NextAloneInv
  <1>4. QED
    BY <1>1, <1>2, <1>3, TypeCorrect, PTL DEF Spec

(* The claims of a tool on the card.                                        *)
LEMMA CheckersHonest ==
    ASSUME TypeOK, AloneInv, NEW p \in Process, Says(p), Clean(p, Quiet), True(p),
           tool[p] \in Checkers, NEW q \in Claims(tool[p])
    PROVE  Holds(q, regs[q.local])
  <1>1. PICK c \in Conditions, r \in Settable :
           /\ Trusty(Program[tool[p]], c, r)
           /\ \A v : Holds(c, v) => \A e \in Claims(tool[p]) : e.local = r => Holds(e, v)
           /\ \A e \in Claims(tool[p]) : e.local = r \/ tool[p] = "prime_ignite"
           /\ tool[p] = "prime_ignite" => r = "RESET"
    BY CheckersTrusty
  <1>2. tool[p] \in CardTools /\ Reading /\ Passed
    BY CheckersAre DEF AloneInv
  <1>3. CASE q.local = r
    <2>1. Vouches(Program[tool[p]], c, r) /\ r \in OfCard /\ r # "STATUS"
      BY <1>1, TrustyVouches DEF Settable
    <2>2. Instr(p).cond = c /\ local[p][c.local] = regs[r]
      BY <1>2, <2>1, ReportRead
    <2>3. Holds(c, regs[r])
      BY <2>2 DEF True
    <2>4. QED
      BY <1>1, <1>3, <2>3
  <1>4. CASE q.local # r
    <2> DEFINE s == prime_ignite
               h == Len(IgniteHead)
    <2>1. tool[p] = "prime_ignite" /\ Program[tool[p]] = s
      BY <1>1, <1>4, IgniteIs
    <2>2. p \in Running /\ Instr(p).op = "report" /\ pc[p] # 0
      BY SaysWhat
    <2>3. Instr(p) = s[pc[p]] /\ pc[p] \in 1 .. Len(s)
      BY <2>1, <2>2, InstrType DEF Instr
    <2>4. Reads(s, "pmc_enable", "ENABLE", h + 1, h + 4) /\ h \in Nat
      BY IgniteReads, IgniteProgram
    <2>5. Reads(s, "pmc_reset", "RESET", h + 2, h + 4)
      BY IgniteReads
    <2> HIDE DEF s, h
    <2>6. pc[p] = h + 4
      <3>1. \A j \in 1 .. Len(s) : s[j].op = "report" <=> j = h + 4
        BY <2>4 DEF Reads
      <3>2. QED
        BY <2>2, <2>3, <3>1
    <2>7. 31 \in local[p]["pmc_enable"]
      BY <1>2, <2>1, <2>2, <2>6 DEF Passed, h
    <2>8. local[p]["pmc_enable"] = regs["ENABLE"]
      <3> DEFINE m == h + 1
                 n == h + 4
      <3>1. m \in Nat /\ n \in Nat /\ pc[p] \in m + 1 .. n
        BY <2>4, <2>6
      <3>2. Reads(Program[tool[p]], "pmc_enable", "ENABLE", m, n)
        BY <2>1, <2>4
      <3> HIDE DEF m, n
      <3>3. "pmc_enable" \in Locals /\ "ENABLE" \in OfCard
        BY LocalNames DEF OfCard, Engine
      <3>4. QED
        <4>1. \/ local[p]["pmc_enable"] = regs["ENABLE"]
              \/ local[p]["pmc_enable"] = {} /\ "ENABLE" = "STATUS"
          BY <1>2, <2>2, <3>1, <3>2, <3>3 DEF Reading
        <4>2. QED
          BY <4>1
    <2>9. q = Meets("ENABLE", {31}) \/ q = Meets("RESET", {31})
      BY <2>1 DEF Claims
    <2>10. r = "RESET"
      BY <1>1, <2>1
    <2>11. q = Meets("ENABLE", {31})
      BY <1>4, <2>9, <2>10 DEF Meets
    <2>12. q.local = "ENABLE" /\ \A v : 31 \in v => Holds(q, v)
      BY <2>11 DEF Holds, Meets
    <2>13. QED
      BY <2>7, <2>8, <2>12
  <1>5. QED
    BY <1>3, <1>4

LEMMA WatchersHonest ==
    ASSUME TypeOK, AloneInv, NEW p \in Process, Says(p), Clean(p, Quiet), True(p),
           tool[p] \in Watchers, NEW q \in Claims(tool[p])
    PROVE  Holds(q, regs[q.local])
  <1>1. PICK c \in Conditions :
           /\ Vouches(Program[tool[p]], c, "STATUS") /\ ~Holds(c, {})
           /\ \A e \in Claims(tool[p]) :
                 e.local = "STATUS" /\ \A v : Holds(c, v) => Holds(e, v)
    BY WatchersVouch
  <1>2. tool[p] \in CardTools /\ "STATUS" \in OfCard /\ Reading
    BY CheckersAre DEF AloneInv, OfCard, Falcon
  <1>3. /\ Instr(p).cond = c
        /\ \/ local[p][c.local] = regs["STATUS"]
           \/ local[p][c.local] = {}
    BY <1>1, <1>2, ReportRead
  <1>4. Holds(c, local[p][c.local])
    BY <1>3 DEF True
  <1>5. Holds(c, regs["STATUS"])
    BY <1>1, <1>3, <1>4
  <1>6. QED
    BY <1>1, <1>5

(* Of BAR0, which it says something about, nv_gpu_open_valves reads nothing. *)
LEMMA ValvesLook == ~LooksAt("nv_gpu_open_valves", "GPU_BAR0")
  <1> DEFINE s == nv_gpu_open_valves
  <1>1. Program["nv_gpu_open_valves"] = s
    BY DEF Program
  <1>2. ValvesShape(s)
    BY ValvesProgram
  <1> HIDE DEF s
  <1>3. DOMAIN s = 1 .. 4 /\ \A n \in 1 .. 4 : n = 1 \/ n = 2 \/ n = 3 \/ n = 4
    <2>1. s \in Seq(Instructions) /\ Len(s) = 4
      BY <1>2 DEF ValvesShape, Typed
    <2>2. DOMAIN s = 1 .. 4
      BY <2>1
    <2>3. QED
      BY <2>2
  <1>4. \A n \in 1 .. 4 : s[n].op \in {"load", "pci read"} => s[n].reg # "GPU_BAR0"
    BY <1>2, <1>3 DEF ValvesShape, Ioctl
  <1>5. QED
    BY <1>1, <1>3, <1>4 DEF LooksAt

(* A tool that reports success is right: all that it claims of registers it *)
(* has looked at is what they hold, though writes did not stick or ioctls   *)
(* failed, when it runs alone on a card that answers and clears no bits     *)
(* meanwhile.                                                               *)
THEOREM SuccessIsTrue == Spec => AloneHonest
  <1>1. TypeOK /\ AloneInv /\ [Next]_vars =>
            \A p \in Process :
                /\ verdict'[p] # verdict[p] /\ verdict'[p] = "success"
                /\ others[p] = {} /\ trouble[p] \subseteq {"refuses", "ioctl"}
                => \A c \in Claims(tool[p]) :
                       LooksAt(tool[p], c.local) => Holds(c, regs[c.local])
    <2> SUFFICES ASSUME TypeOK, AloneInv, [Next]_vars, NEW p \in Process,
                        verdict'[p] # verdict[p], verdict'[p] = "success",
                        others[p] = {}, trouble[p] \subseteq {"refuses", "ioctl"},
                        NEW q \in Claims(tool[p]), LooksAt(tool[p], q.local)
                 PROVE  Holds(q, regs[q.local])
      OBVIOUS
    <2>1. Says(p)
      BY VerdictBy
    <2>2. True(p) /\ p \in Running /\ pc[p] # 0
      BY <2>1, SaysWhat
    <2>3. Clean(p, Quiet)
      BY DEF Clean, Quiet
    <2>4. CASE tool[p] \in Checkers
      BY <2>1, <2>2, <2>3, <2>4, CheckersHonest
    <2>5. CASE tool[p] \in Watchers
      BY <2>1, <2>2, <2>3, <2>5, WatchersHonest
    <2>6. CASE tool[p] = "nv_gpu_repin"
      <3>1. regs["GPU_BAR0"] = AC000000
        BY <2>1, <2>2, <2>3, <2>6, RepinReports
      <3>2. q = Among("GPU_BAR0", {AC000000})
        BY <2>6 DEF Claims
      <3>3. QED
        BY <3>1, <3>2 DEF Holds, Among
    <2>7. CASE tool[p] = "nv_gpu_open_valves"
      <3>1. 1 \in regs["GPU_COMMAND"]
        BY <2>1, <2>3, <2>7, ValvesReport
      <3>2. q = Meets("GPU_COMMAND", {1}) \/ q = Among("GPU_BAR0", {AC000000})
        BY <2>7 DEF Claims
      <3>3. q = Meets("GPU_COMMAND", {1})
        BY <2>7, <3>2, ValvesLook DEF Among
      <3>4. QED
        BY <3>1, <3>3 DEF Holds, Meets
    <2>8. QED
      BY <2>4, <2>5, <2>6, <2>7, CheckersAre
  <1>2. Init => AloneInv
    BY InitAloneInv
  <1>3. TypeOK /\ AloneInv /\ [Next]_vars => AloneInv'
    BY NextAloneInv
  <1>4. QED
    BY <1>1, <1>2, <1>3, TypeCorrect, PTL DEF Spec, AloneHonest

=============================================================================
