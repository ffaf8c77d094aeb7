-------------------------- MODULE PrimeShellProofs --------------------------
(***************************************************************************)
(* Proofs about PrimeShell for every value of its constants: any number of *)
(* handles, scripts, aliases and registers, any nesting of the commands.   *)
(***************************************************************************)
EXTENDS PrimeShell, SequenceTheorems, TLAPS

-----------------------------------------------------------------------------
(* The call stack as a sequence.                                            *)

(* Popping keeps every frame below the innermost one where it was.          *)
LEMMA FrontProperties ==
    ASSUME NEW S, NEW s \in Seq(S), s # <<>>
    PROVE  /\ Front(s) \in Seq(S)
           /\ Len(Front(s)) = Len(s) - 1
           /\ \A i \in 1 .. Len(s) - 1 : Front(s)[i] = s[i]
           /\ Last(s) = s[Len(s)]
           /\ Last(s) \in S
           /\ Len(s) \in Nat \ {0}
  <1>1. Len(s) \in Nat \ {0} /\ \A i \in 1 .. Len(s) : s[i] \in S
    BY EmptySeq, ElementOfSeq
  <1> DEFINE m == Len(s) - 1
  <1>2. m \in Nat /\ \A i \in 1 .. m : s[i] \in S
    BY <1>1
  <1>3. /\ SubSeq(s, 1, m) \in Seq(S)
        /\ Len(SubSeq(s, 1, m)) = IF 1 <= m THEN m - 1 + 1 ELSE 0
        /\ \A i \in 1 .. m - 1 + 1 : SubSeq(s, 1, m)[i] = s[1 + i - 1]
    <2> HIDE DEF m
    <2> QED
      BY <1>2, SubSeqProperties
  <1>4. Len(SubSeq(s, 1, m)) = m /\ \A i \in 1 .. m : SubSeq(s, 1, m)[i] = s[i]
    <2>1. m - 1 + 1 = m /\ \A i \in 1 .. m : 1 + i - 1 = i
      BY <1>2
    <2>2. QED
      BY <1>2, <1>3, <2>1
  <1>5. Last(s) = s[Len(s)] /\ s[Len(s)] \in S
    BY <1>1 DEF Last
  <1>6. QED
    BY <1>1, <1>3, <1>4, <1>5 DEF Front

(* Pushing, likewise.                                                       *)
LEMMA PushProperties ==
    ASSUME NEW S, NEW s \in Seq(S), NEW x \in S
    PROVE  /\ Append(s, x) \in Seq(S)
           /\ Append(s, x) # <<>>
           /\ Len(Append(s, x)) = Len(s) + 1
           /\ \A i \in 1 .. Len(s) : Append(s, x)[i] = s[i]
           /\ Append(s, x)[Len(s) + 1] = x
           /\ Last(Append(s, x)) = x
  BY AppendProperties DEF Last

(* Replacing the innermost call.                                            *)
LEMMA ReplaceType ==
    ASSUME TypeOK, stack # <<>>, NEW f \in Frame
    PROVE  Replace(f) \in Seq(Frame)
  BY FrontProperties, PushProperties DEF TypeOK, Replace

LEMMA TopType ==
    ASSUME TypeOK, stack # <<>>
    PROVE  /\ Top \in Frame
           /\ Pop \in Seq(Frame)
           /\ Top.kind = "exec"   => Top \in ExecFrame
           /\ Top.kind = "script" => Top \in ScriptFrame
           /\ Top.kind = "step"   => Top \in StepFrame
           /\ Top.kind = "repeat" => Top \in RepeatFrame
           /\ Top.kind = "until"  => Top \in UntilFrame
           /\ Top.kind = "save"   => Top \in SaveFrame
  <1>1. Top \in Frame /\ Pop \in Seq(Frame)
    BY FrontProperties DEF TypeOK, Top, Pop
  <1>2. QED
    BY <1>1 DEF Frame, ExecFrame, ScriptFrame, StepFrame, RepeatFrame,
                UntilFrame, SaveFrame

-----------------------------------------------------------------------------
(* Type correctness, by the parts a step changes.                           *)

(* A line handed to shell_execute leaves a well-formed frame and buffer.    *)
LEMMA ArgvType ==
    ASSUME NEW line \in Line
    PROVE  Argv(line) \in Seq(Token)
  <1> DEFINE n == IF Len(line.words) <= MaxArgs THEN Len(line.words) ELSE MaxArgs
  <1>1. line.words \in Seq(Token) /\ Len(line.words) \in Nat
    BY LenProperties DEF Line
  <1>2. n \in Int /\ \A i \in 1 .. n : line.words[i] \in Token
    BY <1>1, ElementOfSeq, ShellAssumption
  <1>3. QED
    BY <1>2, SubSeqProperties DEF Argv

MacroType == [on : BOOLEAN, n : Int, buf : [0 .. MacroMax - 1 -> Line]]
Faults    == {"none", "capture", "export"} \cup Commands

LEMMA ExecuteType ==
    ASSUME TypeOK, NEW base \in Seq(Frame), NEW line \in Line,
           Execute(base, line)
    PROVE  stack' \in Seq(Frame) /\ macro' \in MacroType /\ fault' \in Faults
  <1>1. [kind |-> "exec", argv |-> Argv(line)] \in Frame
    BY ArgvType DEF Frame, ExecFrame
  <1>2. stack' \in Seq(Frame)
    BY <1>1, PushProperties DEF Execute
  <1>3. macro' \in MacroType
    <2>1. CASE Captures(line) /\ macro.n >= 0
      <3>0. macro \in MacroType
        BY DEF TypeOK, MacroType
      <3>1. macro \in MacroType /\ macro.n \in 0 .. MacroMax - 1
        BY <2>1, <3>0, ShellAssumption DEF MacroType, Captures
      <3>2. macro' = [macro EXCEPT !.n = @ + 1,
                                    !.buf = [@ EXCEPT ![macro.n] = line]]
        BY <2>1, <3>1 DEF Execute
      <3>3. macro.buf \in [0 .. MacroMax - 1 -> Line] /\ macro.n + 1 \in Int
        BY <3>1 DEF MacroType
      <3>4. [macro.buf EXCEPT ![macro.n] = line] \in [0 .. MacroMax - 1 -> Line]
        BY <3>3
      <3>5. QED
        BY <3>1, <3>2, <3>3, <3>4 DEF MacroType
    <2>2. CASE ~(Captures(line) /\ macro.n >= 0)
      BY <2>2 DEF Execute, TypeOK, MacroType
    <2>3. QED
      BY <2>1, <2>2
  <1>4. fault' \in Faults
    BY DEF Execute, TypeOK, Faults
  <1>5. QED
    BY <1>2, <1>3, <1>4

(* A name that has a slot is looked up in it.                               *)
LEMMA SlotInTable ==
    ASSUME NEW table, NEW name, FirstSlot(table, name) # {}
    PROVE  SlotOf(table, name) \in FirstSlot(table, name)
  BY Zenon DEF SlotOf

(* Addresses computed from what the operator typed are 32-bit addresses.    *)
LEMMA ResolveType ==
    ASSUME aliases \in Seq(Alias), NEW token \in Token, NEW base \in {0, 10, 16}
    PROVE  /\ Resolve(aliases, token, base) \in Addresses
           /\ Strtoul[token][base] \in Addresses
           /\ Atoi(token) \in Int
  <1>1. Strtoul[token][base] \in Addresses /\ Strtoul[token][10] \in Addresses
    BY BarAssumption
  <1>2. resolve_name(aliases, token) \in Addresses
    <2>1. CASE FirstSlot(aliases, token) # {}
      <3>1. SlotOf(aliases, token) \in FirstSlot(aliases, token)
        BY <2>1, SlotInTable
      <3>2. SlotOf(aliases, token) \in 1 .. Len(aliases)
        BY <3>1, LenProperties DEF FirstSlot
      <3>3. aliases[SlotOf(aliases, token)] \in Alias
        BY <3>2, ElementOfSeq
      <3>4. QED
        BY <2>1, <3>3 DEF resolve_name, Alias
    <2>2. CASE FirstSlot(aliases, token) = {}
      BY <2>2, BarAssumption DEF resolve_name, NotFound, Addresses, InMap
    <2>3. QED
      BY <2>1, <2>2
  <1>3. Resolve(aliases, token, base) \in Addresses
    BY <1>1, <1>2 DEF Resolve
  <1>4. Atoi(token) \in Int
    <2>1. Word \in Int /\ Strtoul[token][10] \in Int
      BY <1>1, BarAssumption DEF Addresses
    <2>2. QED
      BY <2>1 DEF Atoi
  <1>5. QED
    BY <1>1, <1>3, <1>4

(* The arguments of the command being dispatched are words.                 *)
LEMMA ArgType ==
    ASSUME TypeOK, NEW name, Dispatched(name)
    PROVE  /\ stack # <<>> /\ Top \in ExecFrame
           /\ argc \in Nat \ {0}
           /\ \A k \in 0 .. argc - 1 : Arg(k) \in Token
           /\ \A k \in Nat : Rejoined(k) \in Line
  <1>1. stack # <<>> /\ Top \in ExecFrame /\ Top.argv \in Seq(Token)
    BY TopType DEF Dispatched, InCall, ExecFrame
  <1>2. argc \in Nat \ {0}
    BY <1>1, LenProperties DEF argc, Dispatched
  <1>3. \A k \in 0 .. argc - 1 : Arg(k) \in Token
    BY <1>1, <1>2, ElementOfSeq DEF Arg, argc
  <1>4. ASSUME NEW k \in Nat PROVE Rejoined(k) \in Line
    <2>1. \A i \in k + 1 .. argc : Top.argv[i] \in Token
      BY <1>1, <1>2, ElementOfSeq DEF argc
    <2>2. SubSeq(Top.argv, k + 1, argc) \in Seq(Token)
      BY <1>2, <2>1, SubSeqProperties
    <2>3. QED
      BY <2>2 DEF Rejoined, Line
  <1>5. QED
    BY <1>1, <1>2, <1>3, <1>4

LEMMA StoredType ==
    ASSUME TypeOK, NEW written, NEW value \in RegValue
    PROVE  Stored(written, value) \in [Regs -> RegValue]
  BY DEF TypeOK, Stored

(* Steps that leave everything but the call stack and the fault as it was.  *)
LEMMA QuietType ==
    ASSUME TypeOK, stack' \in Seq(Frame), fault' \in Faults,
           UNCHANGED <<regs, running, aliases, macro, tty, fps, files, stdin,
                       ended, entered>>
    PROVE  TypeOK'
  BY DEF TypeOK, Faults

LEMMA EnterType == TypeOK /\ Enter => TypeOK'
  <1> SUFFICES ASSUME TypeOK, Enter PROVE TypeOK'
    OBVIOUS
  <1>1. PICK line \in Session \ {EmptyLine} :
          /\ Execute(<<>>, line)
          /\ entered' = IF macro.on /\ ~MacroLike(line) /\ macro.n < MacroMax
                        THEN Append(entered, line) ELSE entered
    BY DEF Enter
  <1>2. line \in Line /\ <<>> \in Seq(Frame)
    BY ShellAssumption, EmptySeq
  <1>3. stack' \in Seq(Frame) /\ macro' \in MacroType /\ fault' \in Faults
    BY <1>1, <1>2, ExecuteType
  <1>4. entered' \in Seq(Line)
    BY <1>1, <1>2, AppendProperties DEF TypeOK
  <1>5. QED
    BY <1>3, <1>4 DEF Enter, TypeOK, MacroType, Faults

(* Handlers that read or write registers: Touch pops the call.              *)
LEMMA TouchType ==
    ASSUME TypeOK, NEW command \in Commands, NEW accessed, stack # <<>>,
           Touch(command, accessed), regs' \in [Regs -> RegValue]
    PROVE  TypeOK'
  <1>1. stack' \in Seq(Frame) /\ fault' \in Faults
    BY TopType DEF Touch, TypeOK, Faults
  <1>2. QED
    BY <1>1 DEF Touch, TypeOK, Faults

LEMMA ReaderType ==
    ASSUME TypeOK, cmd_peek \/ cmd_bits \/ cmd_search \/ cmd_log
    PROVE  TypeOK'
  <1>1. regs' \in [Regs -> RegValue]
    BY DEF cmd_peek, cmd_bits, cmd_search, cmd_log, TypeOK
  <1>2. CASE cmd_peek
    <2>1. stack # <<>> /\ \E accessed : Touch("peek", accessed)
      BY <1>2 DEF cmd_peek, Dispatched, InCall
    <2>2. QED
      BY <1>1, <2>1, TouchType DEF Commands
  <1>3. CASE cmd_bits
    <2>1. stack # <<>> /\ \E accessed : Touch("bits", accessed)
      BY <1>3 DEF cmd_bits, Dispatched, InCall
    <2>2. QED
      BY <1>1, <2>1, TouchType DEF Commands
  <1>4. CASE cmd_search
    <2>1. stack # <<>> /\ \E accessed : Touch("search", accessed)
      BY <1>4 DEF cmd_search, Dispatched, InCall
    <2>2. QED
      BY <1>1, <2>1, TouchType DEF Commands
  <1>5. CASE cmd_log
    <2>1. stack # <<>> /\ \E accessed : Touch("log", accessed)
      BY <1>5 DEF cmd_log, Dispatched, InCall
    <2>2. QED
      BY <1>1, <2>1, TouchType DEF Commands
  <1>6. QED
    BY <1>2, <1>3, <1>4, <1>5

LEMMA WriterType ==
    ASSUME TypeOK, cmd_poke \/ cmd_fill \/ cmd_mask
    PROVE  TypeOK'
  <1>1. CASE cmd_poke
    <2>1. stack # <<>> /\ \E accessed : Touch("poke", accessed)
      BY <1>1 DEF cmd_poke, Dispatched, InCall
    <2>2. \A n : BitsOf(n) \in RegValue
      BY DEF BitsOf, RegValue
    <2>3. regs' \in [Regs -> RegValue]
      BY <1>1, <2>2, StoredType DEF cmd_poke, TypeOK
    <2>4. QED
      BY <2>1, <2>3, TouchType DEF Commands
  <1>2. CASE cmd_fill
    <2>1. stack # <<>> /\ \E accessed : Touch("fill", accessed)
      BY <1>2 DEF cmd_fill, Dispatched, InCall
    <2>2. \A n : BitsOf(n) \in RegValue
      BY DEF BitsOf, RegValue
    <2>3. regs' \in [Regs -> RegValue]
      BY <1>2, <2>2, StoredType DEF cmd_fill, TypeOK
    <2>4. QED
      BY <2>1, <2>3, TouchType DEF Commands
  <1>3. CASE cmd_mask
    <2> DEFINE address == get_target_address(aliases, Arg(1))
               bit     == {Atoi(Arg(2))}
               old     == regs[Reg(address)]
               new     == IF argc < 4 THEN SymDiff(old, bit)
                          ELSE IF Atoi(Arg(3)) = 1 THEN old \cup bit
                          ELSE old \ bit
    <2>1. stack # <<>> /\ \E accessed : Touch("mask", accessed)
      BY <1>3 DEF cmd_mask, Dispatched, InCall
    <2>2. CASE argc < 3 \/ Atoi(Arg(2)) \notin Bits
      BY <1>3, <2>1, <2>2, TouchType DEF cmd_mask, Commands, TypeOK
    <2>3. CASE ~(argc < 3 \/ Atoi(Arg(2)) \notin Bits) /\ address \in InMap
      <3>1. Reg(address) \in Regs
        <4> HIDE DEF address
        <4>1. address \in Nat /\ RANGE_16MB \in Nat /\ address < RANGE_16MB
          BY <2>3, BarAssumption DEF InMap
        <4>2. RANGE_16MB % 4 = 0
          BY BarAssumption
        <4>3. address \div 4 \in 0 .. (RANGE_16MB \div 4) - 1
          BY <4>1, <4>2, SMT
        <4>4. QED
          BY <4>3 DEF Reg, Regs
      <3>2. old \in RegValue
        BY <3>1 DEF TypeOK
      <3>3. bit \subseteq Bits
        BY <2>3
      <3>4. new \in RegValue
        <4> HIDE DEF old, bit
        <4> QED
          BY <3>2, <3>3 DEF RegValue, SymDiff
      <3>5. regs' = Stored({address}, new)
        BY <1>3, <2>3 DEF cmd_mask
      <3>6. regs' \in [Regs -> RegValue]
        <4> HIDE DEF new, address
        <4> QED
          BY <3>4, <3>5, StoredType
      <3>7. QED
        BY <2>1, <3>6, TouchType DEF Commands
    <2>4. CASE ~(argc < 3 \/ Atoi(Arg(2)) \notin Bits) /\ address \notin InMap
      <3>1. regs' = regs
        BY <1>3, <2>4 DEF cmd_mask
      <3>2. QED
        BY <2>1, <3>1, TouchType DEF Commands, TypeOK
    <2>5. QED
      BY <2>2, <2>3, <2>4
  <1>4. QED
    BY <1>1, <1>2, <1>3

LEMMA AliasType == TypeOK /\ cmd_alias => TypeOK'
  <1> SUFFICES ASSUME TypeOK, cmd_alias PROVE TypeOK'
    OBVIOUS
  <1>1. /\ stack # <<>> /\ argc \in Nat
        /\ \A k \in 0 .. argc - 1 : Arg(k) \in Token
    BY ArgType DEF cmd_alias
  <1>2. stack' \in Seq(Frame)
    BY <1>1, TopType DEF cmd_alias
  <1>3. aliases' \in Seq(Alias) /\ Len(aliases') <= AliasMax
    <2>1. CASE argc < 3 \/ Len(aliases) >= AliasMax
      BY <2>1 DEF cmd_alias, TypeOK
    <2>2. CASE ~(argc < 3 \/ Len(aliases) >= AliasMax)
      <3> DEFINE new == [name |-> Arg(1),
                         address |-> Resolve(aliases, Arg(2), 16)]
      <3>1. Arg(1) \in Token /\ Arg(2) \in Token
        BY <1>1, <2>2
      <3>2. aliases \in Seq(Alias)
        BY DEF TypeOK
      <3>3. new \in Alias
        BY <3>1, <3>2, ResolveType DEF Alias
      <3>4. aliases' = Append(aliases, new)
        BY <2>2 DEF cmd_alias
      <3>5. Len(aliases) \in Nat
        BY <3>2, LenProperties
      <3>6. QED
        <4> HIDE DEF new
        <4> QED
          BY <2>2, <3>2, <3>3, <3>4, <3>5, AppendProperties, ShellAssumption
    <2>3. QED
      BY <2>1, <2>2
  <1>4. QED
    BY <1>2, <1>3 DEF cmd_alias, TypeOK

(* fopen and fclose around script and step.                                 *)
LEMMA StreamType ==
    ASSUME TypeOK, cmd_script \/ cmd_step
    PROVE  TypeOK'
  <1>1. stack # <<>> /\ argc \in Nat /\ Opens
    BY ArgType DEF cmd_script, cmd_step, Open
  <1>2. files[Arg(1)] \in Seq(Line)
    BY <1>1 DEF Opens, TypeOK
  <1>3. \A fp \in Handles :
          /\ [kind |-> "script", fp |-> fp, rest |-> files[Arg(1)]] \in Frame
          /\ [kind |-> "step", fp |-> fp, rest |-> files[Arg(1)],
              phase |-> "line"] \in Frame
    BY <1>2 DEF Frame, ScriptFrame, StepFrame
  <1>4. stack' \in Seq(Frame) /\ fps' \subseteq Handles
    <2>1. CASE cmd_script
      <3>1. PICK fp \in Handles \ fps :
              /\ fps' = fps \cup {fp}
              /\ stack' = Replace([kind |-> "script", fp |-> fp,
                                   rest |-> files[Arg(1)]])
        BY <2>1 DEF cmd_script, Open
      <3>2. QED
        BY <1>1, <1>3, <3>1, ReplaceType DEF TypeOK
    <2>2. CASE cmd_step
      <3>1. PICK fp \in Handles \ fps :
              /\ fps' = fps \cup {fp}
              /\ stack' = Replace([kind |-> "step", fp |-> fp,
                                   rest |-> files[Arg(1)], phase |-> "line"])
        BY <2>2 DEF cmd_step, Open
      <3>2. QED
        BY <1>1, <1>3, <3>1, ReplaceType DEF TypeOK
    <2>3. QED
      BY <2>1, <2>2
  <1>5. QED
    BY <1>4 DEF cmd_script, cmd_step, Open, TypeOK

LEMMA CloseType ==
    ASSUME TypeOK, stack # <<>>, Close,
           stdin' \in [keys : Seq(STRING), eof : BOOLEAN]
    PROVE  TypeOK'
  BY TopType DEF Close, TypeOK

(* A line that a loop hands to shell_execute.                               *)
LEMMA RestType ==
    ASSUME NEW rest \in Seq(Line), rest # <<>>
    PROVE  Head(rest) \in Line /\ Tail(rest) \in Seq(Line)
  BY HeadTailProperties

LEMMA CallType ==
    ASSUME TypeOK, NEW base \in Seq(Frame), NEW line \in Line,
           Execute(base, line),
           tty' \in {"cooked", "raw"},
           stdin' \in [keys : Seq(STRING), eof : BOOLEAN],
           UNCHANGED <<regs, running, aliases, fps, files, ended, entered>>
    PROVE  TypeOK'
  <1>1. stack' \in Seq(Frame) /\ macro' \in MacroType /\ fault' \in Faults
    BY ExecuteType
  <1>2. QED
    BY <1>1 DEF TypeOK, MacroType, Faults

LEMMA ScriptLineType == TypeOK /\ ScriptLine => TypeOK'
  <1> SUFFICES ASSUME TypeOK, ScriptLine PROVE TypeOK'
    OBVIOUS
  <1> DEFINE line == Head(Top.rest)
             base == Replace([Top EXCEPT !.rest = Tail(@)])
  <1>1. stack # <<>> /\ Top \in ScriptFrame /\ Top.rest # <<>>
    BY TopType DEF ScriptLine, InCall
  <1>2. line \in Line /\ Tail(Top.rest) \in Seq(Line)
    BY <1>1, RestType DEF ScriptFrame
  <1>3. [Top EXCEPT !.rest = Tail(@)] \in Frame
    BY <1>1, <1>2 DEF ScriptFrame, Frame
  <1>4. base \in Seq(Frame)
    BY <1>1, <1>3, ReplaceType
  <1>5. CASE Skipped(line)
    BY <1>4, <1>5, QuietType DEF ScriptLine, TypeOK, Faults
  <1>6. CASE ~Skipped(line)
    <2>1. Execute(base, line)
      BY <1>6 DEF ScriptLine
    <2>2. /\ tty' = tty /\ stdin' = stdin
          /\ UNCHANGED <<regs, running, aliases, fps, files, ended, entered>>
      BY DEF ScriptLine
    <2> HIDE DEF line, base
    <2>3. QED
      BY <1>2, <1>4, <2>1, <2>2, CallType DEF TypeOK
  <1>7. QED
    BY <1>5, <1>6

LEMMA RepeatType == TypeOK /\ (cmd_repeat \/ RepeatLine) => TypeOK'
  <1>1. ASSUME TypeOK, cmd_repeat PROVE TypeOK'
    <2>1. /\ stack # <<>> /\ argc \in Nat
          /\ \A k \in 0 .. argc - 1 : Arg(k) \in Token
          /\ Rejoined(2) \in Line
      BY <1>1, ArgType DEF cmd_repeat
    <2>2. CASE argc < 3
      BY <1>1, <2>1, <2>2, TopType, QuietType DEF cmd_repeat, TypeOK, Faults
    <2>3. CASE ~(argc < 3)
      <3> DEFINE new == [kind |-> "repeat", left |-> Strtoul[Arg(1)][10],
                         sub |-> Rejoined(2), ran |-> FALSE]
      <3>1. Arg(1) \in Token
        BY <2>1, <2>3
      <3>2. Strtoul[Arg(1)][10] \in Nat
        BY <3>1, BarAssumption DEF Addresses
      <3>3. new \in Frame
        BY <2>1, <3>2 DEF Frame, RepeatFrame
      <3>4. stack' = Replace(new)
        BY <1>1, <2>3 DEF cmd_repeat
      <3>5. stack' \in Seq(Frame)
        BY <1>1, <2>1, <3>3, <3>4, ReplaceType
      <3>6. QED
        BY <1>1, <3>5, QuietType DEF cmd_repeat, TypeOK, Faults
    <2>4. QED
      BY <2>2, <2>3
  <1>2. ASSUME TypeOK, RepeatLine PROVE TypeOK'
    <2> DEFINE new == [Top EXCEPT !.left = @ - 1, !.ran = TRUE]
    <2>1. stack # <<>> /\ Top \in RepeatFrame /\ Top.left # 0
      BY <1>2, TopType DEF RepeatLine, InCall, RepeatOver
    <2>2. new \in Frame
      <3>1. Top.left \in Nat /\ Top.left # 0
        BY <2>1 DEF RepeatFrame
      <3>2. Top.left - 1 \in Nat
        BY <3>1
      <3>3. new \in RepeatFrame
        BY <2>1, <3>2 DEF RepeatFrame
      <3>4. QED
        BY <3>3 DEF Frame
    <2>3. Replace(new) \in Seq(Frame) /\ Top.sub \in Line
      BY <1>2, <2>1, <2>2, ReplaceType DEF RepeatFrame
    <2>4. /\ Execute(Replace(new), Top.sub)
          /\ tty' = tty /\ stdin' = stdin
          /\ UNCHANGED <<regs, running, aliases, fps, files, ended, entered>>
      BY <1>2 DEF RepeatLine
    <2>5. QED
      BY <1>2, <2>3, <2>4, CallType DEF TypeOK
  <1>3. QED
    BY <1>1, <1>2

LEMMA UntilType ==
    TypeOK /\ (cmd_until \/ UntilStops \/ UntilMatch \/ UntilMiss \/ UntilOutOfMap)
      => TypeOK'
  <1>1. ASSUME TypeOK, cmd_until PROVE TypeOK'
    <2>1. /\ stack # <<>> /\ argc \in Nat
          /\ \A k \in 0 .. argc - 1 : Arg(k) \in Token
          /\ Rejoined(5) \in Line
      BY <1>1, ArgType DEF cmd_until
    <2>2. CASE argc < 5
      <3>1. stack' \in Seq(Frame) /\ tty' = tty
        BY <1>1, <2>1, <2>2, TopType DEF cmd_until
      <3>2. QED
        BY <1>1, <3>1 DEF cmd_until, TypeOK
    <2>3. CASE ~(argc < 5)
      <3> DEFINE left    == IF Arg(1) = "inf" THEN 0 ELSE Atoi(Arg(1))
                 address == Resolve(aliases, Arg(2), 16)
                 mask    == BitsOf(Strtoul[Arg(3)][16])
                 target  == BitsOf(Strtoul[Arg(4)][16])
                 new == [kind |-> "until", inf |-> Arg(1) = "inf",
                         left |-> left, address |-> address, mask |-> mask,
                         target |-> target, sub |-> Rejoined(5), saved |-> tty]
      <3>1. Arg(1) \in Token /\ Arg(2) \in Token /\ aliases \in Seq(Alias)
        BY <1>1, <2>1, <2>3 DEF TypeOK
      <3>2. left \in Int /\ address \in Addresses
        BY <3>1, ResolveType
      <3>3. mask \in RegValue /\ target \in RegValue
        BY DEF BitsOf, RegValue
      <3>4. tty \in {"cooked", "raw"} /\ (Arg(1) = "inf") \in BOOLEAN
        BY <1>1 DEF TypeOK
      <3>5. new \in Frame
        <4> HIDE DEF left, address, mask, target
        <4>1. new \in UntilFrame
          BY <2>1, <3>2, <3>3, <3>4 DEF UntilFrame
        <4>2. QED
          BY <4>1 DEF Frame
      <3>6. stack' = Replace(new) /\ tty' = "raw"
        BY <1>1, <2>3 DEF cmd_until
      <3>7. stack' \in Seq(Frame)
        <4> HIDE DEF new
        <4> QED
          BY <1>1, <2>1, <3>5, <3>6, ReplaceType
      <3>8. QED
        BY <1>1, <3>6, <3>7 DEF cmd_until, TypeOK
    <2>4. QED
      BY <2>2, <2>3
  <1>2. ASSUME TypeOK, InCall("until")
        PROVE  /\ stack # <<>> /\ Top \in UntilFrame /\ Pop \in Seq(Frame)
               /\ Top.saved \in {"cooked", "raw"} /\ Top.sub \in Line
    <2>1. stack # <<>> /\ Top \in UntilFrame /\ Pop \in Seq(Frame)
      BY <1>2, TopType DEF InCall
    <2>2. QED
      BY <2>1 DEF UntilFrame
  <1>3. ASSUME TypeOK, UntilStops PROVE TypeOK'
    <2>1. stack' \in Seq(Frame) /\ tty' \in {"cooked", "raw"}
      BY <1>2, <1>3 DEF UntilStops
    <2>2. QED
      BY <1>3, <2>1 DEF UntilStops, TypeOK
  <1>4. ASSUME TypeOK, UntilMatch PROVE TypeOK'
    <2>1. /\ Pop \in Seq(Frame) /\ Top.sub \in Line
          /\ tty' \in {"cooked", "raw"} /\ Execute(Pop, Top.sub)
          /\ stdin' = stdin
          /\ UNCHANGED <<regs, running, aliases, fps, files, ended, entered>>
      BY <1>2, <1>4 DEF UntilMatch, Polls
    <2>2. QED
      BY <1>4, <2>1, CallType DEF TypeOK
  <1>5. ASSUME TypeOK, UntilMiss PROVE TypeOK'
    <2> DEFINE new == [Top EXCEPT !.left = @ - 1]
    <2>1. stack # <<>> /\ Top \in UntilFrame
      BY <1>2, <1>5 DEF UntilMiss, Polls
    <2>2. Top.left \in Int
      BY <2>1 DEF UntilFrame
    <2>3. Top.left - 1 \in Int
      BY <2>2
    <2>4. new \in UntilFrame
      BY <2>1, <2>3 DEF UntilFrame
    <2>5. stack' = Replace(new) /\ new \in Frame
      BY <1>5, <2>4 DEF UntilMiss, Frame
    <2>6. stack' \in Seq(Frame) /\ fault' \in Faults
      BY <1>5, <2>1, <2>5, ReplaceType DEF UntilMiss, TypeOK, Faults
    <2>7. QED
      BY <1>5, <2>6 DEF UntilMiss, TypeOK
  <1>6. ASSUME TypeOK, UntilOutOfMap PROVE TypeOK'
    BY <1>6 DEF UntilOutOfMap, TypeOK, Commands
  <1>7. QED
    BY <1>1, <1>3, <1>4, <1>5, <1>6

(* Reading a key keeps the keyboard buffer well formed.                     *)
LEMMA ConsumedType ==
    ASSUME TypeOK
    PROVE  Consumed \in [keys : Seq(STRING), eof : BOOLEAN]
  <1>1. stdin \in [keys : Seq(STRING), eof : BOOLEAN]
    BY DEF TypeOK
  <1>2. CASE stdin.keys # <<>>
    <2>1. Tail(stdin.keys) \in Seq(STRING)
      BY <1>1, <1>2, HeadTailProperties
    <2>2. QED
      BY <1>1, <1>2, <2>1 DEF Consumed
  <1>3. CASE stdin.keys = <<>>
    BY <1>1, <1>3 DEF Consumed
  <1>4. QED
    BY <1>2, <1>3

LEMMA TypingType == TypeOK /\ Type => TypeOK'
  <1> SUFFICES ASSUME TypeOK, Type PROVE TypeOK'
    OBVIOUS
  <1>1. \A keys \in Answers : keys \in Seq(STRING)
    BY ShellAssumption
  <1>2. stdin' \in [keys : Seq(STRING), eof : BOOLEAN]
    BY <1>1 DEF Type, TypeOK
  <1>3. QED
    BY <1>2 DEF Type, TypeOK

LEMMA StepType ==
    TypeOK /\ (StepShow \/ StepQuit \/ StepAnswer \/ StepClear) => TypeOK'
  <1>1. ASSUME TypeOK, StepShow PROVE TypeOK'
    <2>1. stack # <<>> /\ Top \in StepFrame /\ Top.rest # <<>>
      BY <1>1, TopType DEF StepShow, InCall
    <2>2. Tail(Top.rest) \in Seq(Line)
      BY <2>1, RestType DEF StepFrame
    <2>3. /\ [Top EXCEPT !.rest = Tail(@)] \in StepFrame
          /\ [Top EXCEPT !.phase = "ask"] \in StepFrame
      <3>1. [Top EXCEPT !.phase = "ask"] \in StepFrame
        BY <2>1 DEF StepFrame
      <3>2. Top.phase = "line"
        BY <1>1 DEF StepShow
      <3>3. [Top EXCEPT !.rest = Tail(@)] \in StepFrame
        BY <2>1, <2>2, <3>2 DEF StepFrame
      <3>4. QED
        BY <3>1, <3>3
    <2>4. /\ [Top EXCEPT !.rest = Tail(@)] \in Frame
          /\ [Top EXCEPT !.phase = "ask"] \in Frame
      BY <2>3 DEF Frame
    <2>5. stack' \in Seq(Frame)
      BY <1>1, <2>1, <2>4, ReplaceType DEF StepShow
    <2>6. QED
      BY <1>1, <2>5 DEF StepShow, TypeOK
  <1>2. ASSUME TypeOK, StepQuit PROVE TypeOK'
    BY <1>2, CloseType, ConsumedType DEF StepQuit, Asked, InCall
  <1>3. ASSUME TypeOK, StepRun, stack # <<>>, Top \in StepFrame, Top.rest # <<>>,
               stdin' = Consumed,
               UNCHANGED <<regs, running, aliases, tty, fps, files, ended, entered>>
        PROVE  TypeOK'
    <2> DEFINE new == [Top EXCEPT !.phase = "line", !.rest = Tail(@)]
    <2>1. Head(Top.rest) \in Line /\ Tail(Top.rest) \in Seq(Line)
      BY <1>3, RestType DEF StepFrame
    <2>2. new \in Frame
      BY <1>3, <2>1 DEF StepFrame, Frame
    <2>3. Replace(new) \in Seq(Frame) /\ Execute(Replace(new), Head(Top.rest))
      BY <1>3, <2>2, ReplaceType DEF StepRun
    <2> HIDE DEF new
    <2>4. tty' \in {"cooked", "raw"}
      BY <1>3 DEF TypeOK
    <2>5. QED
      BY <1>3, <2>1, <2>3, <2>4, CallType, ConsumedType
  <1>4. ASSUME TypeOK, StepAnswer PROVE TypeOK'
    <2>1. stack # <<>> /\ Top \in StepFrame /\ Top.rest # <<>>
      BY <1>4, TopType DEF StepAnswer, Asked, InCall, StepFrame
    <2>2. CASE Getchar = "nl"
      BY <1>3, <1>4, <2>1, <2>2 DEF StepAnswer
    <2>3. CASE Getchar # "nl"
      <3>1. [Top EXCEPT !.phase = "clear"] \in Frame
        BY <2>1 DEF StepFrame, Frame
      <3>2. stack' \in Seq(Frame)
        BY <1>4, <2>1, <2>3, <3>1, ReplaceType DEF StepAnswer
      <3>3. QED
        BY <1>4, <2>3, <3>2, ConsumedType DEF StepAnswer, TypeOK
    <2>4. QED
      BY <2>2, <2>3
  <1>5. ASSUME TypeOK, StepClear PROVE TypeOK'
    <2>1. stack # <<>> /\ Top \in StepFrame /\ Top.rest # <<>>
      BY <1>5, TopType DEF StepClear, Asked, InCall, StepFrame
    <2>2. QED
      BY <1>3, <1>5, <2>1 DEF StepClear
  <1>6. QED
    BY <1>1, <1>2, <1>4, <1>5

LEMMA MacroCommandType == TypeOK /\ (MacroStart \/ MacroStop) => TypeOK'
  <1>1. ASSUME TypeOK PROVE macro \in MacroType
    BY <1>1 DEF TypeOK, MacroType
  <1>2. ASSUME TypeOK, MacroStart PROVE TypeOK'
    <2>1. stack' \in Seq(Frame) /\ entered' \in Seq(Line)
      BY <1>2, TopType, ArgType, EmptySeq DEF MacroStart
    <2>2. macro' \in MacroType
      <3>1. macro' = [macro EXCEPT !.on = TRUE, !.n = 0]
        BY <1>2 DEF MacroStart
      <3>2. macro \in MacroType
        BY <1>1, <1>2
      <3>3. macro' = [on |-> TRUE, n |-> 0, buf |-> macro.buf]
        BY <3>1, <3>2 DEF MacroType
      <3>4. macro.buf \in [0 .. MacroMax - 1 -> Line]
        BY <3>2 DEF MacroType
      <3>5. QED
        BY <3>3, <3>4 DEF MacroType
    <2>3. QED
      BY <1>2, <2>1, <2>2 DEF MacroStart, TypeOK, MacroType
  <1>3. ASSUME TypeOK, MacroStop PROVE TypeOK'
    <2>1. stack # <<>> /\ Pop \in Seq(Frame)
      BY <1>3, TopType, ArgType DEF MacroStop
    <2>2. [kind |-> "save", phase |-> "choice", yes |-> FALSE] \in Frame
      BY DEF Frame, SaveFrame
    <2>3. stack' \in Seq(Frame)
      BY <1>3, <2>1, <2>2, ReplaceType DEF MacroStop
    <2>4. macro' \in MacroType
      BY <1>1, <1>3 DEF MacroStop, MacroType
    <2>5. QED
      BY <1>3, <2>3, <2>4 DEF MacroStop, TypeOK, MacroType
  <1>4. QED
    BY <1>2, <1>3

(* What the buffer has recorded is a sequence of lines.                     *)
LEMMA RecordedType ==
    ASSUME TypeOK, macro.n <= MacroMax
    PROVE  Recorded \in Seq(Line)
  <1>1. macro \in MacroType /\ MacroMax \in Nat
    BY ShellAssumption DEF TypeOK, MacroType
  <1>2. macro.n \in Int /\ macro.buf \in [0 .. MacroMax - 1 -> Line]
    BY <1>1 DEF MacroType
  <1>3. ASSUME NEW i \in 1 .. macro.n PROVE macro.buf[i - 1] \in Line
    <2>1. i - 1 \in 0 .. MacroMax - 1
      BY <1>1, <1>2
    <2>2. QED
      BY <1>2, <2>1
  <1>4. CASE macro.n \in Nat
    <2>1. Recorded \in [1 .. macro.n -> Line]
      BY <1>3 DEF Recorded
    <2>2. QED
      BY <1>4, <2>1, SeqDef
  <1>5. CASE macro.n \notin Nat
    <2>1. 1 .. macro.n = 1 .. 0
      BY <1>2, <1>5
    <2>2. Recorded \in [1 .. 0 -> Line]
      BY <1>3, <2>1 DEF Recorded
    <2>3. QED
      BY <2>2, SeqDef
  <1>6. QED
    BY <1>4, <1>5

LEMMA SaveType == TypeOK /\ (SaveChoice \/ SaveClear \/ SaveName) => TypeOK'
  <1>1. ASSUME TypeOK, NEW phase, Asked("save", phase)
        PROVE  /\ stack # <<>> /\ Top \in SaveFrame /\ Pop \in Seq(Frame)
               /\ \A b \in BOOLEAN :
                    [Top EXCEPT !.phase = "clear", !.yes = b] \in Frame
               /\ [Top EXCEPT !.phase = "name"] \in Frame
    <2>1. stack # <<>> /\ Top \in SaveFrame /\ Pop \in Seq(Frame)
      BY <1>1, TopType DEF Asked, InCall
    <2>2. QED
      BY <2>1 DEF SaveFrame, Frame
  <1>2. ASSUME TypeOK, SaveChoice PROVE TypeOK'
    <2>1. stack' \in Seq(Frame)
      BY <1>1, <1>2, ReplaceType DEF SaveChoice
    <2>2. QED
      BY <1>2, <2>1, ConsumedType DEF SaveChoice, TypeOK
  <1>3. ASSUME TypeOK, SaveClear PROVE TypeOK'
    <2>1. stack' \in Seq(Frame)
      BY <1>1, <1>3, ReplaceType DEF SaveClear
    <2>2. QED
      BY <1>3, <2>1, ConsumedType DEF SaveClear, TypeOK
  <1>4. ASSUME TypeOK, SaveName PROVE TypeOK'
    <2>1. stack' \in Seq(Frame)
      BY <1>1, <1>4 DEF SaveName
    <2>2. stdin' \in [keys : Seq(STRING), eof : BOOLEAN]
      BY <1>4, EmptySeq DEF SaveName, TypeOK
    <2>3. DOMAIN files' \subseteq Names /\ \A f \in DOMAIN files' : files'[f] \in Seq(Line)
      <3>1. CASE files' = files
        BY <1>4, <3>1 DEF TypeOK
      <3>2. CASE files' # files
        <4> DEFINE name == stdin.keys[1]
        <4>1. name \in Names /\ macro.n <= MacroMax /\ files' = Written(name)
          BY <1>4, <3>2 DEF SaveName
        <4>2. <<HeaderLine>> \in Seq(Line)
          BY ShellAssumption
        <4>3. <<HeaderLine>> \o Recorded \in Seq(Line)
          BY <1>4, <4>1, <4>2, RecordedType, ConcatProperties
        <4> HIDE DEF name
        <4>4. QED
          BY <1>4, <4>1, <4>3 DEF Written, TypeOK
      <3>3. QED
        BY <3>1, <3>2
    <2>4. fault' \in Faults
      BY <1>4 DEF SaveName, TypeOK, Faults
    <2>5. QED
      BY <1>4, <2>1, <2>2, <2>3, <2>4 DEF SaveName, TypeOK, Faults
  <1>5. QED
    BY <1>2, <1>3, <1>4

(* Returning from a handler, an unknown word, a loop that ended.            *)
LEMMA ReturnType ==
    TypeOK /\ (Ignored \/ Exit \/ ScriptFailed \/ StepFailed \/ RepeatEnd) => TypeOK'
  <1> SUFFICES ASSUME TypeOK,
                      Ignored \/ Exit \/ ScriptFailed \/ StepFailed \/ RepeatEnd
               PROVE  TypeOK'
    OBVIOUS
  <1>1. stack # <<>>
    BY DEF Ignored, Exit, ScriptFailed, StepFailed, OpenFailed, RepeatEnd,
           Dispatched, InCall
  <1>2. Pop \in Seq(Frame)
    BY <1>1, TopType
  <1>3. QED
    BY <1>2 DEF Ignored, Exit, ScriptFailed, StepFailed, OpenFailed, RepeatEnd,
                Return, TypeOK

LEMMA StreamEndType == TypeOK /\ (ScriptEnd \/ StepEnd) => TypeOK'
  <1> SUFFICES ASSUME TypeOK, ScriptEnd \/ StepEnd PROVE TypeOK'
    OBVIOUS
  <1>1. stack # <<>> /\ Close /\ stdin' = stdin
    BY DEF ScriptEnd, StepEnd, InCall
  <1>2. QED
    BY <1>1, CloseType DEF TypeOK

LEMMA CardType == TypeOK /\ HwChange => TypeOK'
  <1> SUFFICES ASSUME TypeOK, HwChange PROVE TypeOK'
    OBVIOUS
  <1>1. PICK r \in Volatile, v \in HwValues : regs' = [regs EXCEPT ![r] = v]
    BY DEF HwChange
  <1>2. v \in RegValue /\ regs \in [Regs -> RegValue]
    BY ShellAssumption DEF TypeOK
  <1>3. regs' \in [Regs -> RegValue]
    BY <1>1, <1>2
  <1>4. QED
    BY <1>3 DEF HwChange, TypeOK

-----------------------------------------------------------------------------
(* Every reachable state is well typed: no command, however nested, leaves  *)
(* a variable outside the range its C declaration and its code path allow.  *)
LEMMA InitType == Init => TypeOK
  <1> SUFFICES ASSUME Init PROVE TypeOK
    OBVIOUS
  <1>1. PICK g \in StackGarbage :
          macro = [on |-> g[1], n |-> g[2],
                   buf |-> [i \in 0 .. MacroMax - 1 |-> UninitLine]]
    BY DEF Init
  <1>2. g[1] \in BOOLEAN /\ g[2] \in Int /\ UninitLine \in Line
    BY ShellAssumption
  <1>3. macro \in [on : BOOLEAN, n : Int, buf : [0 .. MacroMax - 1 -> Line]]
    BY <1>1, <1>2
  <1>4. regs \in [Regs -> RegValue]
    BY DEF Init, RegValue
  <1>5. /\ aliases \in Seq(Alias) /\ stack \in Seq(Frame)
        /\ entered \in Seq(Line) /\ stdin.keys \in Seq(STRING)
    BY EmptySeq DEF Init
  <1>6. Len(aliases) <= AliasMax
    BY EmptySeq, ShellAssumption DEF Init
  <1>7. stdin \in [keys : Seq(STRING), eof : BOOLEAN]
    BY <1>5 DEF Init
  <1>8. DOMAIN files \subseteq Names /\ \A f \in DOMAIN files : files[f] \in Seq(Line)
    BY ShellAssumption DEF Init
  <1>9. QED
    BY <1>3, <1>4, <1>5, <1>6, <1>7, <1>8 DEF Init, TypeOK

LEMMA NextType == TypeOK /\ [Next]_vars => TypeOK'
  <1> SUFFICES ASSUME TypeOK, [Next]_vars PROVE TypeOK'
    OBVIOUS
  <1>1. CASE Enter
    BY <1>1, EnterType
  <1>2. CASE EndOfInput \/ LoopOver
    BY <1>2 DEF EndOfInput, LoopOver, Leave, TypeOK
  <1>3. CASE Handler
    BY <1>3, ReturnType, ReaderType, WriterType, AliasType, StreamType,
       RepeatType, UntilType, MacroCommandType DEF Handler
  <1>4. CASE Loop
    BY <1>4, ScriptLineType, StreamEndType, RepeatType, ReturnType, UntilType,
       StepType DEF Loop, UntilEnd
  <1>5. CASE Answered
    BY <1>5, StepType, SaveType DEF Answered
  <1>6. CASE UntilQuit
    BY <1>6, UntilType DEF UntilQuit
  <1>7. CASE Type
    BY <1>7, TypingType
  <1>8. CASE HwChange
    BY <1>8, CardType
  <1>9. CASE Halted \/ UNCHANGED vars
    BY <1>9 DEF Halted, vars, TypeOK
  <1>10. QED
    BY <1>1, <1>2, <1>3, <1>4, <1>5, <1>6, <1>7, <1>8, <1>9 DEF Next, Engine

(* The type invariant of the shell, for every instance.                     *)
THEOREM TypeCorrect == Spec => []TypeOK
  BY InitType, NextType, PTL DEF Spec

-----------------------------------------------------------------------------
(* The terminal.  RawOnlyWhilePolling is inductive once two facts are added:*)
(* a poll remembers a cooked terminal, and only script, step and repeat     *)
(* ever wait below another call (until hands its sub-command over and is    *)
(* gone).                                                                   *)
Callers == {"script", "step", "repeat"}

CallersBelow(s) == \A i \in 1 .. Len(s) - 1 : s[i].kind \in Callers

TtyInv ==
    /\ CallersBelow(stack)
    /\ stack # <<>> /\ Top.kind = "until" => Top.saved = "cooked"
    /\ RawOnlyWhilePolling

(* What is left after a pop is empty or ends in a caller.                   *)
LEMMA PopShape ==
    ASSUME TypeOK, stack # <<>>, CallersBelow(stack)
    PROVE  CallersBelow(Pop) /\ (Pop # <<>> => Last(Pop).kind \in Callers)
  <1>1. stack \in Seq(Frame)
    BY DEF TypeOK
  <1>2. /\ Pop \in Seq(Frame) /\ Len(Pop) = Len(stack) - 1 /\ Len(stack) \in Nat
        /\ \A i \in 1 .. Len(stack) - 1 : Pop[i] = stack[i]
    BY <1>1, FrontProperties DEF Pop
  <1>3. CallersBelow(Pop)
    BY <1>2 DEF CallersBelow
  <1>4. ASSUME Pop # <<>> PROVE Last(Pop).kind \in Callers
    <2>1. Len(Pop) \in Nat \ {0} /\ Last(Pop) = Pop[Len(Pop)]
      BY <1>2, <1>4, FrontProperties
    <2>2. Len(Pop) \in 1 .. Len(stack) - 1
      BY <1>2, <2>1
    <2>3. QED
      BY <1>2, <2>1, <2>2 DEF CallersBelow
  <1>5. QED
    BY <1>3, <1>4

LEMMA ReplaceShape ==
    ASSUME TypeOK, stack # <<>>, CallersBelow(stack), NEW f \in Frame
    PROVE  /\ Replace(f) \in Seq(Frame) /\ Replace(f) # <<>>
           /\ Last(Replace(f)) = f /\ CallersBelow(Replace(f))
  <1>1. stack \in Seq(Frame)
    BY DEF TypeOK
  <1>2. /\ Front(stack) \in Seq(Frame) /\ Len(Front(stack)) = Len(stack) - 1
        /\ \A i \in 1 .. Len(stack) - 1 : Front(stack)[i] = stack[i]
        /\ Len(stack) \in Nat \ {0}
    BY <1>1, FrontProperties
  <1>3. /\ Append(Front(stack), f) \in Seq(Frame)
        /\ Append(Front(stack), f) # <<>>
        /\ Len(Append(Front(stack), f)) = Len(stack) - 1 + 1
        /\ \A i \in 1 .. Len(stack) - 1 : Append(Front(stack), f)[i] = Front(stack)[i]
        /\ Last(Append(Front(stack), f)) = f
    BY <1>2, PushProperties
  <1>4. QED
    BY <1>2, <1>3 DEF Replace, CallersBelow

LEMMA CallShape ==
    ASSUME TypeOK, NEW base \in Seq(Frame), NEW line \in Line, CallersBelow(base),
           base # <<>> => Last(base).kind \in Callers, Execute(base, line)
    PROVE  /\ CallersBelow(stack') /\ stack' # <<>>
           /\ Last(stack').kind = "exec"
  <1> DEFINE new == [kind |-> "exec", argv |-> Argv(line)]
  <1>1. new \in Frame
    BY ArgvType DEF Frame, ExecFrame
  <1>2. stack' = Append(base, new)
    BY DEF Execute
  <1>3. new.kind = "exec"
    OBVIOUS
  <1> HIDE DEF new
  <1>4. /\ Len(stack') = Len(base) + 1 /\ stack' # <<>> /\ Last(stack') = new
        /\ \A i \in 1 .. Len(base) : stack'[i] = base[i]
    BY <1>1, <1>2, PushProperties
  <1>5. ASSUME NEW i \in 1 .. Len(base) PROVE base[i].kind \in Callers
    <2>1. Len(base) \in Nat /\ base # <<>>
      BY EmptySeq, LenProperties
    <2>2. Last(base) = base[Len(base)]
      BY <2>1, FrontProperties
    <2>3. i = Len(base) \/ i \in 1 .. Len(base) - 1
      BY <2>1
    <2>4. QED
      BY <2>1, <2>2, <2>3 DEF CallersBelow
  <1>6. Len(base) \in Nat
    BY LenProperties
  <1>7. \A i \in 1 .. Len(stack') - 1 : stack'[i].kind \in Callers
    BY <1>4, <1>5, <1>6
  <1>8. QED
    BY <1>3, <1>4, <1>7 DEF CallersBelow

(* The three ways a step can leave the terminal invariant true.             *)
LEMMA TtyPop ==
    ASSUME TypeOK, TtyInv, stack # <<>>, stack' = Pop, tty' = "cooked"
    PROVE  TtyInv'
  BY PopShape DEF TtyInv, RawOnlyWhilePolling, Top, Callers

LEMMA TtyReplace ==
    ASSUME TypeOK, TtyInv, stack # <<>>, NEW f \in Frame, stack' = Replace(f),
           f.kind # "until", tty' = "cooked"
    PROVE  TtyInv'
  BY ReplaceShape DEF TtyInv, RawOnlyWhilePolling, Top

LEMMA TtyCall ==
    ASSUME TypeOK, NEW base \in Seq(Frame), NEW line \in Line, CallersBelow(base),
           base # <<>> => Last(base).kind \in Callers, Execute(base, line),
           tty' = "cooked"
    PROVE  TtyInv'
  BY CallShape DEF TtyInv, RawOnlyWhilePolling, Top

LEMMA Cooked ==
    ASSUME TypeOK, TtyInv, stack = <<>> \/ Top.kind # "until"
    PROVE  tty = "cooked"
  BY DEF TypeOK, TtyInv, RawOnlyWhilePolling

(* Handlers and loops that end without running a line.                      *)
LEMMA TtyReturns ==
    ASSUME TypeOK, TtyInv,
           \/ Ignored \/ Exit \/ ScriptFailed \/ StepFailed \/ RepeatEnd
           \/ cmd_peek \/ cmd_bits \/ cmd_search \/ cmd_log
           \/ cmd_poke \/ cmd_fill \/ cmd_mask \/ cmd_alias
           \/ ScriptEnd \/ StepEnd \/ StepQuit \/ MacroStart \/ SaveName
    PROVE  TtyInv'
  <1>1. stack # <<>> /\ Top.kind # "until"
    BY DEF Ignored, Exit, ScriptFailed, StepFailed, OpenFailed, RepeatEnd,
           cmd_peek, cmd_bits, cmd_search, cmd_log, cmd_poke, cmd_fill,
           cmd_mask, cmd_alias, ScriptEnd, StepEnd, StepQuit, MacroStart,
           SaveName, Asked, Dispatched, InCall
  <1>2. stack' = Pop /\ tty' = tty
    BY DEF Ignored, Exit, ScriptFailed, StepFailed, OpenFailed, RepeatEnd,
           Return, Touch, Close,
           cmd_peek, cmd_bits, cmd_search, cmd_log, cmd_poke, cmd_fill,
           cmd_mask, cmd_alias, ScriptEnd, StepEnd, StepQuit, MacroStart,
           SaveName
  <1>3. QED
    BY <1>1, <1>2, Cooked, TtyPop

(* Handlers that become a loop, and loops that advance.                     *)
LEMMA TtyAdvances ==
    ASSUME TypeOK, TtyInv,
           cmd_script \/ cmd_step \/ cmd_repeat \/ StepShow \/ MacroStop
             \/ SaveChoice \/ SaveClear
    PROVE  TtyInv'
  <1>1. stack # <<>> /\ Top.kind # "until" /\ tty' = tty
    BY DEF cmd_script, cmd_step, Open, cmd_repeat, StepShow, MacroStop,
           SaveChoice, SaveClear, Asked, Dispatched, InCall
  <1>2. tty' = "cooked"
    BY <1>1, Cooked
  <1>3. CASE stack' = Pop
    BY <1>1, <1>2, <1>3, TtyPop
  <1>4. ASSUME NEW f, stack' = Replace(f), f.kind # "until", f \in Frame
        PROVE  TtyInv'
    BY <1>1, <1>2, <1>4, TtyReplace
  <1>5. CASE cmd_script \/ cmd_step
    <2>1. files[Arg(1)] \in Seq(Line)
      BY <1>5 DEF cmd_script, cmd_step, Open, Opens, TypeOK
    <2>2. \A fp \in Handles :
            /\ [kind |-> "script", fp |-> fp, rest |-> files[Arg(1)]] \in Frame
            /\ [kind |-> "step", fp |-> fp, rest |-> files[Arg(1)],
                phase |-> "line"] \in Frame
      BY <2>1 DEF Frame, ScriptFrame, StepFrame
    <2>3. \/ \E fp \in Handles : stack' =
              Replace([kind |-> "script", fp |-> fp, rest |-> files[Arg(1)]])
          \/ \E fp \in Handles : stack' =
              Replace([kind |-> "step", fp |-> fp, rest |-> files[Arg(1)],
                       phase |-> "line"])
      BY <1>5 DEF cmd_script, cmd_step, Open
    <2>4. QED
      BY <1>4, <2>2, <2>3
  <1>6. CASE cmd_repeat
    <2> DEFINE new == [kind |-> "repeat", left |-> Strtoul[Arg(1)][10],
                       sub |-> Rejoined(2), ran |-> FALSE]
    <2>1. /\ argc \in Nat /\ \A k \in 0 .. argc - 1 : Arg(k) \in Token
          /\ Rejoined(2) \in Line
      BY <1>6, ArgType DEF cmd_repeat
    <2>2. CASE argc < 3
      BY <1>3, <1>6, <2>2 DEF cmd_repeat
    <2>3. CASE ~(argc < 3)
      <3>1. Strtoul[Arg(1)][10] \in Nat
        BY <2>1, <2>3, BarAssumption DEF Addresses
      <3>2. new \in Frame /\ new.kind = "repeat"
        BY <2>1, <3>1 DEF Frame, RepeatFrame
      <3>3. stack' = Replace(new)
        BY <1>6, <2>3 DEF cmd_repeat
      <3> HIDE DEF new
      <3>4. QED
        BY <1>4, <3>2, <3>3
    <2>4. QED
      BY <2>2, <2>3
  <1>7. CASE StepShow
    <2>1. Top \in StepFrame /\ Top.rest # <<>> /\ Top.phase = "line"
      BY <1>1, <1>7, TopType DEF StepShow, InCall
    <2>2. Tail(Top.rest) \in Seq(Line)
      BY <2>1, RestType DEF StepFrame
    <2>3. /\ [Top EXCEPT !.rest = Tail(@)] \in StepFrame
          /\ [Top EXCEPT !.phase = "ask"] \in StepFrame
      <3>1. [Top EXCEPT !.phase = "ask"] \in StepFrame
        BY <2>1 DEF StepFrame
      <3>2. [Top EXCEPT !.rest = Tail(@)] \in StepFrame
        BY <2>1, <2>2 DEF StepFrame
      <3>3. QED
        BY <3>1, <3>2
    <2>4. \A f \in StepFrame : f \in Frame /\ f.kind # "until"
      BY DEF StepFrame, Frame
    <2>5. \E f \in StepFrame : stack' = Replace(f)
      BY <1>7, <2>3 DEF StepShow
    <2>6. QED
      BY <1>4, <2>4, <2>5
  <1>8. \A f \in SaveFrame : f \in Frame /\ f.kind # "until"
    BY DEF SaveFrame, Frame
  <1>9. CASE MacroStop
    <2>1. [kind |-> "save", phase |-> "choice", yes |-> FALSE] \in SaveFrame
      BY DEF SaveFrame
    <2>2. QED
      BY <1>3, <1>4, <1>8, <1>9, <2>1 DEF MacroStop
  <1>10. CASE SaveChoice \/ SaveClear
    <2>1. Top \in SaveFrame
      BY <1>1, <1>10, TopType DEF SaveChoice, SaveClear, Asked, InCall
    <2>2. /\ \A b \in BOOLEAN : [Top EXCEPT !.phase = "clear", !.yes = b] \in SaveFrame
          /\ [Top EXCEPT !.phase = "name"] \in SaveFrame
      BY <2>1 DEF SaveFrame
    <2>3. stack' = Pop \/ \E f \in SaveFrame : stack' = Replace(f)
      BY <1>10, <2>2 DEF SaveChoice, SaveClear
    <2>4. QED
      BY <1>3, <1>4, <1>8, <2>3
  <1>11. QED
    BY <1>5, <1>6, <1>7, <1>9, <1>10

(* Loops that hand a line to shell_execute: every caller below is one of    *)
(* script, step and repeat.                                                 *)
LEMMA TtyCalls ==
    ASSUME TypeOK, TtyInv, stack # <<>>, NEW f \in Frame, f.kind \in Callers,
           NEW line \in Line, Execute(Replace(f), line), Top.kind # "until",
           tty' = tty
    PROVE  TtyInv'
  <1>1. tty' = "cooked"
    BY Cooked
  <1>2. /\ Replace(f) \in Seq(Frame) /\ Last(Replace(f)) = f
        /\ CallersBelow(Replace(f))
    BY ReplaceShape DEF TtyInv
  <1>3. QED
    BY <1>1, <1>2, TtyCall

LEMMA TtyLoops ==
    ASSUME TypeOK, TtyInv, ScriptLine \/ RepeatLine \/ StepAnswer \/ StepClear
    PROVE  TtyInv'
  <1>1. CASE ScriptLine
    <2>1. /\ stack # <<>> /\ Top \in ScriptFrame /\ Top.rest # <<>>
          /\ Top.kind = "script" /\ tty' = tty
      BY <1>1, TopType DEF ScriptLine, InCall
    <2>2. Head(Top.rest) \in Line /\ Tail(Top.rest) \in Seq(Line)
      BY <2>1, RestType DEF ScriptFrame
    <2> DEFINE new == [Top EXCEPT !.rest = Tail(@)]
    <2>3. new \in Frame /\ new.kind = "script"
      BY <2>1, <2>2 DEF ScriptFrame, Frame
    <2>4. stack' = Replace(new) \/ Execute(Replace(new), Head(Top.rest))
      BY <1>1 DEF ScriptLine
    <2> HIDE DEF new
    <2>5. QED
      BY <2>1, <2>2, <2>3, <2>4, Cooked, TtyReplace, TtyCalls DEF Callers
  <1>2. CASE RepeatLine
    <2>1. /\ stack # <<>> /\ Top \in RepeatFrame /\ Top.left # 0
          /\ Top.kind = "repeat" /\ tty' = tty
      BY <1>2, TopType DEF RepeatLine, RepeatOver, InCall
    <2> DEFINE new == [Top EXCEPT !.left = @ - 1, !.ran = TRUE]
    <2>2. new \in Frame /\ new.kind = "repeat" /\ Top.sub \in Line
      <3>1. Top.left \in Nat /\ Top.left # 0 /\ Top.sub \in Line
        BY <2>1 DEF RepeatFrame
      <3>2. Top.left - 1 \in Nat
        BY <3>1
      <3>3. new \in RepeatFrame
        BY <2>1, <3>2 DEF RepeatFrame
      <3>4. QED
        BY <3>1, <3>3 DEF Frame, RepeatFrame
    <2>3. Execute(Replace(new), Top.sub)
      BY <1>2 DEF RepeatLine
    <2> HIDE DEF new
    <2>4. QED
      BY <2>1, <2>2, <2>3, TtyCalls DEF Callers
  <1>3. CASE StepAnswer \/ StepClear
    <2>1. /\ stack # <<>> /\ Top \in StepFrame /\ Top.rest # <<>>
          /\ Top.kind = "step" /\ tty' = tty
      BY <1>3, TopType DEF StepAnswer, StepClear, Asked, InCall, StepFrame
    <2>2. Head(Top.rest) \in Line /\ Tail(Top.rest) \in Seq(Line)
      BY <2>1, RestType DEF StepFrame
    <2> DEFINE new   == [Top EXCEPT !.phase = "line", !.rest = Tail(@)]
               clear == [Top EXCEPT !.phase = "clear"]
    <2>3. /\ new \in Frame /\ new.kind = "step"
          /\ clear \in Frame /\ clear.kind = "step"
      <3>1. new \in StepFrame
        BY <2>1, <2>2 DEF StepFrame
      <3>2. clear \in StepFrame
        BY <2>1 DEF StepFrame
      <3>3. QED
        BY <3>1, <3>2 DEF StepFrame, Frame
    <2>4. stack' = Replace(clear) \/ Execute(Replace(new), Head(Top.rest))
      BY <1>3 DEF StepAnswer, StepClear, StepRun
    <2> HIDE DEF new, clear
    <2>5. QED
      BY <2>1, <2>2, <2>3, <2>4, Cooked, TtyReplace, TtyCalls DEF Callers
  <1>4. QED
    BY <1>1, <1>2, <1>3

(* until itself: raw from its first step to its last, cooked before the     *)
(* sub-command.                                                             *)
LEMMA TtyUntil ==
    ASSUME TypeOK, TtyInv,
           cmd_until \/ UntilStops \/ UntilMatch \/ UntilMiss \/ UntilOutOfMap
    PROVE  TtyInv'
  <1>1. CASE cmd_until
    <2>1. stack # <<>> /\ Top.kind = "exec" /\ tty = "cooked" /\ CallersBelow(stack)
      BY <1>1, Cooked DEF cmd_until, Dispatched, InCall, TtyInv
    <2>2. CASE argc < 5
      BY <1>1, <2>1, <2>2, TtyPop DEF cmd_until
    <2>3. CASE ~(argc < 5)
      <3>1. tty' = "raw" /\ \E f : stack' = Replace(f) /\ f.kind = "until" /\ f.saved = tty
        BY <1>1, <2>3 DEF cmd_until
      <3>2. PICK f : stack' = Replace(f) /\ f.kind = "until" /\ f.saved = "cooked"
        BY <2>1, <3>1
      <3>3. TypeOK'
        BY <1>1, UntilType
      <3>4. f \in Frame
        <4>1. Front(stack) \in Seq(Frame) /\ Len(Front(stack)) \in Nat
          BY <2>1, FrontProperties, LenProperties DEF TypeOK
        <4>2. stack' \in Seq(Frame) /\ stack' = Append(Front(stack), f)
          BY <3>2, <3>3 DEF TypeOK, Replace
        <4>3. Len(stack') = Len(Front(stack)) + 1 /\ stack'[Len(stack')] = f
          BY <4>1, <4>2
        <4>4. QED
          BY <4>1, <4>2, <4>3, ElementOfSeq
      <3>5. QED
        BY <2>1, <3>1, <3>2, <3>4, ReplaceShape DEF TtyInv, RawOnlyWhilePolling, Top
    <2>4. QED
      BY <2>2, <2>3
  <1>2. ASSUME InCall("until")
        PROVE  /\ stack # <<>> /\ Top.kind = "until" /\ Top \in UntilFrame
               /\ Top.saved = "cooked" /\ tty = "raw" /\ Top.sub \in Line
    <2>1. stack # <<>> /\ Top.kind = "until" /\ Top \in UntilFrame
      BY <1>2, TopType DEF InCall
    <2>2. QED
      BY <2>1 DEF TtyInv, RawOnlyWhilePolling, UntilFrame
  <1>3. CASE UntilStops
    BY <1>2, <1>3, TtyPop DEF UntilStops
  <1>4. CASE UntilMatch
    <2>1. /\ InCall("until") /\ tty' = Top.saved /\ Execute(Pop, Top.sub)
      BY <1>4 DEF UntilMatch, Polls
    <2>2. Pop \in Seq(Frame)
      BY <1>2, <2>1, TopType
    <2>3. QED
      BY <1>2, <2>1, <2>2, PopShape, TtyCall DEF TtyInv
  <1>5. CASE UntilMiss
    <2> DEFINE new == [Top EXCEPT !.left = @ - 1]
    <2>1. InCall("until") /\ stack' = Replace(new) /\ tty' = tty
      BY <1>5 DEF UntilMiss, Polls
    <2>2. new \in UntilFrame
      <3>1. Top \in UntilFrame /\ Top.left \in Int
        BY <1>2, <2>1 DEF UntilFrame
      <3>2. Top.left - 1 \in Int
        BY <3>1
      <3>3. QED
        BY <3>1, <3>2 DEF UntilFrame
    <2>3. new \in Frame /\ new.kind = "until" /\ new.saved = Top.saved
      BY <1>2, <2>1, <2>2 DEF Frame, UntilFrame
    <2> HIDE DEF new
    <2>4. QED
      BY <1>2, <2>1, <2>3, ReplaceShape DEF TtyInv, RawOnlyWhilePolling, Top
  <1>6. CASE UntilOutOfMap
    BY <1>6 DEF UntilOutOfMap, TtyInv, RawOnlyWhilePolling, Top, CallersBelow
  <1>7. QED
    BY <1>1, <1>3, <1>4, <1>5, <1>6

LEMMA TtyNext == TypeOK /\ TtyInv /\ [Next]_vars => TtyInv'
  <1> SUFFICES ASSUME TypeOK, TtyInv, [Next]_vars PROVE TtyInv'
    OBVIOUS
  <1>1. CASE Enter
    <2>1. PICK line \in Session : Execute(<<>>, line)
      BY <1>1 DEF Enter
    <2>2. line \in Line /\ <<>> \in Seq(Frame) /\ CallersBelow(<<>>)
      BY ShellAssumption, EmptySeq DEF CallersBelow
    <2>3. tty' = "cooked"
      BY <1>1, Cooked DEF Enter, AtPrompt
    <2>4. QED
      BY <2>1, <2>2, <2>3, TtyCall
  <1>2. CASE Handler
    BY <1>2, TtyReturns, TtyAdvances, TtyUntil DEF Handler
  <1>3. CASE Loop
    BY <1>3, TtyReturns, TtyAdvances, TtyLoops, TtyUntil DEF Loop, UntilEnd
  <1>4. CASE Answered
    BY <1>4, TtyReturns, TtyAdvances, TtyLoops DEF Answered
  <1>5. CASE UntilQuit
    BY <1>5, TtyUntil DEF UntilQuit
  <1>6. CASE EndOfInput \/ LoopOver \/ Type \/ HwChange \/ Halted \/ UNCHANGED vars
    <2>1. stack' = stack /\ tty' = tty
      BY <1>6 DEF EndOfInput, LoopOver, Leave, Type, HwChange, Halted, vars
    <2>2. QED
      BY <2>1 DEF TtyInv, RawOnlyWhilePolling, Top, CallersBelow
  <1>7. QED
    BY <1>1, <1>2, <1>3, <1>4, <1>5, <1>6 DEF Next, Engine

(* The terminal is raw exactly while the polling loop of until is the       *)
(* innermost call, whatever scripts and repeats it was reached through.     *)
THEOREM TerminalRestored == Spec => []RawOnlyWhilePolling
  <1>1. Init => TtyInv
    <2> SUFFICES ASSUME Init PROVE TtyInv
      OBVIOUS
    <2>1. stack = <<>> /\ tty = "cooked" /\ Len(stack) = 0
      BY EmptySeq DEF Init
    <2>2. QED
      BY <2>1 DEF TtyInv, CallersBelow, RawOnlyWhilePolling
  <1>2. TtyInv => RawOnlyWhilePolling
    BY DEF TtyInv
  <1>3. QED
    BY <1>1, <1>2, TtyNext, TypeCorrect, PTL DEF Spec
=============================================================================
