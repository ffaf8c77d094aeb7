-------------------------- MODULE PrimeShellSafety --------------------------
(***************************************************************************)
(* What the shell promises whatever commands, scripts and answers it is    *)
(* given: the files it opened are closed again, a recording loses no line, *)
(* the guarded commands stay inside the window, an alias keeps its         *)
(* address, and the whole is a ShellPrompt.  The proofs rest on the type   *)
(* and terminal invariants of PrimeShellProofs.                            *)
(***************************************************************************)
EXTENDS PrimeShellProofs

-----------------------------------------------------------------------------
(* The file handles.  Which calls hold one is a matter of the stack alone;  *)
(* `Balanced' says it for any stack, so that a step can be followed through *)
(* the pop and the pushes it is made of.                                    *)
IsStream(f) == f.kind \in {"script", "step"}

StreamsOf(s) == {i \in 1 .. Len(s) : IsStream(s[i])}

Balanced(s, open) ==
    /\ open = {s[i].fp : i \in StreamsOf(s)}
    /\ \A i, j \in StreamsOf(s) : s[i].fp = s[j].fp => i = j

(* On the stack of the shell it is the invariant itself.                    *)
LEMMA BalancedStack ==
    ASSUME stack \in Seq(Frame)
    PROVE  HandlesBalanced <=> Balanced(stack, fps)
  <1>1. DOMAIN stack = 1 .. Len(stack)
    BY LenProperties
  <1>2. Streams = StreamsOf(stack)
    BY <1>1 DEF Streams, StreamsOf, IsStream
  <1>3. QED
    BY <1>2 DEF HandlesBalanced, Balanced

LEMMA BalancedNext ==
    ASSUME TypeOK', Balanced(stack', fps')
    PROVE  HandlesBalanced'
  <1>1. DOMAIN stack' = 1 .. Len(stack')
    BY LenProperties DEF TypeOK
  <1>2. Streams' = StreamsOf(stack')
    BY <1>1 DEF Streams, StreamsOf, IsStream
  <1>3. QED
    BY <1>2 DEF HandlesBalanced, Balanced

(* A return gives up the handle of the call that ends, if it has one.       *)
LEMMA PopBalanced ==
    ASSUME NEW S, NEW s \in Seq(S), s # <<>>, NEW open, Balanced(s, open)
    PROVE  /\ ~IsStream(Last(s)) => Balanced(Front(s), open)
           /\ IsStream(Last(s)) => /\ Balanced(Front(s), open \ {Last(s).fp})
                                   /\ Last(s).fp \in open
  <1> DEFINE n == Len(s)
  <1>1. /\ Len(Front(s)) = n - 1 /\ n \in Nat \ {0} /\ Last(s) = s[n]
        /\ \A i \in 1 .. n - 1 : Front(s)[i] = s[i]
    BY FrontProperties
  <1>2. StreamsOf(Front(s)) = StreamsOf(s) \ {n}
    BY <1>1 DEF StreamsOf
  <1>3. \A i \in StreamsOf(Front(s)) : Front(s)[i] = s[i]
    BY <1>1 DEF StreamsOf
  <1>4. n \in StreamsOf(s) <=> IsStream(Last(s))
    BY <1>1 DEF StreamsOf
  <1> HIDE DEF n
  <1>5. CASE ~IsStream(Last(s))
    <2>1. StreamsOf(Front(s)) = StreamsOf(s)
      BY <1>2, <1>4, <1>5
    <2>2. QED
      BY <1>3, <1>5, <2>1 DEF Balanced
  <1>6. CASE IsStream(Last(s))
    <2>1. Last(s).fp \in open
      BY <1>1, <1>4, <1>6 DEF Balanced
    <2>2. {Front(s)[i].fp : i \in StreamsOf(Front(s))} = open \ {Last(s).fp}
      BY <1>1, <1>2, <1>3, <1>4, <1>6 DEF Balanced
    <2>3. QED
      BY <1>2, <1>3, <1>6, <2>1, <2>2 DEF Balanced
  <1>7. QED
    BY <1>5, <1>6

(* A call that holds no handle, or one nobody else holds.                   *)
LEMMA PushBalanced ==
    ASSUME NEW S, NEW s \in Seq(S), NEW x \in S, NEW open, Balanced(s, open)
    PROVE  /\ ~IsStream(x) => Balanced(Append(s, x), open)
           /\ IsStream(x) /\ x.fp \notin open
                => Balanced(Append(s, x), open \cup {x.fp})
  <1> DEFINE t == Append(s, x)
             n == Len(s) + 1
  <1>1. /\ Len(t) = n /\ t[n] = x /\ Len(s) \in Nat
        /\ \A i \in 1 .. Len(s) : t[i] = s[i]
    BY PushProperties, LenProperties
  <1>2. /\ StreamsOf(t) = IF IsStream(x) THEN StreamsOf(s) \cup {n} ELSE StreamsOf(s)
        /\ n \notin StreamsOf(s)
    BY <1>1 DEF StreamsOf
  <1>3. \A i \in StreamsOf(s) : t[i] = s[i]
    BY <1>1 DEF StreamsOf
  <1> HIDE DEF n, t
  <1>4. CASE ~IsStream(x)
    BY <1>2, <1>3, <1>4, Zenon DEF Balanced, t
  <1>5. CASE IsStream(x) /\ x.fp \notin open
    <2>1. {t[i].fp : i \in StreamsOf(t)} = open \cup {x.fp}
      BY <1>1, <1>2, <1>3, <1>5 DEF Balanced
    <2>2. \A i \in StreamsOf(s) : t[i].fp # x.fp
      BY <1>3, <1>5 DEF Balanced
    <2>3. \A i, j \in StreamsOf(t) : t[i].fp = t[j].fp => i = j
      BY <1>1, <1>2, <1>3, <1>5, <2>2 DEF Balanced
    <2>4. QED
      BY <1>5, <2>1, <2>3 DEF Balanced, t
  <1>6. QED
    BY <1>4, <1>5 DEF t

LEMMA WiderSeq ==
    ASSUME NEW S, NEW s \in Seq(S), NEW x
    PROVE  s \in Seq(S \cup {x})
  <1>1. PICK n \in Nat : s \in [1 .. n -> S]
    BY SeqDef
  <1>2. s \in [1 .. n -> S \cup {x}]
    BY <1>1
  <1>3. QED
    BY <1>2, SeqDef

(* The innermost call becomes another: the handle passes from the one to    *)
(* the other, or a handler opens its own.                                   *)
LEMMA ReplaceBalanced ==
    ASSUME TypeOK, HandlesBalanced, stack # <<>>, NEW f
    PROVE  /\ Replace(f) \in Seq(Frame \cup {f})
           /\ ~IsStream(Top) /\ ~IsStream(f) => Balanced(Replace(f), fps)
           /\ IsStream(Top) /\ IsStream(f) /\ f.fp = Top.fp
                => Balanced(Replace(f), fps)
           /\ ~IsStream(Top) /\ IsStream(f) /\ f.fp \notin fps
                => Balanced(Replace(f), fps \cup {f.fp})
  <1>1. stack \in Seq(Frame) /\ Balanced(stack, fps)
    BY BalancedStack DEF TypeOK
  <1>2. Front(stack) \in Seq(Frame)
    BY <1>1, FrontProperties
  <1>3. Front(stack) \in Seq(Frame \cup {f}) /\ f \in Frame \cup {f}
    BY <1>2, WiderSeq
  <1>4. Replace(f) \in Seq(Frame \cup {f})
    BY <1>3, PushProperties DEF Replace
  <1>5. CASE ~IsStream(Top)
    <2>1. Balanced(Front(stack), fps)
      BY <1>1, <1>5, PopBalanced DEF Top
    <2>2. QED
      BY <1>3, <1>4, <1>5, <2>1, PushBalanced DEF Replace
  <1>6. CASE IsStream(Top) /\ IsStream(f) /\ f.fp = Top.fp
    <2>1. Balanced(Front(stack), fps \ {f.fp}) /\ f.fp \in fps
      BY <1>1, <1>6, PopBalanced DEF Top
    <2>2. Balanced(Replace(f), (fps \ {f.fp}) \cup {f.fp})
      BY <1>3, <1>6, <2>1, PushBalanced DEF Replace
    <2>3. (fps \ {f.fp}) \cup {f.fp} = fps
      BY <2>1
    <2>4. QED
      BY <1>4, <1>6, <2>2, <2>3
  <1>7. QED
    BY <1>4, <1>5, <1>6

(* Handing a line to shell_execute opens nothing.                           *)
LEMMA CallBalanced ==
    ASSUME NEW S, NEW base \in Seq(S), NEW line, Execute(base, line),
           NEW open, Balanced(base, open)
    PROVE  Balanced(stack', open)
  <1> DEFINE new == [kind |-> "exec", argv |-> Argv(line)]
  <1>1. stack' = Append(base, new)
    BY DEF Execute
  <1>2. ~IsStream(new)
    BY DEF IsStream
  <1>3. base \in Seq(S \cup {new}) /\ new \in S \cup {new}
    BY WiderSeq
  <1> HIDE DEF new
  <1>4. QED
    BY <1>1, <1>2, <1>3, PushBalanced

(* Handlers and loops that hold no handle, and end.                         *)
LEMMA PlainReturns ==
    ASSUME TypeOK, HandlesBalanced,
           \/ Ignored \/ Exit \/ ScriptFailed \/ StepFailed \/ RepeatEnd
           \/ cmd_peek \/ cmd_bits \/ cmd_search \/ cmd_log
           \/ cmd_poke \/ cmd_fill \/ cmd_mask \/ cmd_alias
           \/ MacroStart \/ SaveName \/ UntilStops
    PROVE  Balanced(stack', fps')
  <1>1. stack # <<>> /\ ~IsStream(Top)
    BY DEF Ignored, Exit, ScriptFailed, StepFailed, OpenFailed, RepeatEnd,
           cmd_peek, cmd_bits, cmd_search, cmd_log, cmd_poke, cmd_fill,
           cmd_mask, cmd_alias, MacroStart, SaveName, UntilStops, Asked,
           Dispatched, InCall, IsStream
  <1>2. stack' = Pop /\ fps' = fps
    BY DEF Ignored, Exit, ScriptFailed, StepFailed, OpenFailed, RepeatEnd,
           Return, Touch, cmd_peek, cmd_bits, cmd_search, cmd_log, cmd_poke,
           cmd_fill, cmd_mask, cmd_alias, MacroStart, SaveName, UntilStops
  <1>3. stack \in Seq(Frame) /\ Balanced(stack, fps)
    BY BalancedStack DEF TypeOK
  <1>4. QED
    BY <1>1, <1>2, <1>3, PopBalanced DEF Top, Pop

(* script and step end by every one of their paths through fclose.          *)
LEMMA StreamReturns ==
    ASSUME TypeOK, HandlesBalanced, ScriptEnd \/ StepEnd \/ StepQuit
    PROVE  Balanced(stack', fps')
  <1>1. stack # <<>> /\ IsStream(Top) /\ Close
    BY DEF ScriptEnd, StepEnd, StepQuit, Asked, InCall, IsStream
  <1>2. stack \in Seq(Frame) /\ Balanced(stack, fps)
    BY BalancedStack DEF TypeOK
  <1>3. QED
    BY <1>1, <1>2, PopBalanced DEF Top, Pop, Close

(* fopen hands out a handle that no unfinished call holds.                  *)
LEMMA StreamOpens ==
    ASSUME TypeOK, HandlesBalanced, cmd_script \/ cmd_step
    PROVE  Balanced(stack', fps')
  <1>1. stack # <<>> /\ ~IsStream(Top)
    BY DEF cmd_script, cmd_step, Dispatched, InCall, IsStream
  <1>2. \E fp \in Handles \ fps :
          \E f \in {[kind |-> "script", fp |-> fp, rest |-> files[Arg(1)]],
                    [kind |-> "step", fp |-> fp, rest |-> files[Arg(1)],
                     phase |-> "line"]} :
            stack' = Replace(f) /\ fps' = fps \cup {fp}
    BY DEF cmd_script, cmd_step, Open
  <1>3. PICK fp \in Handles \ fps :
           \E f : /\ stack' = Replace(f) /\ fps' = fps \cup {fp}
                  /\ IsStream(f) /\ f.fp = fp
    BY <1>2 DEF IsStream
  <1>4. QED
    BY <1>1, <1>3, ReplaceBalanced

(* A stream that goes on to its next line keeps its handle, below the line  *)
(* it runs or while it asks.                                                *)
LEMMA StreamAdvances ==
    ASSUME TypeOK, HandlesBalanced,
           ScriptLine \/ StepShow \/ StepAnswer \/ StepClear
    PROVE  Balanced(stack', fps')
  <1>1. stack # <<>> /\ IsStream(Top) /\ fps' = fps
    BY DEF ScriptLine, StepShow, StepAnswer, StepClear, Asked, InCall, IsStream
  <1>2. ASSUME NEW f, IsStream(f), f.fp = Top.fp,
               stack' = Replace(f) \/ \E line : Execute(Replace(f), line)
        PROVE  Balanced(stack', fps')
    <2>1. Replace(f) \in Seq(Frame \cup {f}) /\ Balanced(Replace(f), fps)
      BY <1>1, <1>2, ReplaceBalanced
    <2>2. QED
      BY <1>1, <1>2, <2>1, CallBalanced
  <1>3. CASE ScriptLine
    <2> DEFINE f == [Top EXCEPT !.rest = Tail(@)]
    <2>1. IsStream(f) /\ f.fp = Top.fp
      BY <1>1, <1>3, TopType DEF ScriptLine, InCall, ScriptFrame, IsStream
    <2>2. stack' = Replace(f) \/ \E line : Execute(Replace(f), line)
      BY <1>3 DEF ScriptLine
    <2> HIDE DEF f
    <2>3. QED
      BY <1>2, <2>1, <2>2
  <1>4. CASE StepShow \/ StepAnswer \/ StepClear
    <2> DEFINE skip  == [Top EXCEPT !.rest = Tail(@)]
               ask   == [Top EXCEPT !.phase = "ask"]
               clear == [Top EXCEPT !.phase = "clear"]
               run   == [Top EXCEPT !.phase = "line", !.rest = Tail(@)]
    <2>1. Top \in StepFrame
      BY <1>1, <1>4, TopType DEF StepShow, StepAnswer, StepClear, Asked, InCall
    <2>2. \A f \in {skip, ask, clear, run} : IsStream(f) /\ f.fp = Top.fp
      BY <2>1 DEF StepFrame, IsStream
    <2>3. \E f \in {skip, ask, clear, run} :
            stack' = Replace(f) \/ \E line : Execute(Replace(f), line)
      BY <1>4 DEF StepShow, StepAnswer, StepClear, StepRun
    <2> HIDE DEF skip, ask, clear, run
    <2>4. QED
      BY <1>2, <2>2, <2>3
  <1>5. QED
    BY <1>3, <1>4

(* Calls without a handle that become another such call, or run a line.     *)
LEMMA PlainAdvances ==
    ASSUME TypeOK, HandlesBalanced,
           \/ cmd_repeat \/ RepeatLine \/ cmd_until \/ UntilMiss \/ UntilMatch
           \/ MacroStop \/ SaveChoice \/ SaveClear
    PROVE  Balanced(stack', fps')
  <1>1. stack # <<>> /\ ~IsStream(Top) /\ fps' = fps
    BY DEF cmd_repeat, RepeatLine, cmd_until, UntilMiss, UntilMatch, Polls,
           MacroStop, SaveChoice, SaveClear, Asked, Dispatched, InCall, IsStream
  <1>2. Pop \in Seq(Frame) /\ Balanced(Pop, fps)
    <2>1. stack \in Seq(Frame) /\ Balanced(stack, fps)
      BY BalancedStack DEF TypeOK
    <2>2. QED
      BY <1>1, <2>1, PopBalanced, FrontProperties DEF Top, Pop
  <1>3. ASSUME NEW f, ~IsStream(f),
               stack' = Replace(f) \/ \E line : Execute(Replace(f), line)
        PROVE  Balanced(stack', fps')
    <2>1. Replace(f) \in Seq(Frame \cup {f}) /\ Balanced(Replace(f), fps)
      BY <1>1, <1>3, ReplaceBalanced
    <2>2. QED
      BY <1>1, <1>3, <2>1, CallBalanced
  <1>4. CASE stack' = Pop
    BY <1>1, <1>2, <1>4
  <1>5. CASE UntilMatch
    <2>1. Execute(Pop, Top.sub)
      BY <1>5 DEF UntilMatch
    <2>2. QED
      BY <1>1, <1>2, <2>1, CallBalanced
  <1>6. CASE cmd_repeat \/ cmd_until \/ MacroStop
    <2>1. stack' = Pop \/ \E f : stack' = Replace(f) /\ ~IsStream(f)
      BY <1>6 DEF cmd_repeat, cmd_until, MacroStop, IsStream
    <2>2. QED
      BY <1>3, <1>4, <2>1
  <1>7. CASE RepeatLine \/ UntilMiss \/ SaveChoice \/ SaveClear
    <2>1. /\ RepeatLine => Top \in RepeatFrame
          /\ UntilMiss => Top \in UntilFrame
          /\ SaveChoice \/ SaveClear => Top \in SaveFrame
      BY <1>1, TopType
         DEF RepeatLine, UntilMiss, Polls, SaveChoice, SaveClear, Asked, InCall
    <2>2. CASE RepeatLine
      <3> DEFINE f == [Top EXCEPT !.left = @ - 1, !.ran = TRUE]
      <3>1. ~IsStream(f)
        BY <2>1, <2>2 DEF RepeatFrame, IsStream
      <3>2. Execute(Replace(f), Top.sub)
        BY <2>2 DEF RepeatLine
      <3> HIDE DEF f
      <3>3. QED
        BY <1>3, <3>1, <3>2
    <2>3. CASE UntilMiss
      <3> DEFINE f == [Top EXCEPT !.left = @ - 1]
      <3>1. ~IsStream(f)
        BY <2>1, <2>3 DEF UntilFrame, IsStream
      <3>2. stack' = Replace(f)
        BY <2>3 DEF UntilMiss
      <3> HIDE DEF f
      <3>3. QED
        BY <1>3, <3>1, <3>2
    <2>4. CASE SaveChoice \/ SaveClear
      <3>1. \/ stack' = Pop
            \/ \E f \in {[Top EXCEPT !.phase = "clear", !.yes = Getchar = "y"],
                         [Top EXCEPT !.phase = "name"]} : stack' = Replace(f)
        BY <2>4 DEF SaveChoice, SaveClear
      <3>2. \/ stack' = Pop
            \/ \E f : stack' = Replace(f) /\ ~IsStream(f)
        BY <2>1, <2>4, <3>1 DEF SaveFrame, IsStream
      <3>3. QED
        BY <1>3, <1>4, <3>2
    <2>5. QED
      BY <1>7, <2>2, <2>3, <2>4
  <1>8. QED
    BY <1>5, <1>6, <1>7

LEMMA HandlesNext == TypeOK /\ HandlesBalanced /\ [Next]_vars => HandlesBalanced'
  <1> SUFFICES ASSUME TypeOK, HandlesBalanced, [Next]_vars
               PROVE  Balanced(stack', fps')
    BY NextType, BalancedNext
  <1>1. Balanced(stack, fps)
    BY BalancedStack DEF TypeOK
  <1>2. CASE Enter
    <2>1. stack = <<>> /\ stack \in Seq(Frame) /\ fps' = fps
      BY <1>2 DEF Enter, AtPrompt, TypeOK
    <2>2. \E line : Execute(stack, line)
      BY <1>2, <2>1 DEF Enter
    <2>3. QED
      BY <1>1, <2>1, <2>2, CallBalanced
  <1>3. CASE Handler
    BY <1>3, PlainReturns, StreamOpens, PlainAdvances DEF Handler
  <1>4. CASE Loop /\ ~UntilOutOfMap
    BY <1>4, PlainReturns, StreamReturns, StreamAdvances, PlainAdvances
       DEF Loop, UntilEnd
  <1>5. CASE Answered
    BY <1>5, PlainReturns, StreamReturns, StreamAdvances, PlainAdvances
       DEF Answered
  <1>6. CASE UntilQuit
    BY <1>6, PlainReturns DEF UntilQuit
  <1>7. CASE \/ EndOfInput \/ LoopOver \/ Type \/ HwChange \/ Halted
             \/ UntilOutOfMap \/ UNCHANGED vars
    <2>1. stack' = stack /\ fps' = fps
      BY <1>7 DEF EndOfInput, LoopOver, Leave, Type, HwChange, Halted,
                  UntilOutOfMap, vars
    <2>2. QED
      BY <1>1, <2>1
  <1>8. QED
    BY <1>2, <1>3, <1>4, <1>5, <1>6, <1>7 DEF Next, Engine

(* Every open FILE handle belongs to exactly one unfinished script or step, *)
(* and every one of those holds its own: whatever path they leave by, with  *)
(* any number of them inside each other, no handle leaks and none is closed *)
(* twice.                                                                   *)
THEOREM HandlesCorrect == Spec => []HandlesBalanced
  <1>1. Init => HandlesBalanced
    <2> SUFFICES ASSUME Init PROVE HandlesBalanced
      OBVIOUS
    <2>1. stack = <<>> /\ fps = {} /\ DOMAIN stack = {}
      BY EmptySeq DEF Init
    <2>2. QED
      BY <2>1 DEF HandlesBalanced, Streams
  <1>2. QED
    BY <1>1, HandlesNext, TypeCorrect, PTL DEF Spec

-----------------------------------------------------------------------------
(* The window.  What a guarded command touches lies inside it, whatever     *)
(* numbers the operator typed: the comparison in peek, bits, poke and       *)
(* search is made on the address itself, the one in fill on each address    *)
(* of a sum that wraps.                                                     *)
LEMMA CheckedInMap ==
    ASSUME NEW address \in Addresses, address < RANGE_16MB
    PROVE  address \in InMap
  BY BarAssumption DEF Addresses, InMap

LEMMA SearchInMap ==
    ASSUME NEW start \in Addresses, NEW end \in Addresses
    PROVE  SearchAddresses(start, end) \subseteq InMap
  <1>1. \A a \in start .. end - 1 : a \in Nat
    BY BarAssumption DEF Addresses
  <1>2. QED
    BY <1>1, BarAssumption DEF SearchAddresses, InMap

LEMMA FillInMap ==
    ASSUME NEW base \in Addresses, NEW count \in Addresses, NEW step \in Addresses
    PROVE  FillAddresses(base, count, step) \subseteq InMap
  <1> SUFFICES ASSUME NEW i \in 0 .. count - 1,
                      FillAddress(base, step, i) < RANGE_16MB
               PROVE  FillAddress(base, step, i) \in InMap
    <2>1. \A i \in 0 .. count - 1 : i \in 0 .. i
      BY BarAssumption DEF Addresses
    <2>2. QED
      BY <2>1 DEF FillAddresses
  <1>1. base \in Int /\ step \in Int /\ i \in Int
    BY BarAssumption DEF Addresses
  <1>2. base + i * step \in Int
    BY <1>1
  <1>3. FillAddress(base, step, i) \in 0 .. Word - 1
    BY <1>2, BarAssumption DEF FillAddress
  <1>4. QED
    BY <1>3, CheckedInMap DEF Addresses

LEMMA TouchInMap ==
    ASSUME NEW command, NEW accessed, Touch(command, accessed),
           accessed \subseteq InMap
    PROVE  fault' = fault
  BY DEF Touch

(* The commands that compare, or take their addresses from the dictionary.  *)
LEMMA GuardedTouches ==
    ASSUME TypeOK,
           cmd_peek \/ cmd_bits \/ cmd_search \/ cmd_log \/ cmd_poke \/ cmd_fill
    PROVE  fault' = fault
  <1>1. /\ argc \in Nat /\ aliases \in Seq(Alias)
        /\ \A k \in 0 .. argc - 1 : Arg(k) \in Token
    BY ArgType DEF cmd_peek, cmd_bits, cmd_search, cmd_log, cmd_poke, cmd_fill,
                   TypeOK
  <1>2. ASSUME NEW k \in 0 .. argc - 1, NEW base \in {0, 10, 16}
        PROVE  /\ Resolve(aliases, Arg(k), base) \in Addresses
               /\ Strtoul[Arg(k)][base] \in Addresses
    BY <1>1, ResolveType
  <1>3. {} \subseteq InMap
    OBVIOUS
  <1>4. CASE cmd_peek
    <2> DEFINE address == Resolve(aliases, Arg(1), 16)
    <2>1. CASE argc < 2 \/ address >= RANGE_16MB
      BY <1>3, <1>4, <2>1, TouchInMap DEF cmd_peek
    <2>2. CASE ~(argc < 2 \/ address >= RANGE_16MB)
      <3>1. address \in Addresses /\ address < RANGE_16MB
        BY <1>1, <1>2, <2>2, BarAssumption DEF Addresses
      <3>2. Touch("peek", {address})
        BY <1>4, <2>2 DEF cmd_peek
      <3> HIDE DEF address
      <3>3. {address} \subseteq InMap
        BY <3>1, CheckedInMap
      <3>4. QED
        BY <3>2, <3>3, TouchInMap
    <2>3. QED
      BY <2>1, <2>2
  <1>5. ASSUME argc >= 2, get_target_address(aliases, Arg(1)) < RANGE_16MB
        PROVE  {get_target_address(aliases, Arg(1))} \subseteq InMap
    <2>1. get_target_address(aliases, Arg(1)) \in Addresses
      BY <1>1, <1>2, <1>5 DEF get_target_address
    <2>2. QED
      BY <1>5, <2>1, CheckedInMap
  <1>6. argc >= 2 /\ ~(get_target_address(aliases, Arg(1)) >= RANGE_16MB)
          => get_target_address(aliases, Arg(1)) < RANGE_16MB
    BY <1>1, <1>2, BarAssumption DEF get_target_address, Addresses
  <1>7. CASE cmd_bits
    <2> DEFINE address == get_target_address(aliases, Arg(1))
    <2>1. \/ Touch("bits", {})
          \/ argc >= 2 /\ ~(address >= RANGE_16MB) /\ Touch("bits", {address})
      BY <1>1, <1>7 DEF cmd_bits
    <2> HIDE DEF address
    <2>2. QED
      BY <1>3, <1>5, <1>6, <2>1, TouchInMap DEF address
  <1>8. CASE cmd_poke
    <2> DEFINE address == get_target_address(aliases, Arg(1))
    <2>1. \/ Touch("poke", {})
          \/ argc >= 2 /\ ~(address >= RANGE_16MB) /\ Touch("poke", {address})
      BY <1>1, <1>8 DEF cmd_poke
    <2> HIDE DEF address
    <2>2. QED
      BY <1>3, <1>5, <1>6, <2>1, TouchInMap DEF address
  <1>9. CASE cmd_search
    <2> DEFINE start == get_target_address(aliases, Arg(1))
               end   == get_target_address(aliases, Arg(2))
    <2>1. CASE argc < 5
      BY <1>3, <1>9, <2>1, TouchInMap DEF cmd_search
    <2>2. CASE ~(argc < 5)
      <3>1. start \in Addresses /\ end \in Addresses
        BY <1>1, <1>2, <2>2 DEF get_target_address
      <3>2. Touch("search", SearchAddresses(start, end))
        BY <1>9, <2>2 DEF cmd_search
      <3> HIDE DEF start, end
      <3>3. QED
        BY <3>1, <3>2, SearchInMap, TouchInMap
    <2>3. QED
      BY <2>1, <2>2
  <1>10. CASE cmd_fill
    <2> DEFINE base  == get_target_address(aliases, Arg(1))
               count == Strtoul[Arg(2)][0]
               step  == Strtoul[Arg(3)][0]
    <2>1. CASE argc < 5
      BY <1>3, <1>10, <2>1, TouchInMap DEF cmd_fill
    <2>2. CASE ~(argc < 5)
      <3>1. base \in Addresses /\ count \in Addresses /\ step \in Addresses
        BY <1>1, <1>2, <2>2 DEF get_target_address
      <3>2. Touch("fill", FillAddresses(base, count, step))
        BY <1>10, <2>2 DEF cmd_fill
      <3> HIDE DEF base, count, step
      <3>3. QED
        BY <3>1, <3>2, FillInMap, TouchInMap
    <2>3. QED
      BY <2>1, <2>2
  <1>11. CASE cmd_log
    <2>1. {Dictionary[name] : name \in DOMAIN Dictionary} \subseteq InMap
      BY BarAssumption
    <2>2. QED
      BY <1>11, <2>1, TouchInMap DEF cmd_log
  <1>12. QED
    BY <1>4, <1>7, <1>8, <1>9, <1>10, <1>11

LEMMA GuardedNext ==
    TypeOK /\ GuardedCommandsStayInMap /\ [Next]_vars => GuardedCommandsStayInMap'
  <1> SUFFICES ASSUME TypeOK, [Next]_vars
               PROVE  fault' = fault \/ fault' \in {"mask", "until", "capture", "export"}
    BY DEF GuardedCommandsStayInMap
  <1>1. CASE Enter
    BY <1>1 DEF Enter, Execute
  <1>2. CASE Handler
    <2>1. CASE cmd_peek \/ cmd_bits \/ cmd_search \/ cmd_log \/ cmd_poke \/ cmd_fill
      BY <2>1, GuardedTouches
    <2>2. CASE cmd_mask
      BY <2>2 DEF cmd_mask, Touch
    <2>3. CASE \/ Ignored \/ Exit \/ cmd_alias \/ cmd_script \/ ScriptFailed
               \/ cmd_step \/ StepFailed \/ cmd_repeat \/ cmd_until
               \/ MacroStart \/ MacroStop
      BY <2>3 DEF Ignored, Exit, cmd_alias, cmd_script, ScriptFailed, cmd_step,
                  StepFailed, cmd_repeat, cmd_until, MacroStart, MacroStop,
                  OpenFailed, Return, Open
    <2>4. QED
      BY <1>2, <2>1, <2>2, <2>3 DEF Handler
  <1>3. CASE Loop \/ UntilQuit
    BY <1>3 DEF Loop, UntilQuit, ScriptLine, ScriptEnd, RepeatLine, RepeatEnd,
                UntilMatch, UntilMiss, UntilEnd, UntilStops, UntilOutOfMap,
                StepShow, StepEnd, Execute, Close, Return
  <1>4. CASE Answered
    BY <1>4 DEF Answered, StepQuit, StepAnswer, StepClear, StepRun, SaveChoice,
                SaveClear, SaveName, Execute, Close
  <1>5. CASE \/ EndOfInput \/ LoopOver \/ Type \/ HwChange \/ Halted
             \/ UNCHANGED vars
    BY <1>5 DEF EndOfInput, LoopOver, Leave, Type, HwChange, Halted, vars
  <1>6. QED
    BY <1>1, <1>2, <1>3, <1>4, <1>5 DEF Next, Engine

(* For any window, register names and number typed, however fill's sums     *)
(* wrap: peek, bits, search, log, poke and fill never reach memory that is  *)
(* not the card's; only mask, until and a line count found on the stack do. *)
THEOREM GuardsHold == Spec => []GuardedCommandsStayInMap
  <1>1. Init => GuardedCommandsStayInMap
    BY DEF Init, GuardedCommandsStayInMap
  <1>2. QED
    BY <1>1, GuardedNext, TypeCorrect, PTL DEF Spec

-----------------------------------------------------------------------------
(* Aliases.  The table only grows, at its end, and a lookup stops at the    *)
(* first slot with the name.                                                *)
LEMMA SlotsUnique ==
    ASSUME NEW table \in Seq(Alias), NEW name,
           NEW i \in FirstSlot(table, name), NEW j \in FirstSlot(table, name)
    PROVE  i = j
  <1>1. DOMAIN table = 1 .. Len(table) /\ Len(table) \in Nat
    BY LenProperties
  <1>2. QED
    BY <1>1 DEF FirstSlot

LEMMA AppendKeepsAddress ==
    ASSUME NEW table \in Seq(Alias), NEW new \in Alias, NEW name,
           FirstSlot(table, name) # {}
    PROVE  resolve_name(Append(table, new), name) = resolve_name(table, name)
  <1> DEFINE longer == Append(table, new)
             slot   == SlotOf(table, name)
  <1>1. slot \in FirstSlot(table, name)
    BY SlotInTable
  <1>2. /\ longer \in Seq(Alias) /\ Len(longer) = Len(table) + 1
        /\ Len(table) \in Nat
        /\ \A i \in 1 .. Len(table) : longer[i] = table[i]
        /\ DOMAIN longer = 1 .. Len(table) + 1 /\ DOMAIN table = 1 .. Len(table)
    BY PushProperties, LenProperties
  <1> HIDE DEF longer, slot
  <1>3. slot \in FirstSlot(longer, name)
    BY <1>1, <1>2 DEF FirstSlot
  <1>4. SlotOf(longer, name) = slot
    BY <1>2, <1>3, SlotInTable, SlotsUnique
  <1>5. longer[slot] = table[slot]
    BY <1>1, <1>2 DEF FirstSlot
  <1>6. QED
    BY <1>3, <1>4, <1>5 DEF resolve_name, longer, slot

LEMMA AliasesGrow ==
    ASSUME TypeOK, [Next]_vars
    PROVE  aliases' = aliases \/ \E new \in Alias : aliases' = Append(aliases, new)
  <1>1. CASE cmd_alias
    <2>1. /\ argc \in Nat /\ aliases \in Seq(Alias)
          /\ \A k \in 0 .. argc - 1 : Arg(k) \in Token
      BY <1>1, ArgType DEF cmd_alias, TypeOK
    <2>2. CASE argc < 3 \/ Len(aliases) >= AliasMax
      BY <1>1, <2>2 DEF cmd_alias
    <2>3. CASE ~(argc < 3 \/ Len(aliases) >= AliasMax)
      <3>1. Arg(1) \in Token /\ Arg(2) \in Token
        BY <2>1, <2>3
      <3>2. [name |-> Arg(1), address |-> Resolve(aliases, Arg(2), 16)] \in Alias
        BY <2>1, <3>1, ResolveType DEF Alias
      <3>3. QED
        BY <1>1, <2>3, <3>2 DEF cmd_alias
    <2>4. QED
      BY <2>2, <2>3
  <1>2. CASE Handler /\ ~cmd_alias
    BY <1>2 DEF Handler, Ignored, Exit, cmd_peek, cmd_bits, cmd_search, cmd_log,
                cmd_poke, cmd_fill, cmd_mask, cmd_script, ScriptFailed, cmd_step,
                StepFailed, cmd_repeat, cmd_until, MacroStart, MacroStop,
                OpenFailed, Return, Open, Touch
  <1>3. CASE Loop \/ UntilQuit
    BY <1>3 DEF Loop, UntilQuit, ScriptLine, ScriptEnd, RepeatLine, RepeatEnd,
                UntilMatch, UntilMiss, UntilEnd, UntilStops, UntilOutOfMap,
                StepShow, StepEnd, Close, Return
  <1>4. CASE Answered
    BY <1>4 DEF Answered, StepQuit, StepAnswer, StepClear, SaveChoice,
                SaveClear, SaveName, Close
  <1>5. CASE \/ Enter \/ EndOfInput \/ LoopOver \/ Type \/ HwChange \/ Halted
             \/ UNCHANGED vars
    BY <1>5 DEF Enter, EndOfInput, LoopOver, Leave, Type, HwChange, Halted, vars
  <1>6. QED
    BY <1>1, <1>2, <1>3, <1>4, <1>5 DEF Next, Engine

(* Once a name is in the alias table it stands for the same address for the *)
(* rest of the session, in a table of any length.                           *)
THEOREM AliasesStay == Spec => AliasStable
  <1>1. TypeOK /\ [Next]_vars =>
          \A name \in Token :
             FirstSlot(aliases, name) # {}
               => resolve_name(aliases', name) = resolve_name(aliases, name)
    <2> SUFFICES ASSUME TypeOK, [Next]_vars, NEW name \in Token,
                        FirstSlot(aliases, name) # {}
                 PROVE  resolve_name(aliases', name) = resolve_name(aliases, name)
      OBVIOUS
    <2>1. aliases \in Seq(Alias)
      BY DEF TypeOK
    <2>2. QED
      BY <2>1, AliasesGrow, AppendKeepsAddress
  <1>2. QED
    BY <1>1, TypeCorrect, PTL DEF Spec, AliasStable

-----------------------------------------------------------------------------
(* Recordings.  `Embeds' says that the lines of one sequence occur in the   *)
(* other, in order.                                                         *)
Embeds(lines, rows) ==
    \E at \in [DOMAIN lines -> DOMAIN rows] :
        /\ \A i, j \in DOMAIN lines : i < j => at[i] < at[j]
        /\ \A i \in DOMAIN lines : lines[i] = rows[at[i]]

(* A row is added, with or without a line the operator entered.             *)
LEMMA EmbedsLonger ==
    ASSUME NEW lines \in Seq(Line), NEW rows, NEW longer, NEW n \in Nat,
           DOMAIN rows = 1 .. n, DOMAIN longer = 1 .. n + 1,
           \A i \in 1 .. n : longer[i] = rows[i], longer[n + 1] \in Line,
           Embeds(lines, rows)
    PROVE  Embeds(lines, longer) /\ Embeds(Append(lines, longer[n + 1]), longer)
  <1> DEFINE m    == Len(lines)
             more == Append(lines, longer[n + 1])
  <1>1. /\ DOMAIN lines = 1 .. m /\ m \in Nat
        /\ DOMAIN more = 1 .. m + 1 /\ more[m + 1] = longer[n + 1]
        /\ \A i \in 1 .. m : more[i] = lines[i]
    BY LenProperties, PushProperties
  <1> HIDE DEF m, more
  <1>2. PICK at \in [1 .. m -> 1 .. n] :
          /\ \A i, j \in 1 .. m : i < j => at[i] < at[j]
          /\ \A i \in 1 .. m : lines[i] = rows[at[i]]
    BY <1>1 DEF Embeds
  <1>3. at \in [1 .. m -> 1 .. n + 1] /\ \A i \in 1 .. m : lines[i] = longer[at[i]]
    BY <1>2
  <1>4. Embeds(lines, longer)
    BY <1>1, <1>2, <1>3 DEF Embeds
  <1>5. Embeds(more, longer)
    <2> DEFINE to == [i \in 1 .. m + 1 |-> IF i \in 1 .. m THEN at[i] ELSE n + 1]
    <2>1. to \in [1 .. m + 1 -> 1 .. n + 1]
      BY <1>3
    <2>2. \A i, j \in 1 .. m + 1 : i < j => to[i] < to[j]
      BY <1>1, <1>2
    <2>3. \A i \in 1 .. m + 1 : more[i] = longer[to[i]]
      BY <1>1, <1>3
    <2> HIDE DEF to
    <2>4. QED
      BY <1>1, <2>1, <2>2, <2>3 DEF Embeds
  <1>6. QED
    BY <1>4, <1>5 DEF more

(* A step that records nothing.                                             *)
LEMMA SameRecording ==
    ASSUME NoOperatorLineLost, entered' = entered, macro'.n = macro.n,
           macro'.buf = macro.buf
    PROVE  NoOperatorLineLost'
  BY DEF NoOperatorLineLost, Recorded

(* The capture at the head of shell_execute, and what the prompt enters.    *)
LEMMA CaptureKeeps ==
    ASSUME TypeOK, NoOperatorLineLost, NEW base, NEW line \in Line,
           Execute(base, line),
           \/ entered' = entered
           \/ Captures(line) /\ entered' = Append(entered, line)
    PROVE  NoOperatorLineLost'
  <1>1. /\ macro \in MacroType /\ entered \in Seq(Line) /\ MacroMax \in Nat
        /\ macro.n \in Int /\ macro.buf \in [0 .. MacroMax - 1 -> Line]
    BY ShellAssumption DEF TypeOK, MacroType
  <1>2. CASE ~(Captures(line) /\ macro.n >= 0)
    <2>1. macro' = macro /\ (macro.n >= 0 => entered' = entered)
      BY <1>1, <1>2 DEF Execute
    <2>2. CASE macro.n >= 0
      BY <2>1, <2>2, SameRecording
    <2>3. CASE ~(macro.n >= 0)
      BY <1>1, <2>1, <2>3 DEF NoOperatorLineLost
    <2>4. QED
      BY <2>2, <2>3
  <1>3. CASE Captures(line) /\ macro.n >= 0
    <2>1. macro.n \in 0 .. MacroMax - 1
      BY <1>1, <1>3 DEF Captures
    <2>2. macro'.n = macro.n + 1 /\ macro'.buf = [macro.buf EXCEPT ![macro.n] = line]
      <3>1. macro' = [macro EXCEPT !.n = @ + 1,
                                    !.buf = [@ EXCEPT ![macro.n] = line]]
        BY <1>3, <2>1 DEF Execute
      <3>2. QED
        BY <1>1, <3>1 DEF MacroType
    <2>3. /\ DOMAIN Recorded = 1 .. macro.n
          /\ DOMAIN Recorded' = 1 .. macro.n + 1
          /\ \A i \in 1 .. macro.n : Recorded'[i] = Recorded[i]
          /\ Recorded'[macro.n + 1] = line
      BY <1>1, <2>1, <2>2 DEF Recorded
    <2>4. Embeds(entered, Recorded)
      BY <1>1, <2>1 DEF NoOperatorLineLost, Embeds
    <2>5. Embeds(entered', Recorded')
      <3> DEFINE rows == Recorded
                 longer == Recorded'
      <3>1. macro.n \in Nat /\ longer[macro.n + 1] \in Line
        BY <2>1, <2>3
      <3> HIDE DEF rows, longer
      <3>2. Embeds(entered, longer) /\ Embeds(Append(entered, longer[macro.n + 1]), longer)
        BY <1>1, <2>3, <2>4, <3>1, EmbedsLonger DEF rows, longer
      <3>3. entered' = entered \/ entered' = Append(entered, longer[macro.n + 1])
        BY <2>3 DEF longer
      <3>4. QED
        BY <3>2, <3>3 DEF longer
    <2>6. QED
      BY <2>5 DEF NoOperatorLineLost, Embeds
  <1>4. QED
    BY <1>2, <1>3

(* The command that starts a recording.                                     *)
LEMMA FreshRecording ==
    ASSUME entered' = <<>>
    PROVE  NoOperatorLineLost'
  <1>1. DOMAIN entered' = {}
    BY EmptySeq
  <1>2. [x \in {} |-> 0] \in [{} -> DOMAIN Recorded']
    OBVIOUS
  <1>3. QED
    BY <1>1, <1>2 DEF NoOperatorLineLost

LEMMA RecordingNext ==
    TypeOK /\ NoOperatorLineLost /\ [Next]_vars => NoOperatorLineLost'
  <1> SUFFICES ASSUME TypeOK, NoOperatorLineLost, [Next]_vars
               PROVE  NoOperatorLineLost'
    OBVIOUS
  <1>1. CASE Enter
    <2>1. PICK line \in Session \ {EmptyLine} :
            /\ Execute(<<>>, line)
            /\ entered' = IF macro.on /\ ~MacroLike(line) /\ macro.n < MacroMax
                          THEN Append(entered, line) ELSE entered
      BY <1>1 DEF Enter
    <2>2. line \in Line
      BY ShellAssumption
    <2>3. QED
      BY <2>1, <2>2, CaptureKeeps DEF Captures
  <1>2. ASSUME entered' = entered,
               macro' = macro \/ \E base, line : line \in Line /\ Execute(base, line)
        PROVE  NoOperatorLineLost'
    BY <1>2, SameRecording, CaptureKeeps
  <1>3. CASE Handler
    <2>1. CASE MacroStart
      BY <2>1, FreshRecording DEF MacroStart
    <2>2. CASE MacroStop
      <3>1. macro \in MacroType
        BY DEF TypeOK, MacroType
      <3>2. macro'.n = macro.n /\ macro'.buf = macro.buf /\ entered' = entered
        BY <2>2, <3>1 DEF MacroStop, MacroType
      <3>3. QED
        BY <3>2, SameRecording
    <2>3. CASE Handler /\ ~MacroStart /\ ~MacroStop
      BY <1>2, <2>3
         DEF Handler, Ignored, Exit, cmd_peek, cmd_bits, cmd_search, cmd_log,
             cmd_poke, cmd_fill, cmd_mask, cmd_alias, cmd_script, ScriptFailed,
             cmd_step, StepFailed, cmd_repeat, cmd_until, OpenFailed, Return,
             Open, Touch
    <2>4. QED
      BY <1>3, <2>1, <2>2, <2>3
  <1>4. CASE ScriptLine
    <2>1. Head(Top.rest) \in Line
      BY <1>4, TopType, RestType DEF ScriptLine, InCall, ScriptFrame
    <2>2. QED
      BY <1>2, <1>4, <2>1 DEF ScriptLine
  <1>5. CASE RepeatLine \/ UntilMatch
    <2>1. Top.sub \in Line
      BY <1>5, TopType DEF RepeatLine, UntilMatch, Polls, InCall, RepeatFrame,
                           UntilFrame
    <2>2. QED
      BY <1>2, <1>5, <2>1 DEF RepeatLine, UntilMatch
  <1>6. CASE StepAnswer \/ StepClear
    <2>1. Head(Top.rest) \in Line
      BY <1>6, TopType, RestType DEF StepAnswer, StepClear, Asked, InCall, StepFrame
    <2>2. QED
      BY <1>2, <1>6, <2>1 DEF StepAnswer, StepClear, StepRun
  <1>7. CASE \/ ScriptEnd \/ RepeatEnd \/ UntilMiss \/ UntilEnd \/ UntilOutOfMap
             \/ StepShow \/ StepEnd \/ StepQuit \/ SaveChoice \/ SaveClear
             \/ SaveName \/ UntilQuit
    BY <1>2, <1>7
       DEF ScriptEnd, RepeatEnd, UntilMiss, UntilEnd, UntilStops, UntilOutOfMap,
           StepShow, StepEnd, StepQuit, SaveChoice, SaveClear, SaveName,
           UntilQuit, Close, Return
  <1>8. CASE \/ EndOfInput \/ LoopOver \/ Type \/ HwChange \/ Halted
             \/ UNCHANGED vars
    BY <1>2, <1>8 DEF EndOfInput, LoopOver, Leave, Type, HwChange, Halted, vars
  <1>9. QED
    BY <1>1, <1>3, <1>4, <1>5, <1>6, <1>7, <1>8 DEF Next, Engine, Loop, Answered

(* However many lines scripts, repeats and polls put into the buffer around *)
(* them, the lines the operator enters during a recording are all in it, in *)
(* the order they were entered, until it is full.                           *)
THEOREM RecordingComplete == Spec => []NoOperatorLineLost
  <1>1. Init => NoOperatorLineLost
    <2> SUFFICES ASSUME Init PROVE NoOperatorLineLost
      OBVIOUS
    <2>1. DOMAIN entered = {} /\ [x \in {} |-> 0] \in [{} -> DOMAIN Recorded]
      BY EmptySeq DEF Init
    <2>2. QED
      BY <2>1 DEF NoOperatorLineLost
  <1>2. QED
    BY <1>1, RecordingNext, TypeCorrect, PTL DEF Spec

-----------------------------------------------------------------------------
(* The refinement.  Every step of the shell is a step of ShellPrompt or     *)
(* leaves its four variables alone; the invariants above are what makes the *)
(* return to the prompt a `Finish', with a cooked terminal and no handle.   *)
ShellInv == TypeOK /\ TtyInv /\ HandlesBalanced

(* Types, the terminal and the handles of the stack together, as the        *)
(* mapping to ShellPrompt needs them after every command.                   *)
THEOREM ShellInvariant == Spec => []ShellInv
  <1>1. Init => TtyInv
    BY EmptySeq DEF Init, TtyInv, CallersBelow, RawOnlyWhilePolling
  <1>2. ShellInv /\ [Next]_vars => ShellInv'
    BY NextType, TtyNext, HandlesNext DEF ShellInv
  <1>3. QED
    BY <1>1, TtyNext, TypeCorrect, HandlesCorrect, PTL DEF Spec, ShellInv

(* At the prompt everything is tidy.                                        *)
LEMMA TidyPrompt ==
    ASSUME ShellInv, stack = <<>>
    PROVE  tty = "cooked" /\ fps = {}
  <1>1. tty = "cooked"
    BY DEF ShellInv, TypeOK, TtyInv, RawOnlyWhilePolling
  <1>2. DOMAIN stack = {}
    BY EmptySeq
  <1>3. QED
    BY <1>1, <1>2 DEF ShellInv, HandlesBalanced, Streams

LEMMA TidyNext ==
    ASSUME ShellInv', stack' = <<>>
    PROVE  tty' = "cooked" /\ fps' = {}
  <1>1. tty' = "cooked"
    BY DEF ShellInv, TypeOK, TtyInv, RawOnlyWhilePolling
  <1>2. DOMAIN stack' = {}
    BY EmptySeq
  <1>3. QED
    BY <1>1, <1>2 DEF ShellInv, HandlesBalanced, Streams

(* A step inside a command works on, is lost, or is back at the prompt.     *)
LEMMA BusyStep ==
    ASSUME ShellInv, ShellInv', Alive, stack # <<>>, ended' = ended,
           running' \in {running, FALSE}, fps' \subseteq fps \/ fps \subseteq fps'
    PROVE  Prompt!Next
  <1>1. (~running') \in {~running, TRUE}
    BY DEF ShellInv, TypeOK
  <1>2. CASE fault' = "none" /\ stack' = <<>>
    BY <1>1, <1>2, TidyNext DEF Alive, Prompt!Next, Prompt!Finish, Prompt!Clean
  <1>3. CASE ~(fault' = "none" /\ stack' = <<>>)
    <2>1. tty' \in {"cooked", "raw"}
      BY DEF ShellInv, TypeOK
    <2>2. QED
      BY <1>1, <1>3, <2>1 DEF Alive, Prompt!Next, Prompt!Work
  <1>4. QED
    BY <1>2, <1>3

LEMMA EnterAccepts ==
    ASSUME ShellInv, Enter
    PROVE  Prompt!Next
  <1>1. /\ fault = "none" /\ ~ended /\ stack = <<>> /\ running
        /\ ended' = ended /\ running' = running /\ tty' = tty /\ fps' = fps
    BY DEF Enter, AtPrompt, Alive
  <1>2. stack' # <<>>
    <2>1. PICK line : Execute(stack, line)
      BY <1>1 DEF Enter
    <2> DEFINE new == [kind |-> "exec", argv |-> Argv(line)]
    <2>2. stack \in Seq(Frame \cup {new}) /\ stack' = Append(stack, new)
      BY <2>1, WiderSeq DEF Execute, ShellInv, TypeOK
    <2> HIDE DEF new
    <2>3. QED
      BY <2>2, PushProperties
  <1>3. QED
    BY <1>1, <1>2 DEF Prompt!Next, Prompt!Accept

LEMMA CommandWorks ==
    ASSUME ShellInv, [Next]_vars, Handler \/ Loop \/ Answered \/ UntilQuit
    PROVE  Prompt!Next
  <1>1. ShellInv'
    BY NextType, TtyNext, HandlesNext DEF ShellInv
  <1>2. Alive /\ stack # <<>>
    BY DEF Handler, Loop, Answered, UntilQuit, UntilStops, Ignored, Exit,
           cmd_peek, cmd_bits, cmd_search, cmd_log, cmd_poke, cmd_fill,
           cmd_mask, cmd_alias, cmd_script, ScriptFailed, cmd_step, StepFailed,
           cmd_repeat, cmd_until, MacroStart, MacroStop, OpenFailed,
           ScriptLine, ScriptEnd, RepeatLine, RepeatEnd, UntilMatch, UntilMiss,
           UntilEnd, UntilOutOfMap, StepShow, StepEnd, StepQuit, StepAnswer,
           StepClear, SaveChoice, SaveClear, SaveName, Polls, Asked,
           Dispatched, InCall
  <1>3. ended' = ended /\ running' \in {running, FALSE}
    BY DEF Handler, Loop, Answered, UntilQuit, UntilStops, Ignored, Exit,
           cmd_peek, cmd_bits, cmd_search, cmd_log, cmd_poke, cmd_fill,
           cmd_mask, cmd_alias, cmd_script, ScriptFailed, cmd_step, StepFailed,
           cmd_repeat, cmd_until, MacroStart, MacroStop, OpenFailed,
           ScriptLine, ScriptEnd, RepeatLine, RepeatEnd, UntilMatch, UntilMiss,
           UntilEnd, UntilOutOfMap, StepShow, StepEnd, StepQuit, StepAnswer,
           StepClear, SaveChoice, SaveClear, SaveName, Touch, Open, Close, Return
  <1>4. fps' \subseteq fps \/ fps \subseteq fps'
    BY DEF Handler, Loop, Answered, UntilQuit, UntilStops, Ignored, Exit,
           cmd_peek, cmd_bits, cmd_search, cmd_log, cmd_poke, cmd_fill,
           cmd_mask, cmd_alias, cmd_script, ScriptFailed, cmd_step, StepFailed,
           cmd_repeat, cmd_until, MacroStart, MacroStop, OpenFailed,
           ScriptLine, ScriptEnd, RepeatLine, RepeatEnd, UntilMatch, UntilMiss,
           UntilEnd, UntilOutOfMap, StepShow, StepEnd, StepQuit, StepAnswer,
           StepClear, SaveChoice, SaveClear, SaveName, Touch, Open, Close, Return
  <1>5. QED
    BY <1>1, <1>2, <1>3, <1>4, BusyStep

LEMMA LeaveStops == Leave => Prompt!Next
  BY DEF Leave, AtPrompt, Alive, Prompt!Next, Prompt!Stop

(* Whatever a command consists of, seen from outside the shell is the       *)
(* prompt loop of ShellPrompt: one command at a time, the terminal cooked   *)
(* and no file open whenever the prompt is back, no command after exit.     *)
(* (That the shell then does end is the fairness half, which TLC checks as  *)
(* ImplementsPrompt.)                                                       *)
THEOREM PromptKept == Spec => Prompt!Init /\ [][Prompt!Next]_Prompt!vars
  <1>1. Init => Prompt!Init
    BY DEF Init, Prompt!Init, Prompt!Clean
  <1>2. ShellInv /\ [Next]_vars => [Prompt!Next]_Prompt!vars
    <2> SUFFICES ASSUME ShellInv, [Next]_vars
                 PROVE  Prompt!Next \/ UNCHANGED Prompt!vars
      OBVIOUS
    <2>1. CASE Enter
      BY <2>1, EnterAccepts
    <2>2. CASE EndOfInput \/ LoopOver
      BY <2>2, LeaveStops DEF EndOfInput, LoopOver
    <2>3. CASE Handler \/ Loop \/ Answered \/ UntilQuit
      BY <2>3, CommandWorks
    <2>4. CASE Type \/ HwChange \/ Halted \/ UNCHANGED vars
      <3>1. /\ stack' = stack /\ fault' = fault /\ ended' = ended
            /\ running' = running /\ tty' = tty /\ fps' = fps
        BY <2>4 DEF Type, HwChange, Halted, vars
      <3>2. QED
        BY <3>1 DEF Prompt!vars
    <2>5. QED
      BY <2>1, <2>2, <2>3, <2>4 DEF Next, Engine
  <1>3. QED
    BY <1>1, <1>2, ShellInvariant, PTL DEF Spec
=============================================================================
