----------------------------- MODULE PrimeShell -----------------------------
(***************************************************************************)
(* The interactive shell of BSD-Prime: src/api/shell_engine.c (the prompt  *)
(* loop, the macro capture, the dispatcher) and src/api/commands.c (the    *)
(* handlers), over the mapped registers of the card.                       *)
(*                                                                         *)
(* The C program is one thread, but its handlers call shell_execute again: *)
(* script, step, repeat and until run other command lines from inside a    *)
(* command.  `stack' is that chain of unfinished C calls, innermost last:  *)
(* shell_execute pushes an "exec" frame, the handler it dispatches to      *)
(* replaces it, and a return pops.  Around it stand the things the calls   *)
(* share: the alias table, the macro buffer, the stdio buffer of standard  *)
(* input, the terminal's mode, the FILE handles and the registers, which   *)
(* the hardware also changes by itself.                                    *)
(***************************************************************************)
EXTENDS BarAccess

CONSTANTS
    MaxArgs,        \* argv[16] of shell_execute
    AliasMax,       \* 64 slots in the alias table
    MacroMax,       \* 128 lines in the macro buffer
    Comments,       \* tokens that begin with '#'
    MacroPrefixed,  \* tokens whose first five letters are "macro"
    Names,          \* file names
    Handles,        \* FILE handles the process may hold open
    InitialFiles,   \* the scripts on disk when the shell starts
    StackGarbage,   \* <<recording_active, macro_line_count>> found on main's stack
    UninitLine,     \* what an unwritten row of macro_buffer prints as
    HeaderLine,     \* "# Salix Macro Export"
    Session,        \* lines the operator may enter at the prompt
    Answers,        \* key sequences the operator may type at a question
    ReadOnly,       \* registers that ignore writes
    Volatile,       \* registers the hardware changes by itself
    HwValues        \* the values it changes them to

VARIABLES
    regs,      \* contents of BAR0, one value per 32-bit register
    running,   \* shell->running
    aliases,   \* shell->aliases[0 .. alias_count-1]
    macro,     \* recording_active, macro_line_count, macro_buffer
    stack,     \* unfinished calls, innermost last
    tty,       \* mode of the terminal: "cooked" or "raw"
    fps,       \* open FILE handles
    files,     \* scripts on disk: name -> lines
    stdin,     \* stdio's buffer of unread keys, and its sticky end-of-file
    fault,     \* "none", or the command that left the mapped window
    ended,     \* shell_run has returned
    entered    \* lines entered at the prompt since cmd_macro began recording

vars == <<regs, running, aliases, macro, stack, tty, fps, files, stdin,
          fault, ended, entered>>

(* A raw command line: does it begin with a blank, and its words.           *)
Line == [lead : BOOLEAN, words : Seq(Token)]
EmptyLine == [lead |-> FALSE, words |-> <<>>]

ASSUME ShellAssumption ==
    /\ MaxArgs \in Nat \ {0}
    /\ AliasMax \in Nat
    /\ MacroMax \in Nat
    /\ Comments \subseteq Token
    /\ MacroPrefixed \subseteq Token
    /\ DOMAIN InitialFiles \subseteq Names
    /\ \A f \in DOMAIN InitialFiles : InitialFiles[f] \in Seq(Line)
    /\ StackGarbage \subseteq BOOLEAN \X Int
    /\ UninitLine \in Line /\ HeaderLine \in Line
    /\ Session \subseteq Line
    /\ Answers \subseteq Seq(STRING) \ {<<>>}
    /\ Volatile \subseteq Regs
    /\ HwValues \subseteq RegValue

-----------------------------------------------------------------------------
(* Frames: what is still to be done in each unfinished C call.              *)

ExecFrame   == [kind : {"exec"}, argv : Seq(Token)]
ScriptFrame == [kind : {"script"}, fp : Handles, rest : Seq(Line)]
StepFrame   == {f \in [kind : {"step"}, fp : Handles, rest : Seq(Line),
                       phase : {"line", "ask", "clear"}] :
                  f.phase # "line" => f.rest # <<>>}
RepeatFrame == [kind : {"repeat"}, left : Nat, sub : Line, ran : BOOLEAN]
UntilFrame  == [kind : {"until"}, inf : BOOLEAN, left : Int,
                address : Addresses, mask : RegValue, target : RegValue,
                sub : Line, saved : {"cooked", "raw"}]
SaveFrame   == [kind : {"save"}, phase : {"choice", "clear", "name"},
                yes : BOOLEAN]

Frame == ExecFrame \cup ScriptFrame \cup StepFrame \cup RepeatFrame
         \cup UntilFrame \cup SaveFrame

Alive  == fault = "none" /\ ~ended
Top    == Last(stack)
InCall(kind) == Alive /\ stack # <<>> /\ Top.kind = kind
Pop    == Front(stack)
Replace(frame) == Append(Front(stack), frame)

(* The command being dispatched, with C's numbering of its arguments.       *)
argc   == Len(Top.argv)
Arg(k) == Top.argv[k + 1]
Dispatched(name) == InCall("exec") /\ argc > 0 /\ Arg(0) = name

(* repeat and until glue the arguments from the k-th on into a new line.    *)
Rejoined(k) == [lead |-> FALSE, words |-> SubSeq(Top.argv, k + 1, argc)]

-----------------------------------------------------------------------------
(* shell_execute up to the dispatch: the macro capture looks at the raw     *)
(* line, then the line is cut into at most MaxArgs words.  A negative line  *)
(* count indexes memory in front of the buffer.                             *)
MacroLike(line) ==
    ~line.lead /\ line.words # <<>> /\ line.words[1] \in MacroPrefixed

(* Mutant of Captures: the last row of the buffer is never used.            *)
CapturesOneLess(line) ==
    macro.on /\ ~MacroLike(line) /\ macro.n < MacroMax - 1

Captures(line) == macro.on /\ ~MacroLike(line) /\ macro.n < MacroMax

Argv(line) ==
    SubSeq(line.words, 1,
           IF Len(line.words) <= MaxArgs THEN Len(line.words) ELSE MaxArgs)

Execute(base, line) ==
    /\ IF Captures(line)
       THEN IF macro.n < 0
            THEN fault' = "capture" /\ UNCHANGED macro
            ELSE /\ macro' = [macro EXCEPT !.n = @ + 1,
                                         !.buf = [@ EXCEPT ![macro.n] = line]]
                 /\ UNCHANGED fault
       ELSE UNCHANGED <<macro, fault>>
    /\ stack' = Append(base, [kind |-> "exec", argv |-> Argv(line)])

(* What the capture has stored.                                             *)
Recorded == [i \in 1 .. macro.n |-> macro.buf[i - 1]]

-----------------------------------------------------------------------------
(* The prompt loop, shell_run.  A line that is empty once its newline is    *)
(* cut off is not executed; `entered' remembers what a recording that       *)
(* cmd_macro started should hold.                                           *)
AtPrompt == Alive /\ stack = <<>>

(* Mutant of Enter: the prompt loop does not look at running.               *)
EnterAnyway ==
    /\ AtPrompt
    /\ \E line \in Session \ {EmptyLine} : Execute(<<>>, line)
    /\ UNCHANGED <<regs, running, aliases, tty, fps, files, stdin, ended, entered>>

Enter ==
    /\ AtPrompt /\ running
    /\ \E line \in Session \ {EmptyLine} :
        /\ Execute(<<>>, line)
        /\ entered' = IF macro.on /\ ~MacroLike(line) /\ macro.n < MacroMax
                      THEN Append(entered, line) ELSE entered
    /\ UNCHANGED <<regs, running, aliases, tty, fps, files, stdin, ended>>

(* shell_run returns, and main tears down: the loop condition failed after  *)
(* an exit, or el_gets met the end of input.                                *)
Leave ==
    /\ AtPrompt
    /\ ended' = TRUE
    /\ UNCHANGED <<regs, running, aliases, macro, stack, tty, fps, files,
                   stdin, fault, entered>>

(* Mutant of LoopOver: the prompt loop does not look at running.            *)
LoopNeverOver == FALSE /\ Leave

LoopOver   == ~running /\ Leave
EndOfInput == running /\ Leave

-----------------------------------------------------------------------------
(* Handlers.  Return is the common end of a handler that only read, printed *)
(* or refused: the call is popped and nothing else changes.                 *)
Return ==
    /\ stack' = Pop
    /\ UNCHANGED <<regs, running, aliases, macro, tty, fps, files, stdin,
                   fault, ended, entered>>

Commands == {"help", "clear", "wait", "log", "macro", "script", "step",
             "alias", "bits", "fill", "mask", "peek", "poke", "repeat",
             "search", "until"}

(* A blank line, an unknown word, and the commands that only print or       *)
(* sleep.                                                                   *)
Ignored ==
    /\ InCall("exec")
    /\ argc > 0 => Arg(0) \notin (Commands \ {"help", "clear", "wait"}) \cup {"exit"}
    /\ Return

Exit ==
    /\ Dispatched("exit")
    /\ running' = FALSE
    /\ stack' = Pop
    /\ UNCHANGED <<regs, aliases, macro, tty, fps, files, stdin, fault, ended,
                   entered>>

(* Touch the bytes `accessed' of the window on behalf of a command: a byte  *)
(* outside it is an access to memory that is not the card's.                *)
Touch(command, accessed) ==
    /\ fault' = IF accessed \subseteq InMap THEN fault ELSE command
    /\ stack' = Pop
    /\ UNCHANGED <<running, aliases, macro, tty, fps, files, stdin, ended,
                   entered>>

(* A store reaches every register except the read-only ones.                *)
Stored(written, value) ==
    [r \in Regs |-> IF r \in {Reg(a) : a \in written} \ ReadOnly
                    THEN value ELSE regs[r]]

cmd_peek ==
    /\ Dispatched("peek")
    /\ LET address == Resolve(aliases, Arg(1), 16)
       IN  IF argc < 2 \/ address >= RANGE_16MB
           THEN Touch("peek", {}) ELSE Touch("peek", {address})
    /\ UNCHANGED regs

cmd_bits ==
    /\ Dispatched("bits")
    /\ LET address == get_target_address(aliases, Arg(1))
       IN  IF argc < 2 \/ address >= RANGE_16MB
           THEN Touch("bits", {}) ELSE Touch("bits", {address})
    /\ UNCHANGED regs

cmd_search ==
    /\ Dispatched("search")
    /\ IF argc < 5 THEN Touch("search", {})
       ELSE Touch("search", SearchAddresses(get_target_address(aliases, Arg(1)),
                                            get_target_address(aliases, Arg(2))))
    /\ UNCHANGED regs

cmd_log ==
    /\ Dispatched("log")
    /\ Touch("log", {Dictionary[name] : name \in DOMAIN Dictionary})
    /\ UNCHANGED regs

cmd_poke ==
    /\ Dispatched("poke")
    /\ LET address == get_target_address(aliases, Arg(1))
       IN  IF argc < 3 \/ address >= RANGE_16MB
           THEN Touch("poke", {}) /\ UNCHANGED regs
           ELSE /\ Touch("poke", {address})
                /\ regs' = Stored({address}, BitsOf(Strtoul[Arg(2)][0]))

cmd_fill ==
    /\ Dispatched("fill")
    /\ IF argc < 5 THEN Touch("fill", {}) /\ UNCHANGED regs
       ELSE LET written == FillAddresses(get_target_address(aliases, Arg(1)),
                                         Strtoul[Arg(2)][0], Strtoul[Arg(3)][0])
            IN  /\ Touch("fill", written)
                /\ regs' = Stored(written, BitsOf(Strtoul[Arg(4)][0]))

(* The one writer without a range check.  The bit index is a position 0..31,*)
(* a third argument of 1 sets, any other clears, none toggles.              *)
cmd_mask ==
    /\ Dispatched("mask")
    /\ IF argc < 3 \/ Atoi(Arg(2)) \notin Bits
       THEN Touch("mask", {}) /\ UNCHANGED regs
       ELSE LET address == get_target_address(aliases, Arg(1))
                bit     == {Atoi(Arg(2))}
                old     == regs[Reg(address)]
                new     == IF argc < 4 THEN SymDiff(old, bit)
                           ELSE IF Atoi(Arg(3)) = 1 THEN old \cup bit
                           ELSE old \ bit
            IN  /\ Touch("mask", {address})
                /\ regs' = IF address \in InMap THEN Stored({address}, new)
                           ELSE regs

cmd_alias ==
    /\ Dispatched("alias")
    /\ IF argc < 3 \/ Len(aliases) >= AliasMax
       THEN UNCHANGED aliases
       ELSE aliases' = Append(aliases, [name |-> Arg(1),
                                        address |-> Resolve(aliases, Arg(2), 16)])
    /\ stack' = Pop
    /\ UNCHANGED <<regs, running, macro, tty, fps, files, stdin, fault, ended,
                   entered>>

-----------------------------------------------------------------------------
(* Handlers that run other lines, and their loops.                          *)

(* fopen: an existing file, and a free handle.  The lines are read into the *)
(* stream's buffer at the first fgets, so a later save of the same file     *)
(* does not change what this stream returns (scripts within one buffer).    *)
Opens == argc >= 2 /\ Arg(1) \in DOMAIN files /\ fps # Handles

OpenFailed(name) == Dispatched(name) /\ ~Opens /\ Return

Open(fp, frame) ==
    /\ fps' = fps \cup {fp}
    /\ stack' = Replace(frame)
    /\ UNCHANGED <<regs, running, aliases, macro, tty, files, stdin, fault,
                   ended, entered>>

Close ==
    /\ fps' = fps \ {Top.fp}
    /\ stack' = Pop
    /\ UNCHANGED <<regs, running, aliases, macro, tty, files, fault, ended,
                   entered>>

(* An empty line, or one whose first character is '#'.                      *)
Skipped(line) ==
    /\ ~line.lead
    /\ line.words = <<>> \/ line.words[1] \in Comments

cmd_script ==
    /\ Dispatched("script") /\ Opens
    /\ \E fp \in Handles \ fps :
        Open(fp, [kind |-> "script", fp |-> fp, rest |-> files[Arg(1)]])

ScriptFailed == OpenFailed("script")

ScriptLine ==
    /\ InCall("script") /\ Top.rest # <<>>
    /\ LET line == Head(Top.rest)
           base == Replace([Top EXCEPT !.rest = Tail(@)])
       IN  IF Skipped(line) THEN stack' = base /\ UNCHANGED <<macro, fault>>
           ELSE Execute(base, line)
    /\ UNCHANGED <<regs, running, aliases, tty, fps, files, stdin, ended,
                   entered>>

ScriptEnd ==
    /\ InCall("script") /\ Top.rest = <<>>
    /\ Close
    /\ UNCHANGED stdin

cmd_repeat ==
    /\ Dispatched("repeat")
    /\ IF argc < 3 THEN stack' = Pop
       ELSE stack' = Replace([kind |-> "repeat", left |-> Strtoul[Arg(1)][10],
                              sub |-> Rejoined(2), ran |-> FALSE])
    /\ UNCHANGED <<regs, running, aliases, macro, tty, fps, files, stdin,
                   fault, ended, entered>>

(* Mutant of RepeatOver: the count is not compared.                         *)
RepeatOverOnExit == Top.ran /\ ~running

(* running is looked at after an iteration, never before the first.         *)
RepeatOver == Top.left = 0 \/ (Top.ran /\ ~running)

RepeatLine ==
    /\ InCall("repeat") /\ ~RepeatOver
    /\ Execute(Replace([Top EXCEPT !.left = @ - 1, !.ran = TRUE]), Top.sub)
    /\ UNCHANGED <<regs, running, aliases, tty, fps, files, stdin, ended,
                   entered>>

RepeatEnd == InCall("repeat") /\ RepeatOver /\ Return

-----------------------------------------------------------------------------
(* until: raw terminal, poll a register, run a line once it matches.        *)
cmd_until ==
    /\ Dispatched("until")
    /\ IF argc < 5 THEN stack' = Pop /\ UNCHANGED tty
       ELSE /\ tty' = "raw"
            /\ stack' = Replace(
                 [kind |-> "until", inf |-> Arg(1) = "inf",
                  left |-> IF Arg(1) = "inf" THEN 0 ELSE Atoi(Arg(1)),
                  address |-> Resolve(aliases, Arg(2), 16),
                  mask    |-> BitsOf(Strtoul[Arg(3)][16]),
                  target  |-> BitsOf(Strtoul[Arg(4)][16]),
                  sub     |-> Rejoined(5), saved |-> tty])
    /\ UNCHANGED <<regs, running, aliases, macro, fps, files, stdin, fault,
                   ended, entered>>

Polls == InCall("until") /\ (Top.inf \/ Top.left > 0)

(* The loop ends without a match: 'q' was pressed, or the count ran out.    *)
UntilStops ==
    /\ InCall("until")
    /\ tty' = Top.saved
    /\ stack' = Pop
    /\ UNCHANGED <<regs, running, aliases, macro, fps, files, stdin, fault,
                   ended, entered>>

UntilQuit == Polls /\ UntilStops
UntilEnd  == ~Polls /\ UntilStops

(* One sample.  The terminal is restored before the sub-command runs.       *)
Matches == regs[Reg(Top.address)] \cap Top.mask = Top.target

(* Mutant of UntilMatch: the sub-command runs before the terminal is        *)
(* restored.                                                                *)
UntilMatchRaw ==
    /\ Polls /\ Top.address \in InMap /\ Matches
    /\ Execute(Pop, Top.sub)
    /\ UNCHANGED <<regs, running, aliases, tty, fps, files, stdin, ended, entered>>

UntilMatch ==
    /\ Polls /\ Top.address \in InMap /\ Matches
    /\ tty' = Top.saved
    /\ Execute(Pop, Top.sub)
    /\ UNCHANGED <<regs, running, aliases, fps, files, stdin, ended, entered>>

(* Mutant of UntilMiss: current_cycle is not incremented.                   *)
UntilMissUncounted ==
    /\ Polls /\ Top.address \in InMap /\ ~Matches
    /\ UNCHANGED vars

UntilMiss ==
    /\ Polls /\ Top.address \in InMap /\ ~Matches /\ ~Top.inf
    /\ stack' = Replace([Top EXCEPT !.left = @ - 1])
    /\ UNCHANGED <<regs, running, aliases, macro, tty, fps, files, stdin,
                   fault, ended, entered>>

(* No range check here either: the sample is taken wherever it points.      *)
UntilOutOfMap ==
    /\ Polls /\ Top.address \notin InMap
    /\ fault' = "until"
    /\ UNCHANGED <<regs, running, aliases, macro, stack, tty, fps, files,
                   stdin, ended, entered>>

-----------------------------------------------------------------------------
(* Questions to the operator: getchar and fgets on standard input.  stdio   *)
(* reads one typed line at a time and keeps what was not asked for; the     *)
(* prompt's line editor does not see that buffer.                           *)
Readable == stdin.keys # <<>> \/ stdin.eof
Getchar  == IF stdin.keys # <<>> THEN Head(stdin.keys) ELSE "EOF"
Consumed == IF stdin.keys # <<>> THEN [stdin EXCEPT !.keys = Tail(@)] ELSE stdin

Asking ==
    \/ InCall("step") /\ Top.phase \in {"ask", "clear"}
    \/ InCall("save")

Asked(kind, phase) == InCall(kind) /\ Top.phase = phase /\ Readable

(* The operator answers with a line, or with end-of-file (sticky in stdio). *)
Type ==
    /\ Asking /\ ~Readable
    /\ \/ \E keys \in Answers : stdin' = [stdin EXCEPT !.keys = keys]
       \/ stdin' = [stdin EXCEPT !.eof = TRUE]
    /\ UNCHANGED <<regs, running, aliases, macro, stack, tty, fps, files,
                   fault, ended, entered>>

cmd_step ==
    /\ Dispatched("step") /\ Opens
    /\ \E fp \in Handles \ fps :
        Open(fp, [kind |-> "step", fp |-> fp, rest |-> files[Arg(1)],
                  phase |-> "line"])

StepFailed == OpenFailed("step")

(* fgets: end of file, a line to skip, or the next line is shown.           *)
StepEnd ==
    /\ InCall("step") /\ Top.phase = "line" /\ Top.rest = <<>>
    /\ Close
    /\ UNCHANGED stdin

StepShow ==
    /\ InCall("step") /\ Top.phase = "line" /\ Top.rest # <<>>
    /\ stack' = IF Skipped(Head(Top.rest))
                THEN Replace([Top EXCEPT !.rest = Tail(@)])
                ELSE Replace([Top EXCEPT !.phase = "ask"])
    /\ UNCHANGED <<regs, running, aliases, macro, tty, fps, files, stdin,
                   fault, ended, entered>>

StepRun ==
    Execute(Replace([Top EXCEPT !.phase = "line", !.rest = Tail(@)]),
            Head(Top.rest))

(* Mutant of StepQuit: the abort returns without closing the file.          *)
StepQuitLeaks ==
    /\ Asked("step", "ask") /\ Getchar = "q"
    /\ stdin' = Consumed
    /\ stack' = Pop
    /\ UNCHANGED <<regs, running, aliases, macro, tty, fps, files, fault, ended,
                   entered>>

(* 'q' leaves; anything else but a newline costs one more getchar.          *)
StepQuit ==
    /\ Asked("step", "ask") /\ Getchar = "q"
    /\ stdin' = Consumed
    /\ Close

StepAnswer ==
    /\ Asked("step", "ask") /\ Getchar # "q"
    /\ stdin' = Consumed
    /\ IF Getchar = "nl" THEN StepRun
       ELSE /\ stack' = Replace([Top EXCEPT !.phase = "clear"])
            /\ UNCHANGED <<macro, fault>>
    /\ UNCHANGED <<regs, running, aliases, tty, fps, files, ended, entered>>

StepClear ==
    /\ Asked("step", "clear")
    /\ stdin' = Consumed
    /\ StepRun
    /\ UNCHANGED <<regs, running, aliases, tty, fps, files, ended, entered>>

(* macro: toggles the recording; stopping a non-empty one offers to save.   *)
MacroStart ==
    /\ Dispatched("macro") /\ ~macro.on
    /\ macro' = [macro EXCEPT !.on = TRUE, !.n = 0]
    /\ entered' = <<>>
    /\ stack' = Pop
    /\ UNCHANGED <<regs, running, aliases, tty, fps, files, stdin, fault, ended>>

MacroStop ==
    /\ Dispatched("macro") /\ macro.on
    /\ macro' = [macro EXCEPT !.on = FALSE]
    /\ stack' = IF macro.n = 0 THEN Pop
                ELSE Replace([kind |-> "save", phase |-> "choice", yes |-> FALSE])
    /\ UNCHANGED <<regs, running, aliases, tty, fps, files, stdin, fault, ended,
                   entered>>

SaveChoice ==
    /\ Asked("save", "choice")
    /\ stdin' = Consumed
    /\ stack' = Replace([Top EXCEPT !.phase = "clear", !.yes = Getchar = "y"])
    /\ UNCHANGED <<regs, running, aliases, macro, tty, fps, files, fault, ended,
                   entered>>

SaveClear ==
    /\ Asked("save", "clear")
    /\ stdin' = Consumed
    /\ stack' = IF Top.yes THEN Replace([Top EXCEPT !.phase = "name"]) ELSE Pop
    /\ UNCHANGED <<regs, running, aliases, macro, tty, fps, files, fault, ended,
                   entered>>

(* fgets takes everything up to the newline.  The file is written whole:    *)
(* a count beyond the buffer (only ever found on the stack) reads past it,  *)
(* a negative one writes the header alone.                                  *)
Written(name) ==
    [f \in DOMAIN files \cup {name} |->
        IF f = name THEN <<HeaderLine>> \o Recorded ELSE files[f]]

SaveName ==
    /\ Asked("save", "name")
    /\ stdin' = [stdin EXCEPT !.keys = <<>>]
    /\ LET saves == /\ stdin.keys # <<>> /\ stdin.keys[1] \in Names
                    /\ Tail(stdin.keys) = <<"nl">> /\ fps # Handles
       IN  /\ files' = IF saves /\ macro.n <= MacroMax
                       THEN Written(stdin.keys[1]) ELSE files
           /\ fault' = IF saves /\ macro.n > MacroMax THEN "export" ELSE fault
    /\ stack' = Pop
    /\ UNCHANGED <<regs, running, aliases, macro, tty, fps, ended, entered>>

-----------------------------------------------------------------------------
(* The card.                                                                *)
HwChange ==
    /\ ~ended
    /\ \E r \in Volatile, v \in HwValues : regs' = [regs EXCEPT ![r] = v]
    /\ UNCHANGED <<running, aliases, macro, stack, tty, fps, files, stdin,
                   fault, ended, entered>>

(* After the shell returned, or a stray access, nothing runs any more.      *)
Halted == ~Alive /\ UNCHANGED vars

Handler ==
    \/ Ignored \/ Exit
    \/ cmd_peek \/ cmd_bits \/ cmd_search \/ cmd_log
    \/ cmd_poke \/ cmd_fill \/ cmd_mask \/ cmd_alias
    \/ cmd_script \/ ScriptFailed \/ cmd_step \/ StepFailed
    \/ cmd_repeat \/ cmd_until \/ MacroStart \/ MacroStop

Loop ==
    \/ ScriptLine \/ ScriptEnd \/ RepeatLine \/ RepeatEnd
    \/ UntilMatch \/ UntilMiss \/ UntilEnd \/ UntilOutOfMap
    \/ StepShow \/ StepEnd

Answered ==
    \/ StepQuit \/ StepAnswer \/ StepClear
    \/ SaveChoice \/ SaveClear \/ SaveName

Engine == Handler \/ Loop \/ Answered \/ LoopOver

Next == Enter \/ EndOfInput \/ Engine \/ UntilQuit \/ Type \/ HwChange \/ Halted

(* shell_init leaves recording_active and macro_line_count as they were on  *)
(* main's stack.                                                            *)
Init ==
    /\ regs = [r \in Regs |-> {}]
    /\ running = TRUE
    /\ aliases = <<>>
    /\ \E g \in StackGarbage :
        macro = [on |-> g[1], n |-> g[2],
                 buf |-> [i \in 0 .. MacroMax - 1 |-> UninitLine]]
    /\ stack = <<>>
    /\ tty = "cooked"
    /\ fps = {}
    /\ files = InitialFiles
    /\ stdin = [keys |-> <<>>, eof |-> FALSE]
    /\ fault = "none"
    /\ ended = FALSE
    /\ entered = <<>>

Spec == Init /\ [][Next]_vars

(* The program keeps executing, and the operator answers the questions it   *)
(* asks.  Nothing obliges the operator to enter commands or to press 'q',   *)
(* nor the card to change a register.                                       *)
FairSpec == Spec /\ WF_vars(Engine) /\ WF_vars(Type)

-----------------------------------------------------------------------------
(* Properties *)

(* Every variable keeps the shape the C declarations give it, the alias     *)
(* table and the macro buffer never outgrow their arrays, and no frame is   *)
(* left in a state its handler does not have.                               *)
TypeOK ==
    /\ regs \in [Regs -> RegValue]
    /\ running \in BOOLEAN
    /\ aliases \in Seq(Alias) /\ Len(aliases) <= AliasMax
    /\ macro \in [on : BOOLEAN, n : Int, buf : [0 .. MacroMax - 1 -> Line]]
    /\ stack \in Seq(Frame)
    /\ tty \in {"cooked", "raw"}
    /\ fps \subseteq Handles
    /\ DOMAIN files \subseteq Names
    /\ \A f \in DOMAIN files : files[f] \in Seq(Line)
    /\ stdin \in [keys : Seq(STRING), eof : BOOLEAN]
    /\ fault \in {"none", "capture", "export"} \cup Commands
    /\ ended \in BOOLEAN
    /\ entered \in Seq(Line)

(* The frames that hold a FILE handle.                                      *)
Streams == {i \in DOMAIN stack : stack[i].kind \in {"script", "step"}}

(* script and step run other commands, themselves included, while their     *)
(* file is open, and leave by several paths (end of file, 'q', exit below): *)
(* on every one, each open handle belongs to exactly one unfinished call.   *)
HandlesBalanced ==
    /\ fps = {stack[i].fp : i \in Streams}
    /\ \A i, j \in Streams : stack[i].fp = stack[j].fp => i = j

(* until switches canonical mode and echo off.  No prompt, question, script *)
(* line or sub-command ever runs in that mode: the terminal is raw exactly  *)
(* while the innermost call is the polling loop itself.                     *)
RawOnlyWhilePolling ==
    tty = "raw" <=> stack # <<>> /\ Top.kind = "until"

(* However scripts, repeats and polls interleave their own captured lines,  *)
(* every line the operator entered during a recording is in the macro       *)
(* buffer, in order, until the buffer is full.                              *)
NoOperatorLineLost ==
    macro.n \in 0 .. MacroMax =>
        \E at \in [DOMAIN entered -> DOMAIN Recorded] :
            /\ \A i, j \in DOMAIN entered : i < j => at[i] < at[j]
            /\ \A i \in DOMAIN entered : entered[i] = Recorded[at[i]]

(* Only mask, until, and a line count found uninitialised on the stack can  *)
(* reach outside the window: peek, bits, search, log, poke and the wrapping *)
(* address arithmetic of fill never do.                                     *)
GuardedCommandsStayInMap ==
    fault \in {"none", "mask", "until", "capture", "export"}

(* Once a name is aliased, no later command changes the address it stands   *)
(* for: scripts may rely on it.  (That the first definition wins is also    *)
(* why aliasing a name again has no effect.)                                *)
AliasStable ==
    [][\A name \in Token :
         FirstSlot(aliases, name) # {}
           => resolve_name(aliases', name) = resolve_name(aliases, name)]_vars

(* A command either polls for ever on the operator's own request (inf), or  *)
(* comes back to the prompt, however its scripts call each other: recursion *)
(* ends at the handle limit and each call reads a finite file.              *)
PollsForEver == InCall("until") /\ Top.inf
CommandReturns ==
    (stack # <<>>) ~> (stack = <<>> \/ fault # "none" \/ PollsForEver)

(* exit, from whatever depth of scripts and repeats it runs, makes the      *)
(* shell return: no line below it can bring the prompt back.                *)
ExitEndsShell ==
    (~running) ~> (ended \/ fault # "none" \/ PollsForEver)

(* The shell implements ShellPrompt: whatever scripts, polls and questions  *)
(* a command consists of, the prompt comes back with the terminal cooked    *)
(* and every file closed, exit is never taken back, no command is read      *)
(* after it, and the shell then ends (shell_engine.c:42-46, :74-97).        *)
Prompt == INSTANCE ShellPrompt WITH
    phase   <- IF ended THEN "over" ELSE IF fault # "none" THEN "lost"
               ELSE IF stack = <<>> THEN "idle" ELSE "busy",
    leaving <- ~running,
    held    <- fps

ImplementsPrompt == Prompt!Spec
=============================================================================
