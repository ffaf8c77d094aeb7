------------------------------ MODULE MemTest ------------------------------
(***************************************************************************)
(* The VRAM tester, src/nv_memtest.c: a main thread that asks what to      *)
(* test, programs the window through which BAR1 shows one block of the     *)
(* video memory, fills and verifies that block word by word, and looks at  *)
(* the keyboard now and then; a watchdog thread that redraws three lines   *)
(* of telemetry while a session is active; the terminal both use; and the  *)
(* card, whose memory may be faulty.                                       *)
(*                                                                         *)
(* One step of the main thread is one iteration of a loop or one question. *)
(* The struct test_telemetry of the session is the record t.  Wording,     *)
(* percentages and elapsed time are left out.                              *)
(***************************************************************************)
EXTENDS Integers, FiniteSets, SequencesExt

CONSTANTS
    TOTAL_BLOCKS, APERTURE_SIZE,  \* 32 blocks of 256 MB, in bytes
    Page,                         \* 2^16: unit of the window register
    U32, U64,                     \* 2^32 and 2^64
    Pattern,                      \* 0x55555555
    CheckEvery,                   \* 4096: words between looks at the keyboard
    Keys, Enter, Stop, No,        \* the keys; Enter, {q,Q} and {n,N}
    MaxKeys,                      \* bound: keys typed and not yet read
    Lines,                        \* bound: the lines an operator enters
    Garbage,                      \* bound: what uninitialised buffers hold
    Atoi, Strtoull, Unit,         \* libc: line -> number; suffix -> factor
    Cards,                        \* the cards considered
    Ok,                           \* the mark of a word that is not stuck
    Background,                   \* bound: contents of a word never written
    MayHangUp                     \* whether standard input may end

TOTAL_VRAM_SIZE == TOTAL_BLOCKS * APERTURE_SIZE
Blocks  == 0 .. TOTAL_BLOCKS - 1
Values  == 0 .. U32 - 1
Indices == 0 .. (APERTURE_SIZE \div 4) - 1

Window(offset) == offset \div Page

(* The address the card gives to word k of the aperture.                    *)
Cell(w, k) == w * Page + 4 * k

Device == {Cell(Window(b * APERTURE_SIZE), k) : b \in Blocks, k \in Indices}

(* A card: where it stores each word (two words may share a place when an   *)
(* address line is broken) and the value a stuck word always reads as.      *)
Card == [store : [Device -> Device], stuck : [Device -> Values \cup {Ok}]]

(* The window register counts pages, and a block is a whole number of them; *)
(* the pattern is odd, so that it is no word's address; 32 bits tell the    *)
(* words of a block apart and count two errors per word of the device, all  *)
(* but the last of them (2^31 words).                                       *)
ASSUME MemAssumption ==
    /\ TOTAL_BLOCKS \in Nat \ {0} /\ APERTURE_SIZE \in Nat \ {0}
    /\ Page \in Nat \ {0} /\ U32 \in Nat \ {0} /\ U64 \in Nat \ {0}
    /\ \A b \in Blocks : Window(b * APERTURE_SIZE) * Page = b * APERTURE_SIZE
    /\ APERTURE_SIZE % 4 = 0 /\ APERTURE_SIZE <= U32 /\ U32 % 2 = 0
    /\ 2 * (TOTAL_BLOCKS * (APERTURE_SIZE \div 4)) <= U32
    /\ Pattern \in Values /\ Pattern % 2 = 1
    /\ CheckEvery \in Nat \ {0} /\ MaxKeys \in Nat
    /\ Enter \in Keys /\ Stop \subseteq Keys /\ No \subseteq Keys
    /\ <<>> \in Lines /\ Garbage \subseteq Lines
    /\ Atoi \in [Lines -> Int] /\ Strtoull \in [Lines -> Nat]
    /\ Unit \in [Lines -> Nat]
    /\ Cards \subseteq Card /\ Ok \notin Values /\ Background \subseteq Values
    /\ MayHangUp \in BOOLEAN

VARIABLES
    main,       \* where the main thread is
    watchdog,   \* where the watchdog is
    t,          \* the telemetry of the session
    choice,     \* menu choice
    size,       \* bytes to test in each block
    phase,      \* 0 .. 3 of run_block_test, 4 when all are done
    i,          \* word of the aperture
    window,     \* NV_PBI_BAR1_WINDOW_CONFIG
    vram,       \* place -> value last written
    card,       \* the card in the slot
    keys,       \* typed and not yet read
    hung,       \* standard input has ended
    m_in, buf,  \* the two answer buffers
    tty,        \* terminal mode
    row         \* cursor row, 0 where the watchdog begins

operatorVars == <<keys, hung>>
testVars     == <<phase, i, window, vram>>
askVars      == <<choice, size, m_in, buf>>
vars == <<main, watchdog, t, card, tty, operatorVars, row, testVars,
          askVars>>

Telemetry == [current_offset : Nat, session_bytes_total : Nat,
              session_bytes_done : Nat, block_bytes_total : Nat,
              block_bytes_done : Nat, error_count : Values,
              current_pass : Nat, current_block : Int,
              is_active : BOOLEAN, stop_requested : BOOLEAN]

Zeroed == [current_offset |-> 0, session_bytes_total |-> 0,
           session_bytes_done |-> 0, block_bytes_total |-> 0,
           block_bytes_done |-> 0, error_count |-> 0, current_pass |-> 0,
           current_block |-> 0, is_active |-> FALSE, stop_requested |-> FALSE]

Questions == {"menu", "block", "size", "confirm", "report"}
Session   == {"arm", "test", "finish", "join"}
Alive     == {"while", "draw", "sleep"}

TypeOK ==
    /\ main \in Questions \cup Session \cup {"start", "quit"}
    /\ watchdog \in Alive \cup {"none", "over"}
    /\ t \in Telemetry /\ choice \in Int /\ size \in 0 .. APERTURE_SIZE
    /\ phase \in 0 .. 4 /\ i \in Nat /\ window \in Nat
    /\ vram \in [Device -> Values] /\ card \in Cards
    /\ keys \in Seq(Keys) /\ hung \in BOOLEAN
    /\ m_in \in Lines /\ buf \in Lines
    /\ tty \in {"cooked", "raw"} /\ row \in Nat

(* m_in and buf are uninitialised stack arrays.  buf is a local of          *)
(* configure_spot_test and empty here when that is not running.             *)
Init ==
    /\ main = "menu" /\ watchdog = "none" /\ t = Zeroed
    /\ choice = 0 /\ size = 0 /\ phase = 0 /\ i = 0 /\ window = 0
    /\ \E v \in Background : vram = [d \in Device |-> v]
    /\ card \in Cards
    /\ keys = <<>> /\ hung = FALSE /\ m_in \in Garbage /\ buf = <<>>
    /\ tty = "cooked" /\ row = 0

-----------------------------------------------------------------------------
(* Questions.  In cooked mode a line is there when Enter has been typed.    *)
LineReady == \E k \in DOMAIN keys : keys[k] = Enter

(* fgets takes the keys before the first Enter, and that Enter.  At the end *)
(* of the input it takes what is left of a line; with nothing left it fails *)
(* and the buffer keeps what it had, one of `old'.                          *)
get_input(old, answer) ==
    \/ \E k \in DOMAIN keys :
        /\ keys[k] = Enter /\ \A j \in 1 .. k - 1 : keys[j] # Enter
        /\ answer = SubSeq(keys, 1, k - 1)
        /\ keys' = SubSeq(keys, k + 1, Len(keys))
    \/ ~LineReady /\ hung /\ keys # <<>> /\ answer = keys /\ keys' = <<>>
    \/ hung /\ keys = <<>> /\ answer \in old /\ UNCHANGED keys

MenuAnswered ==
    /\ main = "menu"
    /\ \E answer \in Lines :
        /\ get_input({m_in}, answer)
        /\ m_in' = answer /\ choice' = Atoi[answer]
        /\ main' = CASE Atoi[answer] = 4          -> "quit"
                     [] Atoi[answer] = 1          -> "block"
                     [] Atoi[answer] \in {2, 3}   -> "start"
                     [] OTHER                     -> "menu"
    /\ t' = [Zeroed EXCEPT !.session_bytes_total = 4 * TOTAL_VRAM_SIZE]
    /\ size' = 0
    /\ UNCHANGED <<watchdog, card, tty, hung, row, testVars, buf>>

BlockAnswered ==
    /\ main = "block"
    /\ \E answer \in Lines :
        LET b == IF answer = <<>> THEN 0 ELSE Atoi[answer] IN
        /\ get_input(Garbage, answer)
        /\ buf' = IF b \in Blocks THEN answer ELSE <<>>
        /\ t' = [t EXCEPT !.current_block = b]
        /\ main' = IF b \in Blocks THEN "size" ELSE "menu"
    /\ UNCHANGED <<watchdog, card, tty, hung, row, testVars, choice,
                   size, m_in>>

parse_size_suffix(line) ==
    IF line = <<>> \/ Strtoull[line] = 0 THEN APERTURE_SIZE
    ELSE (Strtoull[line] * Unit[line]) % U64

(* Mutant of SizeAnswered's clamp: the size is used as it was typed.        *)
Unclamped(bytes) == bytes

Clamped(bytes) == IF bytes > APERTURE_SIZE THEN APERTURE_SIZE ELSE bytes

SizeAnswered ==
    /\ main = "size"
    /\ \E answer \in Lines :
        /\ get_input({buf}, answer)
        /\ buf' = answer
        /\ size' = Clamped(parse_size_suffix(answer))
    /\ main' = "confirm"
    /\ UNCHANGED <<watchdog, t, card, tty, hung, row, testVars, choice,
                   m_in>>

ConfirmAnswered ==
    /\ main = "confirm"
    /\ \E answer \in Lines :
        /\ get_input({buf}, answer)
        /\ buf' = <<>>
        /\ main' = IF answer # <<>> /\ answer[1] \in No THEN "menu" ELSE "start"
    /\ t' = [t EXCEPT !.session_bytes_total = 4 * size]
    /\ UNCHANGED <<watchdog, card, tty, hung, row, testVars, choice,
                   size, m_in>>

ReportDismissed ==
    /\ main = "report"
    /\ \E answer \in Lines : get_input({m_in}, answer) /\ m_in' = answer
    /\ main' = "menu"
    /\ UNCHANGED <<watchdog, t, card, tty, hung, row, testVars, choice,
                   size, buf>>

-----------------------------------------------------------------------------
(* A session.                                                               *)
StartSession ==
    /\ main = "start"
    /\ t' = [t EXCEPT !.is_active = TRUE, !.current_pass = 1]
    /\ size' = IF choice = 1 THEN size ELSE APERTURE_SIZE
    /\ row' = 0
    /\ tty' = "raw"
    /\ watchdog' = "while"
    /\ main' = "arm"
    /\ UNCHANGED <<card, operatorVars, testVars, choice, m_in, buf>>

(* Mutant of ArmWindow: the window stays where it was.                      *)
WindowForgotten ==
    /\ main = "arm"
    /\ t' = [t EXCEPT !.current_offset = t.current_block * APERTURE_SIZE,
                      !.block_bytes_total = 4 * size,
                      !.block_bytes_done = 0]
    /\ phase' = 0 /\ i' = 0 /\ main' = "test"
    /\ UNCHANGED <<watchdog, card, tty, operatorVars, row, vram, window,
                   askVars>>

(* A spot test, or one turn of the block loop, up to the call of            *)
(* run_block_test and its first lines.                                      *)
ArmWindow ==
    /\ main = "arm"
    /\ LET offset == t.current_block * APERTURE_SIZE IN
        /\ t' = [t EXCEPT !.current_offset = offset,
                          !.block_bytes_total = 4 * size,
                          !.block_bytes_done = 0]
        /\ window' = Window(offset)
    /\ phase' = 0 /\ i' = 0 /\ main' = "test"
    /\ UNCHANGED <<watchdog, card, tty, operatorVars, row, vram, askVars>>

Elements == size \div 4

(* What phases 0 and 1 expect in word k of the block.                       *)
AddressOf(k) == (t.current_offset + 4 * k) % U32

(* Mutant of Expected: the last phase verifies the addresses again.         *)
PatternNotExpected(k) == IF phase \in {0, 1, 3} THEN AddressOf(k) ELSE Pattern

Expected(k) == IF phase \in {0, 1} THEN AddressOf(k) ELSE Pattern

Reads(d) == IF card.stuck[d] = Ok THEN vram[card.store[d]] ELSE card.stuck[d]

(* One word is filled or verified, the counters move, and every CheckEvery  *)
(* words one key is taken if one is there.                                  *)
TestWord ==
    /\ main = "test" /\ ~t.stop_requested /\ phase < 4 /\ i < Elements
    /\ LET d     == Cell(window, i)
           wrong == phase \in {1, 3} /\ Reads(d) # Expected(i)
           look  == i % CheckEvery = 0 /\ keys # <<>>
       IN
        /\ vram' = IF phase \in {0, 2}
                   THEN [vram EXCEPT ![card.store[d]] = Expected(i)] ELSE vram
        /\ t' = [t EXCEPT !.error_count = IF wrong THEN (@ + 1) % U32 ELSE @,
                          !.block_bytes_done = @ + 4,
                          !.session_bytes_done = @ + 4,
                          !.stop_requested = look /\ Head(keys) \in Stop]
        /\ keys' = IF look THEN Tail(keys) ELSE keys
    /\ i' = i + 1
    /\ UNCHANGED <<main, watchdog, card, tty, hung, row, askVars, phase,
                   window>>

NextPhase ==
    /\ main = "test" /\ ~t.stop_requested /\ phase < 4 /\ i = Elements
    /\ phase' = phase + 1 /\ i' = 0
    /\ UNCHANGED <<main, watchdog, t, card, tty, operatorVars, row,
                   askVars, window, vram>>

(* Mutant of LoopOver: the loop over the blocks ends one too early.         *)
LastBlockSkipped ==
    t.stop_requested \/ t.current_block + 2 >= TOTAL_BLOCKS

LoopOver == t.stop_requested \/ t.current_block + 1 = TOTAL_BLOCKS

(* Mutant of Again: the do-while does not look at the request to stop.      *)
AgainUnconditionally == choice = 3

Again == choice = 3 /\ ~t.stop_requested

(* Mutant of NextPass: the session counter goes on from the last pass.      *)
CounterKept ==
    /\ t' = [t EXCEPT !.current_pass = (@ + 1) % U32, !.current_block = 0]
    /\ main' = "arm"

NextPass ==
    /\ t' = [t EXCEPT !.current_pass = (@ + 1) % U32, !.current_block = 0,
                      !.session_bytes_done = 0]
    /\ main' = "arm"

LastPass ==
    /\ t' = [t EXCEPT !.current_pass = (@ + 1) % U32]
    /\ main' = "finish"

BlockDone ==
    /\ main = "test" /\ (phase = 4 \/ t.stop_requested)
    /\ CASE choice = 1  -> UNCHANGED t /\ main' = "finish"
         [] choice # 1 /\ ~LoopOver ->
              t' = [t EXCEPT !.current_block = @ + 1] /\ main' = "arm"
         [] choice # 1 /\ LoopOver -> IF Again THEN NextPass ELSE LastPass
    /\ phase' = 0 /\ i' = 0
    /\ UNCHANGED <<watchdog, card, tty, operatorVars, row, window, vram,
                   askVars>>

Finish ==
    /\ main = "finish"
    /\ t' = [t EXCEPT !.is_active = FALSE]
    /\ main' = "join"
    /\ UNCHANGED <<watchdog, card, tty, operatorVars, row, testVars,
                   askVars>>

(* Mutant of Join: pthread_join is left out.                                *)
NotJoined ==
    /\ main = "join"
    /\ tty' = "cooked" /\ row' = row + 2
    /\ main' = "report"
    /\ UNCHANGED <<watchdog, t, card, operatorVars, testVars, askVars>>

Join ==
    /\ main = "join" /\ watchdog = "over"
    /\ tty' = "cooked" /\ row' = row + 2
    /\ main' = "report"
    /\ UNCHANGED <<watchdog, t, card, operatorVars, testVars, askVars>>

MainThread ==
    \/ MenuAnswered \/ BlockAnswered \/ SizeAnswered \/ ConfirmAnswered
    \/ ReportDismissed \/ StartSession \/ ArmWindow \/ TestWord \/ NextPhase
    \/ BlockDone \/ Finish \/ Join

-----------------------------------------------------------------------------
(* The watchdog: `while', draw three lines, sleep, and move back up two     *)
(* rows if the session is still active.                                     *)
(* Mutant of WatchdogLooks: an idle session is skipped, not left.           *)
WatchdogStays ==
    /\ watchdog = "while"
    /\ watchdog' = IF t.is_active THEN "draw" ELSE "sleep"
    /\ UNCHANGED row

WatchdogLooks ==
    /\ watchdog = "while"
    /\ watchdog' = IF t.is_active THEN "draw" ELSE "over"
    /\ UNCHANGED row

WatchdogDraws ==
    /\ watchdog = "draw" /\ watchdog' = "sleep"
    /\ row' = row + 2

(* Mutant of WatchdogWakes: the cursor stays under the lines.               *)
WakesBelow ==
    /\ watchdog = "sleep" /\ watchdog' = "while"
    /\ UNCHANGED row

WatchdogWakes ==
    /\ watchdog = "sleep" /\ watchdog' = "while"
    /\ row' = IF t.is_active THEN row - 2 ELSE row

Watchdog ==
    /\ WatchdogLooks \/ WatchdogDraws \/ WatchdogWakes
    /\ UNCHANGED <<main, t, card, tty, operatorVars, testVars, askVars>>

(* The operator types at any moment; the last place of the bounded queue is *)
(* kept for Enter, which the terminal never refuses.                        *)
Type ==
    /\ ~hung
    /\ \E k \in Keys :
        /\ Len(keys) < MaxKeys - (IF k = Enter THEN 0 ELSE 1)
        /\ keys' = Append(keys, k)
    /\ UNCHANGED <<main, watchdog, t, card, tty, hung, row, testVars,
                   askVars>>

HangUp ==
    /\ MayHangUp /\ ~hung /\ hung' = TRUE
    /\ UNCHANGED <<main, watchdog, t, card, tty, keys, row, testVars,
                   askVars>>

Exited == main = "quit" /\ UNCHANGED vars

Next == MainThread \/ Watchdog \/ Type \/ HangUp \/ Exited

(* Both threads run on a preemptive scheduler and neither holds a lock.     *)
Spec == Init /\ [][Next]_vars /\ WF_vars(MainThread) /\ WF_vars(Watchdog)

-----------------------------------------------------------------------------
(* Properties.                                                              *)

(* What the session tests, and the faults of the card that filling and      *)
(* verifying one block at a time can reveal.                                *)
TestedBlocks == IF choice = 1 THEN {t.current_block} ELSE Blocks

WordsOf(b, count) == {Cell(Window(b * APERTURE_SIZE), k) : k \in 0 .. count - 1}

Tested == UNION {WordsOf(b, Elements) : b \in TestedBlocks}

StuckWords == {d \in Device : card.stuck[d] # Ok}

SharedPlaces(b) ==
    {{d, e} : d, e \in {x \in WordsOf(b, APERTURE_SIZE \div 4) \ StuckWords :
        \E y \in WordsOf(b, APERTURE_SIZE \div 4) \ (StuckWords \cup {x}) :
            card.store[x] = card.store[y]}}

Evidence ==
    {{d} : d \in StuckWords} \cup
    UNION {{pair \in SharedPlaces(b) :
               \E d, e \in pair : d # e /\ card.store[d] = card.store[e]} :
           b \in Blocks}

(* The tester implements VramTester.  Whatever the interleaving of the two  *)
(* threads and the keyboard, a session writes nowhere but in the words it   *)
(* was asked to test, and its report tells a faulty range from a good one   *)
(* (nv_memtest.c:115-134, 170-202, 232-234).                                *)
Promise == INSTANCE VramTester WITH
    state    <- IF main \in Session THEN "testing"
                ELSE IF main = "report" THEN "reported" ELSE "idle",
    range    <- IF main \in Session \cup {"report"} THEN Tested ELSE {},
    verdict  <- IF main # "report" THEN "none"
                ELSE IF t.stop_requested THEN "interrupted"
                ELSE IF t.error_count = 0 THEN "clean" ELSE "faulty",
    memory   <- vram,
    home     <- card.store,
    evidence <- Evidence

ImplementsTester == Promise!Spec

(* The watchdog, which holds a pointer to main's local struct and prints on *)
(* main's screen, lives only inside a session, and the terminal is raw only *)
(* there (nv_memtest.c:176-200, 220).                                       *)
SessionScoped ==
    /\ watchdog \in Alive => main \in Session
    /\ tty = "raw" <=> main \in Session
    /\ t.is_active <=> main \in Session \ {"join"}

(* A card that stores every word in its own place and reads back what was   *)
(* written never scores an error, at any moment of any session              *)
(* (nv_memtest.c:121-127).                                                  *)
Healthy == card.store = [d \in Device |-> d] /\ StuckWords = {}

NoFalseAlarm == Healthy => t.error_count = 0

(* Neither progress bar runs past its end, and a session that completes    *)
(* has gone four times over every word of every block it was to test        *)
(* (nv_memtest.c:117, 129-130, 186, 227-229).                               *)
ProgressAddsUp ==
    /\ main \in Session \cup {"report"} =>
          /\ t.session_bytes_done <= t.session_bytes_total
          /\ t.block_bytes_done <= t.block_bytes_total
    /\ main = "report" /\ ~t.stop_requested =>
          t.session_bytes_done = 16 * Elements * Cardinality(TestedBlocks)

(* Each time the watchdog draws its lines it does so where it drew them     *)
(* before: every move down is undone by a move up (nv_memtest.c:71-87),     *)
(* whenever main ends the session.                                          *)
RedrawnInPlace == watchdog = "draw" => row = 0

(* A stop key that was typed during a session, or before it and not read,   *)
(* ends it, the perpetual one too, and the terminal is given back: the loop *)
(* looks at one key at a time but goes on looking (nv_memtest.c:93-101,     *)
(* 131, 195, 198-200).                                                      *)
StopTyped == \E k \in DOMAIN keys : keys[k] \in Stop

StopHonoured == (main \in Session /\ StopTyped) ~> tty = "cooked"

(* A session that has an end reaches it without the operator's help: main   *)
(* never waits for a watchdog that waits for main (nv_memtest.c:198-199).   *)
SessionEnds == (main \in Session /\ choice # 3) ~> main = "report"
=============================================================================
