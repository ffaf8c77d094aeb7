------------------------------ MODULE EcProbe ------------------------------
(***************************************************************************)
(* src/ec_probe.c: two bytes of the embedded controller are read through   *)
(* its command port 0x66 and its data port 0x62.  A probe may be killed    *)
(* (its waits have no limit) and several may run: nothing locks the ports. *)
(*                                                                         *)
(* A byte of the controller is represented by the offset it is kept at.    *)
(* The controller is external.  It has one place for what is written to it *)
(* (IBF) and one for its answer (OBF), which it fills whether or not the   *)
(* last answer was read.                                                   *)
(***************************************************************************)
EXTENDS Integers, Sequences

CONSTANTS
    Process,      \* the terminals a probe may be started from
    Offsets,      \* what main reads, in this order: 0x5F, 0xED
    MaxRuns,      \* bound: how many probes are started
    MaxKills      \* bound: how many of them are killed

ASSUME EcAssumption ==
    /\ Offsets \in Seq(STRING \ {"none", "read"}) \ {<<>>}
    /\ MaxRuns \in Nat /\ MaxKills \in Nat

VARIABLES
    input,        \* written and not yet taken: "none", "read" or an offset
    output, full, \* the answer in the output buffer; not read yet
    reading,      \* the controller has a read command and waits for the offset
    owed,         \* the offset it is about to answer, or "none"
    pc, answer,   \* per process: the next port access (0: none); what it has read
    spoiled,      \* history, per process: others used the ports, or had left an answer
    runs, kills

ec   == <<input, output, full, reading, owed>>
vars == <<ec, pc, answer, spoiled, runs, kills>>

Offset == {Offsets[i] : i \in DOMAIN Offsets}
Running(p) == pc[p] # 0

TypeOK ==
    /\ input \in {"none", "read"} \cup Offset /\ owed \in {"none"} \cup Offset
    /\ output \in {"none"} \cup Offset /\ full \in BOOLEAN /\ reading \in BOOLEAN
    /\ pc \in [Process -> 0 .. 6 * Len(Offsets)] /\ spoiled \in [Process -> BOOLEAN]
    /\ answer \in [Process -> Seq({"none"} \cup Offset)]
    /\ runs \in 0 .. MaxRuns /\ kills \in 0 .. MaxKills

Init ==
    /\ input = "none" /\ output = "none" /\ owed = "none"
    /\ full = FALSE /\ reading = FALSE
    /\ pc = [p \in Process |-> 0] /\ answer = [p \in Process |-> <<>>]
    /\ spoiled = [p \in Process |-> FALSE] /\ runs = 0 /\ kills = 0

-----------------------------------------------------------------------------
(* The controller.                                                          *)
EcTakes ==
    /\ input # "none" /\ owed = "none"
    /\ input' = "none"
    /\ reading' = (input = "read")
    /\ owed' = IF reading /\ input # "read" THEN input ELSE "none"
    /\ UNCHANGED <<output, full, pc, answer, spoiled, runs, kills>>

EcAnswers ==
    /\ owed # "none"
    /\ output' = owed /\ full' = TRUE /\ owed' = "none"
    /\ UNCHANGED <<input, reading, pc, answer, spoiled, runs, kills>>

(* An answer that nobody has read, or that is bound to come.                *)
AnswerDue == full \/ owed # "none" \/ (reading /\ input \in Offset)

-----------------------------------------------------------------------------
(* A probe.  The k-th call of read_ec takes the six accesses 6k+1 .. 6k+6.  *)
At(p, access) == Running(p) /\ (pc[p] - 1) % 6 = access
Addr(p)       == Offsets[(pc[p] - 1) \div 6 + 1]

(* Mutant of Onward: a third call of read_ec.                               *)
OnceMore(p)   == pc' = [pc EXCEPT ![p] = @ + 1]
Onward(p)     == pc' = [pc EXCEPT ![p] = (@ + 1) % (6 * Len(Offsets) + 1)]

Start(p) ==
    /\ ~Running(p) /\ runs < MaxRuns
    /\ runs' = runs + 1
    /\ pc' = [pc EXCEPT ![p] = 1] /\ answer' = [answer EXCEPT ![p] = <<>>]
    /\ LET overlap == \E q \in Process : Running(q)
       IN  spoiled' = [q \in Process |->
                         IF q = p THEN overlap \/ AnswerDue ELSE spoiled[q] \/ Running(q)]
    /\ UNCHANGED <<ec, kills>>

(* Mutant of wait_ec_ibf: the bit is looked at once and not waited for.     *)
LookAtIbf(p) ==
    /\ At(p, 0) \/ At(p, 2)
    /\ Onward(p)
    /\ UNCHANGED <<ec, answer, spoiled, runs, kills>>

wait_ec_ibf(p) ==
    /\ (At(p, 0) \/ At(p, 2)) /\ input = "none"
    /\ Onward(p)
    /\ UNCHANGED <<ec, answer, spoiled, runs, kills>>

outb(p) ==
    /\ At(p, 1) \/ At(p, 3)
    /\ input' = IF At(p, 1) THEN "read" ELSE Addr(p)
    /\ Onward(p)
    /\ UNCHANGED <<output, full, reading, owed, answer, spoiled, runs, kills>>

(* Mutant of wait_ec_obf: no wait.                                          *)
NoWaitForObf(p) ==
    /\ At(p, 4)
    /\ Onward(p)
    /\ UNCHANGED <<ec, answer, spoiled, runs, kills>>

wait_ec_obf(p) ==
    /\ At(p, 4) /\ full
    /\ Onward(p)
    /\ UNCHANGED <<ec, answer, spoiled, runs, kills>>

inb(p) ==
    /\ At(p, 5)
    /\ answer' = [answer EXCEPT ![p] = Append(@, output)]
    /\ full' = FALSE
    /\ Onward(p)
    /\ UNCHANGED <<input, output, reading, owed, spoiled, runs, kills>>

(* The operator interrupts a probe that seems to hang.                      *)
Kill(p) ==
    /\ Running(p) /\ kills < MaxKills
    /\ kills' = kills + 1
    /\ pc' = [pc EXCEPT ![p] = 0]
    /\ UNCHANGED <<ec, answer, spoiled, runs>>

read_ec(p) == wait_ec_ibf(p) \/ outb(p) \/ wait_ec_obf(p) \/ inb(p)

Next ==
    \/ EcTakes \/ EcAnswers
    \/ \E p \in Process : Start(p) \/ read_ec(p) \/ Kill(p)

(* The controller serves its ports, and a probe is scheduled.               *)
Spec ==
    /\ Init /\ [][Next]_vars
    /\ WF_vars(EcTakes) /\ WF_vars(EcAnswers)
    /\ \A p \in Process : WF_vars(read_ec(p))

-----------------------------------------------------------------------------
(* Properties.                                                              *)
Done(p) == ~Running(p) /\ Len(answer[p]) = Len(Offsets)

(* "TMMD (Offset 0x5F)", "SKID (Offset 0xED)" (ec_probe.c:44): a probe that *)
(* had the ports to itself, and was not left an answer by one killed        *)
(* between its address and its read, prints each byte under its own name;   *)
(* probes killed anywhere else do no harm.                                  *)
RightLabels == \A p \in Process : Done(p) /\ ~spoiled[p] => answer[p] = Offsets

(* The waits have no limit (ec_probe.c:16, :20): a probe that has the ports *)
(* to itself comes through them, whatever killed probes left half said.     *)
ProbeEnds ==
    \A p \in Process :
        (Running(p) /\ ~spoiled[p]) ~> (~Running(p) \/ spoiled[p])
=============================================================================
