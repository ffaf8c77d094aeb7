------------------------------ MODULE GpuTools ------------------------------
(***************************************************************************)
(* Processes that run the bring-up tools over one card: src/nv_*.c.  The   *)
(* operator may start a tool while another runs (a second terminal, or the *)
(* shell's own commands); nothing in the code arbitrates between them.     *)
(*                                                                         *)
(* The card is external.  It answers only where BAR0 is pinned, with its   *)
(* memory decoding on and the bus not in reset; what does not reach it     *)
(* reads as all ones and is lost when written.  It may refuse writes to    *)
(* some registers, and clear engine bits by itself ("Hardware watchdog     *)
(* still overriding writes", src/nv_gpu_persistence.c).                    *)
(***************************************************************************)
EXTENDS GpuPrograms, FiniteSets

CONSTANTS
    Process,        \* the terminals tools are started from
    Tools,          \* the tools that are run
    MaxRuns,        \* bound: how many runs are started
    MaxTrouble,     \* bound: how often the card clears bits, or a run's ioctls fail
    Engines,        \* what ENABLE may hold at first
    Pins,           \* where BAR0 may be at first
    Refusals        \* the sets of registers that may refuse writes

ASSUME ToolsAssumption ==
    /\ Tools \subseteq DOMAIN Program /\ MaxRuns \in Nat /\ MaxTrouble \in Nat
    /\ Engines \subseteq SUBSET Bits /\ Pins \subseteq {AC000000, AD000000}
    /\ Refusals \subseteq SUBSET Engine

VARIABLES
    regs,        \* the registers of the card and of configuration space
    lockout,     \* the falcon's registers read 0xBADF5040
    refuses,     \* registers whose writes do not stick
    memory,      \* what has been copied to 0x88000000
    tool, pc,    \* per process: the tool it runs, the next instruction; 0: none
    local,       \* per process: the tool's local variables
    verdict,     \* per process: what the tool has printed
    others,      \* history, per process: tools that ran during the run
    before,      \* history, per process: MAILBOX0 when the run was started
    trouble,     \* history, per process: what went wrong during the run
    kept,        \* history: the engines on at first; none once nv_gsp_force is started
    runs, troubles

card  == <<regs, lockout, refuses, memory>>
hist  == <<others, before, trouble, kept, runs, troubles>>
vars  == <<card, tool, pc, local, verdict, hist>>

Locals == {"rmw", "pm_val", "original_ctrl", "pi_data", "cmd", "gpu_cfg", "status",
           "falcon_id", "en_val", "reset_val", "result", "gsp_status", "pmc_enable",
           "final_status", "initial", "id", "check", "zero", "mbox0", "pmc_reset"}
Troubles == {"silent", "refuses", "cleared", "ioctl"}
Running == {p \in Process : pc[p] # 0}

TypeOK ==
    /\ regs \in [Regs -> SUBSET Bits] /\ lockout \in BOOLEAN
    /\ refuses \in Refusals /\ memory \subseteq {"manifest", "firmware"}
    /\ tool \in [Process -> Tools \cup {"none"}]
    /\ pc \in [Process -> Nat]
    /\ \A p \in Running : tool[p] \in Tools /\ pc[p] \in DOMAIN Program[tool[p]]
    /\ local \in [Process -> [Locals -> SUBSET Bits]]
    /\ verdict \in [Process -> {"none", "success", "failure"}]
    /\ others \in [Process -> SUBSET Tools] /\ before \in [Process -> SUBSET Bits]
    /\ trouble \in [Process -> SUBSET Troubles]
    /\ kept \subseteq Bits /\ runs \in 0 .. MaxRuns /\ troubles \in 0 .. MaxTrouble

Init ==
    /\ lockout \in BOOLEAN /\ refuses \in Refusals
    /\ \E enable \in Engines, pin \in Pins :
       /\ kept = enable
       /\ regs = [r \in Regs |->
                  CASE r = "ENABLE" -> enable
                    [] r = "GPU_BAR0" -> pin
                    [] r \in {"GPU_COMMAND", "ROOT_COMMAND"} -> {1, 2}
                    [] r = "GPP_D22" -> {0}
                    [] r = "BRIDGE" -> IF lockout THEN BADF5040 ELSE {0}
                    [] r \in {"BOOT_0", "FALCON", "ID", "GPU_ID"} -> {0, 7}
                    [] OTHER -> {}]
    /\ memory = {} /\ runs = 0 /\ troubles = 0
    /\ tool = [p \in Process |-> "none"] /\ pc = [p \in Process |-> 0]
    /\ local = [p \in Process |-> [x \in Locals |-> {}]]
    /\ verdict = [p \in Process |-> "none"]
    /\ others = [p \in Process |-> {}] /\ before = [p \in Process |-> {}]
    /\ trouble = [p \in Process |-> {}]

-----------------------------------------------------------------------------
(* The card and the bus.                                                    *)
InReset == 22 \in regs["ROOT_CONTROL"]

Answers(base, r) ==
    CASE r \in Board      -> TRUE
      [] r \in GpuConfig  -> ~InReset
      [] OTHER -> ~InReset /\ regs["GPU_BAR0"] = base /\ 1 \in regs["GPU_COMMAND"]

ReadOf(base, r) ==
    IF ~Answers(base, r) THEN Ones
    ELSE IF r \in Falcon /\ lockout THEN BADF5040
    ELSE regs[r]

Lands(base, r) ==
    /\ Answers(base, r)
    /\ r \in Falcon => ~lockout
    /\ r \notin refuses \cup {"BOOT_0"}

(* A reset of the bus takes the card's configuration with it; the golden    *)
(* key may end a lockout.                                                   *)
Write(base, r, v) ==
    /\ regs' = IF ~Lands(base, r) THEN regs
               ELSE IF r = "ROOT_CONTROL" /\ 22 \in v
               THEN [regs EXCEPT ![r] = v, !["GPU_COMMAND"] = {}, !["GPU_BAR0"] = {}]
               ELSE [regs EXCEPT ![r] = v]
    /\ lockout' \in IF r = "HOST_KEY" /\ Lands(base, r) THEN {lockout, FALSE} ELSE {lockout}
    /\ UNCHANGED <<refuses, memory>>

(* The falcon takes a halt and says so.                                     *)
HaltTaken ==
    /\ 1 \in regs["HALT"] /\ regs["STATUS"] = {}
    /\ regs' = [regs EXCEPT !["STATUS"] = {1, 2}]
    /\ UNCHANGED <<lockout, refuses, memory, tool, pc, local, verdict, hist>>

(* The card turns the tools' engines off or puts them back in reset.        *)
ClearedByCard ==
    /\ troubles < MaxTrouble /\ troubles' = troubles + 1
    /\ \E r \in {"ENABLE", "RESET"} : regs' = [regs EXCEPT ![r] = @ \ {17, 18, 19}]
    /\ trouble' = [p \in Process |-> trouble[p] \cup IF p \in Running THEN {"cleared"} ELSE {}]
    /\ UNCHANGED <<lockout, refuses, memory, tool, pc, local, verdict, others, before, kept, runs>>

-----------------------------------------------------------------------------
(* A run of a tool.                                                         *)
(* p goes on at instruction n with the locals l, or ends and gives them up. *)
NoLocals == [x \in Locals |-> {}]
GoWith(p, n, l) ==
    LET on == n \in DOMAIN Program[tool[p]]
    IN  /\ pc' = [pc EXCEPT ![p] = IF on THEN n ELSE 0]
        /\ local' = [local EXCEPT ![p] = IF on THEN l ELSE NoLocals]
Goto(p, n) == GoWith(p, n, local[p])

Silent(t) ==
    IF t \in PciTools THEN InReset
    ELSE ~Answers(MappedAt(t), "ENABLE") \/ lockout

Start(p, t) ==
    /\ pc[p] = 0 /\ runs < MaxRuns
    /\ runs' = runs + 1
    /\ tool' = [tool EXCEPT ![p] = t] /\ pc' = [pc EXCEPT ![p] = 1]
    /\ local' = [local EXCEPT ![p] = NoLocals]
    /\ verdict' = [verdict EXCEPT ![p] = "none"]
    /\ others' = [q \in Process |->
                    IF q = p THEN {tool[s] : s \in Running}
                    ELSE IF q \in Running THEN others[q] \cup {t} ELSE others[q]]
    /\ before' = [before EXCEPT ![p] = regs["MAILBOX0"]]
    /\ trouble' = [trouble EXCEPT ![p] = (IF Silent(t) THEN {"silent"} ELSE {})
                                             \cup IF refuses # {} THEN {"refuses"} ELSE {}]
    /\ kept' = IF t = "nv_gsp_force" THEN {} ELSE kept
    /\ UNCHANGED <<card, troubles>>

At(p, op) == pc[p] # 0 /\ Program[tool[p]][pc[p]].op = op
Instr(p)  == Program[tool[p]][pc[p]]
True(p)   == Holds(Instr(p).cond, local[p][Instr(p).cond.local])

LoadReg(p) ==
    /\ At(p, "load")
    /\ GoWith(p, pc[p] + 1, [local[p] EXCEPT ![Instr(p).local] =
                                ReadOf(MappedAt(tool[p]), Instr(p).reg)])
    /\ UNCHANGED <<card, tool, verdict, hist>>

SetReg(p) ==
    /\ At(p, "set")
    /\ Write(MappedAt(tool[p]), Instr(p).reg, Instr(p).value)
    /\ Goto(p, pc[p] + 1)
    /\ UNCHANGED <<tool, verdict, hist>>

Written(p) == (local[p][Instr(p).local] \cup Instr(p).on) \ Instr(p).off

PutReg(p) ==
    /\ At(p, "put")
    /\ Write(MappedAt(tool[p]), Instr(p).reg, Written(p))
    /\ Goto(p, pc[p] + 1)
    /\ UNCHANGED <<tool, verdict, hist>>

PciReadReg(p) ==
    /\ At(p, "pci read")
    /\ LET v == ReadOf({}, Instr(p).reg)
       IN  GoWith(p, pc[p] + 1, [local[p] EXCEPT !.pi_data = v, ![Instr(p).local] = v])
    /\ UNCHANGED <<card, tool, verdict, hist>>

PciWriteReg(p) ==
    /\ At(p, "pci write")
    /\ Write({}, Instr(p).reg, Written(p))
    /\ GoWith(p, pc[p] + 1, [local[p] EXCEPT !.pi_data = Written(p)])
    /\ UNCHANGED <<tool, verdict, hist>>

(* Once one ioctl of a run has failed, any later one may.  Before the first *)
(* call pi_data is what the stack holds.                                    *)
PciFails(p) ==
    /\ At(p, "pci read") \/ At(p, "pci write")
    /\ \/ "ioctl" \in trouble[p] /\ UNCHANGED troubles
       \/ troubles < MaxTrouble /\ troubles' = troubles + 1
    /\ trouble' = [trouble EXCEPT ![p] = @ \cup {"ioctl"}]
    /\ LET next == pc[p] + 1 + Instr(p).then
       IN  IF At(p, "pci write")
           THEN GoWith(p, next, [local[p] EXCEPT !.pi_data = Written(p)])
           ELSE \E v \in IF pc[p] = 1 THEN {{}, Ones} ELSE {local[p].pi_data} :
                  GoWith(p, next, [local[p] EXCEPT !.pi_data = v, ![Instr(p).local] = v])
    /\ UNCHANGED <<card, tool, verdict, others, before, kept, runs>>

CopyToMemory(p) ==
    /\ At(p, "copy")
    /\ memory' = memory \cup {Instr(p).what}
    /\ Goto(p, pc[p] + 1)
    /\ UNCHANGED <<regs, lockout, refuses, tool, verdict, hist>>

Skip(p) ==
    /\ At(p, "only if")
    /\ Goto(p, IF True(p) THEN pc[p] + 1 ELSE pc[p] + 1 + Instr(p).length)
    /\ UNCHANGED <<card, tool, verdict, hist>>

Exit(p) ==
    /\ \/ At(p, "exit if") /\ Goto(p, IF True(p) THEN 0 ELSE pc[p] + 1)
       \/ At(p, "may stop") /\ \E n \in {0, pc[p] + 1} : Goto(p, n)
       \/ At(p, "may skip") /\ \E n \in {0, Instr(p).length} : Goto(p, pc[p] + 1 + n)
    /\ UNCHANGED <<card, tool, verdict, hist>>

Says(p) ==
    /\ At(p, "report")
    /\ verdict' = [verdict EXCEPT ![p] = IF True(p) THEN "success" ELSE "failure"]
    /\ Goto(p, pc[p] + 1)
    /\ UNCHANGED <<card, tool, hist>>

Run(p) ==
    \/ LoadReg(p) \/ SetReg(p) \/ PutReg(p) \/ CopyToMemory(p)
    \/ PciReadReg(p) \/ PciWriteReg(p) \/ PciFails(p) \/ Skip(p) \/ Exit(p) \/ Says(p)

Next ==
    \/ HaltTaken \/ ClearedByCard
    \/ \E p \in Process : Run(p) \/ \E t \in Tools : Start(p, t)

Spec == Init /\ [][Next]_vars

-----------------------------------------------------------------------------
(* Properties.                                                              *)
Steps(p, t) == pc[p] # 0 /\ tool[p] = t /\ pc'[p] # pc[p]

(* "Put the unit in reset BEFORE disabling power", "Re-electrify the gates  *)
(* while STILL in reset" (nv_load_gsp.c:37, :46): the loader switches the   *)
(* GSP's power, on or off, only while its reset is held, whatever tools run *)
(* beside it, unless they are another loader or move BAR0 under it.         *)
ScrubInReset ==
    [][\A p \in Process :
         /\ Steps(p, "nv_load_gsp")
         /\ others[p] \cap (PciTools \cup {"nv_load_gsp"}) = {}
         /\ \E r \in {"ENABLE", "ENABLE_2"} : (31 \in regs[r]) # (31 \in regs'[r])
         => 31 \notin regs["UNIT_RESET"]]_vars

(* No engine that is on at first is turned off but the GSP, SEC2 and the    *)
(* two bits beside them (14, 17, 18, 19 and 31 in the tools' numberings),   *)
(* however the tools' read-modify-writes interleave and whatever the bus    *)
(* answers meanwhile, unless nv_gsp_force, which assigns the whole          *)
(* register, has been started (nv_gsp_force.c:56).                          *)
ToolBits == {14, 17, 18, 19, 31}

EnginesKept == kept \ ToolBits \subseteq regs["ENABLE"]

(* When the loader starts the falcon, its mailboxes point to a manifest     *)
(* that is in memory with its firmware, and the RISC-V version is set       *)
(* (nv_load_gsp.c:112-120), unless another tool has used the mailbox as     *)
(* scratch meanwhile or moved BAR0.                                         *)
BootArguments ==
    [][\A p \in Process :
         /\ Steps(p, "nv_load_gsp")
         /\ others[p] \cap (PciTools \cup MailboxTools) = {}
         /\ 0 \notin regs["CPUCTL"] /\ 0 \in regs'["CPUCTL"]
         => /\ regs["MAILBOX0"] = MANIFEST_AT /\ regs["MAILBOX1"] = {}
            /\ regs["OS"] = {0} /\ memory = {"manifest", "firmware"}]_vars

(* nv_falcon_test leaves scratch 0 as it found it ("Restore",               *)
(* nv_falcon_test.c:65), whether its pattern stuck or not, unless another   *)
(* tool has used the mailbox meanwhile or moved BAR0.                       *)
ScratchRestored ==
    [][\A p \in Process :
         /\ Steps(p, "nv_falcon_test") /\ pc'[p] = 0
         /\ others[p] \cap (PciTools \cup MailboxTools) = {}
         => regs'["MAILBOX0"] = before[p]]_vars

(* A tool that blames the hardware is right: run alone on a card that lets  *)
(* it write, none of the nine that store what they then look for reports a  *)
(* failure.  nv_gsp_status, nv_gsp_pulse and nv_pmc_full_audit look for     *)
(* what the falcon does, which need not have answered yet.                  *)
Verifying == {"nv_gsp_wake", "nv_gpu_persistence", "nv_gpu_master_key", "nv_gpu_handshake",
              "prime_ignite", "nv_gsp_force", "nv_falcon_test",
              "nv_gpu_repin", "nv_gpu_open_valves"}
AloneSucceeds ==
    \A p \in Process :
        verdict[p] = "failure" /\ tool[p] \in Verifying /\ others[p] = {} => trouble[p] # {}

(* A tool that reports success is right, though writes did not stick or     *)
(* ioctls failed (a failed read leaves the last value written in pi_data,   *)
(* nv_gpu_open_valves.c:64): run alone on a card that answers and does not  *)
(* clear bits meanwhile, all that it claims of the registers it has looked  *)
(* at is so.  One claim is made of a register the tool never looks at: see  *)
(* ValvesLive.                                                              *)
LooksAt(t, r) ==
    \E n \in DOMAIN Program[t] :
        Program[t][n].op \in {"load", "pci read"} /\ Program[t][n].reg = r

AloneHonest ==
    [][\A p \in Process :
         /\ verdict'[p] # verdict[p] /\ verdict'[p] = "success"
         /\ others[p] = {} /\ trouble[p] \subseteq {"refuses", "ioctl"}
         => \A c \in Claims(tool[p]) :
                LooksAt(tool[p], c.local) => Holds(c, regs[c.local])]_vars

(* nv_pci_wake holds the bus in reset for 100 ms, and a second one may read *)
(* the bridge's control word meanwhile: whoever of them ends last leaves    *)
(* the bus released, unless one of its own writes failed                    *)
(* (nv_pci_wake.c:84, :99).                                                 *)
BusReleased ==
    [][\A p \in Process :
         /\ Steps(p, "nv_pci_wake") /\ pc'[p] = 0 /\ "ioctl" \notin trouble'[p]
         /\ InReset'
         => \E q \in Process : pc'[q] # 0 /\ tool[q] = "nv_pci_wake"]_vars

(* "Path unlocked. Hardware reachable at 0xAD000000." (gpu_ghost_probe.c:   *)
(* 108): when the probe ends there, the card answers at that address,       *)
(* whether or not the other functions were awake, unless another tool       *)
(* changed the configuration meanwhile.                                     *)
PathUnlocked ==
    [][\A p \in Process :
         /\ Steps(p, "gpu_ghost_probe") /\ pc[p] = Len(Program["gpu_ghost_probe"])
         /\ others[p] \cap PciTools = {}
         => Answers(AD000000, "BOOT_0")']_vars

(* "SUCCESS: The GSP Engine is Powered and Enabled." (nv_gsp_wake.c:79).    *)
SuccessIsPowered ==
    [][\A p \in Process :
         /\ Steps(p, "nv_gsp_wake") /\ verdict'[p] # verdict[p] /\ verdict'[p] = "success"
         => 19 \in regs["ENABLE"]]_vars

(* "SUCCESS: The valves are open. MMIO (0xac000000) is now live."           *)
(* (nv_gpu_open_valves.c:69).                                               *)
ValvesLive ==
    [][\A p \in Process :
         /\ Steps(p, "nv_gpu_open_valves") /\ verdict'[p] # verdict[p] /\ verdict'[p] = "success"
         => Answers(AC000000, "BOOT_0")]_vars
=============================================================================
