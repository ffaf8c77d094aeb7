---------------------------- MODULE GpuPrograms ----------------------------
(***************************************************************************)
(* The bring-up tools as programs: what each main of src/nv_*.c and        *)
(* src/prime_ignite.c loads from and stores to the registers of the card   *)
(* and of PCI configuration space, in the order of the source.             *)
(*                                                                         *)
(* A register value is the set of its one bits.  A program is a sequence   *)
(* of instructions; a read-modify-write (|=, &=) is two of them.  Prints,  *)
(* delays and values that are only printed are left out.  The registers    *)
(* are named as in src/dev/turing_pmc.h and turing_gsp.h.                  *)
(***************************************************************************)
EXTENDS Integers, SequencesExt

Bits == 0 .. 31
Ones == Bits                                          \* 0xFFFFFFFF
Bytes4(b0, b1, b2, b3) ==                             \* bits of each byte
    b0 \cup {8 + i : i \in b1} \cup {16 + i : i \in b2} \cup {24 + i : i \in b3}
BADF5040 == Bytes4({6}, {4, 6}, 0 .. 7 \ {5}, {1, 3, 4, 5, 7})
A5A5A5A5 == {i \in Bits : i % 8 \in {0, 2, 5, 7}}
DEADBEEF == Bytes4(0 .. 7 \ {4}, {1, 2, 3, 4, 5, 7}, {0, 2, 3, 5, 7}, 1 .. 7 \ {5})
MANIFEST_AT == {27, 31}                               \* 0x88000000
AC000000 == Bytes4({}, {}, {}, {2, 3, 5, 7})
AD000000 == AC000000 \cup {24}

(* Configuration space, the card's registers, and among them the falcon's.  *)
(* The board's: configuration of the root port and the sideband bridge, and *)
(* the pads of the GPU's power and reset pins.                              *)
GpuConfig == {"GPU_ID", "GPU_COMMAND", "GPU_BAR0", "GPU_ROM", "GPU_PM", "USB_PM", "UCSI_PM"}
Board     == {"ROOT_COMMAND", "ROOT_WINDOW", "ROOT_CONTROL", "ROOT_PM", "ROOT_PM_CAP",
              "LNK_CON", "LNK_TRN", "P2SB_CONTROL", "GPP_G19", "GPP_D22"}
Falcon == {"FALCON", "MAILBOX0", "MAILBOX1", "OS", "CPUCTL", "HALT", "ID", "STATUS"}
Engine == {"BOOT_0", "INTR_EN_0", "RESET", "RESET_MASK", "ENABLE", "UNIT_RESET",
           "BRIDGE", "ENABLE_2", "ENABLE_CONTROL", "VGA_MASTER_CTRL", "HOST_KEY",
           "ELCG_DIS", "PWR_MGMT_CTRL", "ID_B", "SCRATCH_B", "ID_SEC2", "SCRATCH_SEC2"}
Regs == GpuConfig \cup Board \cup Falcon \cup Engine

-----------------------------------------------------------------------------
(* Instructions.                                                            *)
Load(x, r)         == <<[op |-> "load", local |-> x, reg |-> r]>>
Set(r, v)          == <<[op |-> "set", reg |-> r, value |-> v]>>
Put(r, x, on, off) == <<[op |-> "put", reg |-> r, local |-> x, on |-> on, off |-> off]>>
Or(r, b)           == Load("rmw", r) \o Put(r, "rmw", b, {})
AndNot(r, b)       == Load("rmw", r) \o Put(r, "rmw", {}, b)
Copy(what)         == <<[op |-> "copy", what |-> what]>>
MayStop            == <<[op |-> "may stop"]>>
MaySkip(body)      == <<[op |-> "may skip", length |-> Len(body)]>> \o body

(* An ioctl on /dev/pci0 moves a value through pio.pi_data and may fail.    *)
(* `then' is how many instructions a failure passes over; a failed read     *)
(* leaves pi_data as it was, a failed write as it was to be written.        *)
Quit == 99
PciRead(x, r, then)           == <<[op |-> "pci read", local |-> x, reg |-> r, then |-> then]>>
PciWrite(r, x, on, off, then) ==
    <<[op |-> "pci write", reg |-> r, local |-> x, on |-> on, off |-> off, then |-> then]>>

Meets(x, b)  == [local |-> x, is |-> "meets", arg |-> b]      \* x & b
Misses(x, b) == [local |-> x, is |-> "misses", arg |-> b]     \* !(x & b)
Among(x, s)  == [local |-> x, is |-> "among", arg |-> s]
Other(x, s)  == [local |-> x, is |-> "other", arg |-> s]
Holds(c, v) ==
    CASE c.is = "meets"  -> v \cap c.arg # {}
      [] c.is = "misses" -> v \cap c.arg = {}
      [] c.is = "among"  -> v \in c.arg
      [] c.is = "other"  -> v \notin c.arg

ExitIf(c)       == <<[op |-> "exit if", cond |-> c]>>
OnlyIf(c, body) == <<[op |-> "only if", cond |-> c, length |-> Len(body)]>> \o body
Report(c)       == <<[op |-> "report", cond |-> c]>>          \* SUCCESS when c

-----------------------------------------------------------------------------
(* Configuration space.                                                     *)

(* Mutant of nv_pci_wake: the release puts back what was read.              *)
WakeRestores ==
    PciRead("pm_val", "ROOT_PM_CAP", Quit)
    \o OnlyIf(Meets("pm_val", {0, 1}), PciWrite("ROOT_PM_CAP", "pm_val", {}, {0, 1}, 0))
    \o PciRead("original_ctrl", "ROOT_CONTROL", Quit)
    \o PciWrite("ROOT_CONTROL", "original_ctrl", {22}, {}, 1)
    \o PciWrite("ROOT_CONTROL", "original_ctrl", {}, {}, 0)

nv_pci_wake ==
    PciRead("pm_val", "ROOT_PM_CAP", Quit)
    \o OnlyIf(Meets("pm_val", {0, 1}), PciWrite("ROOT_PM_CAP", "pm_val", {}, {0, 1}, 0))
    \o PciRead("original_ctrl", "ROOT_CONTROL", Quit)
    \o PciWrite("ROOT_CONTROL", "original_ctrl", {22}, {}, 1)
    \o PciWrite("ROOT_CONTROL", "original_ctrl", {}, {22}, 0)

nv_gpu_repin ==
    PciWrite("GPU_BAR0", "zero", AC000000, {}, 0)
    \o PciWrite("ROOT_WINDOW", "zero", Bytes4({}, {2, 3, 5, 7}, {}, {0, 2, 3, 5, 7}), {}, 0)
    \o PciRead("pi_data", "GPU_BAR0", 0) \o Report(Among("pi_data", {AC000000}))

(* Mutant of nv_gpu_open_valves: it reads back after a failed write, too.   *)
ValvesReadBackAnyway ==
    PciRead("cmd", "GPU_COMMAND", 0) \o PciWrite("GPU_COMMAND", "cmd", {1, 2}, {}, 0)
    \o PciRead("pi_data", "GPU_COMMAND", 0) \o Report(Meets("pi_data", {1}))

nv_gpu_open_valves ==
    PciRead("cmd", "GPU_COMMAND", 0) \o PciWrite("GPU_COMMAND", "cmd", {1, 2}, {}, Quit)
    \o PciRead("pi_data", "GPU_COMMAND", 0) \o Report(Meets("pi_data", {1}))

cmd_reg_on ==
    PciRead("pi_data", "GPU_COMMAND", 0)
    \o PciWrite("GPU_COMMAND", "zero", {0, 1, 2}, {}, 0)

(* Mutant of gpu_ghost_probe: it moves BAR0 and leaves the decoding alone.  *)
GhostLeavesDecoding ==
    MaySkip(AndNot("P2SB_CONTROL", {8}))
    \o MayStop \o AndNot("ROOT_PM", {0, 1}) \o Or("ROOT_COMMAND", {1, 2})
    \o MaySkip(AndNot("USB_PM", {0, 1})) \o MaySkip(AndNot("UCSI_PM", {0, 1}))
    \o MayStop \o Load("gpu_cfg", "GPU_ID") \o ExitIf(Among("gpu_cfg", {Ones}))
    \o AndNot("GPU_PM", {0, 1}) \o Set("GPU_BAR0", AD000000) \o AndNot("GPU_ROM", {0})

(* MaySkip: a function that is hidden (all ones) or not mapped.  MayStop:   *)
(* no mapping of the root port, no mapping of the GPU.                      *)
gpu_ghost_probe ==
    MaySkip(AndNot("P2SB_CONTROL", {8}))
    \o MayStop \o AndNot("ROOT_PM", {0, 1}) \o Or("ROOT_COMMAND", {1, 2})
    \o MaySkip(AndNot("USB_PM", {0, 1})) \o MaySkip(AndNot("UCSI_PM", {0, 1}))
    \o MayStop \o Load("gpu_cfg", "GPU_ID") \o ExitIf(Among("gpu_cfg", {Ones}))
    \o AndNot("GPU_PM", {0, 1}) \o Set("GPU_BAR0", AD000000)
    \o Or("GPU_COMMAND", {1, 2}) \o AndNot("GPU_ROM", {0})

motherboard_init ==
    MayStop \o Or("GPP_G19", {0}) \o AndNot("GPP_D22", {0})
    \o MayStop \o AndNot("LNK_CON", {4}) \o Or("LNK_TRN", {0})

-----------------------------------------------------------------------------
(* The loader.  MayStop: no firmware file; no mapping for the copies.       *)
(* Mutant of DeepScrub: the power is cut before the unit is in reset.       *)
PowerCutFirst ==
    AndNot("ENABLE", {31}) \o AndNot("ENABLE_2", {31})
    \o AndNot("UNIT_RESET", {31})
    \o Or("ENABLE", {31}) \o Or("ENABLE_2", {31})
    \o Or("UNIT_RESET", {31})
    \o Set("HOST_KEY", {0}) \o Set("ELCG_DIS", Ones)

DeepScrub ==
    AndNot("UNIT_RESET", {31})
    \o AndNot("ENABLE", {31}) \o AndNot("ENABLE_2", {31})
    \o Or("ENABLE", {31}) \o Or("ENABLE_2", {31})
    \o Or("UNIT_RESET", {31})
    \o Set("HOST_KEY", {0}) \o Set("ELCG_DIS", Ones)

PulseCheck ==
    Load("status", "BRIDGE")
    \o OnlyIf(Among("status", {BADF5040}),
              Load("falcon_id", "FALCON")
              \o ExitIf(Among("falcon_id", {BADF5040, Ones})))

LoadFirmware == MayStop \o MayStop \o Copy("manifest") \o Copy("firmware")

(* Mutant of PointAndShoot: started before the version is set.              *)
ShootAndPoint ==
    Set("MAILBOX0", MANIFEST_AT) \o Set("MAILBOX1", {})
    \o Set("CPUCTL", {0}) \o Set("OS", {0})

PointAndShoot ==
    Set("MAILBOX0", MANIFEST_AT) \o Set("MAILBOX1", {})
    \o Set("OS", {0}) \o Set("CPUCTL", {0})

nv_load_gsp == DeepScrub \o PulseCheck \o LoadFirmware \o PointAndShoot

-----------------------------------------------------------------------------
(* The wake-up tools.                                                       *)

(* Mutant of nv_gsp_wake: powers SEC2 only.                                 *)
WakeSec2Only ==
    Set("ENABLE_CONTROL", {0})
    \o Or("RESET", {18, 19}) \o Or("ENABLE", {18})
    \o Load("en_val", "ENABLE") \o Report(Meets("en_val", {19}))

nv_gsp_wake ==
    Set("ENABLE_CONTROL", {0})
    \o Or("RESET", {18, 19}) \o Or("ENABLE", {18, 19})
    \o Load("en_val", "ENABLE") \o Report(Meets("en_val", {19}))

nv_gpu_master_key ==
    Set("PWR_MGMT_CTRL", {}) \o Set("ENABLE_CONTROL", {0})
    \o Or("ELCG_DIS", {19}) \o Or("RESET_MASK", {19})
    \o Or("RESET", {19}) \o Or("ENABLE", {19})
    \o Load("reset_val", "RESET") \o Report(Meets("reset_val", {19}))

nv_gsp_force ==
    Set("ELCG_DIS", {19}) \o Set("RESET_MASK", {19})
    \o Set("RESET", {19}) \o Set("ENABLE", {19})
    \o Set("MAILBOX0", A5A5A5A5)
    \o Load("result", "MAILBOX0") \o Report(Among("result", {A5A5A5A5}))

(* Mutant of nv_gpu_persistence: "=" for "|=".                              *)
PersistByAssignment ==
    Set("PWR_MGMT_CTRL", {}) \o Set("ELCG_DIS", {0}) \o Or("ELCG_DIS", {18, 19})
    \o Set("ENABLE", {18, 19}) \o Or("RESET", {18, 19})
    \o Load("en_val", "ENABLE") \o Report(Meets("en_val", {19}))

nv_gpu_persistence ==
    Set("PWR_MGMT_CTRL", {}) \o Set("ELCG_DIS", {0}) \o Or("ELCG_DIS", {18, 19})
    \o Or("ENABLE", {18, 19}) \o Or("RESET", {18, 19})
    \o Load("en_val", "ENABLE") \o Report(Meets("en_val", {19}))

nv_gpu_handshake ==
    Set("VGA_MASTER_CTRL", {}) \o Set("INTR_EN_0", {}) \o Set("INTR_EN_0", {0})
    \o Or("RESET", {19})
    \o Load("reset_val", "RESET") \o Report(Meets("reset_val", {19}))

(* Its NV_PMC_DEVICE_RESET is offset 0, the read-only chip identifier.      *)
nv_pmc_full_audit ==
    Or("BOOT_0", {17}) \o Or("ENABLE", {17})
    \o Load("gsp_status", "STATUS") \o Report(Other("gsp_status", {{}}))

nv_gsp_pulse ==
    Load("pmc_enable", "ENABLE")
    \o OnlyIf(Misses("pmc_enable", {17}), Or("ENABLE", {17}))
    \o Set("HALT", {1})
    \o Load("final_status", "STATUS") \o Report(Meets("final_status", {1}))

(* Mutant of prime_ignite: a bit that a register does not have.             *)
IgniteBit32 ==
    Set("ELCG_DIS", Ones) \o Set("VGA_MASTER_CTRL", {})
    \o Or("ENABLE", {14, 32}) \o Or("RESET", {32})

(* The status audit shows the GSP as powered and as released.               *)
prime_dump_status ==
    Load("pmc_enable", "ENABLE") \o Load("pmc_reset", "RESET")
    \o OnlyIf(Meets("pmc_enable", {31}), Report(Meets("pmc_reset", {31})))

prime_ignite ==
    Set("ELCG_DIS", Ones) \o Set("VGA_MASTER_CTRL", {})
    \o Or("ENABLE", {14, 31}) \o Or("RESET", {31}) \o prime_dump_status

(* Mutant of nv_falcon_test: restores what it has read back.                *)
TestKeepsPattern ==
    Load("initial", "MAILBOX0") \o Set("MAILBOX0", DEADBEEF)
    \o Load("result", "MAILBOX0") \o Report(Among("result", {DEADBEEF}))
    \o Put("MAILBOX0", "result", {}, {})

nv_falcon_test ==
    Load("initial", "MAILBOX0") \o Set("MAILBOX0", DEADBEEF)
    \o Load("result", "MAILBOX0") \o Report(Among("result", {DEADBEEF}))
    \o Put("MAILBOX0", "initial", {}, {})

(* "GSP is HALTED, This is the ideal state for a new firmware load."        *)
nv_gsp_status ==
    Load("status", "STATUS") \o Load("mbox0", "MAILBOX0")
    \o OnlyIf(Misses("status", {0}), ExitIf(Among("mbox0", {{}})))
    \o Report(Meets("status", {1}))

probe_base(id, scratch) ==
    Load("id", id)
    \o OnlyIf(Other("id", {{}, Ones}), Set(scratch, A5A5A5A5) \o Load("check", scratch))

nv_falcon_find ==
    probe_base("ID", "MAILBOX0") \o probe_base("ID_B", "SCRATCH_B")
    \o probe_base("ID_SEC2", "SCRATCH_SEC2")

-----------------------------------------------------------------------------
Program ==
    [nv_pci_wake |-> nv_pci_wake, nv_gpu_repin |-> nv_gpu_repin,
     nv_gpu_open_valves |-> nv_gpu_open_valves, cmd_reg_on |-> cmd_reg_on,
     gpu_ghost_probe |-> gpu_ghost_probe, motherboard_init |-> motherboard_init,
     nv_gsp_status |-> nv_gsp_status, nv_load_gsp |-> nv_load_gsp,
     nv_gsp_wake |-> nv_gsp_wake, nv_gpu_master_key |-> nv_gpu_master_key,
     nv_gsp_force |-> nv_gsp_force, nv_gpu_persistence |-> nv_gpu_persistence,
     nv_gpu_handshake |-> nv_gpu_handshake, nv_pmc_full_audit |-> nv_pmc_full_audit,
     nv_gsp_pulse |-> nv_gsp_pulse, prime_ignite |-> prime_ignite,
     nv_falcon_test |-> nv_falcon_test, nv_falcon_find |-> nv_falcon_find]

(* What a tool that reports success says of the card: conditions on its     *)
(* registers, which `local' names here.  That 0xac000000 is live            *)
(* (nv_gpu_open_valves.c:69) is said of the decoding and of BAR0.           *)
Claims(tool) ==
    CASE tool \in {"nv_gsp_wake", "nv_gpu_persistence"}     -> {Meets("ENABLE", {19})}
      [] tool \in {"nv_gpu_master_key", "nv_gpu_handshake"} -> {Meets("RESET", {19})}
      [] tool = "prime_ignite"       -> {Meets("ENABLE", {31}), Meets("RESET", {31})}
      [] tool = "nv_gsp_force"       -> {Among("MAILBOX0", {A5A5A5A5})}
      [] tool = "nv_falcon_test"     -> {Among("MAILBOX0", {DEADBEEF})}
      [] tool \in {"nv_gsp_status", "nv_gsp_pulse"}         -> {Meets("STATUS", {1})}
      [] tool = "nv_pmc_full_audit"  -> {Other("STATUS", {{}})}
      [] tool = "nv_gpu_repin"       -> {Among("GPU_BAR0", {AC000000})}
      [] tool = "nv_gpu_open_valves" -> {Meets("GPU_COMMAND", {1}),
                                         Among("GPU_BAR0", {AC000000})}
      [] OTHER                       -> {}

(* The address at which a tool maps BAR0.                                   *)
MappedAt(tool) == IF tool = "nv_load_gsp" THEN AD000000 ELSE AC000000

(* The configuration tools, and those that write the falcon's first         *)
(* mailbox, which some of them call scratch 0.                              *)
PciTools     == {"nv_pci_wake", "nv_gpu_repin", "nv_gpu_open_valves", "cmd_reg_on",
                 "gpu_ghost_probe"}
MailboxTools == {"nv_load_gsp", "nv_gsp_force", "nv_falcon_test", "nv_falcon_find"}
=============================================================================
