----------------------------- MODULE MCGpuTools -----------------------------
(***************************************************************************)
(* GpuTools for TLC: two terminals and every tool.  ENABLE starts with the *)
(* display and FIFO (bits 30 and 8) on, and with the GSP off or on.        *)
(***************************************************************************)
EXTENDS GpuTools

CONSTANTS p1, p2

MCProcess  == {p1, p2}
MCTools    == DOMAIN Program
MCEngines  == {{8, 30}, {8, 30, 31}}
MCPins     == {AC000000, AD000000}
MCRefusals == {{}, {"RESET", "ENABLE"}}
Symmetry   == Permutations(MCProcess)

(* The probe that pins BAR0 at 0xAD000000 and a tool that maps 0xAC000000,  *)
(* or says that it is live.                                                 *)
OneTerminal    == {p1}
ProbeThenWake  == {"gpu_ghost_probe", "nv_gsp_wake"}
ProbeThenOpen  == {"gpu_ghost_probe", "nv_gpu_open_valves"}
PinnedLow      == {AC000000}
NoRefusal      == {{}}
=============================================================================
