----------------------------- MODULE MCEcProbe -----------------------------
(***************************************************************************)
(* EcProbe for TLC: three terminals.                                       *)
(***************************************************************************)
EXTENDS EcProbe

MCOffsets == <<"0x5F", "0xED">>
=============================================================================
