----------------------------- MODULE BarAccess -----------------------------
(***************************************************************************)
(* How a word typed by the operator becomes a register address, and which  *)
(* bytes of the register window (BAR0) a command touches.                  *)
(*                                                                         *)
(* Nothing here has state: these are the pure functions of                 *)
(* src/api/commands.c (resolve_name, get_target_address) and the address   *)
(* arithmetic of its loops.  Addresses are 32-bit unsigned in the code and *)
(* wrap modulo Word here.  A register value is the set of its bits, so     *)
(* that or, and-not and exclusive-or are union, difference and symmetric   *)
(* difference.                                                             *)
(***************************************************************************)
EXTENDS Integers, SequencesExt

CONSTANTS
    Token,         \* the words a command line is made of, case folded
    Word,          \* 2^32: the number of values of a uint32_t
    RANGE_16MB,    \* bytes of BAR0 that are mapped (0x1000000)
    Bits,          \* bit positions of a register, 0..31
    Dictionary,    \* register names of dev/turing_registers.h -> offset
    Strtoul        \* libc: token -> base -> value, 0 when not a number

Addresses == 0 .. Word - 1
InMap     == 0 .. RANGE_16MB - 1
Regs      == 0 .. (RANGE_16MB \div 4) - 1     \* bar0[] indices
RegValue  == SUBSET Bits

(* Every name of the dictionary lies inside the mapped window; the window   *)
(* is a whole number of 32-bit registers and smaller than the number space. *)
ASSUME BarAssumption ==
    /\ Word \in Nat \ {0}
    /\ RANGE_16MB \in 4 .. Word - 1
    /\ RANGE_16MB % 4 = 0
    /\ Bits \subseteq Nat
    /\ DOMAIN Dictionary \subseteq Token
    /\ \A name \in DOMAIN Dictionary : Dictionary[name] \in InMap
    /\ Strtoul \in [Token -> [{0, 10, 16} -> Addresses]]

-----------------------------------------------------------------------------
(* resolve_name answers 0xFFFFFFFF for a name it does not know.             *)
NotFound == Word - 1

Alias == [name : Token, address : Addresses]

(* Mutant of FirstSlot: the newest definition of a name wins.               *)
LastSlot(aliases, name) ==
    {i \in DOMAIN aliases :
        /\ aliases[i].name = name
        /\ \A j \in i + 1 .. Len(aliases) : aliases[j].name # name}

(* The slots of the alias table a lookup of `name' can stop at: there is at *)
(* most one, the first slot that holds the name.                            *)
FirstSlot(aliases, name) ==
    {i \in DOMAIN aliases :
        /\ aliases[i].name = name
        /\ \A j \in 1 .. i - 1 : aliases[j].name # name}

SlotOf(aliases, name) == CHOOSE i \in FirstSlot(aliases, name) : TRUE

resolve_name(aliases, name) ==
    IF FirstSlot(aliases, name) # {}
    THEN aliases[SlotOf(aliases, name)].address
    ELSE IF name \in DOMAIN Dictionary THEN Dictionary[name] ELSE NotFound

(* Every command resolves a name first and falls back on a number; they     *)
(* differ in the base (0 in get_target_address, 16 in peek, alias, until).  *)
Resolve(aliases, token, base) ==
    LET address == resolve_name(aliases, token)
    IN  IF address = NotFound THEN Strtoul[token][base] ELSE address

get_target_address(aliases, token) == Resolve(aliases, token, 0)

(* atoi: the base-10 value read back as a signed int.                       *)
Atoi(token) ==
    LET n == Strtoul[token][10]
    IN  IF 2 * n >= Word THEN n - Word ELSE n

(* The bits of a number that was typed.                                     *)
BitsOf(n) == {b \in Bits : (n \div (2 ^ b)) % 2 = 1}

Reg(address) == address \div 4

-----------------------------------------------------------------------------
(* The bytes each bus-walking command touches, in 32-bit arithmetic.        *)

(* cmd_fill: base, base + step, ... count times, abandoned at the first     *)
(* address outside the window.                                              *)
FillAddress(base, step, i) == (base + i * step) % Word

(* Mutant of FillAddresses: only the base address is compared.              *)
FillUnchecked(base, count, step) ==
    {FillAddress(base, step, i) :
        i \in {k \in 0 .. count - 1 : base < RANGE_16MB}}

FillAddresses(base, count, step) ==
    {FillAddress(base, step, i) :
        i \in {k \in 0 .. count - 1 :
                 \A j \in 0 .. k : FillAddress(base, step, j) < RANGE_16MB}}

(* cmd_search: start, start + 4, ... below end and below the window's end.  *)
SearchAddresses(start, end) ==
    {a \in start .. end - 1 : a < RANGE_16MB /\ (a - start) % 4 = 0}
=============================================================================
