----------------------------- MODULE VipRegisters -----------------------------
(* The register file of the video processor:                                  *)
(* src/crates/vb-core/src/vip/registers.rs.                                   *)
(*                                                                            *)
(* Registers are halfwords at even addresses.  A halfword that is a set of    *)
(* flags is the set of its bits.  The fields only a drawing or scanning unit  *)
(* would set (busy bits, row groups, overtime, the column start) stay as they *)
(* are reset, because nothing in the crates writes them yet; `raise' has no   *)
(* caller either and is an input.                                             *)
EXTENDS Integers

INTPND == \h5F800
INTENB == \h5F802
INTCLR == \h5F804
DPSTTS == \h5F820
DPCTRL == \h5F822
BRTA   == \h5F824
BRTB   == \h5F826
BRTC   == \h5F828
REST   == \h5F82A
FRMCYC == \h5F82E
XPSTTS == \h5F840
XPCTRL == \h5F842
VER    == \h5F844
BKCOL  == \h5F870

Brightness == {BRTA, BRTB, BRTC}
ObjectEnd  == {\h5F848, \h5F84A, \h5F84C, \h5F84E}
Palette    == {\h5F860, \h5F862, \h5F864, \h5F866, \h5F868, \h5F86A, \h5F86C, \h5F86E}
Setting    == Brightness \cup {REST, FRMCYC} \cup ObjectEnd \cup Palette \cup {BKCOL}

\* Bits of INTPND, INTENB and INTCLR.
TIMEERR    == 15
XPEND      == 14
SBHIT      == 13
FRAMESTART == 4
GAMESTART  == 3
RFBEND     == 2
LFBEND     == 1
SCANERR    == 0

INT_MASK == {TIMEERR, XPEND, SBHIT, FRAMESTART, GAMESTART, RFBEND, LFBEND, SCANERR}

\* Bits of DPCTRL, and of XPCTRL.
LOCK  == 10
SYNCE == 9
RE    == 8
DISP  == 1
DPRST == 0
XPEN  == 1
XPRST == 0

VER_VALUE == 2

\* Mutant: the time error belongs to the drawing half only.
DPRST_CLEARS_LESS == {FRAMESTART, GAMESTART, RFBEND, LFBEND, SCANERR}
DPRST_CLEARS == {TIMEERR, FRAMESTART, GAMESTART, RFBEND, LFBEND, SCANERR}
XPRST_CLEARS == {TIMEERR, XPEND, SBHIT}

Bits(value)  == {i \in 0..15 : (value \div 2^i) % 2 = 1}
Number(bits) ==
  LET Worth(i) == IF i \in bits THEN 2^i ELSE 0
  IN  Worth(0) + Worth(1) + Worth(2) + Worth(3) + Worth(4) + Worth(5) + Worth(6) + Worth(7)
        + Worth(8) + Worth(9) + Worth(10) + Worth(11) + Worth(12) + Worth(13) + Worth(14) + Worth(15)

-----------------------------------------------------------------------------
\* What each of the plain registers keeps of a halfword.
Kept(addr, value) ==
  CASE addr \in Brightness \cup {REST} -> value % 2^8
    [] addr = FRMCYC -> value % 2^4
    [] addr \in ObjectEnd -> value % 2^10
    [] addr \in Palette -> (value % 2^8) - (value % 2^2)
    [] addr = BKCOL -> value % 2^2

Registers ==
  [pending : SUBSET INT_MASK, enabled : SUBSET INT_MASK,
   display : SUBSET {LOCK, SYNCE, RE, DISP},
   draw_enabled : BOOLEAN, row_group_compare : 0..31,
   settings : [Setting -> 0..(2^10 - 1)]]

NewRegisters ==
  [pending |-> {}, enabled |-> {}, display |-> {}, draw_enabled |-> FALSE,
   row_group_compare |-> 0, settings |-> [addr \in Setting |-> 0]]

Raise(regs, flags) == [regs EXCEPT !.pending = @ \cup (flags \cap INT_MASK)]

InterruptPending(regs) == regs.pending \cap regs.enabled # {}

\* Write-only registers and the gaps read as zero.
ReadRegister(regs, addr) ==
  CASE addr = INTPND     -> Number(regs.pending)
    [] addr = INTENB     -> Number(regs.enabled)
    [] addr = DPSTTS     -> Number(regs.display)
    [] addr = XPSTTS     -> Number(IF regs.draw_enabled THEN {XPEN} ELSE {})
    [] addr = VER        -> VER_VALUE
    [] addr \in Setting  -> regs.settings[addr]
    [] OTHER             -> 0

Without(regs, flags) == [regs EXCEPT !.pending = @ \ flags, !.enabled = @ \ flags]

WriteDisplay(regs, bits) ==
  LET written == [regs EXCEPT !.display = bits \cap {LOCK, SYNCE, RE, DISP}]
  IN  IF DPRST \in bits THEN Without(written, DPRST_CLEARS) ELSE written

\* A reset wins over an enable of the same halfword.
WriteDraw(regs, value) ==
  LET bits == Bits(value)
      written == [regs EXCEPT !.row_group_compare = (value \div 2^8) % 2^5,
                              !.draw_enabled = XPEN \in bits /\ XPRST \notin bits]
  IN  IF XPRST \in bits THEN Without(written, XPRST_CLEARS) ELSE written

\* Read-only registers and the gaps ignore what is written to them.
WriteRegister(regs, addr, value) ==
  CASE addr = INTENB    -> [regs EXCEPT !.enabled = Bits(value) \cap INT_MASK]
    [] addr = INTCLR    -> [regs EXCEPT !.pending = @ \ Bits(value)]
    [] addr = DPCTRL    -> WriteDisplay(regs, Bits(value))
    [] addr = XPCTRL    -> WriteDraw(regs, value)
    [] addr \in Setting -> [regs EXCEPT !.settings[addr] = Kept(addr, value)]
    [] OTHER            -> regs
=============================================================================
