-------------------------------- MODULE E1Intc --------------------------------
(***************************************************************************)
(* The interrupt controller, rtl/interrupts/e1_interrupt_controller.sv.    *)
(* enable and pending are sets of source ids; id 0 means no source.  One   *)
(* step is one rising edge of clk; its parameters are                      *)
(*    asserted   the sources whose irq_sources bit is set, and             *)
(*    m          what the AXI-Lite master drives, before that edge.        *)
(***************************************************************************)
EXTENDS Integers

CONSTANT NumSources   (* 4 *)
IntcAssumption == NumSources \in Nat \ {0}

Sources == 1 .. NumSources
Words   == 0 .. 2 ^ NumSources - 1      \* the low bits of a register word
Regs    == {"ID", "PENDING", "ENABLE", "CLAIM", "OTHER"}
NoReg   == "NOREG"
NoWord  == -1
IdValue == -2                           \* ID_VALUE: no other register's word

SetBits(w) == {s \in Sources : (w \div 2 ^ (s - 1)) % 2 = 1}
Word(S) == CHOOSE w \in Words : SetBits(w) = S

VARIABLES
  enable, pending,
  write_addr, write_data,   (* the halves taken; NoReg, NoWord until then  *)
  bvalid, rvalid, rdata

intcVars == <<enable, pending, write_addr, write_data, bvalid, rvalid, rdata>>

IntcInit ==
  /\ enable = {} /\ pending = {}
  /\ write_addr = NoReg /\ write_data = NoWord
  /\ bvalid = FALSE /\ rvalid = FALSE /\ rdata = 0

awready == write_addr = NoReg /\ ~bvalid
wready  == write_data = NoWord /\ ~bvalid
arready == ~rvalid

cpu_external_irq == pending \cap enable # {}
claim_id == IF pending \cap enable = {} THEN 0
            ELSE CHOOSE s \in pending \cap enable :
                   \A t \in pending \cap enable : s <= t

ReadAt(reg) == CASE reg = "ID" -> IdValue
                 [] reg = "PENDING" -> Word(pending)
                 [] reg = "ENABLE" -> Word(enable)
                 [] reg = "CLAIM" -> claim_id
                 [] OTHER -> 0

-----------------------------------------------------------------------------
CollectWrite(asserted, m) ==
  /\ write_addr = NoReg \/ write_data = NoWord \/ bvalid
  /\ write_addr' = IF m.aw # NoReg /\ awready THEN m.aw ELSE write_addr
  /\ write_data' = IF m.w # NoWord /\ wready THEN m.w ELSE write_data
  /\ bvalid' = (bvalid /\ ~m.bready)
  /\ pending' = pending \cup asserted
  /\ UNCHANGED enable

PerformClaims(asserted, m) ==   \* mutant of PerformWrite: any id clears all
  /\ write_addr # NoReg /\ write_data # NoWord /\ ~bvalid
  /\ enable' = IF write_addr = "ENABLE" THEN SetBits(write_data) ELSE enable
  /\ pending' = IF write_addr = "CLAIM" THEN {} ELSE pending \cup asserted
  /\ write_addr' = NoReg /\ write_data' = NoWord
  /\ bvalid' = TRUE

PerformDeaf(asserted, m) ==   \* mutant of PerformWrite: clears nothing
  /\ write_addr # NoReg /\ write_data # NoWord /\ ~bvalid
  /\ enable' = IF write_addr = "ENABLE" THEN SetBits(write_data) ELSE enable
  /\ pending' = pending \cup asserted
  /\ write_addr' = NoReg /\ write_data' = NoWord
  /\ bvalid' = TRUE

PerformLate(asserted, m) ==   \* mutant of PerformWrite: the data half stays
  /\ write_addr # NoReg /\ write_data # NoWord /\ ~bvalid
  /\ enable' = IF write_addr = "ENABLE" THEN SetBits(write_data) ELSE enable
  /\ pending' = IF write_addr = "CLAIM"
                THEN (pending \cup asserted) \ {write_data}
                ELSE pending \cup asserted
  /\ write_addr' = NoReg /\ UNCHANGED write_data
  /\ bvalid' = TRUE

(* Completing a source wins over its line on the same edge; writes to any  *)
(* other register than these two do nothing.                               *)
PerformWrite(asserted, m) ==
  /\ write_addr # NoReg /\ write_data # NoWord /\ ~bvalid
  /\ enable' = IF write_addr = "ENABLE" THEN SetBits(write_data) ELSE enable
  /\ pending' = IF write_addr = "CLAIM"
                THEN (pending \cup asserted) \ {write_data}
                ELSE pending \cup asserted
  /\ write_addr' = NoReg /\ write_data' = NoWord
  /\ bvalid' = TRUE

AcceptRead(m) ==
  /\ m.ar # NoReg /\ arready
  /\ rvalid' = TRUE /\ rdata' = ReadAt(m.ar)

HoldRead(m) ==
  /\ m.ar = NoReg \/ ~arready
  /\ rvalid' = (rvalid /\ ~m.rready)
  /\ UNCHANGED rdata

IntcEdge(asserted, m) ==
  /\ CollectWrite(asserted, m) \/ PerformWrite(asserted, m)
  /\ AcceptRead(m) \/ HoldRead(m)
=============================================================================
