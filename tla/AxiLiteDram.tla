----------------------------- MODULE AxiLiteDram -----------------------------
(***************************************************************************)
(* The memory behind the AXI-Lite fabric, memory/e1_axi_lite_dram.sv.  It  *)
(* takes a write's address and its data independently, in either order,    *)
(* writes the enabled lanes one edge after it has both, and holds one      *)
(* write response and one read response.  m is what the master drives; the *)
(* fabric in front may withhold a channel: it is open when it is in "open" *)
(* (rtl/interconnect/e1_linux_soc_contract.sv gates each channel with its  *)
(* owner locks).                                                           *)
(***************************************************************************)
EXTENDS E1Bus

VARIABLES
  mem,
  write_addr_valid, write_addr_q,
  write_data_valid, write_data_q, write_strb_q,
  bvalid, bok,              (* bok: bresp is OKAY rather than SLVERR       *)
  rvalid, rok, rdata

writeVars == <<mem, write_addr_valid, write_addr_q, write_data_valid,
               write_data_q, write_strb_q, bvalid, bok>>
readVars  == <<rvalid, rok, rdata>>

DramInit ==
  /\ mem = [a \in 0 .. MemBytes - 1 |-> a]
  /\ write_addr_valid = FALSE /\ write_addr_q = 0
  /\ write_data_valid = FALSE /\ write_strb_q = {}
  /\ write_data_q = ZeroBeat
  /\ bvalid = FALSE /\ bok = TRUE
  /\ rvalid = FALSE /\ rok = TRUE /\ rdata = ZeroBeat

DramFlags ==
  /\ write_addr_valid \in BOOLEAN /\ write_data_valid \in BOOLEAN
  /\ bvalid \in BOOLEAN /\ bok \in BOOLEAN
  /\ rvalid \in BOOLEAN /\ rok \in BOOLEAN

DramRegisters ==
  /\ mem \in [0 .. MemBytes - 1 -> Byte]
  /\ write_addr_q \in Addr /\ write_data_q \in Beat
  /\ write_strb_q \in SUBSET Lanes
  /\ rdata \in Beat

DramTypeOK == DramFlags /\ DramRegisters

awready(open) == ~write_addr_valid /\ ~bvalid /\ "AW" \in open
wready(open)  == ~write_data_valid /\ ~bvalid /\ "W" \in open
arready(open) == ~rvalid /\ "AR" \in open

CaptureAddress(m, open) ==
  LET fire == m.awvalid /\ awready(open) IN
  /\ write_addr_valid' = (write_addr_valid \/ fire)
  /\ write_addr_q' = IF fire THEN m.awaddr ELSE write_addr_q

CaptureData(m, open) ==
  LET fire == m.wvalid /\ wready(open) IN
  /\ write_data_valid' = (write_data_valid \/ fire)
  /\ write_data_q' = IF fire THEN m.wdata ELSE write_data_q
  /\ write_strb_q' = IF fire THEN m.wstrb ELSE write_strb_q

Collect(m, open) ==
  /\ ~(write_addr_valid /\ write_data_valid /\ ~bvalid)
  /\ CaptureAddress(m, open)
  /\ CaptureData(m, open)
  /\ bvalid' = (bvalid /\ ~m.bready)
  /\ UNCHANGED <<mem, bok>>

Perform ==
  /\ write_addr_valid /\ write_data_valid /\ ~bvalid
  /\ mem' = IF Decodes(write_addr_q)
            THEN Merge(mem, write_addr_q, write_data_q, write_strb_q)
            ELSE mem
  /\ bok' = Decodes(write_addr_q)
  /\ bvalid' = TRUE
  /\ write_addr_valid' = FALSE /\ write_data_valid' = FALSE
  /\ UNCHANGED <<write_addr_q, write_data_q, write_strb_q>>

WriteChannels(m, open) == Collect(m, open) \/ Perform

AcceptRead(m, open) ==
  /\ m.arvalid /\ arready(open)
  /\ rvalid' = TRUE
  /\ rok' = Decodes(m.araddr)
  /\ rdata' = IF Decodes(m.araddr) THEN WordAt(mem, m.araddr) ELSE Filler

HoldRead(m, open) ==
  /\ ~(m.arvalid /\ arready(open))
  /\ rvalid' = (rvalid /\ ~m.rready)
  /\ UNCHANGED <<rok, rdata>>

ReadChannels(m, open) == AcceptRead(m, open) \/ HoldRead(m, open)

DramEdge(m, open) == WriteChannels(m, open) /\ ReadChannels(m, open)
=============================================================================
