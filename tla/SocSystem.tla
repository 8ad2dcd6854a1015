------------------------------ MODULE SocSystem ------------------------------
(***************************************************************************)
(* e1_soc_top.sv: the DMA engine and the NPU on the DRAM array, and the    *)
(* MMIO bus that programs the three of them, one access an edge.  Each     *)
(* engine's read address is accepted only while the other offers none, so  *)
(* two that come together hold each other up until the NPU times out.      *)
(* The DRAM window is at address 0 here; its array spans the window        *)
(* (E1_PD_SMALL_DRAM, which makes it alias, is not modelled).  A word is   *)
(* what its first byte says: whole words are moved only.                   *)
(***************************************************************************)
EXTENDS E1Bus, E1Npu

CONSTANTS
  Addresses, Lengths,   (* what software writes to the DMA's registers     *)
  Stores                (* the words software stores to DRAM, where no     *)
                        (* transfer reads or writes                        *)

VARIABLES
  d_src, d_dst, d_len, d_busy, d_done, d_error, d_state,
  d_cur_src, d_cur_dst, d_remaining,
  d_bytes_done, d_read_beats, d_write_beats, d_error_count,
  d_read_data_q, d_read_addr_sent, d_write_addr_sent, d_write_data_sent,
  dram_mem,
  dma_m_bvalid, dma_m_bok, dma_m_rvalid, dma_m_rok, dma_m_rdata,
  npu_m_rvalid, npu_m_rok, npu_m_rdata,
  job,         (* history: the DMA request as it was accepted              *)
  stalled,     (* history: edges the DMA's read address has been refused,  *)
               (* counted one past the bound on it                         *)
  contended    (* history: the NPU's was, since the run or the descriptor  *)

Dma == INSTANCE E1Dma WITH
  src <- d_src, dst <- d_dst, len <- d_len,
  busy <- d_busy, done <- d_done, error <- d_error, state <- d_state,
  cur_src <- d_cur_src, cur_dst <- d_cur_dst, remaining <- d_remaining,
  bytes_done <- d_bytes_done, read_beats <- d_read_beats,
  write_beats <- d_write_beats, error_count <- d_error_count,
  read_data_q <- d_read_data_q, read_addr_sent <- d_read_addr_sent,
  write_addr_sent <- d_write_addr_sent, write_data_sent <- d_write_data_sent

NoStore == [addr |-> -1, data |-> Filler]

Stored == UNION {s.addr .. s.addr + 3 : s \in Stores \ {NoStore}}
ApartFromTransfers ==   \* no byte a transfer may touch is one of Stored
  \A a \in Addresses, l \in Lengths :
    Aligned(a) => \A i \in 0 .. l - 1 : Wrap(a + i) \notin Stored

ASSUME SocAssumption ==
  /\ Dma!DmaAssumption
  /\ \A l \in Lengths : l % 4 = 0
  /\ NoStore \in Stores
  /\ \A s \in Stores \ {NoStore} :
       s.addr \in Addr /\ Decodes(s.addr) /\ s.data \in Beat
  /\ ApartFromTransfers

(* What a descriptor may take: two edges for each word it fetches or       *)
(* streams, and the engine's time, 3 * 3 * 7 products at most; three for   *)
(* each word when an answer for the DMA is in the way.  DescWords = 4,     *)
(* ScratchBytes = 64 and TimeoutLimit = 128 leave room for both.           *)
LongestRun == IF \E a \in DOMAIN Control : Control[a].op = GEMM THEN 63 ELSE 3
ASSUME TimeoutAssumption ==
  /\ 4 * DescWords + ScratchBytes + 2 * LongestRun + 4 < 2 * TimeoutLimit
  /\ 12 * DescWords + 3 * ScratchBytes <= 4 * TimeoutLimit

writePort == <<dma_m_bvalid, dma_m_bok>>
dmaRead   == <<dma_m_rvalid, dma_m_rok, dma_m_rdata>>
npuRead   == <<npu_m_rvalid, npu_m_rok, npu_m_rdata>>
vars == <<Dma!dmaVars, npuVars, dram_mem, writePort, dmaRead, npuRead,
          job, stalled, contended>>

-----------------------------------------------------------------------------
(* The ready signals, and what each engine sees of its port.               *)
dma_m_ready   == ~dma_m_bvalid                \* awready and wready
dma_m_arready == ~dma_m_rvalid /\ ~arvalid
npu_m_arready == ~npu_m_rvalid /\ ~Dma!arvalid /\ ~dma_m_rvalid

ToDma == [arready |-> dma_m_arready, rvalid |-> dma_m_rvalid,
          rok |-> dma_m_rok, rdata |-> dma_m_rdata,
          awready |-> dma_m_ready, wready |-> dma_m_ready,
          bvalid |-> dma_m_bvalid, bok |-> dma_m_bok]
ToNpu == [arready |-> npu_m_arready, rvalid |-> npu_m_rvalid,
          rok |-> npu_m_rok, rdata |-> npu_m_rdata]

dma_wr_fire == Dma!awvalid /\ Dma!wvalid /\ dma_m_ready
dma_rd_fire == Dma!arvalid /\ dma_m_arready
npu_rd_fire == arvalid /\ npu_m_arready

(* The DMA's lanes are assigned after the MMIO store, and win over it.     *)
Store(s) == IF s = NoStore THEN dram_mem
                           ELSE Merge(dram_mem, s.addr, s.data, Lanes)
StickyResponse(s) ==   \* mutant of WriteEdge: the response is not taken back
  /\ dram_mem' = IF dma_wr_fire /\ Decodes(d_cur_dst)
                 THEN Merge(Store(s), d_cur_dst, d_read_data_q, Dma!wstrb)
                 ELSE Store(s)
  /\ dma_m_bvalid' = (dma_wr_fire \/ dma_m_bvalid)
  /\ dma_m_bok' = IF dma_wr_fire THEN Decodes(d_cur_dst) ELSE dma_m_bok

WriteEdge(s) ==
  /\ dram_mem' = IF dma_wr_fire /\ Decodes(d_cur_dst)
                 THEN Merge(Store(s), d_cur_dst, d_read_data_q, Dma!wstrb)
                 ELSE Store(s)
  /\ dma_m_bvalid' = (dma_wr_fire \/ (dma_m_bvalid /\ ~Dma!bready))
  /\ dma_m_bok' = IF dma_wr_fire THEN Decodes(d_cur_dst) ELSE dma_m_bok

DmaReadEdge ==
  /\ dma_m_rvalid' = (dma_rd_fire \/ (dma_m_rvalid /\ ~Dma!rready))
  /\ IF dma_rd_fire
     THEN /\ dma_m_rok' = Decodes(d_cur_src)
          /\ dma_m_rdata' = IF Decodes(d_cur_src)
                            THEN WordAt(dram_mem, d_cur_src) ELSE Filler
     ELSE UNCHANGED <<dma_m_rok, dma_m_rdata>>

NpuReadEdge ==
  /\ npu_m_rvalid' = (npu_rd_fire \/ (npu_m_rvalid /\ ~rready))
  /\ IF npu_rd_fire
     THEN /\ npu_m_rok' = Decodes(araddr)
          /\ npu_m_rdata' = IF Decodes(araddr) THEN dram_mem[araddr]
                                               ELSE MemBytes
     ELSE UNCHANGED <<npu_m_rok, npu_m_rdata>>

Record(dw) ==
  /\ job' = IF ~d_busy /\ Dma!StartBit(dw)
            THEN [src |-> d_src, dst |-> d_dst, len |-> d_len] ELSE job
  /\ stalled' = IF ~Dma!arvalid \/ dma_m_arready THEN 0
                ELSE IF stalled > TimeoutLimit + 1 THEN stalled ELSE stalled + 1
  /\ contended' = /\ desc_busy' /\ ~In("ADVANCE")
                  /\ contended \/ (arvalid /\ ~npu_m_arready)

Init ==
  /\ Dma!DmaInit /\ NpuInit
  /\ dram_mem = [a \in 0 .. MemBytes - 1 |-> a]
  /\ dma_m_bvalid = FALSE /\ dma_m_bok = TRUE
  /\ dma_m_rvalid = FALSE /\ dma_m_rok = TRUE /\ dma_m_rdata = ZeroBeat
  /\ npu_m_rvalid = FALSE /\ npu_m_rok = TRUE /\ npu_m_rdata = 0
  /\ job = [src |-> 0, dst |-> 0, len |-> 0]
  /\ stalled = 0 /\ contended = FALSE

(* One edge: at most one of the three writes is a real one, and software   *)
(* leaves the registers of an engine alone while it reads busy: a clear in *)
(* the middle of the NPU's run would also restart its timeout.             *)
Clock(dw, nw, s) ==
  /\ d_busy => dw = Dma!NoWrite
  /\ busy => nw = NoWrite
  /\ Dma!DmaEdge(dw, ToDma)
  /\ NpuEdge(nw, ToNpu)
  /\ WriteEdge(s) /\ DmaReadEdge /\ NpuReadEdge
  /\ Record(dw)

ProgramDma == \E dw \in Dma!Writes : Clock(dw, NoWrite, NoStore)
ProgramNpu == \E nw \in NpuWrites \ {NoWrite} : Clock(Dma!NoWrite, nw, NoStore)
StoreWord  == \E s \in Stores \ {NoStore} : Clock(Dma!NoWrite, NoWrite, s)

Next == ProgramDma \/ ProgramNpu \/ StoreWord

Spec == Init /\ [][Next]_vars

-----------------------------------------------------------------------------
(* "Outstanding-transaction balance" (verify/properties/README.md) on all  *)
(* three ports of the shared array: an answer is always for the request    *)
(* its master is on, also after the NPU's run timed out and another one    *)
(* starts, and the two engines never hold an answer together.              *)
PortsMatch ==
  /\ dma_m_rvalid <=> d_state = "READ" /\ d_read_addr_sent
  /\ dma_m_bvalid <=> d_state = "WRESP"
  /\ npu_m_rvalid <=> rready
  /\ ~(dma_m_rvalid /\ npu_m_rvalid)
  /\ dma_m_rvalid => (dma_m_rok <=> Decodes(d_cur_src))
  /\ dma_m_bvalid => (dma_m_bok <=> Decodes(d_cur_dst))

(* The DMA still copies what it promises beside a running NPU, and stores  *)
(* to other words.                                                         *)
Landed == d_bytes_done + (IF dma_m_bvalid /\ dma_m_bok THEN Dma!BeatBytes
                                                       ELSE 0)
Job == INSTANCE CopyJob WITH
         mem <- [a \in 0 .. MemBytes - 1 |-> IF a \in Stored THEN a
                                             ELSE dram_mem[a]],
         copied <- Landed,
         busy <- d_busy, done <- d_done, error <- d_error
ImplementsCopyJob == Job!Spec

(* The two engines' read addresses can block each other only as long as    *)
(* the NPU's timeout allows: the DMA, which has none, gets its turn then.  *)
DmaDelayBounded == stalled <= TimeoutLimit + 1

(* The NPU's timeout fires only for a read that contention delayed, or for *)
(* a GEMM that faulted under the ring, which the ring goes on waiting for  *)
(* without showing busy.                                                   *)
TimeoutOnlyContended == desc_busy /\ TimedOut => contended \/ ~busy

(* Each port answers its own master, and the DMA's within the bound.       *)
PortsServed == PortsMatch /\ DmaDelayBounded
=============================================================================
