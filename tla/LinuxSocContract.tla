---------------------------- MODULE LinuxSocContract ----------------------------
(***************************************************************************)
(* rtl/interconnect/e1_linux_soc_contract.sv: the CPU, behind the crossbar,*)
(* and the DMA engine share the memory through a multiplexer that locks    *)
(* each channel for the access it has let in, and the CPU programs the DMA *)
(* through a register port on the crossbar.  The CPU side shows what the   *)
(* crossbar's pipeline stage shows: one read and one write at a time, a    *)
(* write's address and data together, to the memory or to the DMA.         *)
(***************************************************************************)
EXTENDS E1Dma, AxiLiteDram

CONSTANTS
  CpuReads,      (* addresses the CPU reads                                *)
  CpuStores,     (* addresses it stores to                                 *)
  CpuWrites,     (* its writes to the DMA's registers                      *)
  CpuRegs,       (* the registers of the DMA it reads                      *)
  MaxJobs        (* bound: starts that are accepted                        *)

Stored == UNION {a .. a + 3 : a \in CpuStores}
ApartFromTransfers ==   \* the CPU stores to no byte that a transfer moves
  \A a \in Addresses, l \in Lengths :
    Aligned(a) => \A i \in 0 .. l - 1 : Wrap(a + i) \notin Stored

ASSUME ContractAssumption ==
  /\ CpuReads \subseteq Addr /\ CpuStores \subseteq Addr
  /\ CpuWrites \subseteq Writes \ {NoWrite}
  /\ CpuRegs \subseteq {"SRC", "DST", "LEN", "CTRL", "BYTES_DONE"}
  /\ MaxJobs \in Nat
  /\ ApartFromTransfers

VARIABLES
  clk,             (* changes on every edge, whatever else does            *)
  wr_active, wr_dma_owner, rd_active, rd_dma_owner,
  mmio_bvalid, mmio_rvalid, mmio_rdata,
  cr, cw,          (* the CPU's read and write: what, and how far          *)
  job, jobs,       (* history, as in DmaSystem                             *)
  shared           (* history: the register read was accepted on an edge   *)
                   (* that showed the port a write's address               *)

locks   == <<wr_active, wr_dma_owner, rd_active, rd_dma_owner>>
wrapper == <<mmio_bvalid, mmio_rvalid, mmio_rdata>>
vars == <<clk, dmaVars, writeVars, readVars, locks, wrapper, cr, cw, job, jobs,
          shared>>

NoRead   == [port |-> "NONE", at |-> 0, reg |-> "NONE"]
NoStore  == [port |-> "NONE", at |-> 0, strb |-> {}, write |-> NoWrite]
Reads    == [port : {"DRAM"}, at : CpuReads, reg : {"NONE"}]
              \cup [port : {"DMA"}, at : {0}, reg : CpuRegs]
Stores   == [port : {"DRAM"}, at : CpuStores, strb : {Lanes, {0}},
             write : {NoWrite}]
              \cup [port : {"DMA"}, at : {0}, strb : {Lanes}, write : CpuWrites]

Offers(c, port) == c.phase = "offer" /\ c.req.port = port
Awaits(c, port) == c.phase = "wait" /\ c.req.port = port

-----------------------------------------------------------------------------
(* The multiplexer.  The CPU goes first; a channel is open to nobody while *)
(* the access it let in is unanswered.                                     *)
Channels == {"AR", "AW", "W"}

cpu_wr_req == Offers(cw, "DRAM")
cpu_rd_req == Offers(cr, "DRAM")
grant_dma_wr == ~cpu_wr_req /\ awvalid /\ wvalid
grant_dma_rd == ~cpu_rd_req /\ arvalid

dram_ready == awready(Channels) /\ wready(Channels)
cpu_mem_awready == ~wr_active /\ ~grant_dma_wr /\ dram_ready
dma_mem_awready == ~wr_active /\ grant_dma_wr /\ dram_ready
cpu_mem_arready == ~rd_active /\ ~grant_dma_rd /\ arready(Channels)
dma_mem_arready == ~rd_active /\ grant_dma_rd /\ arready(Channels)
cpu_mem_bvalid == wr_active /\ ~wr_dma_owner /\ bvalid
dma_mem_bvalid == wr_active /\ wr_dma_owner /\ bvalid
cpu_mem_rvalid == rd_active /\ ~rd_dma_owner /\ rvalid
dma_mem_rvalid == rd_active /\ rd_dma_owner /\ rvalid

(* takes is the set of answers the CPU is ready for: "B", "R".             *)
ToDram(takes) ==
  [awvalid |-> ~wr_active /\ (IF grant_dma_wr THEN awvalid ELSE cpu_wr_req),
   wvalid  |-> ~wr_active /\ (IF grant_dma_wr THEN wvalid ELSE cpu_wr_req),
   awaddr  |-> IF grant_dma_wr THEN cur_dst ELSE cw.req.at,
   wdata   |-> IF grant_dma_wr THEN read_data_q ELSE Filler,
   wstrb   |-> IF grant_dma_wr THEN wstrb ELSE cw.req.strb,
   bready  |-> IF wr_dma_owner THEN bready
              ELSE Awaits(cw, "DRAM") /\ "B" \in takes,
   arvalid |-> ~rd_active /\ (IF grant_dma_rd THEN arvalid ELSE cpu_rd_req),
   araddr  |-> IF grant_dma_rd THEN cur_src ELSE cr.req.at,
   rready  |-> IF rd_dma_owner THEN rready
              ELSE Awaits(cr, "DRAM") /\ "R" \in takes]

ToDma ==
  [arready |-> dma_mem_arready, rvalid |-> dma_mem_rvalid, rok |-> rok,
   rdata |-> rdata, awready |-> dma_mem_awready, wready |-> dma_mem_awready,
   bvalid |-> dma_mem_bvalid, bok |-> bok]

LockUnowned(takes) ==   \* mutant of LockEdge: a write has no owner
  LET d == ToDram(takes) IN
  /\ \/ /\ ~wr_active /\ d.awvalid /\ d.wvalid /\ dram_ready
        /\ wr_active' = TRUE /\ UNCHANGED wr_dma_owner
     \/ /\ ~(~wr_active /\ d.awvalid /\ d.wvalid /\ dram_ready)
        /\ wr_active' = (wr_active /\ ~(bvalid /\ d.bready))
        /\ UNCHANGED wr_dma_owner
  /\ \/ /\ ~rd_active /\ d.arvalid /\ arready(Channels)
        /\ rd_active' = TRUE /\ rd_dma_owner' = grant_dma_rd
     \/ /\ ~(~rd_active /\ d.arvalid /\ arready(Channels))
        /\ rd_active' = (rd_active /\ ~(rvalid /\ d.rready))
        /\ UNCHANGED rd_dma_owner

LockSticky(takes) ==   \* mutant of LockEdge: the DMA's read lock stays
  LET d == ToDram(takes) IN
  /\ \/ /\ ~wr_active /\ d.awvalid /\ d.wvalid /\ dram_ready
        /\ wr_active' = TRUE /\ wr_dma_owner' = grant_dma_wr
     \/ /\ ~(~wr_active /\ d.awvalid /\ d.wvalid /\ dram_ready)
        /\ wr_active' = (wr_active /\ ~(bvalid /\ d.bready))
        /\ UNCHANGED wr_dma_owner
  /\ \/ /\ ~rd_active /\ d.arvalid /\ arready(Channels)
        /\ rd_active' = TRUE /\ rd_dma_owner' = grant_dma_rd
     \/ /\ ~(~rd_active /\ d.arvalid /\ arready(Channels))
        /\ rd_active' = (rd_active /\ ~(rvalid /\ d.rready /\ ~rd_dma_owner))
        /\ UNCHANGED rd_dma_owner

LockEdge(takes) ==
  LET d == ToDram(takes) IN
  /\ \/ /\ ~wr_active /\ d.awvalid /\ d.wvalid /\ dram_ready
        /\ wr_active' = TRUE /\ wr_dma_owner' = grant_dma_wr
     \/ /\ ~(~wr_active /\ d.awvalid /\ d.wvalid /\ dram_ready)
        /\ wr_active' = (wr_active /\ ~(bvalid /\ d.bready))
        /\ UNCHANGED wr_dma_owner
  /\ \/ /\ ~rd_active /\ d.arvalid /\ arready(Channels)
        /\ rd_active' = TRUE /\ rd_dma_owner' = grant_dma_rd
     \/ /\ ~(~rd_active /\ d.arvalid /\ arready(Channels))
        /\ rd_active' = (rd_active /\ ~(rvalid /\ d.rready))
        /\ UNCHANGED rd_dma_owner

-----------------------------------------------------------------------------
(* The DMA's register port.  One valid and one address serve both          *)
(* directions, and the write's go first.                                   *)
mmio_write == Offers(cw, "DMA")
mmio_wfire == mmio_write /\ ~mmio_bvalid
mmio_rfire == Offers(cr, "DMA") /\ ~mmio_rvalid

RegWrite == IF mmio_write /\ (mmio_wfire \/ mmio_rfire)
            THEN cw.req.write ELSE NoWrite
RegShownHeld ==   \* mutant of RegShown: the write's, until it is answered
  IF cw.req.port = "DMA" THEN cw.req.write.reg ELSE cr.req.reg
RegShown == IF mmio_write THEN cw.req.write.reg ELSE cr.req.reg

ReadReg(reg) ==
  CASE reg = "SRC" -> src [] reg = "DST" -> dst [] reg = "LEN" -> len
    [] reg = "CTRL" -> (IF busy THEN 1 ELSE 0) + (IF done THEN 2 ELSE 0)
                         + (IF error THEN 4 ELSE 0)
    [] OTHER -> bytes_done

WrapperEdge(takes) ==
  /\ mmio_bvalid' = \/ mmio_wfire
                    \/ mmio_bvalid /\ ~(Awaits(cw, "DMA") /\ "B" \in takes)
  /\ mmio_rvalid' = \/ mmio_rfire
                    \/ mmio_rvalid /\ ~(Awaits(cr, "DMA") /\ "R" \in takes)
  /\ mmio_rdata' = IF mmio_rfire
                   THEN [reg |-> RegShown, val |-> ReadReg(RegShown)]
                   ELSE mmio_rdata

-----------------------------------------------------------------------------
(* The CPU: an access it offers stays until it is taken, and the next of   *)
(* its kind follows the answer.                                            *)
Offer(req) == [phase |-> "offer", req |-> req]
NoAccess(none) == [phase |-> "none", req |-> none]

CpuRead(takes, next) ==
  cr' = CASE cr.phase = "none" -> IF next = NoRead THEN cr ELSE Offer(next)
          [] Offers(cr, "DRAM") /\ cpu_mem_arready -> [cr EXCEPT !.phase = "wait"]
          [] Offers(cr, "DMA") /\ mmio_rfire -> [cr EXCEPT !.phase = "wait"]
          [] "R" \in takes -> NoAccess(NoRead)
          [] OTHER -> cr

CpuWrite(takes, next) ==
  cw' = CASE cw.phase = "none" -> IF next = NoStore THEN cw ELSE Offer(next)
          [] Offers(cw, "DRAM") /\ cpu_mem_awready -> [cw EXCEPT !.phase = "wait"]
          [] Offers(cw, "DMA") /\ mmio_wfire -> [cw EXCEPT !.phase = "wait"]
          [] "B" \in takes -> NoAccess(NoStore)
          [] OTHER -> cw

(* The answers the CPU is shown.                                           *)
Shown == (IF Awaits(cr, "DRAM") /\ cpu_mem_rvalid THEN {"R"} ELSE {})
    \cup (IF Awaits(cr, "DMA") /\ mmio_rvalid THEN {"R"} ELSE {})
    \cup (IF Awaits(cw, "DRAM") /\ cpu_mem_bvalid THEN {"B"} ELSE {})
    \cup (IF Awaits(cw, "DMA") /\ mmio_bvalid THEN {"B"} ELSE {})

Accepted(w) == ~busy /\ StartBit(w)

Init ==
  /\ clk = FALSE
  /\ DmaInit /\ DramInit
  /\ wr_active = FALSE /\ wr_dma_owner = FALSE
  /\ rd_active = FALSE /\ rd_dma_owner = FALSE
  /\ mmio_bvalid = FALSE /\ mmio_rvalid = FALSE
  /\ mmio_rdata = [reg |-> "NONE", val |-> 0]
  /\ cr = NoAccess(NoRead) /\ cw = NoAccess(NoStore)
  /\ job = [src |-> 0, dst |-> 0, len |-> 0] /\ jobs = 0
  /\ shared = FALSE

Clock(takes, read, store) ==
  /\ clk' = ~clk
  /\ DmaEdge(RegWrite, ToDma)
  /\ DramEdge(ToDram(takes), Channels)
  /\ LockEdge(takes) /\ WrapperEdge(takes)
  /\ CpuRead(takes, read) /\ CpuWrite(takes, store)
  /\ IF Accepted(RegWrite)
     THEN job' = [src |-> src, dst |-> dst, len |-> len] /\ jobs' = jobs + 1
     ELSE UNCHANGED <<job, jobs>>
  /\ shared' = IF mmio_rfire THEN mmio_write ELSE shared

Edge(takes) ==
  \E read \in {NoRead} \cup IF cr.phase = "none" THEN Reads ELSE {},
     store \in {NoStore} \cup IF cw.phase = "none" THEN Stores ELSE {} :
    /\ jobs = MaxJobs => ~StartBit(store.write)
    /\ Clock(takes, read, store)

Next == \E takes \in SUBSET Shown : Edge(takes)

Spec == Init /\ [][Next]_vars
(* The clock runs, and the CPU takes the answers it is shown.              *)
ClockRuns == []<><<TRUE>>_clk
FairSpec == Spec /\ ClockRuns /\ \A c \in {"R", "B"} : []<>(c \notin Shown)

-----------------------------------------------------------------------------
(* A lock is held exactly as long as its owner's access is in the memory,  *)
(* and what the memory holds is that access: the halves of a write are its *)
(* owner's, an answer is OKAY when its owner's address decodes.  Nobody    *)
(* waits for an answer that is not to come.  A register read answers for   *)
(* the register it named, if no write was offered beside it: "one          *)
(* outstanding read and one outstanding write transaction"                 *)
(* (docs/arch/interconnect.md:18) share one address here.                  *)
OwnersAgree ==
  /\ write_addr_valid = write_data_valid
  /\ wr_active <=> write_addr_valid \/ bvalid
  /\ wr_active /\ wr_dma_owner =>
       /\ state = "WRESP"
       /\ write_addr_valid => /\ write_addr_q = cur_dst
                              /\ write_data_q = read_data_q
                              /\ write_strb_q = wstrb
       /\ bvalid => (bok <=> Decodes(cur_dst))
  /\ wr_active /\ ~wr_dma_owner =>
       /\ Awaits(cw, "DRAM")
       /\ write_addr_valid => write_addr_q = cw.req.at
                              /\ write_strb_q = cw.req.strb
       /\ bvalid => (bok <=> Decodes(cw.req.at))
  /\ rd_active <=> rvalid
  /\ rvalid /\ rd_dma_owner =>
       state = "READ" /\ read_addr_sent /\ (rok <=> Decodes(cur_src))
  /\ rvalid /\ ~rd_dma_owner =>
       Awaits(cr, "DRAM") /\ (rok <=> Decodes(cr.req.at))
  /\ Awaits(cw, "DRAM") => wr_active /\ ~wr_dma_owner
  /\ Awaits(cr, "DRAM") => rd_active /\ ~rd_dma_owner
  /\ Awaits(cw, "DMA") <=> mmio_bvalid
  /\ Awaits(cr, "DMA") <=> mmio_rvalid
  /\ mmio_rvalid /\ ~shared => mmio_rdata.reg = cr.req.reg
  /\ busy /\ state = "WRESP" => wr_active /\ wr_dma_owner
  /\ read_addr_sent => rd_active /\ rd_dma_owner

(* The words the CPU does not store to are the DMA's alone, and what it    *)
(* does to them is CopyJob, whatever the CPU does beside it.               *)
Job == INSTANCE CopyJob WITH
         copied <- bytes_done + (IF dma_mem_bvalid /\ bok THEN BeatBytes ELSE 0),
         mem <- [a \in 0 .. MemBytes - 1 |-> IF a \in Stored THEN a ELSE mem[a]]
ImplementsCopyJob == Job!Spec

(* Accesses end, the CPU's and the DMA's, though the CPU always goes first *)
(* at the memory.                                                          *)
EveryoneServed == /\ cr.phase # "none" ~> cr.phase = "none"
                  /\ cw.phase # "none" ~> cw.phase = "none"
                  /\ busy ~> ~busy
=============================================================================
