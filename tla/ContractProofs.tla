----------------------------- MODULE ContractProofs -----------------------------
(***************************************************************************)
(* What holds of LinuxSocContract for every address space, memory size,    *)
(* set of accesses of the CPU and number of jobs: the locks of             *)
(* e1_linux_soc_contract.sv keep the CPU's accesses and the DMA's apart.   *)
(***************************************************************************)
EXTENDS LinuxSocContract, TLAPS

(* The inductive invariant.  OwnersAgree leans on the engine's bookkeeping  *)
(* and on the memory never answering one write while it holds another.     *)
Bits ==
  /\ DmaFlags /\ DramFlags
  /\ wr_active \in BOOLEAN /\ wr_dma_owner \in BOOLEAN
  /\ rd_active \in BOOLEAN /\ rd_dma_owner \in BOOLEAN
  /\ mmio_bvalid \in BOOLEAN /\ mmio_rvalid \in BOOLEAN /\ shared \in BOOLEAN

Phases == {"none", "offer", "wait"}
CpuAccesses ==
  /\ cr \in [phase : Phases, req : Reads \cup {NoRead}]
  /\ cw \in [phase : Phases, req : Stores \cup {NoStore}]

(* A write's halves are taken on one edge or not at all, and the address   *)
(* of a read is remembered only while its answer is awaited.               *)
EngineAgrees ==
  /\ state \in States
  /\ busy <=> state # "IDLE"
  /\ ~write_addr_sent /\ ~write_data_sent
  /\ read_addr_sent => state = "READ"

OneWrite == ~(write_addr_valid /\ bvalid)

ContractInv == Bits /\ CpuAccesses /\ EngineAgrees /\ OneWrite /\ OwnersAgree

-----------------------------------------------------------------------------
(* The parts of OwnersAgree: the write channel, the read channel, and the  *)
(* DMA's registers.                                                        *)
WritesOwned ==
  /\ write_addr_valid = write_data_valid
  /\ wr_active <=> write_addr_valid \/ bvalid
  /\ wr_active /\ wr_dma_owner =>
       /\ state = "WRESP"
       /\ write_addr_valid => /\ write_addr_q = cur_dst
                              /\ write_data_q = read_data_q
                              /\ write_strb_q = wstrb
       /\ bvalid => (bok <=> Decodes(cur_dst))
  /\ wr_active /\ ~wr_dma_owner =>
       /\ Awaits(cw, "DRAM")
       /\ write_addr_valid => write_addr_q = cw.req.at
                              /\ write_strb_q = cw.req.strb
       /\ bvalid => (bok <=> Decodes(cw.req.at))
  /\ Awaits(cw, "DRAM") => wr_active /\ ~wr_dma_owner
  /\ busy /\ state = "WRESP" => wr_active /\ wr_dma_owner

ReadsOwned ==
  /\ rd_active <=> rvalid
  /\ rvalid /\ rd_dma_owner =>
       state = "READ" /\ read_addr_sent /\ (rok <=> Decodes(cur_src))
  /\ rvalid /\ ~rd_dma_owner =>
       Awaits(cr, "DRAM") /\ (rok <=> Decodes(cr.req.at))
  /\ Awaits(cr, "DRAM") => rd_active /\ ~rd_dma_owner
  /\ read_addr_sent => rd_active /\ rd_dma_owner

RegistersOwned ==
  /\ Awaits(cw, "DMA") <=> mmio_bvalid
  /\ Awaits(cr, "DMA") <=> mmio_rvalid
  /\ mmio_rvalid /\ ~shared => mmio_rdata.reg = cr.req.reg

LEMMA Owners == OwnersAgree <=> WritesOwned /\ ReadsOwned /\ RegistersOwned
BY DEF OwnersAgree, WritesOwned, ReadsOwned, RegistersOwned

-----------------------------------------------------------------------------
(* The engine, as the channels see it.                                     *)
LEMMA EngineBits ==
  ASSUME NEW w, NEW b, DmaFlags, DmaEdge(w, b)
  PROVE  DmaFlags'
<1> USE DEF DmaFlags, Carry, Clear, sent
<1>1. CASE AwaitRead(w, b)
  BY <1>1, Zenon DEF AwaitRead
<1>2. CASE TakeRead(w, b)
  BY <1>2, Zenon DEF TakeRead, StopWithError
<1>3. CASE IssueWrite(w, b)
  BY <1>3, Zenon DEF IssueWrite
<1>4. CASE AwaitResponse(w, b) \/ NextBeat(w, b) \/ LastBeat(w, b)
  BY <1>4, Zenon DEF AwaitResponse, NextBeat, LastBeat
<1>5. CASE WriteFault(w, b)
  BY <1>5, Zenon DEF WriteFault, StopWithError
<1>6. CASE Finish(w) \/ Start(w) \/ Idle(w)
  BY <1>6, Zenon DEF Finish, Start, Idle
<1> QED BY <1>1, <1>2, <1>3, <1>4, <1>5, <1>6, Zenon DEF DmaEdge

(* Where the engine goes, by where it is and what it is shown.             *)
Moves(b) ==
  /\ state = "READ" /\ ~b.rvalid =>
       /\ state' = "READ" /\ cur_src' = cur_src
       /\ read_addr_sent' <=> read_addr_sent \/ b.arready
  /\ state # "READ" \/ b.rvalid => ~read_addr_sent'
  /\ state = "WRITE" /\ b.awready =>
       state' = "WRESP" /\ UNCHANGED <<cur_dst, read_data_q, remaining>>
  /\ state = "WRITE" /\ ~b.awready => state' = "WRITE"
  /\ state = "WRESP" /\ ~b.bvalid =>
       state' = "WRESP" /\ UNCHANGED <<cur_dst, read_data_q, remaining>>
  /\ state = "WRESP" /\ b.bvalid => state' # "WRESP"
  /\ state \notin {"WRITE", "WRESP"} => state' # "WRESP"

LEMMA EngineMoves ==
  ASSUME NEW w, NEW b, DmaFlags, EngineAgrees, DmaEdge(w, b),
         b.awready \in BOOLEAN, b.wready = b.awready
  PROVE  EngineAgrees' /\ Moves(b)
<1> USE DEF DmaFlags, EngineAgrees, States, Moves, Carry, cursor, counters, sent
<1>1. CASE AwaitRead(w, b)
  BY <1>1 DEF AwaitRead
<1>2. CASE TakeRead(w, b)
  BY <1>2 DEF TakeRead, StopWithError
<1>3. CASE IssueWrite(w, b)
  BY <1>3 DEF IssueWrite
<1>4. CASE AwaitResponse(w, b)
  BY <1>4 DEF AwaitResponse
<1>5. CASE WriteFault(w, b)
  BY <1>5 DEF WriteFault, StopWithError
<1>6. CASE NextBeat(w, b)
  BY <1>6 DEF NextBeat
<1>7. CASE LastBeat(w, b)
  BY <1>7 DEF LastBeat
<1>8. CASE Finish(w)
  BY <1>8 DEF Finish
<1>9. CASE Start(w)
  BY <1>9 DEF Start
<1>10. CASE Idle(w)
  BY <1>10 DEF Idle
<1> QED
  BY <1>1, <1>2, <1>3, <1>4, <1>5, <1>6, <1>7, <1>8, <1>9, <1>10 DEF DmaEdge

(* The CPU's read and write, by what they are shown.                       *)
ReadGoes(takes) ==
  /\ cr.phase = "none" => cr'.phase # "wait"
  /\ cr.phase = "offer" =>
       IF \/ Offers(cr, "DRAM") /\ cpu_mem_arready
          \/ Offers(cr, "DMA") /\ mmio_rfire
       THEN cr'.phase = "wait" /\ cr'.req = cr.req ELSE cr' = cr
  /\ cr.phase = "wait" =>
       IF "R" \in takes THEN cr'.phase = "none" ELSE cr' = cr

WriteGoes(takes) ==
  /\ cw.phase = "none" => cw'.phase # "wait"
  /\ cw.phase = "offer" =>
       IF \/ Offers(cw, "DRAM") /\ cpu_mem_awready
          \/ Offers(cw, "DMA") /\ mmio_wfire
       THEN cw'.phase = "wait" /\ cw'.req = cw.req ELSE cw' = cw
  /\ cw.phase = "wait" =>
       IF "B" \in takes THEN cw'.phase = "none" ELSE cw' = cw

LEMMA CpuGoes ==
  ASSUME NEW takes \in SUBSET Shown, CpuAccesses,
         NEW read \in {NoRead} \cup IF cr.phase = "none" THEN Reads ELSE {},
         NEW store \in {NoStore} \cup IF cw.phase = "none" THEN Stores ELSE {},
         CpuRead(takes, read), CpuWrite(takes, store)
  PROVE  CpuAccesses' /\ ReadGoes(takes) /\ WriteGoes(takes)
<1> DEFINE R == Reads \cup {NoRead}
           S == Stores \cup {NoStore}
<1>1. read \in R /\ store \in S /\ NoRead \in R /\ NoStore \in S
  OBVIOUS
<1>2. cr \in [phase : Phases, req : R] /\ cw \in [phase : Phases, req : S]
  BY DEF CpuAccesses
<1>3. /\ "R" \in takes => cr.phase = "wait"
      /\ "B" \in takes => cw.phase = "wait"
  BY DEF Shown, Awaits
<1> HIDE DEF R, S
<1>4. cr' \in [phase : Phases, req : R] /\ ReadGoes(takes)
  BY <1>1, <1>2, <1>3
  DEF CpuRead, ReadGoes, Offers, Offer, NoAccess, Phases
<1>5. cw' \in [phase : Phases, req : S] /\ WriteGoes(takes)
  BY <1>1, <1>2, <1>3
  DEF CpuWrite, WriteGoes, Offers, Offer, NoAccess, Phases
<1> QED BY <1>4, <1>5 DEF CpuAccesses, R, S
-----------------------------------------------------------------------------
(* The write channel of the memory: taken when nobody holds it, performed  *)
(* on the edge after, answered until the owner takes the answer.           *)
LEMMA WriteChannel ==
  ASSUME NEW takes \in SUBSET Shown, Bits, CpuAccesses, EngineAgrees, OneWrite,
         WritesOwned, EngineAgrees', Moves(ToDma), WriteGoes(takes),
         DramEdge(ToDram(takes), Channels), LockEdge(takes)
  PROVE  OneWrite' /\ WritesOwned'
<1> DEFINE d == ToDram(takes)
           fires == ~wr_active /\ (grant_dma_wr \/ cpu_wr_req)
<1> USE DEF OneWrite
<1>0. /\ DmaFlags /\ DramFlags /\ wr_active \in BOOLEAN /\ wr_dma_owner \in BOOLEAN
  BY DEF Bits
<1>1. /\ d.awvalid <=> fires
      /\ d.wvalid <=> fires
      /\ d.bready <=> IF wr_dma_owner THEN bready ELSE Awaits(cw, "DRAM") /\ "B" \in takes
      /\ d.awaddr = IF grant_dma_wr THEN cur_dst ELSE cw.req.at
      /\ d.wdata = IF grant_dma_wr THEN read_data_q ELSE Filler
      /\ d.wstrb = IF grant_dma_wr THEN wstrb ELSE cw.req.strb
  BY <1>0 DEF ToDram, grant_dma_wr
<1>2. dram_ready <=> ~wr_active
  BY <1>0 DEF WritesOwned, dram_ready, awready, wready, Channels, DramFlags
<1>3. /\ ToDma.awready <=> ~wr_active /\ grant_dma_wr
      /\ ToDma.bvalid <=> wr_active /\ wr_dma_owner /\ bvalid
      /\ cpu_mem_awready <=> ~wr_active /\ ~grant_dma_wr
  BY <1>0, <1>2 DEF ToDma, dma_mem_awready, dma_mem_bvalid, cpu_mem_awready
<1>4. \/ fires /\ wr_active' /\ (wr_dma_owner' <=> grant_dma_wr)
      \/ ~fires /\ (wr_active' <=> wr_active /\ ~(bvalid /\ d.bready))
                /\ wr_dma_owner' = wr_dma_owner
  BY <1>0, <1>1, <1>2 DEF LockEdge
<1>5. /\ write_addr_valid' \in BOOLEAN /\ write_data_valid' \in BOOLEAN
      /\ bvalid' \in BOOLEAN
  BY <1>0, Zenon DEF DramFlags, DramEdge, WriteChannels, Collect, CaptureAddress,
                     CaptureData, Perform
<1> HIDE DEF d, fires
<1>6. CASE fires
  <2>1. ~wr_active /\ ~write_addr_valid /\ ~write_data_valid /\ ~bvalid
    BY <1>0, <1>6 DEF fires, WritesOwned, DramFlags
  <2>2. /\ write_addr_valid' /\ write_data_valid' /\ ~bvalid'
        /\ write_addr_q' = d.awaddr /\ write_data_q' = d.wdata
        /\ write_strb_q' = d.wstrb
    BY <1>0, <1>1, <1>5, <1>6, <2>1
    DEF d, DramEdge, WriteChannels, Collect, CaptureAddress, CaptureData, Perform,
        awready, wready, Channels
  <2>3. CASE grant_dma_wr
    <3>1. state = "WRITE" /\ ~Offers(cw, "DRAM")
      BY <2>3 DEF grant_dma_wr, awvalid, cpu_wr_req
    <3>2. state' = "WRESP" /\ UNCHANGED <<cur_dst, read_data_q, remaining>>
      BY <1>3, <2>1, <2>3, <3>1 DEF Moves
    <3>3. ~Awaits(cw, "DRAM")
      BY <2>1 DEF WritesOwned
    <3>4. ~Awaits(cw, "DRAM")'
      BY <3>1, <3>3 DEF WriteGoes, Awaits, Offers, CpuAccesses, Phases
    <3> QED
      BY <1>1, <1>4, <1>6, <2>2, <2>3, <3>2, <3>4
      DEF WritesOwned, wstrb, BeatBytes
  <2>4. CASE ~grant_dma_wr
    <3>1. Offers(cw, "DRAM")
      BY <1>6, <2>4 DEF fires, cpu_wr_req
    <3>2. Awaits(cw, "DRAM")' /\ cw'.req = cw.req
      BY <1>3, <2>1, <2>4, <3>1 DEF WriteGoes, Awaits, Offers
    <3>3. state' # "WRESP"
      <4>1. state # "WRESP"
        BY <1>0, <2>1 DEF WritesOwned, EngineAgrees
      <4>2. ~ToDma.awready
        BY <1>3, <2>4
      <4> QED BY <4>1, <4>2 DEF Moves
    <3> QED
      BY <1>1, <1>4, <1>6, <2>2, <2>4, <3>2, <3>3 DEF WritesOwned
  <2> QED BY <2>3, <2>4
<1>7. CASE ~fires /\ ~wr_active
  <2>1. ~write_addr_valid /\ ~write_data_valid /\ ~bvalid
    BY <1>0, <1>7 DEF WritesOwned, DramFlags
  <2>2. ~write_addr_valid' /\ ~write_data_valid' /\ ~bvalid'
    BY <1>0, <1>1, <1>5, <1>7, <2>1
    DEF d, DramEdge, WriteChannels, Collect, CaptureAddress, CaptureData, Perform
  <2>3. ~wr_active'
    BY <1>4, <1>7
  <2>4. ~Awaits(cw, "DRAM") /\ ~Offers(cw, "DRAM") /\ ~grant_dma_wr
    BY <1>7 DEF WritesOwned, fires, cpu_wr_req
  <2>5. ~Awaits(cw, "DRAM")'
    BY <2>4 DEF WriteGoes, Awaits, Offers, CpuAccesses, Phases
  <2>6. state' # "WRESP"
    <3>1. state # "WRESP"
      BY <1>7 DEF WritesOwned, EngineAgrees
    <3>2. ~ToDma.awready
      BY <1>3, <2>4
    <3> QED BY <3>1, <3>2 DEF Moves
  <2> QED BY <1>5, <2>2, <2>3, <2>5, <2>6 DEF WritesOwned
<1>8. CASE wr_active /\ write_addr_valid
  <2>1. ~bvalid /\ write_data_valid
    BY <1>0, <1>8 DEF WritesOwned
  <2>2. /\ ~write_addr_valid' /\ ~write_data_valid' /\ bvalid'
        /\ bok' <=> Decodes(write_addr_q)
    <3>1. Perform
      BY <1>8, <2>1 DEF DramEdge, WriteChannels, Collect
    <3> QED BY <3>1 DEF Perform
  <2>3. wr_active' /\ wr_dma_owner' = wr_dma_owner
    BY <1>4, <1>8, <2>1 DEF fires
  <2>4. CASE wr_dma_owner
    <3>1. state = "WRESP" /\ write_addr_q = cur_dst /\ ~Awaits(cw, "DRAM")
      BY <1>8, <2>4 DEF WritesOwned
    <3>2. state' = "WRESP" /\ cur_dst' = cur_dst
      BY <1>3, <2>1, <3>1 DEF Moves
    <3>3. ~Awaits(cw, "DRAM")'
      BY <1>3, <1>8, <3>1 DEF WriteGoes, Awaits, Offers, CpuAccesses, Phases
    <3> QED BY <1>5, <2>2, <2>3, <2>4, <3>1, <3>2, <3>3 DEF WritesOwned
  <2>5. CASE ~wr_dma_owner
    <3>1. Awaits(cw, "DRAM") /\ write_addr_q = cw.req.at
      BY <1>8, <2>5 DEF WritesOwned
    <3>2. "B" \notin takes
      BY <2>1, <3>1 DEF Shown, cpu_mem_bvalid, Awaits
    <3>3. cw' = cw
      BY <3>1, <3>2 DEF WriteGoes, Awaits
    <3>4. state' # "WRESP"
      <4>1. state # "WRESP"
        BY <2>5 DEF WritesOwned, EngineAgrees
      <4>2. ~ToDma.awready
        BY <1>3, <1>8
      <4> QED BY <4>1, <4>2 DEF Moves
    <3> QED BY <1>5, <2>2, <2>3, <2>5, <3>1, <3>3, <3>4 DEF WritesOwned, Awaits
  <2> QED BY <2>4, <2>5
<1>9. CASE wr_active /\ ~write_addr_valid
  <2>1. bvalid /\ ~write_data_valid
    BY <1>0, <1>9 DEF WritesOwned, DramFlags
  <2>2. /\ ~write_addr_valid' /\ ~write_data_valid'
        /\ bvalid' <=> ~d.bready
        /\ bok' = bok
    BY <1>0, <1>1, <1>5, <1>9, <2>1
    DEF d, DramEdge, WriteChannels, Collect, CaptureAddress, CaptureData, Perform,
        awready, wready
  <2>3. (wr_active' <=> ~d.bready) /\ wr_dma_owner' = wr_dma_owner
    BY <1>4, <1>9, <2>1 DEF fires
  <2>4. CASE wr_dma_owner
    <3>1. state = "WRESP" /\ ~Awaits(cw, "DRAM")
      BY <1>9, <2>4 DEF WritesOwned
    <3>2. d.bready
      BY <1>1, <2>4, <3>1 DEF EngineAgrees, bready
    <3>3. state' # "WRESP"
      BY <1>3, <1>9, <2>1, <2>4, <3>1 DEF Moves
    <3>4. ~Awaits(cw, "DRAM")'
      BY <1>3, <1>9, <3>1 DEF WriteGoes, Awaits, Offers, CpuAccesses, Phases
    <3> QED BY <1>5, <2>2, <2>3, <3>2, <3>3, <3>4 DEF WritesOwned
  <2>5. CASE ~wr_dma_owner
    <3>1. Awaits(cw, "DRAM") /\ (bok <=> Decodes(cw.req.at))
      BY <1>9, <2>1, <2>5 DEF WritesOwned
    <3>2. d.bready <=> "B" \in takes
      BY <1>1, <2>5, <3>1
    <3>3. state' # "WRESP"
      <4>1. state # "WRESP"
        BY <2>5 DEF WritesOwned, EngineAgrees
      <4>2. ~ToDma.awready
        BY <1>3, <1>9
      <4> QED BY <4>1, <4>2 DEF Moves
    <3>4. IF "B" \in takes THEN cw'.phase = "none" ELSE cw' = cw
      BY <3>1 DEF WriteGoes, Awaits
    <3>5. CASE "B" \in takes
      BY <1>5, <2>2, <2>3, <3>2, <3>3, <3>4, <3>5 DEF WritesOwned, Awaits
    <3>6. CASE "B" \notin takes
      BY <1>5, <2>2, <2>3, <2>5, <3>1, <3>2, <3>3, <3>4, <3>6 DEF WritesOwned, Awaits
    <3> QED BY <3>5, <3>6
  <2> QED BY <2>4, <2>5
<1> QED BY <1>6, <1>7, <1>8, <1>9
-----------------------------------------------------------------------------
(* The read channel: answered on the edge it is taken, held until its      *)
(* owner takes the answer.                                                 *)
LEMMA ReadChannel ==
  ASSUME NEW takes \in SUBSET Shown, Bits, CpuAccesses, EngineAgrees,
         ReadsOwned, Moves(ToDma), ReadGoes(takes),
         DramEdge(ToDram(takes), Channels), LockEdge(takes)
  PROVE  ReadsOwned'
<1> DEFINE d == ToDram(takes)
           fires == ~rd_active /\ (grant_dma_rd \/ cpu_rd_req)
<1>0. /\ DmaFlags /\ DramFlags /\ rd_active \in BOOLEAN /\ rd_dma_owner \in BOOLEAN
  BY DEF Bits
<1>1. /\ d.arvalid <=> fires
      /\ d.rready <=> IF rd_dma_owner THEN rready ELSE Awaits(cr, "DRAM") /\ "R" \in takes
      /\ d.araddr = IF grant_dma_rd THEN cur_src ELSE cr.req.at
  BY <1>0 DEF ToDram, grant_dma_rd
<1>2. arready(Channels) <=> ~rd_active
  BY <1>0 DEF ReadsOwned, arready, Channels, DramFlags
<1>3. /\ ToDma.arready <=> ~rd_active /\ grant_dma_rd
      /\ ToDma.rvalid <=> rd_active /\ rd_dma_owner /\ rvalid
      /\ cpu_mem_arready <=> ~rd_active /\ ~grant_dma_rd
  BY <1>0, <1>2 DEF ToDma, dma_mem_arready, dma_mem_rvalid, cpu_mem_arready
<1>4. \/ fires /\ rd_active' /\ (rd_dma_owner' <=> grant_dma_rd)
      \/ ~fires /\ (rd_active' <=> rd_active /\ ~(rvalid /\ d.rready))
                /\ rd_dma_owner' = rd_dma_owner
  BY <1>0, <1>1, <1>2 DEF LockEdge
<1>5. \/ fires /\ rvalid' /\ (rok' <=> Decodes(d.araddr))
      \/ ~fires /\ (rvalid' <=> rvalid /\ ~d.rready) /\ rok' = rok
  BY <1>0, <1>1, <1>2 DEF DramEdge, ReadChannels, AcceptRead, HoldRead
<1> HIDE DEF d, fires
<1>6. CASE fires
  <2>1. ~rd_active /\ ~rvalid /\ ~Awaits(cr, "DRAM") /\ ~read_addr_sent
    BY <1>0, <1>6 DEF fires, ReadsOwned
  <2>2. CASE grant_dma_rd
    <3>1. state = "READ" /\ ~Offers(cr, "DRAM")
      BY <2>2 DEF grant_dma_rd, arvalid, cpu_rd_req
    <3>2. state' = "READ" /\ cur_src' = cur_src /\ read_addr_sent'
      BY <1>3, <2>1, <2>2, <3>1 DEF Moves
    <3>3. ~Awaits(cr, "DRAM")'
      BY <2>1, <3>1 DEF ReadGoes, Awaits, Offers, CpuAccesses, Phases
    <3> QED BY <1>1, <1>4, <1>5, <1>6, <2>2, <3>2, <3>3 DEF ReadsOwned
  <2>3. CASE ~grant_dma_rd
    <3>1. Offers(cr, "DRAM")
      BY <1>6, <2>3 DEF fires, cpu_rd_req
    <3>2. Awaits(cr, "DRAM")' /\ cr'.req = cr.req
      BY <1>3, <2>1, <2>3, <3>1 DEF ReadGoes, Awaits, Offers
    <3>3. ~read_addr_sent'
      BY <1>3, <2>1, <2>3 DEF Moves
    <3> QED BY <1>1, <1>4, <1>5, <1>6, <2>3, <3>2, <3>3 DEF ReadsOwned
  <2> QED BY <2>2, <2>3
<1>7. CASE ~fires /\ ~rd_active
  <2>1. ~rvalid /\ ~Awaits(cr, "DRAM") /\ ~read_addr_sent /\ ~Offers(cr, "DRAM")
        /\ ~grant_dma_rd
    BY <1>0, <1>7 DEF fires, ReadsOwned, cpu_rd_req
  <2>2. ~Awaits(cr, "DRAM")'
    BY <2>1 DEF ReadGoes, Awaits, Offers, CpuAccesses, Phases
  <2>3. ~read_addr_sent'
    BY <1>3, <2>1 DEF Moves
  <2> QED BY <1>4, <1>5, <1>7, <2>1, <2>2, <2>3 DEF ReadsOwned
<1>8. CASE rd_active /\ rd_dma_owner
  <2>1. /\ rvalid /\ state = "READ" /\ read_addr_sent /\ ~Awaits(cr, "DRAM")
        /\ ~fires
    BY <1>0, <1>8 DEF ReadsOwned, fires
  <2>2. d.rready /\ ToDma.rvalid
    BY <1>1, <1>3, <1>8, <2>1 DEF EngineAgrees, rready
  <2>3. ~read_addr_sent'
    BY <2>2 DEF Moves
  <2>4. ~Awaits(cr, "DRAM")'
    BY <1>3, <1>8, <2>1 DEF ReadGoes, Awaits, Offers, CpuAccesses, Phases
  <2> QED BY <1>4, <1>5, <2>1, <2>2, <2>3, <2>4 DEF ReadsOwned
<1>9. CASE rd_active /\ ~rd_dma_owner
  <2>1. /\ rvalid /\ Awaits(cr, "DRAM") /\ (rok <=> Decodes(cr.req.at))
        /\ ~read_addr_sent /\ ~fires
    BY <1>0, <1>9 DEF ReadsOwned, fires
  <2>2. d.rready <=> "R" \in takes
    BY <1>1, <1>9, <2>1
  <2>3. ~read_addr_sent'
    BY <1>3, <1>9, <2>1 DEF Moves
  <2>4. IF "R" \in takes THEN cr'.phase = "none" ELSE cr' = cr
    BY <2>1 DEF ReadGoes, Awaits
  <2>5. CASE "R" \in takes
    BY <1>4, <1>5, <2>1, <2>2, <2>3, <2>4, <2>5 DEF ReadsOwned, Awaits
  <2>6. CASE "R" \notin takes
    BY <1>4, <1>5, <1>9, <2>1, <2>2, <2>3, <2>4, <2>6 DEF ReadsOwned, Awaits
  <2> QED BY <2>5, <2>6
<1> QED BY <1>6, <1>7, <1>8, <1>9

(* The DMA's registers: an access is answered on the edge it is taken.     *)
LEMMA RegisterPort ==
  ASSUME NEW takes \in SUBSET Shown, Bits, CpuAccesses, RegistersOwned,
         ReadGoes(takes), WriteGoes(takes), WrapperEdge(takes),
         shared' = IF mmio_rfire THEN mmio_write ELSE shared
  PROVE  RegistersOwned'
<1>0. mmio_bvalid \in BOOLEAN /\ mmio_rvalid \in BOOLEAN /\ shared \in BOOLEAN
  BY DEF Bits
<1>1. /\ mmio_bvalid' <=> \/ mmio_wfire
                          \/ mmio_bvalid /\ ~(Awaits(cw, "DMA") /\ "B" \in takes)
      /\ mmio_rvalid' <=> \/ mmio_rfire
                          \/ mmio_rvalid /\ ~(Awaits(cr, "DMA") /\ "R" \in takes)
      /\ mmio_rdata' = IF mmio_rfire
                       THEN [reg |-> RegShown, val |-> ReadReg(RegShown)]
                       ELSE mmio_rdata
  BY <1>0 DEF WrapperEdge
<1>2. /\ mmio_wfire <=> Offers(cw, "DMA") /\ ~mmio_bvalid
      /\ mmio_rfire <=> Offers(cr, "DMA") /\ ~mmio_rvalid
  BY DEF mmio_wfire, mmio_write, mmio_rfire
<1>3. Awaits(cw, "DMA")' <=> mmio_bvalid'
  BY <1>0, <1>1, <1>2
  DEF RegistersOwned, WriteGoes, Awaits, Offers, CpuAccesses, Phases
<1>4. Awaits(cr, "DMA")' <=> mmio_rvalid'
  BY <1>0, <1>1, <1>2
  DEF RegistersOwned, ReadGoes, Awaits, Offers, CpuAccesses, Phases
<1>5. mmio_rvalid' /\ ~shared' => mmio_rdata'.reg = cr'.req.reg
  <2>1. CASE mmio_rfire
    <3>1. cr'.req = cr.req
      BY <1>2, <2>1 DEF ReadGoes, Offers
    <3>2. ~shared' => mmio_rdata'.reg = cr.req.reg
      BY <1>1, <2>1 DEF RegShown
    <3> QED BY <3>1, <3>2
  <2>2. CASE ~mmio_rfire
    <3>1. mmio_rdata' = mmio_rdata /\ shared' = shared
      BY <1>1, <2>2
    <3>2. mmio_rvalid' => Awaits(cr, "DMA") /\ mmio_rvalid /\ "R" \notin takes
      BY <1>0, <1>1, <2>2 DEF RegistersOwned
    <3>3. mmio_rvalid' => cr' = cr
      BY <3>2 DEF ReadGoes, Awaits
    <3> QED BY <3>1, <3>2, <3>3 DEF RegistersOwned
  <2> QED BY <2>1, <2>2
<1> QED BY <1>3, <1>4, <1>5 DEF RegistersOwned

-----------------------------------------------------------------------------
LEMMA BitsStep ==
  ASSUME NEW takes, NEW read, NEW store, Bits, Clock(takes, read, store)
  PROVE  Bits'
<1>1. DmaFlags'
  BY EngineBits DEF Bits, Clock
<1>2. DramFlags'
  <2> DEFINE m == ToDram(takes)
  <2>0. DramFlags /\ DramEdge(m, Channels)
    BY DEF Bits, Clock
  <2> HIDE DEF m
  <2>1. CASE Collect(m, Channels)
    BY <2>0, <2>1, Zenon
    DEF DramEdge, ReadChannels, AcceptRead, HoldRead, Collect, CaptureAddress,
        CaptureData, DramFlags, Decodes
  <2>2. CASE Perform
    BY <2>0, <2>2, Zenon
    DEF DramEdge, ReadChannels, AcceptRead, HoldRead, Perform, DramFlags, Decodes
  <2> QED BY <2>0, <2>1, <2>2 DEF DramEdge, WriteChannels
<1>3. /\ wr_active' \in BOOLEAN /\ wr_dma_owner' \in BOOLEAN
      /\ rd_active' \in BOOLEAN /\ rd_dma_owner' \in BOOLEAN
  BY Zenon DEF Bits, Clock, LockEdge, grant_dma_wr, grant_dma_rd
<1>4. mmio_bvalid' \in BOOLEAN /\ mmio_rvalid' \in BOOLEAN /\ shared' \in BOOLEAN
  BY Zenon DEF Bits, Clock, WrapperEdge, mmio_wfire, mmio_rfire, mmio_write, Offers
<1> QED BY <1>1, <1>2, <1>3, <1>4 DEF Bits

LEMMA ContractStarts == Init => ContractInv
<1> SUFFICES ASSUME Init PROVE ContractInv
  OBVIOUS
<1>1. Bits
  BY Zenon DEF Init, DmaInit, DramInit, Bits, DmaFlags, DramFlags
<1>2. CpuAccesses
  BY DEF Init, CpuAccesses, NoAccess, Phases
<1>3. EngineAgrees /\ OneWrite /\ OwnersAgree
  BY DEF Init, DmaInit, DramInit, EngineAgrees, States, OneWrite, OwnersAgree, NoAccess,
         Awaits
<1> QED BY <1>1, <1>2, <1>3 DEF ContractInv

LEMMA ContractStep == ContractInv /\ [Next]_vars => ContractInv'
<1> SUFFICES ASSUME ContractInv, [Next]_vars PROVE ContractInv'
  OBVIOUS
<1> USE DEF ContractInv
<1>1. CASE Next
  <2>1. PICK takes \in SUBSET Shown : Edge(takes)
    BY <1>1 DEF Next
  <2>2. PICK read \in {NoRead} \cup IF cr.phase = "none" THEN Reads ELSE {},
             store \in {NoStore} \cup IF cw.phase = "none" THEN Stores ELSE {} :
               Clock(takes, read, store)
    BY <2>1 DEF Edge
  <2>3. Bits'
    BY <2>2, BitsStep
  <2>4. CpuAccesses' /\ ReadGoes(takes) /\ WriteGoes(takes)
    BY <2>2, CpuGoes DEF Clock
  <2>5. EngineAgrees' /\ Moves(ToDma)
    <3>1. ToDma.awready \in BOOLEAN /\ ToDma.wready = ToDma.awready
      BY DEF ToDma, dma_mem_awready
    <3>2. DmaEdge(RegWrite, ToDma)
      BY <2>2 DEF Clock
    <3> QED BY <3>1, <3>2, EngineMoves DEF Bits
  <2>6. OneWrite' /\ WritesOwned'
    BY <2>2, <2>4, <2>5, Owners, WriteChannel DEF Clock
  <2>7. ReadsOwned'
    BY <2>2, <2>4, <2>5, Owners, ReadChannel DEF Clock
  <2>8. RegistersOwned'
    BY <2>2, <2>4, Owners, RegisterPort DEF Clock
  <2>9. OwnersAgree'
    BY <2>6, <2>7, <2>8 DEF OwnersAgree, WritesOwned, ReadsOwned, RegistersOwned
  <2> QED BY <2>3, <2>4, <2>5, <2>6, <2>9
<1>2. CASE UNCHANGED vars
  BY <1>2
  DEF vars, dmaVars, config, status, cursor, counters, sent, writeVars, readVars,
      locks, wrapper, Bits, DmaFlags, DramFlags, CpuAccesses, EngineAgrees, OneWrite,
      OwnersAgree, Awaits, wstrb, BeatBytes
<1> QED BY <1>1, <1>2

(* A lock of the multiplexer is held exactly as long as its owner's access *)
(* is in the memory, and what the memory holds and answers is that access, *)
(* whatever the CPU reads, stores and programs beside the DMA.             *)
THEOREM OwnersAlwaysAgree == Spec => []OwnersAgree
<1>1. ContractInv => OwnersAgree
  BY DEF ContractInv
<1> QED BY <1>1, ContractStarts, ContractStep, PTL DEF Spec

-----------------------------------------------------------------------------
(* CopyJob.  A running transfer stands where its job has got to, and the   *)
(* word on its way holds, in the lanes that will be written, what memory   *)
(* still holds at the source: the only writes of those bytes are the       *)
(* transfer's own, for the CPU stores elsewhere.                           *)
JobTypes ==
  /\ src \in Addresses /\ dst \in Addresses /\ len \in Lengths
  /\ cur_src \in Addr /\ cur_dst \in Addr
  /\ remaining \in Nat /\ bytes_done \in Nat
  /\ job \in [src : Addresses, dst : Addresses, len : Lengths]

JobPlace ==
  /\ ~done /\ ~error
  /\ Aligned(job.src) /\ Aligned(job.dst)
  /\ bytes_done + remaining = job.len
  /\ remaining = 0 <=> state = "DONE"
  /\ remaining > 0 => /\ cur_src = Wrap(job.src + bytes_done)
                      /\ cur_dst = Wrap(job.dst + bytes_done)
                      /\ bytes_done % 4 = 0

(* The lanes of a word that are written are those of memory at the source. *)
Fresh(word) == \A i \in wstrb : word[i] = mem[cur_src + i]

JobWords ==
  /\ state \in {"WRITE", "WRESP"} => Decodes(cur_src)
  /\ state = "WRITE" \/ (state = "WRESP" /\ ~bvalid) => Fresh(read_data_q)
  /\ rvalid /\ rd_dma_owner /\ rok => Fresh(rdata)

JobInv == JobTypes /\ (busy => JobPlace) /\ JobWords

-----------------------------------------------------------------------------
(* The transfer on one edge.                                               *)
AtBeat == UNCHANGED <<cur_src, cur_dst, remaining, bytes_done>>
GoesOn == busy /\ UNCHANGED <<busy, done, error>>

StaysPut ==
  /\ GoesOn /\ AtBeat /\ state \in {"READ", "WRITE", "WRESP"}
  /\ UNCHANGED <<state, read_data_q>>
  /\ state = "READ" => ~dma_mem_rvalid
  /\ state = "WRESP" => ~dma_mem_bvalid
WordTaken ==
  /\ GoesOn /\ AtBeat /\ state = "READ" /\ state' = "WRITE"
  /\ dma_mem_rvalid /\ rok /\ read_data_q' = rdata
BeatOffered ==
  /\ GoesOn /\ AtBeat /\ state = "WRITE" /\ state' = "WRESP"
  /\ UNCHANGED read_data_q
BeatCounted ==
  /\ GoesOn /\ state = "WRESP" /\ state' = "READ" /\ dma_mem_bvalid /\ bok
  /\ remaining > 4 /\ remaining' = remaining - 4
  /\ bytes_done' = bytes_done + 4
  /\ cur_src' = Wrap(cur_src + 4) /\ cur_dst' = Wrap(cur_dst + 4)
LastCounted ==
  /\ GoesOn /\ state = "WRESP" /\ state' = "DONE" /\ dma_mem_bvalid /\ bok
  /\ remaining <= 4 /\ remaining' = 0
  /\ bytes_done' = bytes_done + BeatBytes
  /\ UNCHANGED <<cur_src, cur_dst>>
Faults ==
  /\ busy /\ state' = "IDLE" /\ AtBeat
  /\ \/ state = "READ" /\ dma_mem_rvalid /\ ~rok
     \/ state = "WRESP" /\ dma_mem_bvalid /\ ~bok
  /\ busy' = FALSE /\ done' = TRUE /\ error' = TRUE
Finishes ==
  /\ busy /\ state = "DONE" /\ state' = "IDLE" /\ AtBeat
  /\ busy' = FALSE /\ done' = TRUE /\ error' = error
Starts(w) ==
  /\ ~busy /\ StartBit(w) /\ bytes_done' = 0
  /\ cur_src' = src /\ cur_dst' = dst /\ remaining' = len
  /\ LET refused == ~Aligned(src) \/ ~Aligned(dst)
         empty   == ~refused /\ len = 0
     IN /\ busy' = ~(refused \/ empty)
        /\ done' = (refused \/ empty)
        /\ error' = refused
        /\ state' = IF refused \/ empty THEN "IDLE" ELSE "READ"
RestsOn(w) ==
  /\ ~busy /\ ~StartBit(w) /\ AtBeat /\ state' = state
  /\ busy' = busy
  /\ done' = (done /\ ~ClearBit(w))
  /\ error' = (error /\ ~ClearBit(w))

TransferMoves(w) ==
  \/ StaysPut \/ WordTaken \/ BeatOffered \/ BeatCounted \/ LastCounted
  \/ Faults \/ Finishes \/ Starts(w) \/ RestsOn(w)

LEMMA TransferDoes ==
  ASSUME NEW w, DmaFlags, busy => ~done /\ ~error, DmaEdge(w, ToDma)
  PROVE  TransferMoves(w)
<1> DEFINE b == ToDma
<1>1. /\ b.rvalid = dma_mem_rvalid /\ b.rok = rok /\ b.rdata = rdata
      /\ b.bvalid = dma_mem_bvalid /\ b.bok = bok
  BY DEF ToDma
<1>2. DmaEdge(w, b)
  OBVIOUS
<1>3. busy /\ Carry(w) => GoesOn
  <2>1. busy /\ Carry(w) => done' = done /\ error' = error
    BY Zenon DEF DmaFlags, Carry, Clear
  <2> QED BY <2>1 DEF Carry, GoesOn
<1> HIDE DEF b
<1> USE DEF TransferMoves
<1>4. CASE AwaitRead(w, b)
  BY <1>1, <1>3, <1>4 DEF AwaitRead, cursor, counters, StaysPut, AtBeat
<1>5. CASE TakeRead(w, b)
  <2>1. CASE rok /\ state' = "WRITE" /\ Carry(w)
    BY <1>1, <1>3, <1>5, <2>1 DEF TakeRead, cursor, WordTaken, AtBeat
  <2>2. CASE ~rok /\ StopWithError
    BY <1>1, <1>5, <2>2 DEF TakeRead, StopWithError, cursor, Faults, AtBeat
  <2> QED BY <1>1, <1>5, <2>1, <2>2 DEF TakeRead
<1>6. CASE IssueWrite(w, b)
  <2>1. /\ GoesOn /\ AtBeat /\ state = "WRITE" /\ state' \in {"WRITE", "WRESP"}
        /\ UNCHANGED read_data_q
    BY <1>3, <1>6 DEF IssueWrite, cursor, counters, AtBeat
  <2> QED BY <2>1 DEF BeatOffered, StaysPut
<1>7. CASE AwaitResponse(w, b)
  BY <1>1, <1>3, <1>7 DEF AwaitResponse, cursor, counters, StaysPut, AtBeat
<1>8. CASE WriteFault(w, b)
  BY <1>1, <1>8 DEF WriteFault, StopWithError, cursor, Faults, AtBeat
<1>9. CASE NextBeat(w, b)
  BY <1>1, <1>3, <1>9 DEF NextBeat, BeatCounted
<1>10. CASE LastBeat(w, b)
  BY <1>1, <1>3, <1>10 DEF LastBeat, LastCounted
<1>11. CASE Finish(w)
  <2>1. error' = error
    BY <1>11, Zenon DEF Finish, DmaFlags
  <2> QED BY <1>11, <2>1 DEF Finish, cursor, counters, Finishes, AtBeat
<1>12. CASE Start(w)
  BY <1>12, Zenon DEF Start, Starts
<1>13. CASE Idle(w)
  BY <1>13, Zenon DEF Idle, Carry, Clear, cursor, counters, RestsOn, AtBeat
<1> QED BY <1>2, <1>4, <1>5, <1>6, <1>7, <1>8, <1>9, <1>10, <1>11, <1>12, <1>13
        DEF DmaEdge

-----------------------------------------------------------------------------
(* The memory on one edge: the DMA's beat, or what the CPU stores.         *)
Mapped(m) == [a \in 0 .. MemBytes - 1 |-> IF a \in Stored THEN a ELSE m[a]]
Performs == state = "WRESP" /\ ~bvalid

BeatLands ==
  /\ bvalid' /\ (bok' <=> Decodes(cur_dst))
  /\ mem' = IF Decodes(cur_dst) THEN Merge(mem, cur_dst, read_data_q, wstrb)
                                ELSE mem
Aside == \A a \in 0 .. MemBytes - 1 : a \notin Stored => mem'[a] = mem[a]

Answers ==
  /\ Performs => BeatLands
  /\ ~Performs => Aside
  /\ state # "WRESP" /\ state' = "WRESP" => ~bvalid'
  /\ (rvalid /\ rd_dma_owner /\ rok)' =>
       /\ state = "READ" /\ ~dma_mem_rvalid
       /\ Decodes(cur_src) /\ rdata' = WordAt(mem, cur_src)

LEMMA OwnPorts ==
  ASSUME ContractInv
  PROVE  /\ dma_mem_bvalid <=> state = "WRESP" /\ bvalid
         /\ dma_mem_rvalid <=> rvalid /\ rd_dma_owner
         /\ dma_mem_rvalid => state = "READ" /\ (rok <=> Decodes(cur_src))
         /\ dma_mem_bvalid => (bok <=> Decodes(cur_dst))
BY DEF ContractInv, EngineAgrees, OwnersAgree, dma_mem_bvalid, dma_mem_rvalid

LEMMA CpuStoreAside ==
  ASSUME ContractInv, Perform, ~wr_dma_owner
  PROVE  Aside
<1>1. /\ Awaits(cw, "DRAM") /\ write_addr_q = cw.req.at
      /\ write_strb_q = cw.req.strb
  BY DEF Perform, ContractInv, Bits, DramFlags, OwnersAgree
<1>2. cw.req \in Stores /\ cw.req.port = "DRAM"
  <2>1. cw.req \in Stores \cup {NoStore}
    BY DEF ContractInv, CpuAccesses
  <2>2. NoStore.port = "NONE"
    BY DEF NoStore
  <2>3. cw.req.port = "DRAM"
    BY <1>1 DEF Awaits
  <2> QED BY <2>1, <2>2, <2>3
<1>3. cw.req.at \in CpuStores /\ cw.req.strb \in {Lanes, {0}}
  <2>1. CASE cw.req \in [port : {"DRAM"}, at : CpuStores, strb : {Lanes, {0}},
                         write : {NoWrite}]
    BY <2>1
  <2>2. CASE cw.req \in [port : {"DMA"}, at : {0}, strb : {Lanes},
                         write : CpuWrites]
    BY <1>2, <2>2
  <2> QED BY <1>2, <2>1, <2>2 DEF Stores
<1>4. cw.req.at \in Nat
  <2>1. cw.req.at \in Addr
    BY <1>3, ContractAssumption DEF ContractAssumption
  <2> QED BY <2>1, BusAssumption DEF BusAssumption, Addr
<1>5. ASSUME NEW a \in 0 .. MemBytes - 1, a \notin Stored
      PROVE  mem'[a] = mem[a]
  <2>1. a \notin cw.req.at .. cw.req.at + 3
    BY <1>3, <1>5 DEF Stored
  <2>2. a - cw.req.at \notin Lanes
    BY <1>4, <2>1, BusAssumption DEF BusAssumption, Lanes
  <2>3. a - cw.req.at \notin cw.req.strb
    <3>1. cw.req.strb \subseteq Lanes
      BY <1>3 DEF Lanes
    <3> QED BY <2>2, <3>1
  <2>4. CASE Decodes(write_addr_q)
    <3>1. mem' = Merge(mem, cw.req.at, write_data_q, cw.req.strb)
      BY <1>1, <2>4 DEF Perform
    <3> QED BY <2>3, <3>1 DEF Merge
  <2>5. CASE ~Decodes(write_addr_q)
    BY <2>5 DEF Perform
  <2> QED BY <2>4, <2>5
<1> QED BY <1>5 DEF Aside

LEMMA MemoryDoes ==
  ASSUME NEW takes, ContractInv, ContractInv', Moves(ToDma),
         DramEdge(ToDram(takes), Channels), LockEdge(takes)
  PROVE  Answers
<1> DEFINE d == ToDram(takes)
<1>0. /\ DmaFlags /\ DramFlags /\ WritesOwned /\ ReadsOwned /\ OneWrite
      /\ wr_active \in BOOLEAN /\ rd_active \in BOOLEAN /\ EngineAgrees
      /\ wr_dma_owner \in BOOLEAN /\ rd_dma_owner \in BOOLEAN
  BY Owners DEF ContractInv, Bits
<1>1. \/ Perform
      \/ /\ ~(write_addr_valid /\ write_data_valid /\ ~bvalid) /\ mem' = mem
         /\ bvalid' = (bvalid /\ ~d.bready)
  BY DEF DramEdge, WriteChannels, Collect
<1>2. Performs => wr_active /\ wr_dma_owner /\ write_addr_valid /\ write_data_valid
  BY <1>0 DEF Performs, WritesOwned, EngineAgrees, DramFlags
<1>3. Performs => BeatLands
  <2>1. Performs => /\ write_addr_q = cur_dst /\ write_data_q = read_data_q
                    /\ write_strb_q = wstrb
    BY <1>0, <1>2 DEF WritesOwned
  <2>2. Performs => Perform
    BY <1>1, <1>2 DEF Performs
  <2> QED BY <2>1, <2>2 DEF Perform, BeatLands
<1>4. ~Performs => Aside
  <2>1. CASE Perform
    <3>1. wr_dma_owner => Performs
      BY <1>0, <2>1 DEF Perform, Performs, WritesOwned, DramFlags
    <3> QED BY <2>1, <3>1, CpuStoreAside
  <2>2. CASE mem' = mem
    BY <2>2 DEF Aside
  <2> QED BY <1>1, <2>1, <2>2
<1>5. state # "WRESP" /\ state' = "WRESP" => ~bvalid'
  <2>1. SUFFICES ASSUME state # "WRESP", state' = "WRESP" PROVE ~bvalid'
    OBVIOUS
  <2>2. ToDma.awready
    BY <1>0, <2>1 DEF Moves, EngineAgrees, States
  <2>3. ~write_addr_valid /\ ~bvalid
    BY <1>0, <2>2
    DEF ToDma, dma_mem_awready, dram_ready, awready, DramFlags
  <2> QED BY <1>1, <2>3 DEF Perform
<1>6. ASSUME rvalid', rd_dma_owner', rok'
      PROVE  /\ state = "READ" /\ ~dma_mem_rvalid
             /\ Decodes(cur_src) /\ rdata' = WordAt(mem, cur_src)
  <2>1. /\ d.arvalid <=> ~rd_active /\ (grant_dma_rd \/ cpu_rd_req)
        /\ d.rready <=> IF rd_dma_owner THEN rready
                        ELSE Awaits(cr, "DRAM") /\ "R" \in takes
        /\ d.araddr = IF grant_dma_rd THEN cur_src ELSE cr.req.at
    BY <1>0 DEF ToDram, grant_dma_rd
  <2>2. arready(Channels) <=> ~rd_active
    BY <1>0 DEF ReadsOwned, arready, Channels, DramFlags
  <2> HIDE DEF d
  <2>3. CASE ~rd_active /\ d.arvalid
    <3>1. grant_dma_rd
      BY <1>6, <2>2, <2>3 DEF LockEdge, d
    <3>2. rok' = Decodes(cur_src)
          /\ rdata' = IF Decodes(cur_src) THEN WordAt(mem, cur_src) ELSE Filler
      BY <2>1, <2>2, <2>3, <3>1
      DEF d, DramEdge, ReadChannels, AcceptRead, HoldRead
    <3> QED BY <1>6, <2>3, <3>1, <3>2
            DEF grant_dma_rd, arvalid, dma_mem_rvalid
  <2>4. CASE rd_active \/ ~d.arvalid
    <3>1. rvalid /\ rd_dma_owner /\ ~d.rready
      <4>1. rvalid /\ ~d.rready
        BY <1>0, <1>6, <2>2, <2>4
        DEF d, DramEdge, ReadChannels, AcceptRead, HoldRead, DramFlags
      <4>2. rd_dma_owner' = rd_dma_owner
        BY <2>2, <2>4 DEF d, LockEdge
      <4> QED BY <1>6, <4>1, <4>2
    <3>2. rready
      BY <1>0, <3>1 DEF ReadsOwned, rready, EngineAgrees
    <3> QED BY <2>1, <3>1, <3>2
  <2> QED BY <2>3, <2>4
<1> QED BY <1>3, <1>4, <1>5, <1>6 DEF Answers

(* A running transfer stands where the job has got to, and the bytes it    *)
(* moves there are bytes the CPU does not store to.                        *)
LEMMA AtJob ==
  ASSUME JobTypes, JobPlace, remaining > 0
  PROVE  /\ cur_src = Job!At(job.src, bytes_done)
         /\ cur_dst = Job!At(job.dst, bytes_done)
         /\ Aligned(cur_src) /\ Aligned(cur_dst)
         /\ job.len - bytes_done = remaining
         /\ BeatBytes \in 1 .. 4 /\ wstrb \subseteq Lanes
         /\ Decodes(cur_src) => \A i \in wstrb : /\ cur_src + i \notin Stored
                                                 /\ cur_src + i \in 0 .. MemBytes - 1
         /\ Decodes(cur_dst) => \A i \in wstrb : /\ cur_dst + i \notin Stored
                                                 /\ cur_dst + i \in 0 .. MemBytes - 1
<1>1. /\ job.src \in Addr /\ job.dst \in Addr /\ job.len \in Addr
      /\ job.src \in Addresses /\ job.dst \in Addresses /\ job.len \in Lengths
  BY DmaAssumption DEF DmaAssumption, JobTypes
<1>2. /\ bytes_done \in Nat /\ remaining \in Nat
      /\ bytes_done + remaining = job.len /\ bytes_done % 4 = 0
  BY DEF JobTypes, JobPlace
<1>3. job.len - bytes_done = remaining
  BY <1>1, <1>2 DEF Addr
<1>4. /\ BeatBytes \in 1 .. 4 /\ wstrb \subseteq Lanes
      /\ \A i \in wstrb : i \in Lanes /\ i < remaining
  BY <1>2 DEF BeatBytes, wstrb, Lanes
<1>5. ASSUME NEW base \in Addresses, base \in Addr, Aligned(base)
      PROVE  LET at == Wrap(base + bytes_done) IN
             /\ at = Job!At(base, bytes_done) /\ Aligned(at)
             /\ Decodes(at) => \A i \in wstrb : /\ at + i \notin Stored
                                                /\ at + i \in 0 .. MemBytes - 1
  <2> DEFINE at == Wrap(base + bytes_done)
  <2>1. base \in Nat /\ base % 4 = 0 /\ base < AddrSpace
    BY <1>5, BusAssumption DEF BusAssumption, Addr, Aligned
  <2>2. at = Job!At(base, bytes_done)
    BY <1>2, <2>1, BusAssumption DEF BusAssumption, Wrap, Job!At
  <2>3. at % 4 = 0 /\ at \in Int /\ at >= 0
    BY <1>2, <2>1, BusAssumption DEF BusAssumption, Wrap
  <2>4. ASSUME NEW i \in wstrb, Decodes(at)
        PROVE  at + i \notin Stored /\ at + i \in 0 .. MemBytes - 1
    <3>0. i \in Lanes /\ i < remaining
      BY <1>4
    <3>1. bytes_done + i \in 0 .. job.len - 1
      BY <1>1, <1>2, <3>0 DEF Addr, Lanes
    <3>2. Wrap(base + (bytes_done + i)) \notin Stored
      BY <1>1, <1>5, <3>1, ContractAssumption
      DEF ContractAssumption, ApartFromTransfers
    <3>3. at < MemBytes
      BY <2>4 DEF Decodes
    <3>4. Wrap(base + (bytes_done + i)) = at + i
      <4>1. CASE base + bytes_done < AddrSpace
        <5>1. base + bytes_done + 4 <= AddrSpace
          BY <1>2, <2>1, <4>1, BusAssumption DEF BusAssumption
        <5> QED BY <1>2, <2>1, <3>0, <4>1, <5>1, BusAssumption
                DEF BusAssumption, Wrap, Lanes
      <4>2. CASE ~(base + bytes_done < AddrSpace)
        BY <1>2, <2>1, <3>0, <4>2, BusAssumption DEF BusAssumption, Wrap, Lanes
      <4> QED BY <4>1, <4>2
    <3>5. at + i \in 0 .. MemBytes - 1
      <4> HIDE DEF at
      <4> QED BY <2>3, <3>0, <3>3, BusAssumption DEF BusAssumption, Lanes
    <3> QED BY <3>2, <3>4, <3>5
  <2> QED BY <2>2, <2>3, <2>4 DEF Aligned
<1>6. /\ cur_src = Wrap(job.src + bytes_done)
      /\ cur_dst = Wrap(job.dst + bytes_done)
      /\ Aligned(job.src) /\ Aligned(job.dst)
  BY DEF JobPlace
<1>7. /\ cur_src = Job!At(job.src, bytes_done) /\ Aligned(cur_src)
      /\ Decodes(cur_src) => \A i \in wstrb : /\ cur_src + i \notin Stored
                                              /\ cur_src + i \in 0 .. MemBytes - 1
  BY <1>1, <1>5, <1>6
<1>8. /\ cur_dst = Job!At(job.dst, bytes_done) /\ Aligned(cur_dst)
      /\ Decodes(cur_dst) => \A i \in wstrb : /\ cur_dst + i \notin Stored
                                              /\ cur_dst + i \in 0 .. MemBytes - 1
  BY <1>1, <1>5, <1>6
<1> QED BY <1>3, <1>4, <1>7, <1>8

LEMMA RegWriteType ==
  ASSUME CpuAccesses
  PROVE  RegWrite \in Writes
<1>1. NoWrite \in Writes
  BY DEF Writes
<1>2. ASSUME mmio_write PROVE cw.req.write \in Writes
  <2>1. cw.req \in Stores \cup {NoStore} /\ cw.req.port = "DMA"
    BY <1>2 DEF CpuAccesses, mmio_write, Offers
  <2>2. NoStore.port = "NONE"
    BY DEF NoStore
  <2>3. cw.req \in Stores
    BY <2>1, <2>2
  <2>4. CASE cw.req \in [port : {"DRAM"}, at : CpuStores, strb : {Lanes, {0}},
                         write : {NoWrite}]
    BY <2>1, <2>4
  <2>5. CASE cw.req \in [port : {"DMA"}, at : {0}, strb : {Lanes},
                         write : CpuWrites]
    BY <2>5, ContractAssumption DEF ContractAssumption
  <2> QED BY <2>3, <2>4, <2>5 DEF Stores
<1> QED BY <1>1, <1>2 DEF RegWrite

LEMMA ProgrammedType ==
  ASSUME NEW w \in Writes, JobTypes, Configure(w)
  PROVE  src' \in Addresses /\ dst' \in Addresses /\ len' \in Lengths
<1>1. /\ w.reg \in {"SRC", "DST"} => w.val \in Addresses
      /\ w.reg = "LEN" => w.val \in Lengths
  <2>1. CASE w = NoWrite
    BY <2>1 DEF NoWrite
  <2>2. CASE w \in [reg : {"SRC", "DST"}, val : Addresses]
    BY <2>2
  <2>3. CASE w \in [reg : {"LEN"}, val : Lengths]
    BY <2>3
  <2>4. CASE w \in [reg : {"CTRL"}, val : 0 .. 3]
    BY <2>4
  <2> QED BY <2>1, <2>2, <2>3, <2>4 DEF Writes
<1> QED BY <1>1 DEF Configure, JobTypes

Records(w) ==
  job' = IF Accepted(w) THEN [src |-> src, dst |-> dst, len |-> len] ELSE job

LEMMA JobFollows ==
  ASSUME NEW w, Records(w), TransferMoves(w)
  PROVE  /\ Starts(w) => job' = [src |-> src, dst |-> dst, len |-> len]
         /\ ~Starts(w) => job' = job
BY DEF Records, Accepted, TransferMoves, Starts, StaysPut, WordTaken, BeatOffered,
       BeatCounted, LastCounted, Faults, Finishes, RestsOn, GoesOn

LEMMA TypesStep ==
  ASSUME NEW w \in Writes, JobTypes, Configure(w), Records(w), TransferMoves(w)
  PROVE  JobTypes'
<1> USE DEF AtBeat, GoesOn
<1>1. src \in Addr /\ dst \in Addr /\ len \in Nat
  BY DmaAssumption, BusAssumption DEF DmaAssumption, BusAssumption, JobTypes, Addr
<1>2. src' \in Addresses /\ dst' \in Addresses /\ len' \in Lengths
  BY ProgrammedType
<1>3. job' \in [src : Addresses, dst : Addresses, len : Lengths]
  BY JobFollows DEF JobTypes
<1>4. /\ cur_src' \in Addr /\ cur_dst' \in Addr
      /\ remaining' \in Nat /\ bytes_done' \in Nat
  <2>1. CASE BeatCounted
    <3>1. \A a \in Addr : Wrap(a + 4) \in Addr
      BY BusAssumption DEF BusAssumption, Addr, Wrap
    <3> QED BY <2>1, <3>1 DEF BeatCounted, JobTypes
  <2>2. CASE LastCounted
    BY <2>2 DEF LastCounted, BeatBytes, JobTypes
  <2>3. CASE Starts(w)
    BY <1>1, <2>3 DEF Starts
  <2>4. CASE AtBeat
    BY <2>4 DEF JobTypes
  <2> QED BY <2>1, <2>2, <2>3, <2>4
          DEF TransferMoves, StaysPut, WordTaken, BeatOffered, Faults, Finishes, RestsOn
<1> QED BY <1>2, <1>3, <1>4 DEF JobTypes

LEMMA PlaceStep ==
  ASSUME NEW w, EngineAgrees, JobTypes, busy => JobPlace, Records(w),
         TransferMoves(w), busy'
  PROVE  JobPlace'
<1> USE DEF AtBeat, GoesOn
<1>1. /\ Starts(w) => job' = [src |-> src, dst |-> dst, len |-> len]
      /\ ~Starts(w) => job' = job
  BY JobFollows
<1>2. /\ src \in Addr /\ dst \in Addr /\ len \in Addr
      /\ job.src \in Addr /\ job.dst \in Addr /\ job.len \in Addr
  BY DmaAssumption DEF DmaAssumption, JobTypes
<1>3. CASE StaysPut \/ WordTaken \/ BeatOffered
  <2>1. /\ busy /\ state \in {"READ", "WRITE", "WRESP"}
        /\ state' \in {"READ", "WRITE", "WRESP"}
        /\ UNCHANGED <<done, error, cur_src, cur_dst, remaining, bytes_done>>
    BY <1>3 DEF StaysPut, WordTaken, BeatOffered
  <2>2. job' = job
    BY <1>1, <2>1 DEF Starts
  <2> QED BY <2>1, <2>2 DEF JobPlace
<1>4. CASE BeatCounted
  <2>1. job' = job /\ JobPlace
    BY <1>1, <1>4 DEF BeatCounted, Starts
  <2>2. /\ bytes_done \in Nat /\ remaining \in Nat /\ remaining > 4
        /\ bytes_done + remaining = job.len /\ bytes_done % 4 = 0
        /\ cur_src = Wrap(job.src + bytes_done)
        /\ cur_dst = Wrap(job.dst + bytes_done)
    BY <1>4, <2>1 DEF BeatCounted, JobTypes, JobPlace
  <2>3. /\ bytes_done' = bytes_done + 4 /\ remaining' = remaining - 4
        /\ cur_src' = Wrap(cur_src + 4) /\ cur_dst' = Wrap(cur_dst + 4)
        /\ state' = "READ" /\ UNCHANGED <<done, error>>
    BY <1>4 DEF BeatCounted
  <2>4. /\ bytes_done' + remaining' = job.len /\ bytes_done' % 4 = 0
        /\ remaining' > 0
    BY <1>2, <2>2, <2>3 DEF Addr
  <2>5. bytes_done + 4 < AddrSpace
    BY <1>2, <2>2, BusAssumption DEF BusAssumption, Addr
  <2>6. \A base \in Addr :
          Wrap(Wrap(base + bytes_done) + 4) = Wrap(base + (bytes_done + 4))
    BY <2>2, <2>5, BusAssumption DEF BusAssumption, Addr, Wrap
  <2>7. /\ cur_src' = Wrap(job.src + bytes_done')
        /\ cur_dst' = Wrap(job.dst + bytes_done')
    BY <1>2, <2>2, <2>3, <2>6
  <2> QED BY <2>1, <2>3, <2>4, <2>7 DEF JobPlace
<1>5. CASE LastCounted
  <2>1. job' = job /\ JobPlace
    BY <1>1, <1>5 DEF LastCounted, Starts
  <2>2. /\ bytes_done \in Nat /\ remaining \in Nat
        /\ bytes_done + remaining = job.len /\ remaining <= 4
    BY <1>5, <2>1 DEF LastCounted, JobTypes, JobPlace
  <2>3. BeatBytes = remaining
    BY <2>2 DEF BeatBytes
  <2>4. /\ bytes_done' = bytes_done + remaining /\ remaining' = 0
        /\ state' = "DONE" /\ UNCHANGED <<done, error>>
    BY <1>5, <2>3 DEF LastCounted
  <2>5. bytes_done' + remaining' = job.len
    BY <1>2, <2>2, <2>4
  <2> QED BY <2>1, <2>4, <2>5 DEF JobPlace
<1>6. CASE Starts(w)
  <2>1. job' = [src |-> src, dst |-> dst, len |-> len]
    BY <1>1, <1>6
  <2>2. /\ Aligned(src) /\ Aligned(dst) /\ len # 0 /\ state' = "READ"
        /\ ~done' /\ ~error'
        /\ cur_src' = src /\ cur_dst' = dst /\ remaining' = len
        /\ bytes_done' = 0
    BY <1>6 DEF Starts
  <2>3. \A a \in Addr : Wrap(a + 0) = a
    BY BusAssumption DEF BusAssumption, Addr, Wrap
  <2>4. 0 + len = len
    BY <1>2, BusAssumption DEF BusAssumption, Addr
  <2> QED BY <1>2, <2>1, <2>2, <2>3, <2>4 DEF JobPlace
<1>7. CASE Faults \/ Finishes \/ RestsOn(w)
  BY <1>7 DEF Faults, Finishes, RestsOn
<1> QED BY <1>3, <1>4, <1>5, <1>6, <1>7 DEF TransferMoves

(* The word on its way stays that of memory at the source until it lands.  *)
LEMMA WordsStep ==
  ASSUME NEW w, ContractInv, ContractInv', JobInv, TransferMoves(w), Answers
  PROVE  JobWords'
<1> USE DEF AtBeat, GoesOn
<1>1. JobTypes /\ (busy => JobPlace) /\ JobWords /\ EngineAgrees
  BY DEF JobInv, ContractInv
<1>2. /\ dma_mem_bvalid <=> state = "WRESP" /\ bvalid
      /\ dma_mem_rvalid <=> rvalid /\ rd_dma_owner
      /\ dma_mem_rvalid => state = "READ" /\ (rok <=> Decodes(cur_src))
  BY OwnPorts
<1>3. ASSUME busy, state \in {"READ", "WRITE"}, Decodes(cur_src)
      PROVE  /\ \A i \in wstrb : mem'[cur_src + i] = mem[cur_src + i]
             /\ wstrb \subseteq Lanes
  <2>1. JobPlace /\ remaining > 0
    BY <1>1, <1>3 DEF JobPlace, JobTypes
  <2>2. Aside
    BY <1>3 DEF Answers, Performs
  <2> QED BY <1>1, <1>3, <2>1, <2>2, AtJob DEF Aside
<1>4. AtBeat => wstrb' = wstrb
  BY DEF wstrb, BeatBytes
<1>5. state' = "WRITE" => /\ GoesOn /\ AtBeat /\ state \in {"READ", "WRITE"}
                          /\ \/ WordTaken
                             \/ state = "WRITE" /\ read_data_q' = read_data_q
  BY <1>1 DEF EngineAgrees, TransferMoves, Starts, StaysPut, WordTaken, BeatOffered,
         BeatCounted, LastCounted, Faults, Finishes, RestsOn
<1>6. state' = "WRESP" => /\ GoesOn /\ AtBeat /\ state \in {"WRITE", "WRESP"}
                          /\ read_data_q' = read_data_q
                          /\ state = "WRESP" => ~dma_mem_bvalid
  BY <1>1 DEF EngineAgrees, TransferMoves, Starts, StaysPut, WordTaken, BeatOffered,
         BeatCounted, LastCounted, Faults, Finishes, RestsOn
<1>7. state' = "WRESP" /\ ~bvalid' => state = "WRITE"
  BY <1>2, <1>6 DEF Answers, Performs, BeatLands
<1>8. ASSUME state' = "WRITE" PROVE Decodes(cur_src)' /\ Fresh(read_data_q)'
  <2>1. /\ GoesOn /\ AtBeat /\ state \in {"READ", "WRITE"}
        /\ WordTaken \/ (state = "WRITE" /\ read_data_q' = read_data_q)
    BY <1>5, <1>8
  <2>2. Decodes(cur_src) /\ Fresh(read_data_q')
    <3>1. CASE WordTaken
      BY <1>1, <1>2, <3>1 DEF WordTaken, JobWords
    <3>2. CASE state = "WRITE" /\ read_data_q' = read_data_q
      BY <1>1, <3>2 DEF JobWords
    <3> QED BY <2>1, <3>1, <3>2
  <2> QED BY <1>3, <1>4, <2>1, <2>2 DEF Fresh
<1>9. ASSUME state' = "WRESP" PROVE Decodes(cur_src)'
  BY <1>1, <1>6, <1>9 DEF JobWords
<1>10. ASSUME state' = "WRESP", ~bvalid' PROVE Fresh(read_data_q)'
  <2>1. /\ GoesOn /\ AtBeat /\ state = "WRITE" /\ read_data_q' = read_data_q
    BY <1>6, <1>7, <1>10
  <2>2. Decodes(cur_src) /\ Fresh(read_data_q)
    BY <1>1, <2>1 DEF JobWords
  <2> QED BY <1>3, <1>4, <2>1, <2>2 DEF Fresh
<1>11. ASSUME rvalid', rd_dma_owner', rok' PROVE Fresh(rdata)'
  <2>1. /\ state = "READ" /\ ~dma_mem_rvalid
        /\ Decodes(cur_src) /\ rdata' = WordAt(mem, cur_src)
    BY <1>11 DEF Answers
  <2>2. state' = "READ"
    BY <1>11, OwnPorts DEF ContractInv, OwnersAgree
  <2>3. StaysPut
    BY <2>1, <2>2 DEF TransferMoves, Starts, StaysPut, WordTaken, BeatOffered,
           BeatCounted, LastCounted, Faults, Finishes, RestsOn, ContractInv, EngineAgrees
  <2>4. /\ wstrb' = wstrb /\ cur_src' = cur_src
        /\ \A i \in wstrb : mem'[cur_src + i] = mem[cur_src + i]
        /\ wstrb \subseteq Lanes
    BY <1>3, <1>4, <2>1, <2>3 DEF StaysPut
  <2> QED BY <2>1, <2>4 DEF Fresh, WordAt
<1> QED BY <1>8, <1>9, <1>10, <1>11 DEF JobWords

-----------------------------------------------------------------------------
(* What one edge is to the job.                                            *)
Landed == bytes_done + (IF dma_mem_bvalid /\ bok THEN BeatBytes ELSE 0)
JobStands == Mapped(mem)' = Mapped(mem) /\ job' = job /\ Landed' = Landed

LEMMA JobStutters ==
  ASSUME JobStands, UNCHANGED <<busy, done, error>>
  PROVE  UNCHANGED Job!jobVars
BY DEF JobStands, Mapped, Landed, Job!jobVars

LEMMA AsideUnmapped ==
  ASSUME Aside
  PROVE  Mapped(mem)' = Mapped(mem)
BY DEF Aside, Mapped

LEMMA LandedIs ==
  ASSUME ContractInv, ContractInv', JobTypes, JobTypes'
  PROVE  /\ state # "WRESP" \/ ~bvalid \/ ~bok => Landed = bytes_done
         /\ state = "WRESP" /\ bvalid /\ bok => Landed = bytes_done + BeatBytes
         /\ (state # "WRESP" \/ ~bvalid \/ ~bok)' => Landed' = bytes_done'
         /\ (state = "WRESP" /\ bvalid /\ bok)' =>
              Landed' = bytes_done' + BeatBytes'
<1>1. bytes_done \in Nat /\ bytes_done' \in Nat
  BY DEF JobTypes
<1>2. bytes_done + 0 = bytes_done /\ bytes_done' + 0 = bytes_done'
  <2>1. \A n \in Nat : n + 0 = n
    OBVIOUS
  <2> QED BY <1>1, <2>1, Zenon
<1>3. /\ dma_mem_bvalid <=> state = "WRESP" /\ bvalid
      /\ dma_mem_bvalid' <=> (state = "WRESP" /\ bvalid)'
  <2>1. dma_mem_bvalid <=> state = "WRESP" /\ bvalid
    BY OwnPorts
  <2>2. dma_mem_bvalid' <=> (state = "WRESP" /\ bvalid)'
    BY DEF ContractInv, EngineAgrees, OwnersAgree, dma_mem_bvalid
  <2> QED BY <2>1, <2>2
<1> QED BY <1>2, <1>3 DEF Landed

(* A write that lands is the next beat of the job.                         *)
LEMMA WriteIsBeat ==
  ASSUME ContractInv, ContractInv', JobInv, JobTypes', job' = job,
         StaysPut, Performs, Answers, Decodes(cur_dst)
  PROVE  Job!CopyBeat
<1>1. /\ busy /\ state = "WRESP" /\ ~bvalid /\ state' = "WRESP" /\ bvalid' /\ bok'
      /\ UNCHANGED <<busy, done, error>>
      /\ remaining' = remaining /\ bytes_done' = bytes_done
      /\ mem' = Merge(mem, cur_dst, read_data_q, wstrb)
  BY DEF StaysPut, GoesOn, AtBeat, Performs, Answers, BeatLands
<1>2. /\ JobTypes /\ JobPlace /\ Decodes(cur_src) /\ remaining > 0
      /\ Fresh(read_data_q)
  BY <1>1 DEF JobInv, JobWords, JobPlace, JobTypes
<1>3. /\ cur_src = Job!At(job.src, bytes_done)
      /\ cur_dst = Job!At(job.dst, bytes_done)
      /\ job.len - bytes_done = remaining /\ BeatBytes \in 1 .. 4
      /\ \A i \in wstrb : cur_src + i \notin Stored /\ cur_src + i \in 0 .. MemBytes - 1
      /\ \A i \in wstrb : cur_dst + i \notin Stored
  BY <1>1, <1>2, AtJob
<1>4. /\ bytes_done \in Nat /\ remaining \in Nat
      /\ cur_src \in Nat /\ cur_dst \in Nat
      /\ cur_src + 4 <= MemBytes /\ cur_dst + 4 <= MemBytes
  <2>1. /\ bytes_done \in Nat /\ remaining \in Nat
        /\ cur_src \in Addr /\ cur_dst \in Addr
    BY <1>2 DEF JobTypes
  <2> QED BY <1>2, <2>1, BusAssumption DEF BusAssumption, Decodes, Aligned, Addr
<1>5. Landed = bytes_done /\ Landed' = bytes_done + BeatBytes
  <2>1. BeatBytes' = BeatBytes
    BY <1>1 DEF BeatBytes
  <2> QED BY <1>1, <1>2, <2>1, LandedIs
<1>6. BeatBytes = IF job.len - Landed >= 4 THEN 4 ELSE job.len - Landed
  BY <1>3, <1>5 DEF BeatBytes
<1> DEFINE n == BeatBytes
<1>7. n \in 1 .. 4 /\ wstrb = 0 .. n - 1
  BY <1>3 DEF wstrb
<1> HIDE DEF n
<1>8. ASSUME NEW a \in 0 .. MemBytes - 1
      PROVE  Mapped(mem)'[a]
               = IF a \in cur_dst .. cur_dst + n - 1
                 THEN Mapped(mem)[cur_src + (a - cur_dst)] ELSE Mapped(mem)[a]
  <2>1. a - cur_dst \in wstrb <=> a \in cur_dst .. cur_dst + n - 1
    BY <1>4, <1>7
  <2>2. CASE a - cur_dst \in wstrb
    <3>1. mem'[a] = mem[cur_src + (a - cur_dst)]
      BY <1>1, <1>2, <2>2 DEF Merge, Fresh
    <3>2. a \notin Stored
      <4>1. cur_dst + (a - cur_dst) = a
        BY <1>4
      <4> QED BY <1>3, <2>2, <4>1
    <3> QED BY <1>3, <2>1, <2>2, <3>1, <3>2 DEF Mapped
  <2>3. CASE a - cur_dst \notin wstrb
    BY <1>1, <2>1, <2>3 DEF Merge, Mapped
  <2> QED BY <2>2, <2>3
<1>9. Mapped(mem)' = [a \in 0 .. MemBytes - 1 |->
                        IF a \in cur_dst .. cur_dst + n - 1
                        THEN Mapped(mem)[cur_src + (a - cur_dst)]
                        ELSE Mapped(mem)[a]]
  BY <1>8 DEF Mapped
<1>10. Landed < job.len /\ cur_src + n <= MemBytes /\ cur_dst + n <= MemBytes
  <2>1. job.len \in Lengths
    BY <1>2 DEF JobTypes
  <2>2. job.len \in Addr
    BY <2>1, DmaAssumption DEF DmaAssumption
  <2>3. job.len \in Int
    BY <2>2, BusAssumption DEF BusAssumption, Addr
  <2>4. Landed < job.len
    BY <1>2, <1>3, <1>4, <1>5, <2>3
  <2>5. cur_src + n <= MemBytes /\ cur_dst + n <= MemBytes
    BY <1>4, <1>7, BusAssumption DEF BusAssumption
  <2> QED BY <2>4, <2>5
<1>11. n = IF job.len - Landed >= 4 THEN 4 ELSE job.len - Landed
  BY <1>6 DEF n
<1>12. Landed' = Landed + n
  BY <1>5 DEF n
<1> QED BY <1>1, <1>3, <1>5, <1>9, <1>10, <1>11, <1>12
        DEF Job!CopyBeat, Mapped, Landed

LEMMA FaultIsFail ==
  ASSUME ContractInv, ContractInv', JobInv, JobTypes', job' = job, Faults, Answers
  PROVE  Job!Fail
<1>1. /\ dma_mem_bvalid <=> state = "WRESP" /\ bvalid
      /\ dma_mem_rvalid => state = "READ" /\ (rok <=> Decodes(cur_src))
      /\ dma_mem_bvalid => (bok <=> Decodes(cur_dst))
  BY OwnPorts
<1>2. /\ busy /\ busy' = FALSE /\ done' = TRUE /\ error' = TRUE
      /\ state' = "IDLE" /\ bytes_done' = bytes_done
      /\ \/ state = "READ" /\ ~Decodes(cur_src)
         \/ state = "WRESP" /\ bvalid /\ ~bok /\ ~Decodes(cur_dst)
  BY <1>1 DEF Faults, AtBeat
<1>3. JobTypes /\ JobPlace /\ remaining > 0
  BY <1>2 DEF JobInv, JobPlace, JobTypes
<1>4. /\ cur_src = Job!At(job.src, bytes_done)
      /\ cur_dst = Job!At(job.dst, bytes_done)
      /\ Aligned(cur_src) /\ Aligned(cur_dst)
      /\ job.len - bytes_done = remaining
  BY <1>3, AtJob
<1>5. Landed = bytes_done /\ Landed' = bytes_done
  BY <1>2, <1>3, LandedIs
<1>6. /\ bytes_done \in Nat /\ remaining \in Nat
      /\ cur_src \in Addr /\ cur_dst \in Addr /\ job.len \in Lengths
  BY <1>3 DEF JobTypes
<1>7. job.len \in Addr
  BY <1>6, DmaAssumption DEF DmaAssumption
<1>8. cur_src >= MemBytes \/ cur_dst >= MemBytes
  BY <1>2, <1>4, <1>6, BusAssumption DEF BusAssumption, Decodes, Addr
<1>9. Landed < job.len
  <2>1. job.len \in Int
    BY <1>7, BusAssumption DEF BusAssumption, Addr
  <2> QED BY <1>3, <1>4, <1>5, <1>6, <2>1
<1>10. Mapped(mem)' = Mapped(mem)
  BY <1>2, AsideUnmapped DEF Answers, Performs
<1> QED BY <1>2, <1>4, <1>5, <1>8, <1>9, <1>10 DEF Job!Fail, Mapped, Landed

LEMMA EdgeIsJob ==
  ASSUME NEW w, ContractInv, ContractInv', JobInv, JobInv', Records(w),
         TransferMoves(w), Answers
  PROVE  [Job!Next]_(Job!jobVars)
<1>1. /\ Starts(w) => job' = [src |-> src, dst |-> dst, len |-> len]
      /\ ~Starts(w) => job' = job
  BY JobFollows
<1>2. JobTypes /\ JobTypes' /\ (busy => JobPlace) /\ EngineAgrees /\ DmaFlags
  BY DEF JobInv, ContractInv, Bits
<1>3. state # "WRESP" \/ bvalid => Mapped(mem)' = Mapped(mem)
  BY AsideUnmapped DEF Answers, Performs
<1>4. /\ state # "WRESP" \/ ~bvalid \/ ~bok => Landed = bytes_done
      /\ state = "WRESP" /\ bvalid /\ bok => Landed = bytes_done + BeatBytes
      /\ (state # "WRESP" \/ ~bvalid \/ ~bok)' => Landed' = bytes_done'
      /\ (state = "WRESP" /\ bvalid /\ bok)' => Landed' = bytes_done' + BeatBytes'
  BY <1>2, LandedIs
<1>5. dma_mem_bvalid <=> state = "WRESP" /\ bvalid
  BY OwnPorts
<1>6. CASE StaysPut
  <2>1. /\ busy /\ UNCHANGED <<busy, done, error, state, bytes_done>>
        /\ state \in {"READ", "WRITE", "WRESP"} /\ (state = "WRESP" => ~bvalid)
    BY <1>5, <1>6 DEF StaysPut, GoesOn, AtBeat
  <2>2. job' = job
    BY <1>1, <2>1 DEF Starts
  <2>3. CASE state = "WRESP" /\ Decodes(cur_dst)
    <3>1. Job!CopyBeat
      BY <1>2, <1>6, <2>1, <2>2, <2>3, WriteIsBeat DEF Performs
    <3> QED BY <3>1 DEF Job!Next
  <2>4. CASE state = "WRESP" /\ ~Decodes(cur_dst)
    <3>1. ~bok' /\ mem' = mem
      BY <2>1, <2>4 DEF Answers, Performs, BeatLands
    <3>2. JobStands
      BY <1>4, <2>1, <2>2, <2>4, <3>1 DEF JobStands, Mapped
    <3> QED BY <2>1, <3>2, JobStutters
  <2>5. CASE state # "WRESP"
    <3>1. JobStands
      BY <1>3, <1>4, <2>1, <2>2, <2>5 DEF JobStands
    <3> QED BY <2>1, <3>1, JobStutters
  <2> QED BY <2>3, <2>4, <2>5
<1>7. CASE WordTaken \/ BeatOffered
  <2>1. /\ busy /\ UNCHANGED <<busy, done, error, bytes_done>>
        /\ state # "WRESP" /\ (state' = "WRESP" => ~bvalid')
    BY <1>7 DEF WordTaken, BeatOffered, GoesOn, AtBeat, Answers
  <2>2. job' = job
    BY <1>1, <2>1 DEF Starts
  <2>3. JobStands
    BY <1>3, <1>4, <2>1, <2>2 DEF JobStands
  <2> QED BY <2>1, <2>3, JobStutters
<1>8. CASE BeatCounted \/ LastCounted
  <2>1. /\ busy /\ UNCHANGED <<busy, done, error>>
        /\ state = "WRESP" /\ bvalid /\ bok /\ state' # "WRESP"
    BY <1>5, <1>8 DEF BeatCounted, LastCounted, GoesOn
  <2>2. job' = job
    BY <1>1, <2>1 DEF Starts
  <2>3. bytes_done' = bytes_done + BeatBytes
    <3>1. CASE BeatCounted
      <4>1. remaining > 4 /\ remaining \in Nat
        BY <1>2, <3>1 DEF BeatCounted, JobTypes
      <4>2. BeatBytes = 4
        BY <4>1 DEF BeatBytes
      <4> QED BY <3>1, <4>2 DEF BeatCounted
    <3>2. CASE LastCounted
      BY <3>2 DEF LastCounted
    <3> QED BY <1>8, <3>1, <3>2
  <2>4. JobStands
    BY <1>3, <1>4, <2>1, <2>2, <2>3 DEF JobStands
  <2> QED BY <2>1, <2>4, JobStutters
<1>9. CASE Faults
  <2>1. job' = job
    BY <1>1, <1>9 DEF Starts, Faults
  <2> QED BY <1>2, <1>9, <2>1, FaultIsFail DEF Job!Next
<1>10. CASE Finishes
  <2>1. /\ busy /\ state = "DONE" /\ state' = "IDLE" /\ bytes_done' = bytes_done
        /\ busy' = FALSE /\ done' = TRUE /\ error' = error
    BY <1>10 DEF Finishes, AtBeat
  <2>2. job' = job
    BY <1>1, <2>1 DEF Starts
  <2>3. bytes_done = job.len
    <3>1. /\ remaining = 0 /\ bytes_done + remaining = job.len
          /\ bytes_done \in Nat
      BY <1>2, <2>1 DEF JobPlace, JobTypes
    <3> QED BY <3>1
  <2>4. Landed = job.len /\ Landed' = job.len
    BY <1>4, <2>1, <2>3
  <2>5. Mapped(mem)' = Mapped(mem)
    BY <1>3, <2>1
  <2> QED BY <2>1, <2>2, <2>4, <2>5 DEF Job!Next, Job!Succeed, Mapped, Landed
<1>11. CASE Starts(w)
  <2>1. ~busy /\ state = "IDLE" /\ bytes_done' = 0 /\ state' \in {"IDLE", "READ"}
    BY <1>2, <1>11 DEF Starts, EngineAgrees
  <2>2. job' = [src |-> src, dst |-> dst, len |-> len]
    BY <1>1, <1>11
  <2>3. job' \in [src : Addresses, dst : Addresses, len : Lengths]
    BY <1>2, <2>2 DEF JobTypes
  <2>4. Job!Misaligned(job') <=> ~Aligned(src) \/ ~Aligned(dst)
    BY <2>2 DEF Job!Misaligned, Aligned
  <2>5. job'.len = len
    BY <2>2
  <2>6. /\ error' = Job!Misaligned(job')
        /\ done' = (Job!Misaligned(job') \/ job'.len = 0)
        /\ busy' = ~done'
    <3>1. CASE ~Aligned(src) \/ ~Aligned(dst)
      BY <1>11, <2>4, <3>1, Zenon DEF Starts, Job!Misaligned
    <3>2. CASE Aligned(src) /\ Aligned(dst) /\ len = 0
      BY <1>11, <2>4, <2>5, <3>2, Zenon DEF Starts, Job!Misaligned
    <3>3. CASE Aligned(src) /\ Aligned(dst) /\ len # 0
      BY <1>11, <2>4, <2>5, <3>3, Zenon DEF Starts, Job!Misaligned
    <3> QED BY <3>1, <3>2, <3>3
  <2>7. Landed' = 0
    BY <1>4, <2>1
  <2>8. Mapped(mem)' = Mapped(mem)
    BY <1>3, <2>1
  <2>9. Job!Submit(job')
    BY <2>1, <2>6, <2>7, <2>8 DEF Job!Submit, Mapped, Landed
  <2> QED BY <2>3, <2>9 DEF Job!Next
<1>12. CASE RestsOn(w)
  <2>1. /\ ~busy /\ state = "IDLE" /\ state' = "IDLE" /\ bytes_done' = bytes_done
        /\ busy' = busy
    BY <1>2, <1>12 DEF RestsOn, EngineAgrees, AtBeat
  <2>2. job' = job
    BY <1>1, <1>12 DEF RestsOn, Starts
  <2>3. JobStands
    BY <1>3, <1>4, <2>1, <2>2 DEF JobStands
  <2>4. CASE ClearBit(w)
    <3>1. done' = FALSE /\ error' = FALSE
      BY <1>12, <2>4, Zenon DEF RestsOn
    <3> QED BY <2>1, <2>3, <3>1
            DEF Job!Next, Job!Acknowledge, JobStands, Mapped, Landed
  <2>5. CASE ~ClearBit(w)
    <3>1. done' = done /\ error' = error
      BY <1>2, <1>12, <2>5, Zenon DEF RestsOn, DmaFlags
    <3> QED BY <2>1, <2>3, <3>1, JobStutters
  <2> QED BY <2>4, <2>5
<1> QED BY <1>6, <1>7, <1>8, <1>9, <1>10, <1>11, <1>12 DEF TransferMoves

-----------------------------------------------------------------------------
(* The job on one edge, on the first one and on every one.                 *)
LEMMA JobStep ==
  ASSUME NEW takes, NEW read, NEW store, ContractInv, ContractInv', JobInv,
         Clock(takes, read, store)
  PROVE  JobInv' /\ [Job!Next]_(Job!jobVars)
<1>1. /\ DmaFlags /\ EngineAgrees /\ CpuAccesses
      /\ JobTypes /\ (busy => JobPlace) /\ JobWords
  BY DEF ContractInv, Bits, JobInv
<1>2. /\ DmaEdge(RegWrite, ToDma) /\ DramEdge(ToDram(takes), Channels)
      /\ LockEdge(takes) /\ Records(RegWrite)
  BY DEF Clock, Records
<1>3. RegWrite \in Writes /\ Configure(RegWrite)
  BY <1>1, <1>2, RegWriteType DEF DmaEdge
<1>4. TransferMoves(RegWrite)
  BY <1>1, <1>2, TransferDoes DEF JobPlace
<1>5. Moves(ToDma)
  <2>1. ToDma.awready \in BOOLEAN /\ ToDma.wready = ToDma.awready
    BY DEF ToDma, dma_mem_awready
  <2> QED BY <1>1, <1>2, <2>1, EngineMoves
<1>6. Answers
  BY <1>2, <1>5, MemoryDoes
<1>7. JobTypes'
  BY <1>1, <1>2, <1>3, <1>4, TypesStep
<1>8. busy' => JobPlace'
  BY <1>1, <1>2, <1>4, PlaceStep
<1>9. JobWords'
  BY <1>4, <1>6, WordsStep
<1>10. JobInv'
  BY <1>7, <1>8, <1>9 DEF JobInv
<1> QED BY <1>2, <1>4, <1>6, <1>10, EdgeIsJob

LEMMA JobStarts == Init => JobInv /\ Job!Init
<1> SUFFICES ASSUME Init PROVE JobInv /\ Job!Init
  OBVIOUS
<1>1. DmaInit /\ DramInit
  BY DEF Init
<1>2. /\ bvalid = FALSE /\ rvalid = FALSE
      /\ busy = FALSE /\ done = FALSE /\ error = FALSE
  BY <1>1, Zenon DEF DmaInit, DramInit
<1>3. /\ mem = [a \in 0 .. MemBytes - 1 |-> a]
      /\ job = [src |-> 0, dst |-> 0, len |-> 0]
      /\ state = "IDLE" /\ bytes_done = 0
  BY <1>1 DEF DmaInit, DramInit, Init
<1>4. 0 \in Addresses /\ 0 \in Lengths /\ 0 \in Addr
  BY DmaAssumption, BusAssumption DEF DmaAssumption, BusAssumption, Addr
<1>5. JobInv
  BY <1>1, <1>2, <1>3, <1>4 DEF DmaInit, JobInv, JobTypes, JobWords
<1>6. Landed = 0
  BY <1>2, <1>3 DEF Landed, dma_mem_bvalid
<1> QED BY <1>2, <1>3, <1>5, <1>6 DEF Job!Init, Landed

LEMMA JobUnchanged ==
  ASSUME JobInv, UNCHANGED vars
  PROVE  JobInv' /\ UNCHANGED Job!jobVars
<1>1. UNCHANGED <<dmaVars, writeVars, readVars, locks, job>>
  BY DEF vars
<1>2. /\ UNCHANGED <<src, dst, len, busy, done, error, state, cur_src, cur_dst,
                     remaining, bytes_done, read_data_q>>
      /\ UNCHANGED <<mem, bvalid, bok, rvalid, rok, rdata>>
      /\ UNCHANGED <<wr_active, wr_dma_owner, rd_dma_owner, job>>
  BY <1>1 DEF dmaVars, config, status, cursor, counters, writeVars, readVars,
              locks
<1>3. wstrb' = wstrb /\ BeatBytes' = BeatBytes
      /\ dma_mem_bvalid' = dma_mem_bvalid
  BY <1>2 DEF wstrb, BeatBytes, dma_mem_bvalid
<1>4. JobTypes' = JobTypes /\ JobPlace' = JobPlace
  BY <1>2 DEF JobTypes, JobPlace
<1>5. Fresh(read_data_q)' = Fresh(read_data_q) /\ Fresh(rdata)' = Fresh(rdata)
  BY <1>2, <1>3 DEF Fresh
<1>6. JobWords'
  BY <1>2, <1>5 DEF JobInv, JobWords
<1>7. JobStands
  BY <1>2, <1>3 DEF JobStands, Mapped, Landed
<1> QED BY <1>2, <1>4, <1>6, <1>7, JobStutters DEF JobInv

LEMMA JobNext ==
  ContractInv /\ JobInv /\ [Next]_vars => JobInv' /\ [Job!Next]_(Job!jobVars)
<1> SUFFICES ASSUME ContractInv, JobInv, [Next]_vars
             PROVE  JobInv' /\ [Job!Next]_(Job!jobVars)
  OBVIOUS
<1>1. ContractInv'
  BY ContractStep
<1>2. CASE Next
  <2>1. PICK takes \in SUBSET Shown : Edge(takes)
    BY <1>2 DEF Next
  <2>2. PICK read \in {NoRead} \cup IF cr.phase = "none" THEN Reads ELSE {},
             store \in {NoStore} \cup IF cw.phase = "none" THEN Stores ELSE {} :
               Clock(takes, read, store)
    BY <2>1 DEF Edge
  <2> QED BY <1>1, <2>2, JobStep
<1>3. CASE UNCHANGED vars
  BY <1>3, JobUnchanged
<1> QED BY <1>2, <1>3

(* Behind the locks, and beside a CPU that reads, stores to other words    *)
(* and programs the next transfer, a transfer still copies what was        *)
(* accepted, in order and beat by beat, fails only on an address that does *)
(* not decode, and reports its end.                                        *)
THEOREM ContractImplementsCopyJob == Spec => ImplementsCopyJob
<1>1. Init => ContractInv /\ JobInv /\ Job!Init
  BY ContractStarts, JobStarts
<1>2. ContractInv /\ JobInv /\ [Next]_vars => (ContractInv /\ JobInv)'
  BY ContractStep, JobNext
<1>3. ContractInv /\ JobInv /\ [Next]_vars => [Job!Next]_(Job!jobVars)
  BY JobNext
<1> QED BY <1>1, <1>2, <1>3, PTL DEF Spec, ImplementsCopyJob, Job!Spec
=============================================================================
