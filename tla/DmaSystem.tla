------------------------------ MODULE DmaSystem ------------------------------
(***************************************************************************)
(* The DMA engine copying through the AXI-Lite memory: e1_dma's master     *)
(* port on e1_axi_lite_dram, as e1_linux_soc_contract.sv wires them.  All  *)
(* registers advance on the same edge, each from the values before it.     *)
(* Software may write any DMA register on any edge, and the fabric may     *)
(* withhold any channel on any edge.                                       *)
(***************************************************************************)
EXTENDS E1Dma, AxiLiteDram

CONSTANT MaxJobs   (* bound: starts that are accepted                      *)

ASSUME SystemAssumption == MaxJobs \in Nat

VARIABLES
  job,    (* history: the request as it was when its start was accepted    *)
  jobs    (* history: how many starts were accepted                        *)

history == <<job, jobs>>
vars == <<dmaVars, writeVars, readVars, history>>

Channels == {"AR", "AW", "W"}

(* What each side of the bus sees of the other.                            *)
FromDma ==
  [arvalid |-> arvalid, araddr |-> cur_src, rready |-> rready,
   awvalid |-> awvalid, awaddr |-> cur_dst,
   wvalid  |-> wvalid,  wdata  |-> read_data_q, wstrb |-> wstrb,
   bready  |-> bready]

FromDram(open) ==
  [arready |-> arready(open), rvalid |-> rvalid, rok |-> rok,
   rdata |-> rdata, awready |-> awready(open), wready |-> wready(open),
   bvalid |-> bvalid, bok |-> bok]

Accepted(w) == ~busy /\ StartBit(w)

Record(w) ==
  IF Accepted(w)
  THEN job' = [src |-> src, dst |-> dst, len |-> len] /\ jobs' = jobs + 1
  ELSE UNCHANGED history

Init ==
  /\ DmaInit /\ DramInit
  /\ job = [src |-> 0, dst |-> 0, len |-> 0] /\ jobs = 0

Clock(w, open) ==
  /\ jobs = MaxJobs => ~Accepted(w)
  /\ DmaEdge(w, FromDram(open))
  /\ DramEdge(FromDma, open)
  /\ Record(w)

Next == \E w \in Writes, open \in SUBSET Channels : Clock(w, open)

Spec == Init /\ [][Next]_vars

(* The clock keeps running and the fabric never withholds a channel for    *)
(* good: the owner locks are released by the response of the access that   *)
(* took them.                                                              *)
Opens(c) == \E w \in Writes, open \in SUBSET Channels :
              c \in open /\ Clock(w, open)
FairSpec == Spec /\ \A c \in Channels : WF_vars(Opens(c))

-----------------------------------------------------------------------------
(* The registers of the engine and of the memory, and the history.         *)
TypeOK ==
  /\ DmaTypeOK
  /\ DramTypeOK
  /\ job \in [src : Addr, dst : Addr, len : Addr]
  /\ jobs \in Nat

(* verify/formal/e1_dma_formal.sv asserts the status encoding: a running   *)
(* transfer shows neither done nor error, an error always shows done.  The *)
(* FSM and status[0] agree on whether a transfer runs.                     *)
StatusCoherent ==
  /\ busy => ~done /\ ~error
  /\ error => done
  /\ busy <=> state # "IDLE"

(* Of the job that was accepted, bytes_done landed and remaining are still *)
(* to come, whatever software has written to SRC, DST and LEN since; the   *)
(* cursor stands on the beat they designate, and the beat counters of one  *)
(* job never disagree by more than the beat in flight.                     *)
Accounting ==
  /\ bytes_done + remaining = job.len
  /\ remaining > 0 => /\ cur_src = Wrap(job.src + bytes_done)
                      /\ cur_dst = Wrap(job.dst + bytes_done)
                      /\ bytes_done % 4 = 0
  /\ busy => /\ Aligned(job.src) /\ Aligned(job.dst)
             /\ remaining = 0 <=> state = "DONE"
             /\ read_beats = write_beats +
                  (IF state = "WRITE" THEN 1 ELSE 0)
             /\ state \in {"READ", "WRITE"} => bytes_done = 4 * write_beats
             /\ state = "WRESP" => bytes_done = 4 * (write_beats - 1)

(* "Outstanding-transaction balance: no spurious B/R responses"            *)
(* (verify/properties/README.md): a response, and a half of a write the    *)
(* memory has already taken, always belongs to the beat the engine is on.  *)
ResponsesMatch ==
  /\ read_addr_sent => state = "READ"
  /\ write_addr_sent \/ write_data_sent => state = "WRITE"
  /\ ~(write_addr_sent /\ write_data_sent)
  /\ rvalid <=> state = "READ" /\ read_addr_sent
  /\ write_addr_valid <=> \/ state = "WRITE" /\ write_addr_sent
                          \/ state = "WRESP" /\ ~bvalid
  /\ write_data_valid <=> \/ state = "WRITE" /\ write_data_sent
                          \/ state = "WRESP" /\ ~bvalid
  /\ bvalid => state = "WRESP"
  /\ write_addr_valid => write_addr_q = cur_dst
  /\ write_data_valid => write_data_q = read_data_q /\ write_strb_q = wstrb

(* The word between its read and its write is never stale: until memory    *)
(* performs the write, read_data_q is what memory holds at the cursor, and *)
(* a fault is reported exactly when the cursor does not decode.            *)
FreshWord ==
  /\ rvalid => /\ rok <=> Decodes(cur_src)
               /\ rok => rdata = WordAt(mem, cur_src)
  /\ state = "WRITE" \/ state = "WRESP" => Decodes(cur_src)
  /\ state = "WRITE" \/ (state = "WRESP" /\ ~bvalid) =>
        read_data_q = WordAt(mem, cur_src)
  /\ bvalid => (bok <=> Decodes(cur_dst))

(* What is in flight on the bus is the engine's own beat, and fresh.        *)
WordInFlight == ResponsesMatch /\ FreshWord

(* A transfer that stops says so: busy never falls without done rising,    *)
(* not even on the edge where software clears done for an earlier job.     *)
CompletionSeen == busy /\ ~busy' => done'

(* AXI-Lite VALID and payload stability on the three request channels      *)
(* (verify/properties/axi_lite.sv p_valid_stable, p_payload_stable): a     *)
(* request that was not taken is offered again, unchanged.                 *)
RequestsKept ==
  /\ arvalid /\ ~rvalid' => arvalid' /\ cur_src' = cur_src
  /\ awvalid /\ ~write_addr_valid' => awvalid' /\ cur_dst' = cur_dst
  /\ wvalid /\ ~write_data_valid' =>
       wvalid' /\ read_data_q' = read_data_q /\ wstrb' = wstrb

(* No step loses a completion or a request.                                *)
NothingDropped == [][CompletionSeen /\ RequestsKept]_vars

(* The engine implements CopyJob.  A beat of the job happens when memory   *)
(* performs its write; the engine counts it when it takes the response.    *)
Landed == bytes_done + (IF bvalid /\ bok THEN BeatBytes ELSE 0)
Job == INSTANCE CopyJob WITH copied <- Landed
ImplementsCopyJob == Job!Spec

(* Every transfer ends, whatever software writes meanwhile.                *)
EveryTransferEnds == busy ~> ~busy
=============================================================================
