-------------------------------- MODULE E1Dma --------------------------------
(***************************************************************************)
(* The DMA copy engine, rtl/dma/e1_dma.sv.  One step of this module is one *)
(* rising edge of clk with rst_n high; its parameters are the values the   *)
(* input ports have before that edge:                                      *)
(*    w   the register write on the MMIO port (NoWrite when there is none) *)
(*    b   the answers of the AXI-Lite slave on the master port             *)
(* The registers that only trace a transfer (cfg, last_src, last_dst,      *)
(* last_wstrb, status[3], status[4], beats_issued, which is assigned       *)
(* exactly as write_beats is) feed nothing and are left out.               *)
(***************************************************************************)
EXTENDS E1Bus

CONSTANTS
  Addresses,   (* the values software writes to SRC and DST                *)
  Lengths      (* the values software writes to LEN                        *)

ASSUME DmaAssumption ==
  /\ Addresses \subseteq Addr
  /\ Lengths \subseteq Addr
  /\ 0 \in Addresses /\ 0 \in Lengths

VARIABLES
  src, dst, len,                    (* what software programs              *)
  busy, done, error,                (* status[0], status[1], status[2]     *)
  state,                            (* the FSM                             *)
  cur_src, cur_dst, remaining,      (* the latched copy of the request     *)
  bytes_done, read_beats, write_beats, error_count,
  read_data_q,                      (* the word between its read and write *)
  read_addr_sent, write_addr_sent, write_data_sent

config   == <<src, dst, len>>
status   == <<busy, done, error>>
cursor   == <<cur_src, cur_dst, remaining>>
counters == <<bytes_done, read_beats, write_beats, error_count>>
sent     == <<read_addr_sent, write_addr_sent, write_data_sent>>
dmaVars  == <<config, status, state, cursor, counters, read_data_q, sent>>

WholeBeat == 4                 \* mutant of BeatBytes: the last beat too
BeatBytes == IF remaining >= 4 THEN 4 ELSE remaining

NoWrite == [reg |-> "NONE", val |-> 0]
Writes ==
  {NoWrite} \cup [reg : {"SRC", "DST"}, val : Addresses]
            \cup [reg : {"LEN"}, val : Lengths]
            \cup [reg : {"CTRL"}, val : 0 .. 3]
StartBit(w) == w.reg = "CTRL" /\ w.val \in {1, 3}
ClearBit(w) == w.reg = "CTRL" /\ w.val \in {2, 3}

DmaInit ==
  /\ src = 0 /\ dst = 0 /\ len = 0
  /\ busy = FALSE /\ done = FALSE /\ error = FALSE
  /\ state = "IDLE"
  /\ cur_src = 0 /\ cur_dst = 0 /\ remaining = 0
  /\ bytes_done = 0 /\ read_beats = 0 /\ write_beats = 0 /\ error_count = 0
  /\ read_data_q = ZeroBeat
  /\ read_addr_sent = FALSE /\ write_addr_sent = FALSE
  /\ write_data_sent = FALSE

(* Every register holds a value its width and its encoding allow.          *)
States == {"IDLE", "READ", "WRITE", "WRESP", "DONE"}

DmaFlags ==
  /\ busy \in BOOLEAN /\ done \in BOOLEAN /\ error \in BOOLEAN
  /\ read_addr_sent \in BOOLEAN /\ write_addr_sent \in BOOLEAN
  /\ write_data_sent \in BOOLEAN

DmaRegisters ==
  /\ src \in Addresses /\ dst \in Addresses /\ len \in Lengths
  /\ state \in States
  /\ cur_src \in Addr /\ cur_dst \in Addr /\ remaining \in Addr
  /\ bytes_done \in Nat /\ read_beats \in Nat /\ write_beats \in Nat
  /\ error_count \in Nat
  /\ read_data_q \in Beat

DmaTypeOK == DmaFlags /\ DmaRegisters

-----------------------------------------------------------------------------
(* The master port.                                                        *)

arvalid == busy /\ state = "READ" /\ ~read_addr_sent
rready  == busy /\ state = "READ"
awvalid == busy /\ state = "WRITE" /\ ~write_addr_sent
wvalid  == busy /\ state = "WRITE" /\ ~write_data_sent
bready  == busy /\ state = "WRESP"
AllLanes == Lanes                  \* mutant of wstrb: no partial last beat
wstrb   == 0 .. BeatBytes - 1      \* the lanes that are enabled

-----------------------------------------------------------------------------
(* What one edge does.  A clear is overridden by a completion of the same  *)
(* edge: the FSM's assignments to status come later in the always block.   *)

Configure(w) ==
  /\ src' = IF w.reg = "SRC" THEN w.val ELSE src
  /\ dst' = IF w.reg = "DST" THEN w.val ELSE dst
  /\ len' = IF w.reg = "LEN" THEN w.val ELSE len

Clear(w) ==
  /\ done' = (done /\ ~ClearBit(w))
  /\ error' = (error /\ ~ClearBit(w))

Carry(w) == busy' = busy /\ Clear(w)

StopWithError ==
  /\ busy' = FALSE /\ done' = TRUE /\ error' = TRUE
  /\ error_count' = error_count + 1
  /\ state' = "IDLE"

AwaitRead(w, b) ==
  /\ busy /\ state = "READ" /\ ~b.rvalid
  /\ read_addr_sent' = (read_addr_sent \/ b.arready)
  /\ Carry(w)
  /\ UNCHANGED <<state, cursor, counters, read_data_q, write_addr_sent,
                 write_data_sent>>

TakeReadLate(w, b) ==   \* mutant of TakeRead: writes the word read before
  /\ busy /\ state = "READ" /\ b.rvalid
  /\ read_beats' = read_beats + 1
  /\ read_addr_sent' = FALSE
  /\ \/ b.rok /\ state' = "WRITE" /\ Carry(w) /\ UNCHANGED error_count
     \/ ~b.rok /\ StopWithError
  /\ UNCHANGED <<cursor, bytes_done, write_beats, read_data_q,
                 write_addr_sent, write_data_sent>>

TakeRead(w, b) ==
  /\ busy /\ state = "READ" /\ b.rvalid
  /\ read_data_q' = b.rdata
  /\ read_beats' = read_beats + 1
  /\ read_addr_sent' = FALSE
  /\ \/ b.rok /\ state' = "WRITE" /\ Carry(w) /\ UNCHANGED error_count
     \/ ~b.rok /\ StopWithError
  /\ UNCHANGED <<cursor, bytes_done, write_beats, write_addr_sent,
                 write_data_sent>>

\* mutant of IssueWrite: one handshake is taken for both
IssueEither(w, b) ==
  /\ busy /\ state = "WRITE"
  /\ IF b.awready \/ b.wready
     THEN state' = "WRESP" /\ write_beats' = write_beats + 1
     ELSE UNCHANGED <<state, write_beats>>
  /\ Carry(w)
  /\ UNCHANGED <<cursor, bytes_done, read_beats, error_count, read_data_q,
                 sent>>

\* mutant of IssueWrite: a half that was taken is forgotten
IssueTogether(w, b) ==
  /\ busy /\ state = "WRITE"
  /\ IF b.awready /\ b.wready
     THEN state' = "WRESP" /\ write_beats' = write_beats + 1
     ELSE UNCHANGED <<state, write_beats>>
  /\ Carry(w)
  /\ UNCHANGED <<cursor, bytes_done, read_beats, error_count, read_data_q,
                 sent>>

IssueWrite(w, b) ==
  LET addrIssued == write_addr_sent \/ b.awready
      dataIssued == write_data_sent \/ b.wready
  IN
  /\ busy /\ state = "WRITE"
  /\ \/ /\ addrIssued /\ dataIssued
        /\ state' = "WRESP"
        /\ write_beats' = write_beats + 1
        /\ write_addr_sent' = FALSE /\ write_data_sent' = FALSE
     \/ /\ ~(addrIssued /\ dataIssued)
        /\ write_addr_sent' = addrIssued /\ write_data_sent' = dataIssued
        /\ UNCHANGED <<state, write_beats>>
  /\ Carry(w)
  /\ UNCHANGED <<cursor, bytes_done, read_beats, error_count, read_data_q,
                 read_addr_sent>>

AwaitResponse(w, b) ==
  /\ busy /\ state = "WRESP" /\ ~b.bvalid
  /\ Carry(w)
  /\ UNCHANGED <<state, cursor, counters, read_data_q, sent>>

WriteFault(w, b) ==
  /\ busy /\ state = "WRESP" /\ b.bvalid /\ ~b.bok
  /\ StopWithError
  /\ read_addr_sent' = FALSE /\ write_addr_sent' = FALSE
  /\ write_data_sent' = FALSE
  /\ UNCHANGED <<cursor, bytes_done, read_beats, write_beats, read_data_q>>

NextBeat(w, b) ==
  /\ busy /\ state = "WRESP" /\ b.bvalid /\ b.bok /\ remaining > 4
  /\ bytes_done' = bytes_done + 4
  /\ remaining' = remaining - 4
  /\ cur_src' = Wrap(cur_src + 4) /\ cur_dst' = Wrap(cur_dst + 4)
  /\ state' = "READ"
  /\ Carry(w)
  /\ UNCHANGED <<read_beats, write_beats, error_count, read_data_q, sent>>

LastBeat(w, b) ==
  /\ busy /\ state = "WRESP" /\ b.bvalid /\ b.bok /\ remaining <= 4
  /\ bytes_done' = bytes_done + BeatBytes
  /\ remaining' = 0
  /\ state' = "DONE"
  /\ Carry(w)
  /\ UNCHANGED <<cur_src, cur_dst, read_beats, write_beats, error_count,
                 read_data_q, sent>>

FinishThenClear(w) ==   \* mutant of Finish: the clear of the same edge wins
  /\ busy /\ state = "DONE"
  /\ busy' = FALSE /\ done' = ~ClearBit(w) /\ error' = (error /\ ~ClearBit(w))
  /\ state' = "IDLE"
  /\ UNCHANGED <<cursor, counters, read_data_q, sent>>

Finish(w) ==
  /\ busy /\ state = "DONE"
  /\ busy' = FALSE /\ done' = TRUE /\ error' = (error /\ ~ClearBit(w))
  /\ state' = "IDLE"
  /\ UNCHANGED <<cursor, counters, read_data_q, sent>>

(* A start while idle latches the programmed request; a misaligned request *)
(* is refused and an empty one completes, both on the spot.                *)
Start(w) ==
  /\ ~busy /\ StartBit(w)
  /\ cur_src' = src /\ cur_dst' = dst /\ remaining' = len
  /\ bytes_done' = 0 /\ read_beats' = 0 /\ write_beats' = 0
  /\ read_addr_sent' = FALSE /\ write_addr_sent' = FALSE
  /\ write_data_sent' = FALSE
  /\ LET refused == ~Aligned(src) \/ ~Aligned(dst)
         empty   == ~refused /\ len = 0
     IN /\ busy' = ~(refused \/ empty)
        /\ done' = (refused \/ empty)
        /\ error' = refused
        /\ error_count' = IF refused THEN 1 ELSE 0
        /\ state' = IF refused \/ empty THEN "IDLE" ELSE "READ"
  /\ UNCHANGED read_data_q

Idle(w) ==
  /\ ~busy /\ ~StartBit(w)
  /\ Carry(w)
  /\ UNCHANGED <<state, cursor, counters, read_data_q, sent>>

DmaEdge(w, b) ==
  /\ Configure(w)
  /\ \/ AwaitRead(w, b)
     \/ TakeRead(w, b)
     \/ IssueWrite(w, b)
     \/ AwaitResponse(w, b)
     \/ WriteFault(w, b)
     \/ NextBeat(w, b)
     \/ LastBeat(w, b)
     \/ Finish(w)
     \/ Start(w)
     \/ Idle(w)
=============================================================================
