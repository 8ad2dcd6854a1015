------------------------------ MODULE E1CpuBridge ------------------------------
(***************************************************************************)
(* The bridge from the CPU's 64-bit AXI4 port to the 32-bit AXI-Lite       *)
(* fabric, rtl/cpu/e1_cpu_axi_bridge.sv.  An AXI4 address is the index of  *)
(* a double word (the bridge drops its low three bits), an AXI-Lite one    *)
(* that of a word; a strobe is a set of halves, for the lanes of each half *)
(* pass through unchanged.  One step is one rising edge of clk_i; its      *)
(* parameters are                                                          *)
(*    c   what the CPU drives on the AXI4 port, and                        *)
(*    f   what the fabric answers, before that edge.                       *)
(***************************************************************************)
EXTENDS Integers

CONSTANTS
  DoubleWords,   (* addresses wrap at it: 2^29 in the RTL                  *)
  NoData         (* the contents of registers nothing was latched in       *)

BridgeAssumption == DoubleWords \in Nat \ {0}

Halves == {"lo", "hi"}
RdStates == {"IDLE", "LO_REQ", "LO_RSP", "HI_REQ", "HI_RSP", "RETURN"}
WrStates == {"IDLE", "LO_REQ", "LO_RSP", "HI_REQ", "HI_RSP", "NEXT", "RESP"}

VARIABLES
  rd_state, rd_id, rd_base, rd_len, rd_beat_cnt, rd_data_lo,
  rd_ok,               (* rd_resp_q is OKAY                                *)
  wr_state, wr_id, wr_base, wr_len, wr_beat_cnt, wr_data, wr_strb,
  wr_ok, wr_need_hi

rdVars == <<rd_state, rd_id, rd_base, rd_len, rd_beat_cnt, rd_data_lo, rd_ok>>
wrVars == <<wr_state, wr_id, wr_base, wr_len, wr_beat_cnt, wr_data, wr_strb,
            wr_ok, wr_need_hi>>
bridgeVars == <<rdVars, wrVars>>

BridgeInit ==
  /\ rd_state = "IDLE" /\ rd_id = 0 /\ rd_base = 0 /\ rd_len = 0
  /\ rd_beat_cnt = 0 /\ rd_data_lo = NoData /\ rd_ok = TRUE
  /\ wr_state = "IDLE" /\ wr_id = 0 /\ wr_base = 0 /\ wr_len = 0
  /\ wr_beat_cnt = 0 /\ wr_data = [h \in Halves |-> NoData] /\ wr_strb = {}
  /\ wr_ok = TRUE /\ wr_need_hi = FALSE

rd_cur_addr == (rd_base + rd_beat_cnt) % DoubleWords
wr_cur_addr == (wr_base + wr_beat_cnt) % DoubleWords

-----------------------------------------------------------------------------
(* The ports.                                                              *)
ar_ready == rd_state = "IDLE"
m_arvalid == rd_state \in {"LO_REQ", "HI_REQ"}
m_araddr == 2 * rd_cur_addr + (IF rd_state = "HI_REQ" THEN 1 ELSE 0)
m_rready == rd_state \in {"LO_RSP", "HI_RSP"}
r_valid == rd_state = "RETURN"
r_last == rd_beat_cnt = rd_len
(* The low half was latched; the high one is what the fabric shows now.    *)
r_data(f) == [lo |-> rd_data_lo, hi |-> f.rdata]

aw_ready == wr_state = "IDLE"
w_ready(c) == \/ wr_state = "IDLE" /\ c.awvalid
              \/ wr_state = "NEXT" /\ wr_beat_cnt # wr_len
m_awvalid == wr_state \in {"LO_REQ", "HI_REQ"}   \* and m_wvalid
m_awaddr == 2 * wr_cur_addr + (IF wr_state = "HI_REQ" THEN 1 ELSE 0)
m_wdata == IF wr_state = "HI_REQ" THEN wr_data["hi"] ELSE wr_data["lo"]
m_wstrb == (IF wr_state = "HI_REQ" THEN "hi" ELSE "lo") \in wr_strb
m_bready == wr_state \in {"LO_RSP", "HI_RSP"}
b_valid == wr_state = "RESP"

-----------------------------------------------------------------------------
(* The read path.                                                          *)
AcceptRead(c) ==
  /\ rd_state = "IDLE" /\ c.arvalid
  /\ rd_state' = "LO_REQ"
  /\ rd_id' = c.ar.id /\ rd_base' = c.ar.addr /\ rd_len' = c.ar.len
  /\ rd_beat_cnt' = 0 /\ rd_ok' = TRUE
  /\ UNCHANGED rd_data_lo

IssueRead(f) ==
  /\ m_arvalid /\ f.arready
  /\ rd_state' = IF rd_state = "LO_REQ" THEN "LO_RSP" ELSE "HI_RSP"
  /\ UNCHANGED <<rd_id, rd_base, rd_len, rd_beat_cnt, rd_data_lo, rd_ok>>

TakeLow(f) ==
  /\ rd_state = "LO_RSP" /\ f.rvalid
  /\ rd_state' = "HI_REQ"
  /\ rd_data_lo' = f.rdata /\ rd_ok' = f.rok
  /\ UNCHANGED <<rd_id, rd_base, rd_len, rd_beat_cnt>>

TakeHighAlone(f) ==   \* mutant of TakeHigh: the low half's fault is dropped
  /\ rd_state = "HI_RSP" /\ f.rvalid
  /\ rd_state' = "RETURN"
  /\ rd_ok' = f.rok
  /\ UNCHANGED <<rd_id, rd_base, rd_len, rd_beat_cnt, rd_data_lo>>

TakeHigh(f) ==
  /\ rd_state = "HI_RSP" /\ f.rvalid
  /\ rd_state' = "RETURN"
  /\ rd_ok' = (rd_ok /\ f.rok)
  /\ UNCHANGED <<rd_id, rd_base, rd_len, rd_beat_cnt, rd_data_lo>>

ReturnSingle(c) ==   \* mutant of ReturnBeat: forgets the beats to come
  /\ rd_state = "RETURN" /\ c.rready
  /\ rd_state' = "IDLE"
  /\ UNCHANGED <<rd_beat_cnt, rd_ok, rd_id, rd_base, rd_len, rd_data_lo>>

ReturnBeat(c) ==
  /\ rd_state = "RETURN" /\ c.rready
  /\ \/ r_last /\ rd_state' = "IDLE" /\ UNCHANGED <<rd_beat_cnt, rd_ok>>
     \/ /\ ~r_last
        /\ rd_state' = "LO_REQ"
        /\ rd_beat_cnt' = rd_beat_cnt + 1 /\ rd_ok' = TRUE
  /\ UNCHANGED <<rd_id, rd_base, rd_len, rd_data_lo>>

AwaitRead(c, f) ==
  /\ \/ rd_state = "IDLE" /\ ~c.arvalid
     \/ m_arvalid /\ ~f.arready
     \/ m_rready /\ ~f.rvalid
     \/ rd_state = "RETURN" /\ ~c.rready
  /\ UNCHANGED rdVars

ReadPath(c, f) ==
  AcceptRead(c) \/ IssueRead(f) \/ TakeLow(f) \/ TakeHigh(f) \/ ReturnBeat(c)
    \/ AwaitRead(c, f)

-----------------------------------------------------------------------------
(* The write path.                                                         *)
LatchBeat(w) ==
  /\ wr_data' = w.data /\ wr_strb' = w.strb
  /\ wr_need_hi' = ("hi" \in w.strb)

(* Address and first beat are latched on an edge where both are offered.   *)
AcceptWrite(c) ==
  /\ wr_state = "IDLE" /\ c.awvalid /\ c.wvalid
  /\ wr_state' = "LO_REQ"
  /\ wr_id' = c.aw.id /\ wr_base' = c.aw.addr /\ wr_len' = c.aw.len
  /\ wr_beat_cnt' = 0 /\ wr_ok' = TRUE
  /\ LatchBeat(c.w)

IssueWrite(f) ==
  /\ m_awvalid /\ f.awready /\ f.wready
  /\ wr_state' = IF wr_state = "LO_REQ" THEN "LO_RSP" ELSE "HI_RSP"
  /\ UNCHANGED <<wr_id, wr_base, wr_len, wr_beat_cnt, wr_data, wr_strb, wr_ok,
                 wr_need_hi>>

TakeLast(f) ==   \* mutant of TakeResponse: keeps the last response only
  /\ m_bready /\ f.bvalid
  /\ wr_state' = IF wr_state = "LO_RSP" /\ wr_need_hi THEN "HI_REQ" ELSE "NEXT"
  /\ wr_ok' = f.bok
  /\ UNCHANGED <<wr_id, wr_base, wr_len, wr_beat_cnt, wr_data, wr_strb,
                 wr_need_hi>>

TakeResponse(f) ==
  /\ m_bready /\ f.bvalid
  /\ wr_state' = IF wr_state = "LO_RSP" /\ wr_need_hi THEN "HI_REQ" ELSE "NEXT"
  /\ wr_ok' = (wr_ok /\ f.bok)
  /\ UNCHANGED <<wr_id, wr_base, wr_len, wr_beat_cnt, wr_data, wr_strb,
                 wr_need_hi>>

EndBurst ==
  /\ wr_state = "NEXT" /\ wr_beat_cnt = wr_len
  /\ wr_state' = "RESP"
  /\ UNCHANGED <<wr_id, wr_base, wr_len, wr_beat_cnt, wr_data, wr_strb, wr_ok,
                 wr_need_hi>>

NextBeat(c) ==
  /\ wr_state = "NEXT" /\ wr_beat_cnt # wr_len /\ c.wvalid
  /\ wr_state' = "LO_REQ"
  /\ wr_beat_cnt' = wr_beat_cnt + 1
  /\ LatchBeat(c.w)
  /\ UNCHANGED <<wr_id, wr_base, wr_len, wr_ok>>

Respond(c) ==
  /\ wr_state = "RESP" /\ c.bready
  /\ wr_state' = "IDLE"
  /\ UNCHANGED <<wr_id, wr_base, wr_len, wr_beat_cnt, wr_data, wr_strb, wr_ok,
                 wr_need_hi>>

AwaitWrite(c, f) ==
  /\ \/ wr_state = "IDLE" /\ ~(c.awvalid /\ c.wvalid)
     \/ m_awvalid /\ ~(f.awready /\ f.wready)
     \/ m_bready /\ ~f.bvalid
     \/ wr_state = "NEXT" /\ wr_beat_cnt # wr_len /\ ~c.wvalid
     \/ wr_state = "RESP" /\ ~c.bready
  /\ UNCHANGED wrVars

WritePath(c, f) ==
  AcceptWrite(c) \/ IssueWrite(f) \/ TakeResponse(f) \/ EndBurst \/ NextBeat(c)
    \/ Respond(c) \/ AwaitWrite(c, f)

BridgeEdge(c, f) == ReadPath(c, f) /\ WritePath(c, f)
=============================================================================
