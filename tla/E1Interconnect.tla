---------------------------- MODULE E1Interconnect ----------------------------
(***************************************************************************)
(* The AXI-Lite crossbar, rtl/interconnect/e1_axi_lite_interconnect.sv:    *)
(* masters in fixed priority on three slaves and a debug register block.   *)
(* An address is [to, tag]: the port it decodes to, and a tag that tells   *)
(* requests apart; write data is the tag of the address it belongs to.     *)
(* One step is one rising edge of clk; its parameters are                  *)
(*    i   what each master drives, and                                     *)
(*    s   what each slave answers, before that edge.                       *)
(***************************************************************************)
EXTENDS Integers

CONSTANTS
  NumMasters,   (* 3; 0 is the CPU and goes first                          *)
  MaxOutst,     (* 4                                                       *)
  WdLimit       (* 1024                                                    *)

ASSUME InterconnectAssumption ==
  NumMasters \in Nat \ {0} /\ MaxOutst \in Nat \ {0} /\ WdLimit \in Nat

Masters == 0 .. NumMasters - 1
Slaves  == {"DRAM", "INTC", "DMA"}
NoSlave == {"ERR", "DBG"}       \* answered by the interconnect itself
NoAddr  == [to |-> "NONE", tag |-> -1]
NoData  == -1
NoWrite == [addr |-> NoAddr, data |-> NoData]
Index   == 0 .. MaxOutst - 1

VARIABLES
  aw_held, w_held,      (* a write's halves, accepted in either order      *)
  ar_pip, aw_pip,       (* the pipeline stage in front of the arbiters     *)
  rd, wr,               (* per master: the queue of ports that owe it an   *)
                        (* answer, its count, and its watchdog             *)
  rd_dbg_laddr,
  dec_err_addr,         (* dec_err_addr_q, NoAddr until dec_err_vld_q      *)
  timeout_status, timeout_irq

icVars == <<aw_held, w_held, ar_pip, aw_pip, rd, wr, rd_dbg_laddr,
            dec_err_addr, timeout_status, timeout_irq>>

EmptyQueue == [fifo |-> [x \in Index |-> "NONE"], head |-> 0, tail |-> 0,
               ost |-> 0, wd |-> 0]

IcInit ==
  /\ aw_held = [m \in Masters |-> NoAddr] /\ w_held = [m \in Masters |-> NoData]
  /\ ar_pip = [m \in Masters |-> NoAddr] /\ aw_pip = [m \in Masters |-> NoWrite]
  /\ rd = [m \in Masters |-> EmptyQueue] /\ wr = [m \in Masters |-> EmptyQueue]
  /\ rd_dbg_laddr = [m \in Masters |-> NoAddr]
  /\ dec_err_addr = NoAddr
  /\ timeout_status = [m \in Masters |-> FALSE]
  /\ timeout_irq = [m \in Masters |-> FALSE]

-----------------------------------------------------------------------------
(* The arbiters: the first master that has a request and room to track it  *)
(* is granted, even when the port it is for is not ready.                  *)

FullLate(q) == q.ost > MaxOutst   \* mutant of Full: one request too many
Full(q) == q.ost = MaxOutst
First(C) == {m \in C : \A n \in 0 .. m - 1 : n \notin C}

rd_cand(m) == ar_pip[m] # NoAddr /\ ~Full(rd[m])
wr_cand(m) == aw_pip[m] # NoWrite /\ ~Full(wr[m])
rd_grant == First({m \in Masters : rd_cand(m)})
wr_grant == First({m \in Masters : wr_cand(m)})

(* What the slaves see.                                                    *)
ReadOf(t)  == {m \in rd_grant : ar_pip[m].to = t}
WriteOf(t) == {m \in wr_grant : aw_pip[m].addr.to = t}

ar_pip_drain(m, s) ==
  /\ m \in rd_grant
  /\ ar_pip[m].to \in NoSlave \/ s[ar_pip[m].to].arready
aw_pip_drain(m, s) ==
  /\ m \in wr_grant
  /\ aw_pip[m].addr.to \in NoSlave \/ s[aw_pip[m].addr.to].awready

arready(m, s) == ~Full(rd[m]) /\ (ar_pip[m] = NoAddr \/ ar_pip_drain(m, s))
awready(m) == aw_held[m] = NoAddr /\ ~Full(wr[m])
wready(m)  == w_held[m] = NoData /\ ~Full(wr[m])

(* The port at the head of a queue answers the master; a port no head      *)
(* names is not listened to.                                               *)
Owes(q) == IF q.ost > 0 THEN q.fifo[q.head] ELSE "NONE"
rvalid(m, s) == LET t == Owes(rd[m]) IN
                t \in NoSlave \/ (t \in Slaves /\ s[t].rvalid)
bvalid(m, s) == LET t == Owes(wr[m]) IN
                t \in NoSlave \/ (t \in Slaves /\ s[t].bvalid)
\* mutant of slave_rready: the master that is granted, not the one that is owed
ReadyToGranted(t, i) ==
  \E m \in rd_grant : Owes(rd[m]) = t /\ i[m].rready
slave_rready(t, i) == \E m \in Masters : Owes(rd[m]) = t /\ i[m].rready
slave_bready(t, i) == \E m \in Masters : Owes(wr[m]) = t /\ i[m].bready

rresp(m, s) == CASE Owes(rd[m]) = "ERR" -> "SLVERR"
                 [] Owes(rd[m]) = "DBG" -> "OKAY"
                 [] OTHER -> s[Owes(rd[m])].rresp
bresp(m, s) == IF Owes(wr[m]) \in NoSlave THEN "SLVERR"
               ELSE s[Owes(wr[m])].bresp

-----------------------------------------------------------------------------
(* One edge of a queue.  When a request enters as an answer leaves, the    *)
(* count only falls: the later assignment wins.  So it is for the watchdog:*)
(* an answer clears it only on the edge where it has run out.              *)

WatchdogEarly(q) == q.ost > 0 /\ q.wd + 1 >= WdLimit
WatchdogLate(q) == q.ost > 0 /\ q.wd >= WdLimit

QueueStale(q, push, to, pop) ==   \* mutant of QueueEdge: the head stays
  LET fifo == IF push THEN [q.fifo EXCEPT ![q.tail] = to] ELSE q.fifo IN
  [fifo |-> IF WatchdogLate(q) THEN [fifo EXCEPT ![q.head] = "ERR"] ELSE fifo,
   head |-> q.head,
   tail |-> IF push THEN (q.tail + 1) % MaxOutst ELSE q.tail,
   ost  |-> IF pop THEN q.ost - 1 ELSE IF push THEN q.ost + 1 ELSE q.ost,
   wd   |-> IF q.ost = 0 THEN 0
            ELSE IF ~WatchdogLate(q) THEN q.wd + 1
            ELSE IF pop THEN 0 ELSE q.wd]

QueueEdge(q, push, to, pop) ==
  LET fifo == IF push THEN [q.fifo EXCEPT ![q.tail] = to] ELSE q.fifo IN
  [fifo |-> IF WatchdogLate(q) THEN [fifo EXCEPT ![q.head] = "ERR"] ELSE fifo,
   head |-> IF pop THEN (q.head + 1) % MaxOutst ELSE q.head,
   tail |-> IF push THEN (q.tail + 1) % MaxOutst ELSE q.tail,
   ost  |-> IF pop THEN q.ost - 1 ELSE IF push THEN q.ost + 1 ELSE q.ost,
   wd   |-> IF q.ost = 0 THEN 0
            ELSE IF ~WatchdogLate(q) THEN q.wd + 1
            ELSE IF pop THEN 0 ELSE q.wd]

TakesRead(m, i, s)  == i[m].ar # NoAddr /\ arready(m, s)
TakesAddr(m, i)     == i[m].aw # NoAddr /\ awready(m)
TakesData(m, i)     == i[m].w # NoData /\ wready(m)
Paired(m, s) ==
  /\ aw_held[m] # NoAddr /\ w_held[m] # NoData
  /\ aw_pip[m] = NoWrite \/ aw_pip_drain(m, s)
ReadDone(m, i, s)  == rvalid(m, s) /\ i[m].rready
WriteDone(m, i, s) == bvalid(m, s) /\ i[m].bready

HoldSticky(i, s) ==   \* mutant of HoldEdge: the data half is not released
  /\ aw_held' = [m \in Masters |-> IF TakesAddr(m, i) THEN i[m].aw
                                   ELSE IF Paired(m, s) THEN NoAddr
                                   ELSE aw_held[m]]
  /\ w_held' = [m \in Masters |-> IF TakesData(m, i) THEN i[m].w ELSE w_held[m]]

HoldEdge(i, s) ==
  /\ aw_held' = [m \in Masters |-> IF TakesAddr(m, i) THEN i[m].aw
                                   ELSE IF Paired(m, s) THEN NoAddr
                                   ELSE aw_held[m]]
  /\ w_held' = [m \in Masters |-> IF TakesData(m, i) THEN i[m].w
                                  ELSE IF Paired(m, s) THEN NoData
                                  ELSE w_held[m]]

PipelineEdge(i, s) ==
  /\ ar_pip' = [m \in Masters |-> IF TakesRead(m, i, s) THEN i[m].ar
                                  ELSE IF ar_pip_drain(m, s) THEN NoAddr
                                  ELSE ar_pip[m]]
  /\ rd_dbg_laddr' = [m \in Masters |-> IF TakesRead(m, i, s) THEN i[m].ar
                                        ELSE rd_dbg_laddr[m]]
  /\ aw_pip' = [m \in Masters |->
                  IF Paired(m, s)
                  THEN [addr |-> aw_held[m], data |-> w_held[m]]
                  ELSE IF aw_pip_drain(m, s) THEN NoWrite ELSE aw_pip[m]]

QueuesEdge(i, s) ==
  /\ rd' = [m \in Masters |->
              QueueEdge(rd[m], ar_pip_drain(m, s), ar_pip[m].to,
                        ReadDone(m, i, s))]
  /\ wr' = [m \in Masters |->
              QueueEdge(wr[m], aw_pip_drain(m, s), aw_pip[m].addr.to,
                        WriteDone(m, i, s))]

(* A bad write of the same or a later master is recorded over a bad read.  *)
StatusEdge(i, s) ==
  LET badRead  == {m \in rd_grant : ar_pip[m].to = "ERR"}
      badWrite == {m \in wr_grant : aw_pip[m].addr.to = "ERR"}
      late(m)  == WatchdogLate(rd[m]) \/ WatchdogLate(wr[m])
  IN
  /\ dec_err_addr' =
       IF \E m \in badWrite : \A n \in badRead : m >= n
       THEN aw_pip[CHOOSE m \in badWrite : TRUE].addr
       ELSE IF badRead # {} THEN ar_pip[CHOOSE m \in badRead : TRUE]
       ELSE dec_err_addr
  /\ timeout_irq' = [m \in Masters |-> late(m)]
  /\ timeout_status' =
       [m \in Masters |-> \/ late(m)
                          \/ /\ timeout_status[m]
                             /\ ~ReadDone(m, i, s) /\ ~WriteDone(m, i, s)]

InterconnectEdge(i, s) ==
  HoldEdge(i, s) /\ PipelineEdge(i, s) /\ QueuesEdge(i, s) /\ StatusEdge(i, s)
=============================================================================
