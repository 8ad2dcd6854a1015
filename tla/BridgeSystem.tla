----------------------------- MODULE BridgeSystem -----------------------------
(***************************************************************************)
(* The AXI4 bridge between its two neighbours: a CPU that sends bursts     *)
(* of one or more double words, and the AXI-Lite fabric, which             *)
(* holds one read and one write at a time, takes the address and the data  *)
(* of a write on the same edge, and shows a word on rdata only on the edge *)
(* it answers (rtl/interconnect/e1_axi_lite_interconnect.sv).  Behind it   *)
(* is a memory of words, some of which answer with an error.               *)
(***************************************************************************)
EXTENDS E1CpuBridge, Sequences

CONSTANTS
  Ids,           (* transaction identifiers                                *)
  Uses,          (* what a CPU asks for in a behaviour: the double words   *)
                 (* its read and write bursts start at, their beats less   *)
                 (* one (255 in AXI4), its write beats: [data, strb], and  *)
                 (* whether it may offer an address before its first beat  *)
  InitialMem,    (* the memory at reset                                    *)
  BadWords       (* the words that answer with an error                    *)

Words == 0 .. 2 * DoubleWords - 1
Bases == 0 .. DoubleWords - 1
Strobed == [data : [Halves -> Nat], strb : SUBSET Halves]

UseAssumption ==
  /\ Uses \subseteq [reads : SUBSET Bases, writes : SUBSET Bases, last : Nat,
                    beats : SUBSET Strobed, alone : BOOLEAN]
  /\ InitialMem \in [Words -> Nat] /\ BadWords \subseteq Words

NoBurst == [id |-> -1, addr |-> 0, len |-> 0]
NoBeat == [data |-> [h \in Halves |-> NoData], strb |-> {"none"}]
NoWord == -1

VARIABLES
  quick,         (* changes on every edge on which nobody makes anybody    *)
                 (* wait                                                   *)
  use,           (* what the CPU asks for                                  *)
  ar, aw, w,     (* what the CPU offers on each channel                    *)
  reading,       (* the burst being read                                   *)
  received,      (* the beats of it the CPU has                            *)
  writing,       (* the burst being written                                *)
  sent,          (* the beats of it the CPU has handed over                *)
  fr, fw,        (* the accesses the fabric holds                          *)
  mem,
  seen,          (* history: the fabric's answers for the beat being read  *)
  want,          (* history: the memory after the beats handed over        *)
  faulted,       (* history: a byte of the burst was for a bad word        *)
  nearBad,       (* history: a beat of the burst had a bad half            *)
  lone           (* history: an address was taken without a beat           *)

Addresses(bases) == [id : Ids, addr : bases, len : 0 .. use.last]

readVars == <<ar, reading, received, fr, seen>>
writeVars == <<aw, w, writing, sent, fw, mem, want, faulted, nearBad,
               lone>>
vars == <<quick, use, bridgeVars, readVars, writeVars>>

Init ==
  /\ quick = FALSE /\ use \in Uses
  /\ BridgeInit
  /\ ar = NoBurst /\ aw = NoBurst /\ w = NoBeat
  /\ reading = NoBurst /\ received = 0 /\ writing = NoBurst /\ sent = 0
  /\ fr = NoWord /\ fw = [addr |-> NoWord, strb |-> FALSE, data |-> NoData]
  /\ mem = InitialMem /\ want = InitialMem
  /\ seen = <<>> /\ faulted = FALSE /\ nearBad = FALSE
  /\ lone = FALSE

WordOf(d, h) == 2 * (d % DoubleWords) + (IF h = "hi" THEN 1 ELSE 0)

-----------------------------------------------------------------------------
(* The fabric.  Between answers rdata is zero, which is what NoData is.    *)
FabricRead(takes, answers) ==
  LET answered == answers /\ fr # NoWord
      good == answered /\ fr \notin BadWords
  IN [arready |-> takes /\ fr = NoWord,
      rvalid |-> answered, rok |-> good,
      rdata |-> IF good THEN mem[fr] ELSE NoData]

FabricWrite(takes, answers) ==
  [awready |-> takes /\ fw.addr = NoWord,
   wready |-> takes /\ fw.addr = NoWord,
   bvalid |-> answers /\ fw.addr # NoWord,
   bok |-> fw.addr \notin BadWords]

FabricReads(f) ==
  fr' = IF m_arvalid /\ f.arready THEN m_araddr
        ELSE IF m_rready /\ f.rvalid THEN NoWord ELSE fr

FabricWrites(f) ==
  /\ fw' = IF m_awvalid /\ f.awready
           THEN [addr |-> m_awaddr, strb |-> m_wstrb, data |-> m_wdata]
           ELSE IF m_bready /\ f.bvalid THEN [fw EXCEPT !.addr = NoWord] ELSE fw
  /\ mem' = IF m_bready /\ f.bvalid /\ f.bok /\ fw.strb
            THEN [mem EXCEPT ![fw.addr] = fw.data] ELSE mem

-----------------------------------------------------------------------------
(* The CPU.  What it offers it holds until the bridge takes it; it may     *)
(* offer the address of the next read while one is under way.              *)
OffersRead ==
  IF ar = NoBurst \/ ar_ready THEN ar' \in Addresses(use.reads) \cup {NoBurst}
                              ELSE ar' = ar

ReadProgress(c, f) ==
  /\ IF c.arvalid /\ ar_ready THEN reading' = ar /\ received' = 0
     ELSE IF r_valid /\ c.rready
     THEN IF r_last THEN reading' = NoBurst /\ received' = 0
                    ELSE reading' = reading /\ received' = received + 1
     ELSE UNCHANGED <<reading, received>>
  /\ seen' = IF m_rready /\ f.rvalid
             THEN Append(seen, [addr |-> fr, ok |-> f.rok, data |-> f.rdata])
             ELSE IF r_valid /\ c.rready THEN <<>> ELSE seen

TakesAddress(c) == c.awvalid /\ aw_ready
TakesBeat(c) == c.wvalid /\ w_ready(c)
Taken(c) == IF TakesAddress(c) THEN aw ELSE writing
ToSend(c) == IF TakesBeat(c) THEN sent + 1 ELSE sent
Ends(c) == b_valid /\ c.bready

(* The address of a burst is offered when no burst is under way: with its  *)
(* data or after it, or before it too; a beat when it is still to send.    *)
OffersWrite(c) ==
  LET burst == IF Ends(c) THEN NoBurst ELSE Taken(c)
      held == IF TakesBeat(c) THEN NoBeat ELSE w
      count == IF Ends(c) THEN 0 ELSE ToSend(c)
  IN /\ writing' = burst /\ sent' = count
     /\ \/ w' = held
        \/ /\ held = NoBeat /\ w' \in use.beats
           /\ burst # NoBurst => count <= burst.len
     /\ \/ aw # NoBurst /\ ~TakesAddress(c) /\ aw' = aw
        \/ (aw = NoBurst \/ TakesAddress(c)) /\ aw' = NoBurst
        \/ /\ aw = NoBurst /\ burst = NoBurst
           /\ aw' \in Addresses(use.writes)
           /\ use.alone \/ w' # NoBeat
     /\ lone' = (lone \/ (TakesAddress(c) /\ ~c.wvalid))

(* What the beat handed over on this edge asks of the memory.              *)
BeatAsked(c) ==
  LET d == Taken(c).addr + sent
      bad(h) == WordOf(d, h) \in BadWords
      start == TakesAddress(c)
  IN IF TakesBeat(c)
     THEN /\ want' = [a \in Words |->
               IF \E h \in w.strb : WordOf(d, h) = a /\ ~bad(h)
               THEN w.data[CHOOSE h \in Halves : WordOf(d, h) = a]
               ELSE want[a]]
          /\ faulted' = ((~start /\ faulted) \/ \E h \in w.strb : bad(h))
          /\ nearBad' = ((~start /\ nearBad) \/ \E h \in Halves : bad(h))
     ELSE UNCHANGED <<want, faulted, nearBad>>

-----------------------------------------------------------------------------
(* One rising edge.                                                        *)
Side(c, f) ==
  /\ BridgeEdge(c, f)
  /\ FabricReads(f) /\ FabricWrites(f)
  /\ OffersRead /\ ReadProgress(c, f)
  /\ OffersWrite(c) /\ BeatAsked(c)
  /\ UNCHANGED use

Port(rready, bready) ==
  [arvalid |-> ar # NoBurst, ar |-> ar, rready |-> rready,
   awvalid |-> aw # NoBurst, aw |-> aw,
   wvalid |-> w # NoBeat, w |-> w, bready |-> bready]

Fabric(r, b) ==
  [arready |-> r.arready, rvalid |-> r.rvalid, rok |-> r.rok,
   rdata |-> r.rdata, awready |-> b.awready, wready |-> b.wready,
   bvalid |-> b.bvalid, bok |-> b.bok]

(* Whether somebody is made to wait is a choice while somebody asks.       *)
Whether(asked) == IF asked THEN BOOLEAN ELSE {FALSE}

(* quick tells the edges on which nobody made anybody wait.                *)
Paced(rready, bready, takesR, answersR, takesW, answersW) ==
  LET waits == \/ r_valid /\ ~rready
               \/ b_valid /\ ~bready
               \/ m_arvalid /\ ~takesR
               \/ fr # NoWord /\ ~answersR
               \/ m_awvalid /\ ~takesW
               \/ fw.addr # NoWord /\ ~answersW
               \/ writing' # NoBurst /\ sent' <= writing'.len /\ w' = NoBeat
  IN quick' = IF waits THEN quick ELSE ~quick

Edge ==
  \E rready \in Whether(r_valid), bready \in Whether(b_valid),
     takesR \in Whether(m_arvalid), answersR \in Whether(fr # NoWord),
     takesW \in Whether(m_awvalid), answersW \in Whether(fw.addr # NoWord) :
    /\ Side(Port(rready, bready),
            Fabric(FabricRead(takesR, answersR), FabricWrite(takesW, answersW)))
    /\ Paced(rready, bready, takesR, answersR, takesW, answersW)

Next == Edge

Spec == Init /\ [][Next]_vars

(* The fabric answers every access (its watchdog sees to it), and the CPU  *)
(* takes its answers and sends the beats it owes: again and again there is *)
(* an edge without anyone waiting.                                         *)
FairSpec == Spec /\ []<><<TRUE>>_quick

-----------------------------------------------------------------------------
(* A beat given to the CPU carries the identifier of its burst, is marked  *)
(* last exactly when it is, comes of the two words of its own address,     *)
(* each read once, holds the low one, and reports an error exactly when    *)
(* one of the two reads failed (e1_cpu_axi_bridge.sv:226-236, 262-280).    *)
BeatOfBurst ==
  r_valid =>
    LET d == reading.addr + received
    IN /\ reading # NoBurst /\ rd_id = reading.id
       /\ r_last <=> received = reading.len
       /\ [i \in DOMAIN seen |-> seen[i].addr]
            = <<WordOf(d, "lo"), WordOf(d, "hi")>>
       /\ rd_data_lo = seen[1].data
       /\ rd_ok <=> seen[1].ok /\ seen[2].ok

(* "latched hi | lo": a beat that is given without error holds both words  *)
(* as they were read (e1_cpu_axi_bridge.sv:228).  The code latches the low *)
(* one only, and shows the fabric's rdata of a later edge for the high.    *)
BothHalves ==
  r_valid /\ rd_ok =>
    r_data(FabricRead(FALSE, FALSE)) = [lo |-> seen[1].data, hi |-> seen[2].data]

(* When a burst is answered every beat of it has been taken, its bytes and *)
(* no others are in memory, and an error is reported if a byte was for a   *)
(* word that refused it, and only if a double word had such a word         *)
(* (e1_cpu_axi_bridge.sv:301-367, 401-417).                                *)
BurstWritten ==
  b_valid =>
    /\ writing # NoBurst /\ wr_id = writing.id
    /\ sent = writing.len + 1
    /\ mem = want
    /\ faulted => ~wr_ok
    /\ ~wr_ok => nearBad

(* AW and W are channels of their own, and the bridge takes an address     *)
(* whether or not data comes with it, but latches both or none: an address *)
(* taken alone is forgotten, no beat of its burst is ever taken, and       *)
(* memory stays as it was (e1_cpu_axi_bridge.sv:303-309, 394-404).         *)
LoneForgotten == lone => wr_state = "IDLE" /\ sent = 0 /\ mem = want

(* Every read offered is served to its last beat, and every write offered  *)
(* is answered, unless its address was taken alone                         *)
(* (e1_cpu_axi_bridge.sv:181-417).                                         *)
EveryBurstEnds ==
  /\ ar # NoBurst ~> r_valid /\ r_last
  /\ aw # NoBurst ~> b_valid \/ lone
=============================================================================
