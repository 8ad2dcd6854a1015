------------------------------ MODULE SocProofs ------------------------------
(***************************************************************************)
(* What holds of the DMA engine and the NPU on the shared DRAM array, for  *)
(* every memory, ring and timeout that leaves a descriptor its time.       *)
(***************************************************************************)
EXTENDS SocSystem, E1NpuProofs

-----------------------------------------------------------------------------
(* The DMA engine on its ports.  Both ready signals of a write are one, so *)
(* it never has one half of a write sent; its read is answered on the edge *)
(* after it was accepted, and the answer is taken at once.                 *)
DmaShape ==
  /\ d_busy \in BOOLEAN /\ d_read_addr_sent \in BOOLEAN
  /\ d_write_addr_sent = FALSE /\ d_write_data_sent = FALSE
  /\ d_state \in {"IDLE", "READ", "WRITE", "WRESP", "DONE"}
  /\ d_busy <=> d_state # "IDLE"
  /\ d_read_addr_sent => d_state = "READ"

DmaPorts ==
  /\ dma_m_rvalid \in BOOLEAN /\ dma_m_bvalid \in BOOLEAN
  /\ dma_m_rvalid <=> d_state = "READ" /\ d_read_addr_sent
  /\ dma_m_bvalid <=> d_state = "WRESP"
  /\ dma_m_rvalid => (dma_m_rok <=> Decodes(d_cur_src))
  /\ dma_m_bvalid => (dma_m_bok <=> Decodes(d_cur_dst))

LEMMA DmaStep ==
  ASSUME NEW dw, NEW s, DmaShape, DmaPorts,
         Dma!DmaEdge(dw, ToDma), WriteEdge(s), DmaReadEdge
  PROVE  DmaShape' /\ DmaPorts'
<1> DEFINE b == ToDma
<1>1. /\ b.arready = dma_m_arready /\ b.rvalid = dma_m_rvalid
      /\ b.awready = dma_m_ready /\ b.wready = dma_m_ready
      /\ b.bvalid = dma_m_bvalid /\ b.bok = dma_m_bok /\ b.rok = dma_m_rok
  BY DEF ToDma
<1>2. /\ Dma!arvalid <=> d_state = "READ" /\ ~d_read_addr_sent
      /\ Dma!rready <=> d_state = "READ"
      /\ Dma!awvalid /\ Dma!wvalid <=> d_state = "WRITE"
      /\ Dma!bready <=> d_state = "WRESP"
  BY DEF DmaShape, Dma!arvalid, Dma!rready, Dma!awvalid, Dma!wvalid, Dma!bready
<1>3. /\ dma_m_rvalid' = (dma_rd_fire \/ (dma_m_rvalid /\ d_state # "READ"))
      /\ dma_m_bvalid' = (dma_wr_fire \/ (dma_m_bvalid /\ d_state # "WRESP"))
      /\ dma_m_bok' = IF dma_wr_fire THEN Decodes(d_cur_dst) ELSE dma_m_bok
      /\ dma_m_rok' = IF dma_rd_fire THEN Decodes(d_cur_src) ELSE dma_m_rok
  BY <1>2 DEF WriteEdge, DmaReadEdge, DmaPorts
<1>4. /\ dma_rd_fire <=> d_state = "READ" /\ ~d_read_addr_sent /\ dma_m_arready
      /\ dma_wr_fire <=> d_state = "WRITE"
      /\ dma_m_ready <=> d_state # "WRESP"
  BY <1>2 DEF dma_rd_fire, dma_wr_fire, dma_m_ready, DmaPorts
<1>5. dma_m_arready \in BOOLEAN
  BY DEF dma_m_arready
<1> HIDE DEF b
<1> USE DEF DmaShape, DmaPorts
<1>6. CASE Dma!AwaitRead(dw, b)
  BY <1>1, <1>3, <1>4, <1>5, <1>6 DEF Dma!AwaitRead, Dma!Carry, Dma!cursor
<1>7. CASE Dma!TakeRead(dw, b)
  BY <1>1, <1>3, <1>4, <1>7
  DEF Dma!TakeRead, Dma!Carry, Dma!cursor, Dma!StopWithError
<1>8. CASE Dma!IssueWrite(dw, b)
  BY <1>1, <1>3, <1>4, <1>8 DEF Dma!IssueWrite, Dma!Carry, Dma!cursor
<1>9. CASE Dma!AwaitResponse(dw, b)
  BY <1>1, <1>9 DEF Dma!AwaitResponse
<1>10. CASE Dma!WriteFault(dw, b)
  BY <1>1, <1>3, <1>4, <1>10 DEF Dma!WriteFault, Dma!StopWithError, Dma!cursor
<1>11. CASE Dma!NextBeat(dw, b) \/ Dma!LastBeat(dw, b)
  BY <1>1, <1>3, <1>4, <1>11 DEF Dma!NextBeat, Dma!LastBeat, Dma!Carry, Dma!sent
<1>12. CASE Dma!Finish(dw)
  BY <1>1, <1>3, <1>4, <1>12 DEF Dma!Finish, Dma!sent
<1>13. CASE Dma!Start(dw)
  BY <1>1, <1>3, <1>4, <1>13 DEF Dma!Start
<1>14. CASE Dma!Idle(dw)
  BY <1>1, <1>3, <1>4, <1>14 DEF Dma!Idle, Dma!Carry, Dma!sent
<1>15. Dma!DmaEdge(dw, b)
  BY DEF b
<1> QED BY <1>6, <1>7, <1>8, <1>9, <1>10, <1>11, <1>12, <1>13, <1>14, <1>15
        DEF Dma!DmaEdge

-----------------------------------------------------------------------------
(* The ring on one edge, as far as its port, its place and its clock go.   *)
Clocked(n) == desc_timeout_count' \in {n, 0}
Counts == Clocked(desc_timeout_count + 1)

RingStops ==
  /\ desc_busy /\ (TimedOut \/ desc_state \notin {"FETCH_ADDR", "STREAM_ADDR"})
  /\ desc_busy' = FALSE /\ desc_state' = "IDLE" /\ Counts
  /\ UNCHANGED desc_fetch_word
RingStarts ==
  /\ ~desc_busy /\ desc_busy' = TRUE /\ desc_state' = "FETCH_ADDR"
  /\ desc_fetch_word' = 0 /\ desc_stream_done' = 0 /\ Clocked(0)
RingRestsOn ==
  /\ ~desc_busy /\ desc_busy' = FALSE /\ desc_state' = desc_state
  /\ Clocked(desc_timeout_count) /\ UNCHANGED fetch
Offers(addr, data) ==
  /\ In(addr) /\ desc_busy' = TRUE /\ Counts /\ UNCHANGED fetch
  /\ desc_state' = IF npu_m_arready THEN data ELSE addr
Waits(data) ==
  /\ In(data) /\ ~npu_m_rvalid /\ desc_state' = data
  /\ desc_busy' = TRUE /\ Counts /\ UNCHANGED fetch
Fetches ==
  /\ In("FETCH_DATA") /\ npu_m_rvalid /\ desc_busy' = TRUE /\ Counts
  /\ UNCHANGED desc_stream_done
  /\ \/ /\ desc_fetch_word = DescWords - 1 /\ desc_state' = "LAUNCH"
        /\ desc_fetch_word' = 0
     \/ /\ desc_fetch_word # DescWords - 1 /\ desc_state' = "FETCH_ADDR"
        /\ desc_fetch_word' = desc_fetch_word + 1
Streams ==
  /\ In("STREAM_DATA") /\ npu_m_rvalid /\ desc_busy' = TRUE /\ Counts
  /\ UNCHANGED <<desc_fetch_word, desc_words>>
  /\ desc_stream_done' = desc_stream_done + 4
  /\ desc_state' \in {"LAUNCH", "STREAM_ADDR"}
BeginsStream ==
  /\ In("LAUNCH") /\ Refusal = {} /\ NeedsStream /\ desc_state' = "STREAM_ADDR"
  /\ desc_busy' = TRUE /\ Counts /\ UNCHANGED fetch
Launches ==
  /\ In("LAUNCH") /\ ~EngineRuns /\ ~BadGemm /\ desc_state' = "WAIT"
  /\ IF Word0.op = GEMM THEN LaunchGemm ELSE LaunchScalar(Word0.op, DescArgs)
  /\ desc_busy' = TRUE /\ Counts /\ UNCHANGED fetch
Awaits ==
  /\ In("WAIT") /\ RunEngines /\ (GemmFault => busy' = FALSE)
  /\ (~GemmFault => busy' = busy)
  /\ desc_state' = IF EngineFinishes THEN "ADVANCE" ELSE "WAIT"
  /\ desc_busy' = TRUE /\ Counts /\ UNCHANGED fetch
Advances ==
  /\ In("ADVANCE") /\ desc_busy' = TRUE /\ desc_state' = "FETCH_ADDR"
  /\ desc_fetch_word' = 0 /\ desc_stream_done' = 0 /\ Clocked(0)

RingMoves ==
  \/ RingStops \/ RingStarts \/ RingRestsOn
  \/ Offers("FETCH_ADDR", "FETCH_DATA") \/ Offers("STREAM_ADDR", "STREAM_DATA")
  \/ Waits("FETCH_DATA") \/ Waits("STREAM_DATA") \/ Fetches \/ Streams
  \/ BeginsStream \/ Launches \/ Awaits \/ Advances

LEMMA RingDoes ==
  ASSUME NEW w, StatusInv, NpuEdge(w, ToNpu)
  PROVE  RingMoves
<1> DEFINE b == ToNpu
<1>1. b.arready = npu_m_arready /\ b.rvalid = npu_m_rvalid
  BY DEF ToNpu
<1>2. desc_busy \in BOOLEAN /\ busy \in BOOLEAN
  BY DEF StatusInv, StatusTypes
<1>3. NpuEdge(w, b)
  OBVIOUS
<1>4. \A f, i, n : RingReport(w, f, i, n) => Clocked(n)
  BY DEF RingReport, Clocked
<1> HIDE DEF b
<1> USE DEF RingMoves
<1>5. CASE \/ StartScalar(w) \/ StartGemm(w) \/ RejectStart(w) \/ Rest(w)
           \/ FinishCommand(w) \/ FaultCommand(w) \/ RunCommand(w) \/ RefuseRing(w)
  <2>1. /\ ~desc_busy /\ desc_busy' = desc_busy /\ desc_state' = desc_state
        /\ UNCHANGED fetch
    BY <1>5
    DEF StartScalar, StartGemm, RejectStart, Rest, FinishCommand, FaultCommand,
        RunCommand, RefuseRing, RingRests, Register, Accepts, Rests
  <2>2. \E f, i : RingReport(w, f, i, desc_timeout_count)
    <3>1. RingRests(w) => RingReport(w, desc_status, desc_err_index, desc_timeout_count)
      BY DEF RingRests, RingCarry
    <3> QED
      BY <1>5, <3>1
      DEF StartScalar, StartGemm, RejectStart, Rest, FinishCommand, FaultCommand,
          RunCommand, RefuseRing
  <2> QED BY <1>2, <1>4, <2>1, <2>2 DEF RingRestsOn
<1>6. CASE StartRing(w)
  BY <1>4, <1>6 DEF RingStarts, StartRing, Accepts, Rests
<1>7. CASE ReadFault(w, b) \/ Refuse(w) \/ TimeOut(w)
  <2>1. /\ desc_busy /\ (TimedOut \/ desc_state \notin {"FETCH_ADDR", "STREAM_ADDR"})
        /\ desc_busy' = FALSE /\ desc_state' = "IDLE" /\ UNCHANGED fetch
    BY <1>7 DEF ReadFault, Refuse, TimeOut, Abort, In
  <2>2. \E f, i : RingReport(w, f, i, desc_timeout_count + 1)
    BY <1>7 DEF ReadFault, Refuse, TimeOut, Abort
  <2> QED BY <1>4, <2>1, <2>2 DEF RingStops, Counts, fetch
<1>8. \A n : Proceed(w) => Counts /\ (In(n) => desc_busy' = TRUE)
  BY <1>2, <1>4 DEF Proceed, RingCarry, Counts, In
<1>9. \A s : In(s) => desc_busy /\ ~TimedOut
  BY DEF In
<1>10. CASE OfferAddress(w, b)
  <2>1. \/ /\ In("FETCH_ADDR")
           /\ desc_state' = IF b.arready THEN "FETCH_DATA" ELSE "FETCH_ADDR"
           /\ Proceed(w) /\ UNCHANGED fetch
        \/ /\ In("STREAM_ADDR")
           /\ desc_state' = IF b.arready THEN "STREAM_DATA" ELSE "STREAM_ADDR"
           /\ Proceed(w) /\ UNCHANGED fetch
    <3>1. \A phase : phase = <<"FETCH_ADDR", "FETCH_DATA">> =>
                       phase[1] = "FETCH_ADDR" /\ phase[2] = "FETCH_DATA"
      OBVIOUS
    <3>2. \A phase : phase = <<"STREAM_ADDR", "STREAM_DATA">> =>
                       phase[1] = "STREAM_ADDR" /\ phase[2] = "STREAM_DATA"
      OBVIOUS
    <3> QED BY <1>10, <3>1, <3>2 DEF OfferAddress
  <2> QED BY <1>1, <1>8, <1>9, <2>1 DEF Offers
<1>11. CASE AwaitData(w, b)
  <2>1. /\ In("FETCH_DATA") \/ In("STREAM_DATA")
        /\ Proceed(w) /\ UNCHANGED <<desc_state, fetch>> /\ ~b.rvalid
    BY <1>11 DEF AwaitData
  <2>2. \A s : In(s) => desc_state = s
    BY DEF In
  <2> QED BY <1>1, <1>8, <1>9, <2>1, <2>2 DEF Waits
<1>12. CASE TakeWord(w, b)
  BY <1>1, <1>8, <1>9, <1>12 DEF TakeWord, Fetches
<1>13. CASE TakeStream(w, b)
  BY <1>1, <1>8, <1>9, <1>13 DEF TakeStream, Streams
<1>14. CASE BeginStream(w)
  BY <1>8, <1>9, <1>14 DEF BeginStream, BeginsStream
<1>15. CASE Launch(w)
  BY <1>8, <1>9, <1>15 DEF Launch, Launches
<1>16. CASE Await(w)
  BY <1>2, <1>4, <1>9, <1>16
  DEF Await, Awaits, Counts, RingCarry, Report, Carry, In
<1>17. CASE Advance(w)
  <2>1. In("ADVANCE") /\ Clocked(0)
    BY <1>4, <1>17 DEF Advance
  <2>2. desc_busy /\ desc_state = "ADVANCE" /\ Counts
    BY <2>1 DEF In, Clocked, Counts
  <2>3. CASE (desc_tail + 1) % RingSize = desc_head
    BY <1>17, <2>2, <2>3 DEF Advance, RingStops
  <2>4. CASE (desc_tail + 1) % RingSize # desc_head
    BY <1>17, <2>1, <2>4 DEF Advance, Advances
  <2> QED BY <2>3, <2>4
<1> QED BY <1>3, <1>5, <1>6, <1>7, <1>9, <1>10, <1>11, <1>12, <1>13, <1>14, <1>15,
           <1>16, <1>17 DEF NpuEdge

-----------------------------------------------------------------------------
(* The read ports together.  An offered address is always accepted when    *)
(* the other engine offers none and no answer for the DMA is out; the      *)
(* clock shows that the NPU's run does not end on the edge its address is  *)
(* accepted, which would leave it an answer nobody takes.                  *)
NpuPorts ==
  /\ npu_m_rvalid \in BOOLEAN
  /\ npu_m_rvalid <=> desc_state \in {"FETCH_DATA", "STREAM_DATA"}
  /\ ~(dma_m_rvalid /\ npu_m_rvalid)

ClockTypes ==
  /\ desc_timeout_count \in Nat /\ desc_fetch_word \in 0 .. DescWords - 1
  /\ desc_stream_done \in Nat
  /\ desc_busy => desc_timeout_count <= TimeoutLimit

(* Three edges for each word; held up for longer only where the two        *)
(* engines' addresses hold each other up.                                  *)
FetchClock ==
  /\ desc_timeout_count <= 3 * desc_fetch_word + 1
  /\ dma_m_rvalid => desc_timeout_count <= 3 * desc_fetch_word
StreamClock ==
  /\ 4 * desc_timeout_count <= 12 * DescWords + 8 + 3 * desc_stream_done
  /\ dma_m_rvalid =>
       4 * desc_timeout_count <= 12 * DescWords + 4 + 3 * desc_stream_done
ClockInv ==
  /\ ClockTypes
  /\ desc_state = "FETCH_ADDR" => Dma!arvalid \/ FetchClock
  /\ desc_state = "FETCH_DATA" => desc_timeout_count <= 3 * desc_fetch_word + 2
  /\ desc_state = "LAUNCH" /\ desc_stream_done = 0 =>
       desc_timeout_count <= 3 * DescWords
  /\ desc_state = "STREAM_ADDR" => Dma!arvalid \/ StreamClock
  /\ desc_state = "STREAM_DATA" =>
       4 * desc_timeout_count <= 12 * DescWords + 12 + 3 * desc_stream_done

LEMMA Offering ==
  ASSUME StatusInv
  PROVE  /\ arvalid <=> desc_state \in {"FETCH_ADDR", "STREAM_ADDR"}
         /\ rready <=> desc_state \in {"FETCH_DATA", "STREAM_DATA"}
BY DEF StatusInv, StatusTypes, arvalid, rready

LEMMA StreamFits ==
  ASSUME StreamInv, desc_state \in {"STREAM_ADDR", "STREAM_DATA"}
  PROVE  desc_stream_done + 4 <= ScratchBytes
<1>1. /\ Refusal = {} /\ Word0.stream /\ desc_stream_done \in Nat
      /\ desc_stream_done % 4 = 0 /\ desc_stream_done < Word0.len
  BY DEF StreamInv
<1>2. Word0.len \in Nat /\ Word0.dst \in Nat /\ ScratchBytes \in Nat
  BY NpuAssumption DEF NpuAssumption, Word0, ZeroControl
<1>4. Word0.len % 4 = 0 /\ Word0.dst + Word0.len <= ScratchBytes
  BY <1>1, NotRefused
<1> DEFINE n == desc_stream_done
           len == Word0.len
<1>5. n \in Nat /\ len \in Nat /\ n % 4 = 0 /\ len % 4 = 0 /\ n < len
  BY <1>1, <1>2, <1>4
<1>6. n + 4 <= len
  <2> HIDE DEF n, len
  <2> QED BY <1>5
<1> QED BY <1>2, <1>4, <1>5, <1>6

(* No address is accepted on the edge of a timeout.                        *)
LEMMA NoLateAccept ==
  ASSUME StreamInv, ClockInv, desc_state \in {"FETCH_ADDR", "STREAM_ADDR"}, TimedOut
  PROVE  Dma!arvalid /\ ~npu_m_arready
<1>1. /\ DescWords \in Nat \ {0, 1} /\ TimeoutLimit \in Nat /\ ScratchBytes \in Nat
      /\ 12 * DescWords + 3 * ScratchBytes <= 4 * TimeoutLimit
  BY NpuAssumption, TimeoutAssumption DEF NpuAssumption, TimeoutAssumption
<1>2. /\ desc_timeout_count \in Nat /\ desc_timeout_count >= TimeoutLimit
      /\ desc_fetch_word \in 0 .. DescWords - 1 /\ desc_stream_done \in Nat
  BY DEF ClockInv, ClockTypes, TimedOut
<1>3. CASE desc_state = "FETCH_ADDR"
  <2>1. Dma!arvalid \/ desc_timeout_count <= 3 * desc_fetch_word + 1
    BY <1>3 DEF ClockInv, FetchClock
  <2>2. desc_timeout_count > 3 * desc_fetch_word + 1
    BY <1>1, <1>2
  <2> QED BY <1>2, <2>1, <2>2 DEF npu_m_arready
<1>4. CASE desc_state = "STREAM_ADDR"
  <2>1. \/ Dma!arvalid
        \/ 4 * desc_timeout_count <= 12 * DescWords + 8 + 3 * desc_stream_done
    BY <1>4 DEF ClockInv, StreamClock
  <2>2. desc_stream_done + 4 <= ScratchBytes
    BY <1>4, StreamFits
  <2>3. 4 * desc_timeout_count > 12 * DescWords + 8 + 3 * desc_stream_done
    BY <1>1, <1>2, <2>2
  <2> QED BY <1>1, <1>2, <2>1, <2>3 DEF npu_m_arready
<1> QED BY <1>3, <1>4

(* The DMA's read on one edge.                                             *)
LEMMA DmaReads ==
  ASSUME NEW dw, DmaShape, DmaPorts, Dma!DmaEdge(dw, ToDma), DmaReadEdge
  PROVE  /\ Dma!arvalid /\ ~dma_m_arready => Dma!arvalid'
         /\ dma_m_rvalid => ~dma_m_rvalid' /\ ~Dma!arvalid'
<1> DEFINE b == ToDma
<1>1. b.arready = dma_m_arready /\ b.rvalid = dma_m_rvalid
  BY DEF ToDma
<1>2. Dma!DmaEdge(dw, b)
  OBVIOUS
<1>3. dma_m_rvalid => Dma!rready /\ ~Dma!arvalid
  BY DEF DmaShape, DmaPorts, Dma!rready, Dma!arvalid
<1>4. dma_m_rvalid => ~dma_m_rvalid'
  BY <1>3 DEF DmaReadEdge, dma_rd_fire
<1> HIDE DEF b
<1>5. ASSUME Dma!arvalid, ~dma_m_arready PROVE Dma!arvalid'
  <2>1. Dma!AwaitRead(dw, b)
    BY <1>1, <1>2, <1>5
    DEF Dma!DmaEdge, DmaShape, DmaPorts, Dma!arvalid, Dma!TakeRead, Dma!IssueWrite,
        Dma!AwaitResponse, Dma!WriteFault, Dma!NextBeat, Dma!LastBeat, Dma!Finish,
        Dma!Start, Dma!Idle
  <2> QED BY <1>1, <1>5, <2>1 DEF Dma!AwaitRead, Dma!Carry, Dma!arvalid, DmaShape
<1>6. ASSUME dma_m_rvalid PROVE ~Dma!arvalid'
  <2>1. Dma!TakeRead(dw, b)
    BY <1>1, <1>2, <1>6
    DEF Dma!DmaEdge, DmaShape, DmaPorts, Dma!AwaitRead, Dma!IssueWrite,
        Dma!AwaitResponse, Dma!WriteFault, Dma!NextBeat, Dma!LastBeat, Dma!Finish,
        Dma!Start, Dma!Idle
  <2> QED BY <2>1 DEF Dma!TakeRead, Dma!StopWithError, Dma!arvalid
<1> QED BY <1>4, <1>5, <1>6

LEMMA NpuPortsStep ==
  ASSUME StatusInv, StreamInv, DmaShape, DmaPorts, NpuPorts, ClockInv, RingMoves,
         DmaReadEdge, NpuReadEdge
  PROVE  NpuPorts'
<1>1. /\ arvalid <=> desc_state \in {"FETCH_ADDR", "STREAM_ADDR"}
      /\ rready <=> desc_state \in {"FETCH_DATA", "STREAM_DATA"}
  BY Offering
<1>2. npu_m_rvalid' = npu_rd_fire
  BY <1>1 DEF NpuReadEdge, NpuPorts, npu_rd_fire
<1>3. npu_rd_fire <=> desc_state \in {"FETCH_ADDR", "STREAM_ADDR"} /\ npu_m_arready
  BY <1>1 DEF npu_rd_fire
<1>4. npu_rd_fire \in BOOLEAN
  BY DEF npu_rd_fire, arvalid
<1>5. desc_state' \in {"FETCH_DATA", "STREAM_DATA"} <=> npu_rd_fire
  <2>1. desc_busy <=> desc_state # "IDLE"
    BY DEF StatusInv
  <2>2. CASE RingStops
    BY <1>3, <2>2, NoLateAccept DEF RingStops
  <2>3. CASE RingStarts \/ RingRestsOn
    BY <1>3, <2>1, <2>3 DEF RingStarts, RingRestsOn
  <2>4. CASE \/ Offers("FETCH_ADDR", "FETCH_DATA")
             \/ Offers("STREAM_ADDR", "STREAM_DATA")
    BY <1>3, <2>4 DEF Offers, In
  <2>5. CASE Waits("FETCH_DATA") \/ Waits("STREAM_DATA")
    BY <2>5 DEF Waits, In, NpuPorts
  <2>6. CASE Fetches \/ Streams \/ BeginsStream \/ Launches \/ Awaits \/ Advances
    BY <1>3, <2>6 DEF Fetches, Streams, BeginsStream, Launches, Awaits, Advances, In
  <2> QED BY <2>2, <2>3, <2>4, <2>5, <2>6 DEF RingMoves
<1>6. ~(dma_m_rvalid' /\ npu_m_rvalid')
  <2>1. dma_m_rvalid' => dma_rd_fire
    BY DEF DmaReadEdge, DmaPorts, DmaShape, Dma!rready
  <2>2. dma_rd_fire => ~npu_rd_fire
    BY DEF dma_rd_fire, npu_rd_fire, dma_m_arready
  <2> QED BY <1>2, <2>1, <2>2
<1> QED BY <1>2, <1>4, <1>5, <1>6 DEF NpuPorts

LEMMA ClockTypesStep ==
  ASSUME StatusInv, ClockTypes, RingMoves, desc_stream_done' \in Nat
  PROVE  ClockTypes'
<1>1. DescWords \in Nat \ {0, 1} /\ TimeoutLimit \in Nat
  BY NpuAssumption DEF NpuAssumption
<1>2. /\ desc_timeout_count \in Nat /\ desc_fetch_word \in 0 .. DescWords - 1
      /\ desc_busy => desc_timeout_count <= TimeoutLimit
  BY DEF ClockTypes
<1>3. ~TimedOut => desc_timeout_count + 1 <= TimeoutLimit
  BY <1>1, <1>2 DEF TimedOut
<1>4. desc_fetch_word' \in 0 .. DescWords - 1
  <2>1. \/ desc_fetch_word' \in {desc_fetch_word, 0}
        \/ /\ desc_fetch_word # DescWords - 1
           /\ desc_fetch_word' = desc_fetch_word + 1
    BY DEF RingMoves, RingStops, RingStarts, RingRestsOn, Offers, Waits, Fetches, Streams,
           BeginsStream, Launches, Awaits, Advances, fetch
  <2> QED BY <1>1, <1>2, <2>1
<1>5. /\ desc_timeout_count' \in {desc_timeout_count + 1, desc_timeout_count, 0}
      /\ desc_busy' => \/ desc_timeout_count' = 0
                       \/ ~TimedOut /\ desc_timeout_count' = desc_timeout_count + 1
  BY DEF RingMoves, RingStops, RingStarts, RingRestsOn, Offers, Waits, Fetches, Streams,
         BeginsStream, Launches, Awaits, Advances, Counts, Clocked, In
<1> QED BY <1>1, <1>2, <1>3, <1>4, <1>5 DEF ClockTypes

LEMMA ClockStep ==
  ASSUME StatusInv, StreamInv, NpuPorts, ClockInv, RingMoves,
         desc_stream_done' \in Nat, dma_m_rvalid \in BOOLEAN,
         Dma!arvalid /\ ~dma_m_arready => Dma!arvalid',
         dma_m_rvalid => ~dma_m_rvalid' /\ ~Dma!arvalid'
  PROVE  ClockInv'
<1>1. DescWords \in Nat \ {0, 1}
  BY NpuAssumption DEF NpuAssumption
<1>2. /\ desc_timeout_count \in Nat /\ desc_fetch_word \in 0 .. DescWords - 1
      /\ desc_stream_done \in Nat
  BY DEF ClockInv, ClockTypes
<1>3. ClockTypes'
  BY ClockTypesStep DEF ClockInv
<1>4. /\ desc_timeout_count' \in Nat /\ desc_fetch_word' \in 0 .. DescWords - 1
      /\ desc_stream_done' \in Nat
  BY <1>3 DEF ClockTypes
<1>5. CASE RingStops \/ Launches \/ Awaits
  <2>1. desc_state' \in {"IDLE", "WAIT", "ADVANCE"}
    BY <1>5 DEF RingStops, Launches, Awaits
  <2> QED BY <1>3, <2>1 DEF ClockInv
<1>6. CASE RingRestsOn
  <2>1. desc_state' = "IDLE"
    BY <1>6 DEF RingRestsOn, StatusInv
  <2> QED BY <1>3, <2>1 DEF ClockInv
<1>7. CASE RingStarts \/ Advances
  <2>1. /\ desc_state' = "FETCH_ADDR"
        /\ desc_timeout_count' = 0 /\ desc_fetch_word' = 0
    BY <1>7 DEF RingStarts, Advances, Clocked
  <2>2. FetchClock'
    BY <2>1 DEF FetchClock
  <2> QED BY <1>3, <2>1, <2>2 DEF ClockInv
<1>8. ASSUME desc_state \in {"FETCH_ADDR", "STREAM_ADDR"}
      PROVE  /\ npu_m_arready => ~Dma!arvalid
             /\ ~npu_m_arready => \/ Dma!arvalid'
                                  \/ ~Dma!arvalid /\ dma_m_rvalid /\ ~dma_m_rvalid'
  <2>1. ~dma_m_arready /\ ~npu_m_rvalid
    BY <1>8, Offering DEF dma_m_arready, NpuPorts
  <2> QED BY <2>1 DEF npu_m_arready
<1>9. CASE Offers("FETCH_ADDR", "FETCH_DATA")
  <2>1. /\ desc_timeout_count' = desc_timeout_count + 1 \/ desc_timeout_count' = 0
        /\ desc_fetch_word' = desc_fetch_word /\ desc_state = "FETCH_ADDR"
        /\ desc_state' = IF npu_m_arready THEN "FETCH_DATA" ELSE "FETCH_ADDR"
        /\ Dma!arvalid \/ FetchClock
    BY <1>9 DEF Offers, Counts, Clocked, In, fetch, ClockInv
  <2>2. CASE npu_m_arready
    <3>1. desc_state' = "FETCH_DATA" /\ desc_timeout_count <= 3 * desc_fetch_word + 1
      BY <1>8, <2>1, <2>2 DEF FetchClock
    <3>2. desc_timeout_count' <= 3 * desc_fetch_word' + 2
      BY <1>2, <2>1, <3>1
    <3> QED BY <1>3, <3>1, <3>2 DEF ClockInv
  <2>3. CASE ~npu_m_arready
    <3>1. desc_state' = "FETCH_ADDR"
      BY <2>1, <2>3
    <3>2. Dma!arvalid' \/ FetchClock'
      BY <1>2, <1>8, <2>1, <2>3 DEF FetchClock
    <3> QED BY <1>3, <3>1, <3>2 DEF ClockInv
  <2> QED BY <2>2, <2>3
<1>10. CASE Offers("STREAM_ADDR", "STREAM_DATA")
  <2>1. /\ desc_timeout_count' = desc_timeout_count + 1 \/ desc_timeout_count' = 0
        /\ desc_stream_done' = desc_stream_done /\ desc_state = "STREAM_ADDR"
        /\ desc_state' = IF npu_m_arready THEN "STREAM_DATA" ELSE "STREAM_ADDR"
        /\ Dma!arvalid \/ StreamClock
    BY <1>10 DEF Offers, Counts, Clocked, In, fetch, ClockInv
  <2>2. CASE npu_m_arready
    <3>1. /\ desc_state' = "STREAM_DATA"
          /\ 4 * desc_timeout_count <= 12 * DescWords + 8 + 3 * desc_stream_done
      BY <1>8, <2>1, <2>2 DEF StreamClock
    <3>2. 4 * desc_timeout_count' <= 12 * DescWords + 12 + 3 * desc_stream_done'
      BY <1>1, <1>2, <2>1, <3>1
    <3> QED BY <1>3, <3>1, <3>2 DEF ClockInv
  <2>3. CASE ~npu_m_arready
    <3>1. desc_state' = "STREAM_ADDR"
      BY <2>1, <2>3
    <3>2. Dma!arvalid' \/ StreamClock'
      BY <1>1, <1>2, <1>8, <2>1, <2>3 DEF StreamClock
    <3> QED BY <1>3, <3>1, <3>2 DEF ClockInv
  <2> QED BY <2>2, <2>3
<1>11. CASE Waits("FETCH_DATA") \/ Waits("STREAM_DATA")
  BY <1>11 DEF Waits, In, NpuPorts
<1>12. CASE Fetches
  <2>1. /\ desc_timeout_count' = desc_timeout_count + 1 \/ desc_timeout_count' = 0
        /\ desc_timeout_count <= 3 * desc_fetch_word + 2
    BY <1>12 DEF Fetches, Counts, Clocked, In, ClockInv
  <2>2. CASE /\ desc_fetch_word = DescWords - 1 /\ desc_state' = "LAUNCH"
             /\ desc_fetch_word' = 0
    <3>1. desc_timeout_count' <= 3 * DescWords
      BY <1>1, <1>2, <2>1, <2>2
    <3> QED BY <1>3, <2>2, <3>1 DEF ClockInv
  <2>3. CASE desc_state' = "FETCH_ADDR" /\ desc_fetch_word' = desc_fetch_word + 1
    <3>1. desc_timeout_count' <= 3 * desc_fetch_word'
      BY <1>2, <2>1, <2>3
    <3>2. desc_timeout_count' <= 3 * desc_fetch_word' + 1
      BY <1>2, <2>1, <2>3
    <3> QED BY <1>3, <2>3, <3>1, <3>2 DEF ClockInv, FetchClock
  <2> QED BY <1>12, <2>2, <2>3 DEF Fetches
<1>13. CASE Streams
  <2>1. /\ desc_timeout_count' = desc_timeout_count + 1 \/ desc_timeout_count' = 0
        /\ 4 * desc_timeout_count <= 12 * DescWords + 12 + 3 * desc_stream_done
        /\ desc_stream_done' = desc_stream_done + 4
        /\ desc_state' \in {"LAUNCH", "STREAM_ADDR"}
    BY <1>13 DEF Streams, Counts, Clocked, In, ClockInv
  <2>2. /\ 4 * desc_timeout_count' <= 12 * DescWords + 4 + 3 * desc_stream_done'
        /\ 4 * desc_timeout_count' <= 12 * DescWords + 8 + 3 * desc_stream_done'
        /\ desc_stream_done' # 0
    BY <1>1, <1>2, <2>1
  <2> QED BY <1>3, <2>1, <2>2 DEF ClockInv, StreamClock
<1>14. CASE BeginsStream
  <2>1. /\ desc_timeout_count' = desc_timeout_count + 1 \/ desc_timeout_count' = 0
        /\ desc_stream_done = 0 /\ desc_stream_done' = 0
        /\ desc_timeout_count <= 3 * DescWords /\ desc_state' = "STREAM_ADDR"
    BY <1>14 DEF BeginsStream, Counts, Clocked, In, NeedsStream, fetch, ClockInv
  <2>2. /\ 4 * desc_timeout_count' <= 12 * DescWords + 4 + 3 * desc_stream_done'
        /\ 4 * desc_timeout_count' <= 12 * DescWords + 8 + 3 * desc_stream_done'
    BY <1>1, <1>2, <2>1
  <2> QED BY <1>3, <2>1, <2>2 DEF ClockInv, StreamClock
<1> QED BY <1>5, <1>6, <1>7, <1>9, <1>10, <1>11, <1>12, <1>13, <1>14 DEF RingMoves

-----------------------------------------------------------------------------
(* How long the DMA's address has been refused: only by the NPU's, whose   *)
(* clock counts every one of these edges, since no clear meets them.       *)
StallInv ==
  /\ stalled \in Nat
  /\ stalled <= TimeoutLimit + 1
  /\ arvalid => stalled <= desc_timeout_count

LEMMA AddressCounts ==
  ASSUME NEW b, StatusInv, NpuEdge(NoWrite, b), desc_busy' = TRUE,
         desc_state \in {"FETCH_ADDR", "STREAM_ADDR"}
  PROVE  desc_timeout_count' = desc_timeout_count + 1
<1>1. desc_busy /\ EngineRuns = FALSE
  BY DEF StatusInv, StatusTypes, EngineRuns
<1>2. OfferAddress(NoWrite, b)
  BY <1>1
  DEF NpuEdge, StartScalar, StartGemm, RejectStart, RefuseRing, StartRing, Rest,
      FinishCommand, FaultCommand, RunCommand, AwaitData, TakeWord, TakeStream,
      ReadFault, Refuse, BeginStream, Launch, Await, Advance, TimeOut, Register,
      Accepts, Rests, In
<1>3. Proceed(NoWrite)
  BY <1>2 DEF OfferAddress
<1>4. ~ClearBit(NoWrite)
  BY DEF ClearBit, NoWrite
<1> QED BY <1>3, <1>4 DEF Proceed, RingCarry, RingReport

LEMMA StallStep ==
  ASSUME NEW dw, NEW w, StatusInv, DmaShape, DmaPorts, ClockInv, ClockInv',
         StallInv, busy => w = NoWrite, NpuEdge(w, ToNpu), StatusInv',
         RingMoves, Record(dw)
  PROVE  StallInv'
<1>1. /\ TimeoutLimit \in Nat /\ desc_timeout_count \in Nat /\ desc_timeout_count' \in Nat
      /\ stalled \in Nat /\ stalled <= TimeoutLimit + 1
  BY NpuAssumption DEF NpuAssumption, ClockInv, ClockTypes, StallInv
<1>2. CASE Dma!arvalid /\ arvalid
  <2>1. stalled' = stalled + 1
    <3>1. stalled' = IF stalled > TimeoutLimit + 1 THEN stalled ELSE stalled + 1
      BY <1>2 DEF Record, dma_m_arready
    <3> QED BY <1>1, <3>1
  <2>2. stalled <= desc_timeout_count /\ desc_timeout_count <= TimeoutLimit
    BY <1>2 DEF StallInv, ClockInv, ClockTypes, arvalid
  <2>3. ASSUME arvalid' PROVE desc_timeout_count' = desc_timeout_count + 1
    <3>1. desc_busy' = TRUE
      BY <2>3 DEF arvalid, StatusInv, StatusTypes
    <3>2. w = NoWrite /\ desc_state \in {"FETCH_ADDR", "STREAM_ADDR"}
      BY <1>2 DEF arvalid
    <3> QED BY <3>1, <3>2, AddressCounts
  <2> QED BY <1>1, <2>1, <2>2, <2>3 DEF StallInv
<1>3. CASE ~(Dma!arvalid /\ arvalid)
  <2>1. Dma!arvalid => ~dma_m_rvalid
    BY DEF DmaPorts, DmaShape, Dma!arvalid
  <2>2. stalled' = 0
    BY <1>3, <2>1 DEF Record, dma_m_arready
  <2> QED BY <1>1, <2>2 DEF StallInv
<1> QED BY <1>2, <1>3

-----------------------------------------------------------------------------
(* The sequencer stays within its tile: software leaves GEMM_CFG alone     *)
(* while the NPU reads busy.                                               *)
TileInv == IndexTypes /\ (gemm_busy => InTile)

LEMMA ProductBound ==
  ASSUME NEW m \in 0 .. 3, NEW n \in 0 .. 3, NEW k \in 0 .. 7,
         NEW i \in Nat, NEW j \in Nat, NEW l \in Nat, i < m, j < n, l < k
  PROVE  (i * n + j) * k + l \in 0 .. 62
<1>1. i \in {0, 1, 2} /\ j \in 0 .. 2 /\ l \in 0 .. 6
  OBVIOUS
<1>2. i * n \in 0 .. 6
  BY <1>1
<1> DEFINE t == i * n + j
<1>3. t \in 0 .. 8
  BY <1>1, <1>2
<1> HIDE DEF t
<1>4. k \in {0, 1, 2, 3, 4, 5, 6, 7}
  OBVIOUS
<1>5. t * k \in 0 .. 56
  BY <1>3, <1>4
<1> QED BY <1>1, <1>5 DEF t

LEMMA NextPosition ==
  ASSUME StatusInv, TileInv, RunEngines, gemm_busy, gemm_cfg' = gemm_cfg
  PROVE  /\ IndexTypes'
         /\ gemm_busy' => InTile' /\ Position' = Position + 1
<1>1. CASE gemm_cfg_ok
  <2>1. /\ gemm_i' \in Nat /\ gemm_j' \in Nat /\ gemm_l' \in Nat
        /\ ~GemmLast =>
             /\ gemm_i' < gemm_cfg[1] /\ gemm_j' < gemm_cfg[2] /\ gemm_l' < gemm_cfg[3]
             /\ (gemm_i' * gemm_cfg[2] + gemm_j') * gemm_cfg[3] + gemm_l' = Position + 1
    BY <1>1, Product DEF TileInv, RunEngines
  <2>2. gemm_busy' => ~GemmLast
    BY DEF RunEngines
  <2>3. IndexTypes'
    BY <2>1 DEF IndexTypes, TileInv
  <2>4. Position' = (gemm_i' * gemm_cfg[2] + gemm_j') * gemm_cfg[3] + gemm_l'
    BY DEF Position
  <2> QED BY <2>1, <2>2, <2>3, <2>4 DEF InTile
<1>2. CASE ~gemm_cfg_ok
  <2>1. gemm_busy' = FALSE /\ UNCHANGED sweep
    BY <1>2 DEF RunEngines, GemmFault, Compute, sweep
  <2> QED BY <2>1 DEF IndexTypes, TileInv, sweep
<1> QED BY <1>1, <1>2

LEMMA FirstProduct ==
  ASSUME IndexTypes, gemm_cfg_ok, LaunchGemm, gemm_cfg' = gemm_cfg
  PROVE  IndexTypes' /\ InTile' /\ Position' = 0
<1>1. /\ gemm_cfg[1] \in 0 .. 3 /\ gemm_cfg[2] \in 0 .. 3 /\ gemm_cfg[3] \in 0 .. 7
      /\ gemm_cfg[1] # 0 /\ gemm_cfg[2] # 0 /\ gemm_cfg[3] # 0
  BY DEF IndexTypes, gemm_cfg_ok, InScratch
<1>2. gemm_i' = 0 /\ gemm_j' = 0 /\ gemm_l' = 0
  BY DEF LaunchGemm
<1>3. IndexTypes' /\ InTile'
  BY <1>1, <1>2 DEF IndexTypes, InTile
<1>4. Position' = (gemm_i' * gemm_cfg'[2] + gemm_j') * gemm_cfg'[3] + gemm_l'
  BY DEF Position
<1>5. Position' = (0 * gemm_cfg[2] + 0) * gemm_cfg[3] + 0
  BY <1>2, <1>4
<1> QED BY <1>1, <1>3, <1>5

LEMMA TileStep ==
  ASSUME NEW w \in NpuWrites, NEW b, StatusInv, TileInv, NpuEdge(w, b),
         busy => w = NoWrite
  PROVE  TileInv' /\ (busy => gemm_cfg' = gemm_cfg)
<1>1. gemm_cfg' = IF w.reg = "GEMM_CFG" THEN w.val ELSE gemm_cfg
  BY DEF NpuEdge, Configure, PutAll
<1>2. gemm_cfg' \in (0 .. 3) \X (0 .. 3) \X (0 .. 7)
  BY <1>1, NpuAssumption DEF NpuAssumption, Fits, TileInv, IndexTypes
<1>3. busy => gemm_cfg' = gemm_cfg
  BY <1>1 DEF NoWrite
<1>4. gemm_busy \in BOOLEAN /\ (gemm_busy => busy)
  BY DEF StatusInv, StatusTypes, EngineRuns
<1>5. CASE StartScalar(w) \/ Stays
  <2>1. gemm_busy' = FALSE /\ UNCHANGED sweep
    BY <1>4, <1>5 DEF StartScalar, Register, Accepts, Rests, EngineRuns, LaunchScalar,
                      Stays, engines
  <2> QED BY <1>2, <1>3, <2>1 DEF TileInv, IndexTypes, sweep
<1>6. CASE StartGemm(w)
  <2>1. gemm_cfg' = gemm_cfg
    BY <1>1, <1>6 DEF StartGemm, Register, Accepts, StartBit
  <2> QED BY <1>3, <1>6, <2>1, FirstProduct DEF StartGemm, TileInv
<1>7. CASE Launch(w)
  <2>1. busy
    BY <1>7 DEF Launch, In, StatusInv
  <2>2. CASE Word0.op = GEMM
    BY <1>3, <1>7, <2>1, <2>2, FirstProduct DEF Launch, BadGemm, TileInv
  <2>3. CASE Word0.op # GEMM
    <3>1. gemm_busy' = FALSE /\ UNCHANGED sweep
      BY <1>4, <1>7, <2>3 DEF Launch, EngineRuns, LaunchScalar
    <3> QED BY <1>2, <1>3, <3>1 DEF TileInv, IndexTypes, sweep
  <2> QED BY <2>2, <2>3
<1>8. CASE Runs \/ TimeOut(w)
  <2>1. CASE gemm_busy /\ RunEngines
    BY <1>3, <1>4, <2>1, NextPosition DEF TileInv
  <2>2. CASE ~gemm_busy
    <3>1. gemm_busy' = FALSE /\ UNCHANGED sweep
      BY <1>8, <2>2 DEF Runs, RunEngines, TimeOut, Compute, sweep
    <3> QED BY <1>2, <1>3, <3>1 DEF TileInv, IndexTypes, sweep
  <2>3. CASE gemm_busy /\ TimeOut(w)
    <3>1. gemm_busy' = FALSE /\ gemm_i' \in Nat /\ gemm_j' \in Nat /\ gemm_l' \in Nat
      <4>1. CASE gemm_cfg_ok
        BY <2>3, <4>1, Product DEF TimeOut, TileInv
      <4>2. CASE ~gemm_cfg_ok
        BY <2>3, <4>2 DEF TimeOut, Compute, TileInv, IndexTypes, sweep
      <4> QED BY <4>1, <4>2
    <3> QED BY <1>2, <1>3, <3>1 DEF TileInv, IndexTypes
  <2> QED BY <1>8, <2>1, <2>2, <2>3 DEF Runs
<1> QED BY <1>5, <1>6, <1>7, <1>8, EnginesMove DEF EngineMoves

-----------------------------------------------------------------------------
(* What a descriptor's time is spent on when nothing holds its reads up:   *)
(* two edges for each word, and the engine's own.                          *)
FreeFetch(late) == desc_timeout_count <= 2 * desc_fetch_word + late
FreeStream(late) ==
  2 * desc_timeout_count <= 4 * DescWords + late + desc_stream_done
FreeRun(left) == 2 * desc_timeout_count <= 4 * DescWords + ScratchBytes + left

FreeClock ==
  /\ desc_state = "FETCH_ADDR" => FreeFetch(0)
  /\ desc_state = "FETCH_DATA" => FreeFetch(1)
  /\ desc_state = "LAUNCH" =>
       /\ desc_stream_done <= ScratchBytes
       /\ IF desc_stream_done = 0 THEN FreeStream(0) ELSE FreeStream(2)
  /\ desc_state = "STREAM_ADDR" => FreeStream(2)
  /\ desc_state = "STREAM_DATA" => FreeStream(4)
  /\ desc_state = "WAIT" /\ busy =>
       IF gemm_busy THEN \E p \in 0 .. 62 : Position = p /\ FreeRun(4 + 2 * p)
       ELSE \E c \in Nat \ {0} : busy_count = c /\ FreeRun(10 - 2 * c)
  /\ desc_state = "ADVANCE" => FreeRun(4 + 2 * LongestRun)

UncontendedInv ==
  /\ contended \in BOOLEAN
  /\ desc_busy /\ ~contended => FreeClock

LEMMA RunLength ==
  /\ LongestRun \in Nat /\ LongestRun >= 3
  /\ Word0.op = GEMM => LongestRun = 63
<1>1. LongestRun \in {3, 63}
  BY DEF LongestRun
<1>2. ASSUME Word0.op = GEMM PROVE LongestRun = 63
  <2>1. ZeroControl.op # GEMM
    BY DEF ZeroControl, GEMM
  <2>2. \E a \in DOMAIN Control : Control[a].op = GEMM
    BY <1>2, <2>1 DEF Word0
  <2> QED BY <2>2 DEF LongestRun
<1> QED BY <1>1, <1>2

LEMMA FreeIsInTime ==
  ASSUME StatusInv, StreamInv, ClockTypes, FreeClock, desc_busy, busy
  PROVE  ~TimedOut
<1>1. /\ DescWords \in Nat \ {0, 1} /\ TimeoutLimit \in Nat /\ ScratchBytes \in Nat
      /\ LongestRun \in Nat /\ LongestRun >= 3
      /\ 4 * DescWords + ScratchBytes + 2 * LongestRun + 4 < 2 * TimeoutLimit
  BY NpuAssumption, TimeoutAssumption, RunLength DEF NpuAssumption, TimeoutAssumption
<1>2. /\ desc_timeout_count \in Nat /\ desc_fetch_word \in 0 .. DescWords - 1
      /\ desc_stream_done \in Nat
  BY DEF ClockTypes
<1>3. SUFFICES 2 * desc_timeout_count < 2 * TimeoutLimit
  BY <1>1, <1>2 DEF TimedOut
<1>4. desc_state \in DescStates \ {"IDLE"}
  BY DEF StatusInv, StatusTypes
<1>5. CASE desc_state \in {"FETCH_ADDR", "FETCH_DATA"}
  <2>1. desc_timeout_count <= 2 * desc_fetch_word + 1
    BY <1>2, <1>5 DEF FreeClock, FreeFetch
  <2> QED BY <1>1, <1>2, <2>1
<1>6. CASE desc_state = "LAUNCH"
  <2>1. desc_stream_done <= ScratchBytes
    BY <1>6 DEF FreeClock
  <2>2. 2 * desc_timeout_count <= 4 * DescWords + 2 + desc_stream_done
    BY <1>1, <1>2, <1>6 DEF FreeClock, FreeStream
  <2> QED BY <1>1, <1>2, <2>1, <2>2
<1>7. CASE desc_state \in {"STREAM_ADDR", "STREAM_DATA"}
  <2>1. desc_stream_done + 4 <= ScratchBytes
    BY <1>7, StreamFits
  <2>2. 2 * desc_timeout_count <= 4 * DescWords + 4 + desc_stream_done
    BY <1>1, <1>2, <1>7 DEF FreeClock, FreeStream
  <2> QED BY <1>1, <1>2, <2>1, <2>2
<1>8. CASE desc_state = "WAIT" /\ gemm_busy
  <2>1. LongestRun = 63
    BY <1>8, RunLength DEF StatusInv
  <2>2. PICK p \in 0 .. 62 : FreeRun(4 + 2 * p)
    BY <1>8 DEF FreeClock
  <2> QED BY <1>1, <1>2, <2>1, <2>2 DEF FreeRun
<1>9. CASE desc_state = "WAIT" /\ ~gemm_busy
  <2>1. PICK c \in Nat \ {0} : FreeRun(10 - 2 * c)
    BY <1>9 DEF FreeClock
  <2> QED BY <1>1, <1>2, <2>1 DEF FreeRun
<1>10. CASE desc_state = "ADVANCE"
  BY <1>1, <1>2, <1>10 DEF FreeClock, FreeRun
<1> QED BY <1>4, <1>5, <1>6, <1>7, <1>8, <1>9, <1>10 DEF DescStates

LEMMA FreeStep ==
  ASSUME StatusInv, StatusInv', StreamInv, ClockTypes, ClockTypes', NpuPorts,
         TileInv, desc_busy => gemm_cfg' = gemm_cfg \/ ~busy,
         RingMoves, desc_busy' = TRUE, contended' = FALSE, contended \in BOOLEAN,
         contended' = (/\ desc_busy' /\ ~In("ADVANCE")
                       /\ contended \/ (arvalid /\ ~npu_m_arready)),
         desc_busy /\ ~contended => FreeClock
  PROVE  FreeClock'
<1>1. DescWords \in Nat \ {0, 1} /\ ScratchBytes \in Nat
  BY NpuAssumption DEF NpuAssumption
<1>2. /\ desc_timeout_count \in Nat /\ desc_fetch_word \in 0 .. DescWords - 1
      /\ desc_stream_done \in Nat
  BY DEF ClockTypes
<1>3. CASE RingStops \/ RingRestsOn
  BY <1>3 DEF RingStops, RingRestsOn
<1>4. CASE RingStarts \/ Advances
  <2>1. /\ desc_state' = "FETCH_ADDR"
        /\ desc_timeout_count' = 0 /\ desc_fetch_word' = 0
    BY <1>4 DEF RingStarts, Advances, Clocked
  <2> QED BY <2>1 DEF FreeClock, FreeFetch
<1>5. \A s : In(s) => desc_busy /\ desc_state = s
  BY DEF In
<1>6. ASSUME desc_busy, desc_state # "ADVANCE"
      PROVE  FreeClock /\ ~(arvalid /\ ~npu_m_arready)
  BY <1>5, <1>6
<1>7. Counts => \/ desc_timeout_count' = desc_timeout_count + 1
                \/ desc_timeout_count' = 0
  BY DEF Counts, Clocked
<1>8. CASE Offers("FETCH_ADDR", "FETCH_DATA")
  <2>1. /\ desc_state = "FETCH_ADDR" /\ desc_state' = "FETCH_DATA"
        /\ desc_fetch_word' = desc_fetch_word /\ Counts /\ FreeFetch(0)
    BY <1>5, <1>6, <1>8, Offering DEF Offers, fetch, FreeClock
  <2>2. FreeFetch(1)'
    BY <1>2, <1>7, <2>1 DEF FreeFetch
  <2> QED BY <2>1, <2>2 DEF FreeClock
<1>9. CASE Offers("STREAM_ADDR", "STREAM_DATA")
  <2>1. /\ desc_state = "STREAM_ADDR" /\ desc_state' = "STREAM_DATA"
        /\ desc_stream_done' = desc_stream_done /\ Counts /\ FreeStream(2)
    BY <1>5, <1>6, <1>9, Offering DEF Offers, fetch, FreeClock
  <2>2. FreeStream(4)'
    BY <1>1, <1>2, <1>7, <2>1 DEF FreeStream
  <2> QED BY <2>1, <2>2 DEF FreeClock
<1>10. CASE Waits("FETCH_DATA") \/ Waits("STREAM_DATA")
  BY <1>10 DEF Waits, In, NpuPorts
<1>11. CASE Fetches
  <2>1. /\ desc_state = "FETCH_DATA" /\ Counts /\ FreeFetch(1)
        /\ desc_stream_done = 0 /\ desc_stream_done' = 0
    BY <1>5, <1>6, <1>11 DEF Fetches, FreeClock, StreamInv
  <2>2. CASE desc_state' = "LAUNCH" /\ desc_fetch_word = DescWords - 1
    <3>1. FreeStream(0)'
      BY <1>1, <1>2, <1>7, <2>1, <2>2 DEF FreeFetch, FreeStream
    <3> QED BY <1>1, <2>1, <2>2, <3>1 DEF FreeClock
  <2>3. CASE desc_state' = "FETCH_ADDR" /\ desc_fetch_word' = desc_fetch_word + 1
    <3>1. FreeFetch(0)'
      BY <1>2, <1>7, <2>1, <2>3 DEF FreeFetch
    <3> QED BY <2>3, <3>1 DEF FreeClock
  <2> QED BY <1>11, <2>2, <2>3 DEF Fetches
<1>12. CASE Streams
  <2>1. /\ desc_state = "STREAM_DATA" /\ Counts /\ FreeStream(4)
        /\ desc_stream_done' = desc_stream_done + 4
        /\ desc_state' \in {"LAUNCH", "STREAM_ADDR"}
    BY <1>5, <1>6, <1>12 DEF Streams, FreeClock
  <2>2. FreeStream(2)'
    BY <1>1, <1>2, <1>7, <2>1 DEF FreeStream
  <2>3. desc_stream_done' <= ScratchBytes /\ desc_stream_done' # 0
    BY <1>1, <1>2, <2>1, StreamFits
  <2> QED BY <2>1, <2>2, <2>3 DEF FreeClock
<1>13. CASE BeginsStream
  <2>1. /\ desc_state = "LAUNCH" /\ desc_state' = "STREAM_ADDR" /\ Counts
        /\ desc_stream_done = 0 /\ desc_stream_done' = 0 /\ FreeStream(0)
    BY <1>5, <1>6, <1>13 DEF BeginsStream, NeedsStream, fetch, FreeClock
  <2>2. FreeStream(2)'
    BY <1>1, <1>2, <1>7, <2>1 DEF FreeStream
  <2> QED BY <2>1, <2>2 DEF FreeClock
<1>14. CASE Launches
  <2>1. /\ desc_state = "LAUNCH" /\ desc_state' = "WAIT" /\ Counts /\ busy
        /\ desc_stream_done <= ScratchBytes
        /\ IF desc_stream_done = 0 THEN FreeStream(0) ELSE FreeStream(2)
        /\ ~gemm_busy
    BY <1>5, <1>6, <1>14 DEF Launches, FreeClock, StatusInv, EngineRuns
  <2>2. FreeRun(4)'
    BY <1>1, <1>2, <1>7, <2>1 DEF FreeStream, FreeRun
  <2>3. CASE Word0.op = GEMM
    <3>1. gemm_cfg' = gemm_cfg
      BY <1>5, <1>14, <2>1 DEF Launches
    <3>2. gemm_busy' = TRUE /\ Position' = 0
      BY <1>14, <2>3, <3>1, FirstProduct DEF Launches, BadGemm, TileInv, LaunchGemm
    <3>3. FreeRun(4 + 2 * 0)'
      BY <2>2
    <3> QED BY <2>1, <3>2, <3>3 DEF FreeClock
  <2>4. CASE Word0.op # GEMM
    <3>1. gemm_busy' = FALSE /\ busy_count' \in {1, 2, 3}
      BY <1>14, <2>1, <2>4 DEF Launches, LaunchScalar, Latency, StatusInv, StatusTypes
    <3>2. \A c \in {1, 2, 3} : FreeRun(10 - 2 * c)'
      BY <1>1, <1>2, <1>7, <2>1, <2>2 DEF FreeRun
    <3> QED BY <2>1, <3>1, <3>2 DEF FreeClock
  <2> QED BY <2>3, <2>4
<1>15. CASE Awaits
  <2>1. /\ desc_state = "WAIT" /\ Counts /\ RunEngines
        /\ desc_state' = IF EngineFinishes THEN "ADVANCE" ELSE "WAIT"
        /\ GemmFault => busy' = FALSE
        /\ ~GemmFault => busy' = busy
        /\ gemm_busy \in BOOLEAN /\ busy_count \in Nat /\ busy \in BOOLEAN
        /\ gemm_busy => busy_count = 0
        /\ FreeClock
    BY <1>5, <1>6, <1>15 DEF Awaits, StatusInv, StatusTypes
  <2>2. CASE ~busy
    <3>1. desc_state' = "WAIT" /\ busy' = FALSE
      <4>1. ~EngineRuns
        BY <2>2 DEF StatusInv
      <4> QED BY <2>1, <2>2, <4>1 DEF EngineRuns, EngineFinishes, GemmFault, GemmLast
    <3> QED BY <3>1 DEF FreeClock
  <2>3. CASE busy /\ GemmFault
    <3>1. desc_state' = "WAIT" /\ busy' = FALSE
      BY <2>1, <2>3 DEF EngineFinishes, GemmFault, GemmLast
    <3> QED BY <3>1 DEF FreeClock
  <2>4. CASE busy /\ gemm_busy /\ ~GemmFault
    <3>1. PICK p \in 0 .. 62 : Position = p /\ FreeRun(4 + 2 * p)
      BY <2>1, <2>4 DEF FreeClock
    <3>2. FreeRun(6 + 2 * p)'
      BY <1>1, <1>2, <1>7, <2>1, <3>1 DEF FreeRun
    <3>3. gemm_cfg' = gemm_cfg
      BY <1>5, <1>15, <2>4 DEF Awaits
    <3>4. CASE gemm_busy'
      <4>1. IndexTypes' /\ InTile' /\ Position' = p + 1
        BY <2>1, <2>4, <3>1, <3>3, <3>4, NextPosition
      <4>2. Position' \in 0 .. 62
        BY <4>1, ProductBound DEF IndexTypes, InTile, Position
      <4>3. p + 1 \in 0 .. 62
        BY <4>1, <4>2
      <4>4. FreeRun(4 + 2 * (p + 1))'
        BY <1>1, <1>2, <1>7, <2>1, <3>2 DEF FreeRun
      <4>5. desc_state' = "WAIT"
        <5>1. gemm_busy' => ~GemmLast
          BY <2>1 DEF RunEngines
        <5>2. busy_count = 0
          BY <2>1, <2>4
        <5> QED BY <2>1, <3>4, <5>1, <5>2 DEF EngineFinishes
      <4> QED BY <3>4, <4>1, <4>3, <4>4, <4>5 DEF FreeClock
    <3>5. CASE ~gemm_busy'
      <4>1. desc_state' = "ADVANCE"
        BY <2>1, <2>4, <3>5 DEF RunEngines, EngineFinishes
      <4>2. LongestRun = 63
        BY <2>1, <2>4, RunLength DEF StatusInv
      <4>3. FreeRun(4 + 2 * LongestRun)'
        BY <1>1, <1>2, <1>7, <2>1, <3>2, <4>2 DEF FreeRun
      <4> QED BY <4>1, <4>3 DEF FreeClock
    <3> QED BY <3>4, <3>5
  <2>5. CASE busy /\ ~gemm_busy
    <3>1. PICK c \in Nat \ {0} : busy_count = c /\ FreeRun(10 - 2 * c)
      BY <2>1, <2>5 DEF FreeClock
    <3>2. gemm_busy' = FALSE /\ busy_count' = c - 1
      BY <2>1, <2>5, <3>1 DEF RunEngines
    <3>3. CASE c = 1
      <4>1. desc_state' = "ADVANCE" /\ LongestRun \in Nat /\ LongestRun >= 3
        BY <2>1, <3>1, <3>3, RunLength DEF EngineFinishes
      <4>2. FreeRun(10)'
        BY <1>1, <1>2, <1>7, <2>1, <3>1, <3>3 DEF FreeRun
      <4>3. FreeRun(4 + 2 * LongestRun)'
        BY <1>1, <1>2, <1>7, <2>1, <4>1, <4>2 DEF FreeRun
      <4> QED BY <4>1, <4>3 DEF FreeClock
    <3>4. CASE c # 1
      <4>1. desc_state' = "WAIT"
        BY <2>1, <2>5, <3>1, <3>4 DEF EngineFinishes, GemmLast
      <4>2. FreeRun(10 - 2 * (c - 1))' /\ c - 1 \in Nat \ {0}
        BY <1>1, <1>2, <1>7, <2>1, <3>1, <3>4 DEF FreeRun
      <4> QED BY <3>2, <4>1, <4>2 DEF FreeClock
    <3> QED BY <3>3, <3>4
  <2> QED BY <2>1, <2>2, <2>3, <2>4, <2>5
<1> QED BY <1>3, <1>4, <1>8, <1>9, <1>10, <1>11, <1>12, <1>13, <1>14, <1>15
        DEF RingMoves

-----------------------------------------------------------------------------
SocInv ==
  /\ StatusInv /\ StreamInv /\ DmaShape /\ DmaPorts /\ NpuPorts
  /\ ClockInv /\ StallInv /\ TileInv /\ UncontendedInv

LEMMA SocStarts == Init => SocInv
<1> SUFFICES ASSUME Init PROVE SocInv
  OBVIOUS
<1>1. NpuInit /\ Dma!DmaInit
  BY DEF Init
<1>2. /\ dma_m_bvalid = FALSE /\ dma_m_rvalid = FALSE /\ npu_m_rvalid = FALSE
      /\ stalled = 0 /\ contended = FALSE
  BY Zenon DEF Init
<1>3. StatusInv
  BY <1>1, StatusStarts
<1>4. /\ desc_state = "IDLE" /\ desc_busy = FALSE /\ busy = FALSE
      /\ desc_timeout_count = 0 /\ desc_fetch_word = 0 /\ desc_stream_done = 0
      /\ gemm_busy = FALSE /\ gemm_cfg = <<0, 0, 0>>
      /\ gemm_i = 0 /\ gemm_j = 0 /\ gemm_l = 0
  BY <1>1, Zenon DEF NpuInit
<1>5. StreamInv
  BY <1>4 DEF StreamInv
<1>6. DmaShape
  BY <1>1 DEF Dma!DmaInit, DmaShape
<1>7. DmaPorts
  BY <1>1, <1>2 DEF Dma!DmaInit, DmaPorts
<1>8. NpuPorts
  BY <1>2, <1>4 DEF NpuPorts
<1>9. ClockInv /\ StallInv
  BY <1>2, <1>4, NpuAssumption DEF NpuAssumption, ClockInv, ClockTypes, StallInv, arvalid
<1>10. TileInv
  BY <1>4 DEF TileInv, IndexTypes
<1>11. UncontendedInv
  BY <1>2, <1>4 DEF UncontendedInv
<1> QED BY <1>3, <1>5, <1>6, <1>7, <1>8, <1>9, <1>10, <1>11 DEF SocInv

LEMMA ClockEdge ==
  ASSUME SocInv, NEW dw, NEW nw \in NpuWrites, NEW s, Clock(dw, nw, s)
  PROVE  SocInv'
<1> USE DEF SocInv
<1>1. /\ busy => nw = NoWrite
      /\ Dma!DmaEdge(dw, ToDma) /\ NpuEdge(nw, ToNpu)
      /\ WriteEdge(s) /\ DmaReadEdge /\ NpuReadEdge /\ Record(dw)
  BY DEF Clock
<1>2. StatusInv' /\ StreamInv'
  BY <1>1, StatusStep, StreamStep
<1>3. DmaShape' /\ DmaPorts'
  BY <1>1, DmaStep
<1>4. RingMoves
  BY <1>1, RingDoes
<1>5. NpuPorts'
  BY <1>1, <1>4, NpuPortsStep
<1>6. /\ Dma!arvalid /\ ~dma_m_arready => Dma!arvalid'
      /\ dma_m_rvalid => ~dma_m_rvalid' /\ ~Dma!arvalid'
  BY <1>1, DmaReads
<1>7. ClockInv'
  BY <1>2, <1>4, <1>6, ClockStep DEF StreamInv, DmaPorts
<1>8. StallInv'
  BY <1>1, <1>2, <1>4, <1>7, StallStep
<1>9. TileInv' /\ (busy => gemm_cfg' = gemm_cfg)
  BY <1>1, TileStep
<1>10. UncontendedInv'
  <2>1. contended' = (/\ desc_busy' /\ ~In("ADVANCE")
                      /\ contended \/ (arvalid /\ ~npu_m_arready))
    BY <1>1 DEF Record
  <2>2. contended' \in BOOLEAN
    BY <2>1
  <2>3. desc_busy' \in BOOLEAN /\ contended \in BOOLEAN
    BY <1>2 DEF StatusInv, StatusTypes, UncontendedInv
  <2>4. ASSUME desc_busy', ~contended' PROVE FreeClock'
    <3>1. desc_busy' = TRUE /\ contended' = FALSE
      BY <2>2, <2>3, <2>4
    <3> QED BY <1>2, <1>4, <1>7, <1>9, <2>1, <2>3, <3>1, FreeStep
            DEF ClockInv, UncontendedInv
  <2> QED BY <2>2, <2>4 DEF UncontendedInv
<1> QED BY <1>2, <1>3, <1>5, <1>7, <1>8, <1>9, <1>10

LEMMA SocUnchanged ==
  ASSUME SocInv, UNCHANGED vars
  PROVE  SocInv'
<1>1. /\ UNCHANGED npuVars /\ UNCHANGED Dma!dmaVars
      /\ UNCHANGED <<writePort, dmaRead, npuRead, stalled, contended>>
  BY DEF vars
<1>2. /\ UNCHANGED <<busy, done, error, gemm_busy, desc_busy, busy_count, desc_state>>
      /\ UNCHANGED <<desc_words, desc_stream_done, desc_fetch_word, desc_timeout_count>>
      /\ UNCHANGED <<gemm_cfg, gemm_i, gemm_j, gemm_l>>
  BY <1>1 DEF npuVars, programmed, engines, scalar, sweep, fetch
<1>3. UNCHANGED <<d_busy, d_state, d_read_addr_sent, d_write_addr_sent,
                  d_write_data_sent, d_cur_src, d_cur_dst>>
  BY <1>1 DEF Dma!dmaVars, Dma!cursor, Dma!sent, Dma!status
<1>4. UNCHANGED <<dma_m_bvalid, dma_m_bok, dma_m_rvalid, dma_m_rok, npu_m_rvalid,
                  stalled, contended>>
  BY <1>1 DEF writePort, dmaRead, npuRead
<1>5. Word0' = Word0 /\ Refusal' = Refusal
  BY <1>2, SameWords
<1>6. StatusInv' /\ StreamInv'
  BY <1>2, <1>5
  DEF SocInv, StatusInv, StatusTypes, StreamInv, EngineRuns
<1>7. DmaShape' /\ DmaPorts'
  BY <1>3, <1>4 DEF SocInv, DmaShape, DmaPorts
<1>8. NpuPorts' /\ TileInv'
  BY <1>2, <1>4 DEF SocInv, NpuPorts, TileInv, IndexTypes, InTile
<1>9. ClockInv' /\ StallInv'
  BY <1>2, <1>3, <1>4
  DEF SocInv, ClockInv, ClockTypes, FetchClock, StreamClock, StallInv, arvalid,
      Dma!arvalid
<1>10. UncontendedInv'
  BY <1>2, <1>4
  DEF SocInv, UncontendedInv, FreeClock, FreeFetch, FreeStream, FreeRun, Position
<1> QED BY <1>6, <1>7, <1>8, <1>9, <1>10 DEF SocInv

LEMMA SocStep == SocInv /\ [Next]_vars => SocInv'
<1> SUFFICES ASSUME SocInv, [Next]_vars PROVE SocInv'
  OBVIOUS
<1>1. NoWrite \in NpuWrites
  BY NpuAssumption DEF NpuAssumption
<1>2. CASE ProgramDma
  BY <1>1, <1>2, ClockEdge DEF ProgramDma
<1>3. CASE ProgramNpu
  BY <1>3, ClockEdge DEF ProgramNpu
<1>4. CASE StoreWord
  BY <1>1, <1>4, ClockEdge DEF StoreWord
<1>5. CASE UNCHANGED vars
  BY <1>5, SocUnchanged
<1> QED BY <1>2, <1>3, <1>4, <1>5 DEF Next

LEMMA SocServes == SocInv => PortsServed /\ TimeoutOnlyContended
<1> SUFFICES ASSUME SocInv PROVE PortsServed /\ TimeoutOnlyContended
  OBVIOUS
<1>1. StatusInv /\ StreamInv /\ ClockTypes
  BY DEF SocInv, ClockInv
<1>2. PortsMatch
  <2>1. rready <=> desc_state \in {"FETCH_DATA", "STREAM_DATA"}
    BY <1>1, Offering
  <2> QED BY <2>1 DEF SocInv, PortsMatch, DmaPorts, NpuPorts
<1>3. DmaDelayBounded
  BY DEF SocInv, StallInv, DmaDelayBounded
<1>4. TimeoutOnlyContended
  BY <1>1, FreeIsInTime DEF SocInv, UncontendedInv, TimeoutOnlyContended
<1> QED BY <1>2, <1>3, <1>4 DEF PortsServed

LEMMA SocInvariance == Spec => []SocInv
BY SocStarts, SocStep, PTL DEF Spec

(* Each port of the shared array answers its own master and the request it *)
(* is on, also across a timeout of the NPU's run; and the DMA's address is *)
(* refused for no longer than that timeout.                                *)
THEOREM PortsAlwaysServed == Spec => []PortsServed
BY SocInvariance, SocServes, PTL

(* DESC_TIMEOUT_LIMIT fires only for a run whose reads were held up, or    *)
(* whose GEMM faulted: any other descriptor is done in time.               *)
THEOREM TimeoutAlwaysContended == Spec => []TimeoutOnlyContended
BY SocInvariance, SocServes, PTL

-----------------------------------------------------------------------------
(* The DMA still does its job.  The registers, the place of a running      *)
(* transfer in its job, and the word on its way, which is the one in       *)
(* memory at the source for as long as it is.                              *)
JobTypes ==
  /\ d_src \in Addresses /\ d_dst \in Addresses /\ d_len \in Lengths
  /\ d_done \in BOOLEAN /\ d_error \in BOOLEAN
  /\ d_cur_src \in Addr /\ d_cur_dst \in Addr
  /\ d_remaining \in Nat /\ d_bytes_done \in Nat
  /\ job \in [src : Addresses, dst : Addresses, len : Lengths]

JobPlace ==
  /\ ~d_done /\ ~d_error
  /\ Aligned(job.src) /\ Aligned(job.dst)
  /\ d_bytes_done + d_remaining = job.len /\ d_bytes_done % 4 = 0
  /\ d_remaining = 0 <=> d_state = "DONE"
  /\ d_remaining > 0 => /\ d_cur_src = Wrap(job.src + d_bytes_done)
                        /\ d_cur_dst = Wrap(job.dst + d_bytes_done)

JobWords ==
  /\ d_state \in {"WRITE", "WRESP"} => Decodes(d_cur_src)
  /\ d_state = "WRITE" => d_read_data_q = WordAt(dram_mem, d_cur_src)
  /\ dma_m_rvalid /\ dma_m_rok => dma_m_rdata = WordAt(dram_mem, d_cur_src)

JobInv == JobTypes /\ (d_busy => JobPlace) /\ JobWords

-----------------------------------------------------------------------------
(* The transfer on one edge.                                               *)
AtBeat == UNCHANGED <<d_cur_src, d_cur_dst, d_remaining, d_bytes_done>>
GoesOn == d_busy /\ UNCHANGED <<d_busy, d_done, d_error>>

ReadWaits ==
  /\ GoesOn /\ d_state = "READ" /\ d_state' = "READ" /\ ~dma_m_rvalid /\ AtBeat
WordTaken ==
  /\ GoesOn /\ d_state = "READ" /\ d_state' = "WRITE" /\ AtBeat
  /\ dma_m_rvalid /\ dma_m_rok /\ d_read_data_q' = dma_m_rdata
BeatWritten == GoesOn /\ d_state = "WRITE" /\ d_state' = "WRESP" /\ AtBeat
BeatCounted ==
  /\ GoesOn /\ d_state = "WRESP" /\ d_state' = "READ" /\ dma_m_bok
  /\ d_remaining > 4 /\ d_remaining' = d_remaining - 4
  /\ d_bytes_done' = d_bytes_done + 4
  /\ d_cur_src' = Wrap(d_cur_src + 4) /\ d_cur_dst' = Wrap(d_cur_dst + 4)
LastCounted ==
  /\ GoesOn /\ d_state = "WRESP" /\ d_state' = "DONE" /\ dma_m_bok
  /\ d_remaining <= 4 /\ d_remaining' = 0
  /\ d_bytes_done' = d_bytes_done + d_remaining
  /\ UNCHANGED <<d_cur_src, d_cur_dst>>
Faults ==
  /\ d_busy /\ d_state' = "IDLE" /\ AtBeat
  /\ \/ d_state = "READ" /\ dma_m_rvalid /\ ~dma_m_rok
     \/ d_state = "WRESP" /\ dma_m_bvalid /\ ~dma_m_bok
  /\ d_busy' = FALSE /\ d_done' = TRUE /\ d_error' = TRUE
Finishes ==
  /\ d_busy /\ d_state = "DONE" /\ d_state' = "IDLE" /\ AtBeat
  /\ d_busy' = FALSE /\ d_done' = TRUE /\ d_error' = d_error
Starts(dw) ==
  /\ ~d_busy /\ Dma!StartBit(dw) /\ d_bytes_done' = 0
  /\ d_cur_src' = d_src /\ d_cur_dst' = d_dst /\ d_remaining' = d_len
  /\ LET refused == ~Aligned(d_src) \/ ~Aligned(d_dst)
         empty   == ~refused /\ d_len = 0
     IN /\ d_busy' = ~(refused \/ empty)
        /\ d_done' = (refused \/ empty)
        /\ d_error' = refused
        /\ d_state' = IF refused \/ empty THEN "IDLE" ELSE "READ"
RestsOn(dw) ==
  /\ ~d_busy /\ ~Dma!StartBit(dw) /\ AtBeat /\ d_state' = d_state
  /\ d_busy' = d_busy
  /\ d_done' = (d_done /\ ~Dma!ClearBit(dw))
  /\ d_error' = (d_error /\ ~Dma!ClearBit(dw))

TransferMoves(dw) ==
  \/ ReadWaits \/ WordTaken \/ BeatWritten \/ BeatCounted \/ LastCounted
  \/ Faults \/ Finishes \/ Starts(dw) \/ RestsOn(dw)

LEMMA TransferDoes ==
  ASSUME NEW dw, DmaShape, DmaPorts, JobTypes, Dma!DmaEdge(dw, ToDma),
         d_busy => dw = Dma!NoWrite
  PROVE  TransferMoves(dw)
<1> DEFINE b == ToDma
<1>1. /\ b.rvalid = dma_m_rvalid /\ b.rok = dma_m_rok /\ b.rdata = dma_m_rdata
      /\ b.awready = dma_m_ready /\ b.wready = dma_m_ready
      /\ b.bvalid = dma_m_bvalid /\ b.bok = dma_m_bok
  BY DEF ToDma
<1>2. Dma!DmaEdge(dw, b)
  OBVIOUS
<1>3. d_busy => ~Dma!ClearBit(dw)
  BY DEF Dma!ClearBit, Dma!NoWrite
<1>4. /\ d_done \in BOOLEAN /\ d_error \in BOOLEAN /\ d_remaining \in Nat
      /\ dma_m_bvalid <=> d_state = "WRESP"
  BY DEF JobTypes, DmaPorts
<1>5. d_busy /\ Dma!Carry(dw) => GoesOn
  <2>1. d_busy /\ Dma!Carry(dw) => d_done' = d_done /\ d_error' = d_error
    BY <1>3, <1>4, Zenon DEF Dma!Carry, Dma!Clear
  <2> QED BY <2>1 DEF Dma!Carry, GoesOn
<1> HIDE DEF b
<1> USE DEF TransferMoves
<1>6. CASE Dma!AwaitRead(dw, b)
  BY <1>1, <1>5, <1>6 DEF Dma!AwaitRead, Dma!cursor, Dma!counters, ReadWaits, AtBeat
<1>7. CASE Dma!TakeRead(dw, b)
  <2>1. CASE dma_m_rok /\ d_state' = "WRITE" /\ Dma!Carry(dw)
    BY <1>1, <1>5, <1>7, <2>1 DEF Dma!TakeRead, Dma!cursor, WordTaken, AtBeat
  <2>2. CASE ~dma_m_rok /\ Dma!StopWithError
    BY <1>1, <1>7, <2>2
    DEF Dma!TakeRead, Dma!StopWithError, Dma!cursor, Faults, AtBeat
  <2> QED BY <1>1, <1>7, <2>1, <2>2 DEF Dma!TakeRead
<1>8. CASE Dma!IssueWrite(dw, b)
  <2>1. dma_m_ready
    BY <1>4, <1>8 DEF Dma!IssueWrite, dma_m_ready
  <2> QED BY <1>1, <1>5, <1>8, <2>1
          DEF Dma!IssueWrite, Dma!cursor, Dma!counters, BeatWritten, AtBeat
<1>9. CASE Dma!AwaitResponse(dw, b)
  BY <1>1, <1>4, <1>9 DEF Dma!AwaitResponse
<1>10. CASE Dma!WriteFault(dw, b)
  BY <1>1, <1>10 DEF Dma!WriteFault, Dma!StopWithError, Dma!cursor, Faults, AtBeat
<1>11. CASE Dma!NextBeat(dw, b)
  BY <1>1, <1>5, <1>11 DEF Dma!NextBeat, Dma!Wrap, Wrap, BeatCounted
<1>12. CASE Dma!LastBeat(dw, b)
  <2>1. Dma!BeatBytes = d_remaining
    BY <1>4, <1>12 DEF Dma!LastBeat, Dma!BeatBytes
  <2> QED BY <1>1, <1>5, <1>12, <2>1 DEF Dma!LastBeat, LastCounted
<1>13. CASE Dma!Finish(dw)
  <2>1. d_error' = d_error
    BY <1>3, <1>4, <1>13, Zenon DEF Dma!Finish
  <2> QED BY <1>13, <2>1 DEF Dma!Finish, Dma!cursor, Dma!counters, Finishes, AtBeat
<1>14. CASE Dma!Start(dw)
  BY <1>14, Zenon DEF Dma!Start, Dma!Aligned, Aligned, Starts
<1>15. CASE Dma!Idle(dw)
  BY <1>15, Zenon
  DEF Dma!Idle, Dma!Carry, Dma!Clear, Dma!cursor, Dma!counters, RestsOn, AtBeat
<1> QED BY <1>2, <1>6, <1>7, <1>8, <1>9, <1>10, <1>11, <1>12, <1>13, <1>14, <1>15
        DEF Dma!DmaEdge

-----------------------------------------------------------------------------
(* The array on one edge.                                                  *)
Mapped(m) == [a \in 0 .. MemBytes - 1 |-> IF a \in Stored THEN a ELSE m[a]]

Answers(s) ==
  /\ dram_mem' = IF d_state = "WRITE" /\ Decodes(d_cur_dst)
                 THEN Merge(Store(s), d_cur_dst, d_read_data_q, Dma!wstrb)
                 ELSE Store(s)
  /\ dma_m_bvalid' <=> d_state = "WRITE"
  /\ dma_m_bvalid' => (dma_m_bok' <=> Decodes(d_cur_dst))
  /\ dma_m_rvalid' => d_state = "READ" /\ ~dma_m_rvalid
  /\ dma_m_rvalid' /\ dma_m_rok' =>
       dma_m_rdata' = WordAt(dram_mem, d_cur_src)

LEMMA ArrayDoes ==
  ASSUME NEW s, DmaShape, DmaPorts, WriteEdge(s), DmaReadEdge
  PROVE  Answers(s)
<1>1. /\ Dma!arvalid <=> d_state = "READ" /\ ~d_read_addr_sent
      /\ Dma!rready <=> d_state = "READ"
      /\ Dma!awvalid /\ Dma!wvalid <=> d_state = "WRITE"
      /\ Dma!bready <=> d_state = "WRESP"
  BY DEF DmaShape, Dma!arvalid, Dma!rready, Dma!awvalid, Dma!wvalid, Dma!bready
<1>2. /\ dma_rd_fire => d_state = "READ" /\ ~dma_m_rvalid
      /\ dma_wr_fire <=> d_state = "WRITE"
  BY <1>1 DEF dma_rd_fire, dma_wr_fire, dma_m_ready, dma_m_arready, DmaPorts
<1>3. dma_m_bvalid' <=> d_state = "WRITE"
  BY <1>1, <1>2 DEF WriteEdge, DmaPorts
<1>4. dma_m_bvalid' => (dma_m_bok' <=> Decodes(d_cur_dst))
  BY <1>2, <1>3 DEF WriteEdge
<1>5. dma_m_rvalid' => dma_rd_fire
  BY <1>1 DEF DmaReadEdge, DmaPorts
<1>6. dma_m_rvalid' /\ dma_m_rok' => dma_m_rdata' = WordAt(dram_mem, d_cur_src)
  BY <1>5 DEF DmaReadEdge
<1>7. dram_mem' = IF d_state = "WRITE" /\ Decodes(d_cur_dst)
                  THEN Merge(Store(s), d_cur_dst, d_read_data_q, Dma!wstrb)
                  ELSE Store(s)
  BY <1>2 DEF WriteEdge
<1> QED BY <1>2, <1>3, <1>4, <1>5, <1>6, <1>7 DEF Answers

(* A store of software's changes no byte a transfer may touch.             *)
LEMMA StoredAside ==
  ASSUME NEW s \in Stores, NEW a \in 0 .. MemBytes - 1, a \notin Stored
  PROVE  Store(s)[a] = dram_mem[a]
<1>1. CASE s = NoStore
  BY <1>1 DEF Store
<1>2. CASE s # NoStore
  <2>1. s.addr \in Addr /\ a \notin s.addr .. s.addr + 3
    BY <1>2, SocAssumption DEF SocAssumption, Stored
  <2>2. a - s.addr \notin Lanes
    BY <2>1, BusAssumption DEF BusAssumption, Addr, Lanes
  <2> QED BY <1>2, <2>2 DEF Store, Merge
<1> QED BY <1>1, <1>2

LEMMA StoredUnmapped ==
  ASSUME NEW s \in Stores
  PROVE  Mapped(Store(s)) = Mapped(dram_mem)
BY StoredAside DEF Mapped

(* A running transfer stands where the job has got to, on a word that      *)
(* software stores nothing to.                                             *)
LEMMA AtJob ==
  ASSUME JobTypes, JobPlace, d_remaining > 0
  PROVE  /\ d_cur_src = Job!At(job.src, d_bytes_done)
         /\ d_cur_dst = Job!At(job.dst, d_bytes_done)
         /\ Aligned(d_cur_src) /\ Aligned(d_cur_dst)
         /\ d_remaining >= 4 /\ d_remaining % 4 = 0
         /\ job.len - d_bytes_done = d_remaining
         /\ Decodes(d_cur_src) => \A i \in Lanes : d_cur_src + i \notin Stored
         /\ Decodes(d_cur_dst) => \A i \in Lanes : d_cur_dst + i \notin Stored
<1>1. /\ job.src \in Addr /\ job.dst \in Addr /\ job.len \in Addr
      /\ job.src \in Addresses /\ job.dst \in Addresses /\ job.len \in Lengths
      /\ job.len % 4 = 0
  BY SocAssumption DEF SocAssumption, Dma!DmaAssumption, Dma!Addr, Addr, JobTypes
<1>2. /\ d_bytes_done \in Nat /\ d_remaining \in Nat
      /\ d_bytes_done + d_remaining = job.len /\ d_bytes_done % 4 = 0
  BY DEF JobTypes, JobPlace
<1>3. d_remaining >= 4 /\ d_remaining % 4 = 0 /\ job.len - d_bytes_done = d_remaining
  BY <1>1, <1>2 DEF Addr
<1>4. ASSUME NEW base \in Addresses, base \in Addr, Aligned(base)
      PROVE  LET at == Wrap(base + d_bytes_done) IN
             /\ at = Job!At(base, d_bytes_done) /\ Aligned(at)
             /\ Decodes(at) => \A i \in Lanes : at + i \notin Stored
  <2> DEFINE at == Wrap(base + d_bytes_done)
  <2>1. base \in Nat /\ base % 4 = 0 /\ base < AddrSpace
    BY <1>4, BusAssumption DEF BusAssumption, Addr, Aligned
  <2>2. at = Job!At(base, d_bytes_done)
    BY <1>2, <2>1, BusAssumption DEF BusAssumption, Wrap, Job!At
  <2>3. at % 4 = 0 /\ at \in Int
    BY <1>2, <2>1, BusAssumption DEF BusAssumption, Wrap
  <2>4. ASSUME NEW i \in Lanes, Decodes(at)
        PROVE  at + i \notin Stored
    <3>1. d_bytes_done + i \in 0 .. job.len - 1
      BY <1>1, <1>2, <1>3 DEF Addr, Lanes
    <3>2. Wrap(base + (d_bytes_done + i)) \notin Stored
      BY <1>1, <1>4, <3>1, SocAssumption DEF SocAssumption, ApartFromTransfers
    <3>3. at < MemBytes
      BY <2>4 DEF Decodes
    <3>4. Wrap(base + (d_bytes_done + i)) = at + i
      <4>1. CASE base + d_bytes_done < AddrSpace
        <5>1. base + d_bytes_done + 4 <= AddrSpace
          BY <1>2, <2>1, <4>1, BusAssumption DEF BusAssumption
        <5> QED BY <1>2, <2>1, <4>1, <5>1, BusAssumption DEF BusAssumption, Wrap, Lanes
      <4>2. CASE ~(base + d_bytes_done < AddrSpace)
        BY <1>2, <2>1, <4>2, BusAssumption DEF BusAssumption, Wrap, Lanes
      <4> QED BY <4>1, <4>2
    <3> QED BY <3>2, <3>4
  <2> QED BY <2>2, <2>3, <2>4 DEF Aligned
<1>5. /\ d_cur_src = Wrap(job.src + d_bytes_done)
      /\ d_cur_dst = Wrap(job.dst + d_bytes_done)
      /\ Aligned(job.src) /\ Aligned(job.dst)
  BY DEF JobPlace
<1>6. /\ d_cur_src = Job!At(job.src, d_bytes_done) /\ Aligned(d_cur_src)
      /\ Decodes(d_cur_src) => \A i \in Lanes : d_cur_src + i \notin Stored
  BY <1>1, <1>4, <1>5
<1>7. /\ d_cur_dst = Job!At(job.dst, d_bytes_done) /\ Aligned(d_cur_dst)
      /\ Decodes(d_cur_dst) => \A i \in Lanes : d_cur_dst + i \notin Stored
  BY <1>1, <1>4, <1>5
<1> QED BY <1>3, <1>6, <1>7

(* Where the cursor stays, the word it names does: but for a beat of the   *)
(* transfer's own, which takes it along.                                   *)
LEMMA WordKept ==
  ASSUME NEW s \in Stores, JobTypes, JobPlace, d_remaining > 0,
         Answers(s), d_state # "WRITE", Decodes(d_cur_src)
  PROVE  WordAt(dram_mem', d_cur_src) = WordAt(dram_mem, d_cur_src)
<1>1. dram_mem' = Store(s)
  BY DEF Answers
<1>2. ASSUME NEW i \in Lanes
      PROVE  Store(s)[d_cur_src + i] = dram_mem[d_cur_src + i]
  <2>1. d_cur_src + i \notin Stored
    BY AtJob
  <2>2. d_cur_src + i \in 0 .. MemBytes - 1
    BY BusAssumption DEF BusAssumption, Decodes, Aligned, JobTypes, Addr, Lanes
  <2> QED BY <2>1, <2>2, StoredAside
<1> QED BY <1>1, <1>2 DEF WordAt

LEMMA ProgrammedType ==
  ASSUME NEW dw \in Dma!Writes, JobTypes, Dma!Configure(dw)
  PROVE  d_src' \in Addresses /\ d_dst' \in Addresses /\ d_len' \in Lengths
<1>1. /\ dw.reg \in {"SRC", "DST"} => dw.val \in Addresses
      /\ dw.reg = "LEN" => dw.val \in Lengths
  <2>1. CASE dw = Dma!NoWrite
    BY <2>1 DEF Dma!NoWrite
  <2>2. CASE dw \in [reg : {"SRC", "DST"}, val : Addresses]
    BY <2>2
  <2>3. CASE dw \in [reg : {"LEN"}, val : Lengths]
    BY <2>3
  <2>4. CASE dw \in [reg : {"CTRL"}, val : 0 .. 3]
    BY <2>4
  <2> QED BY <2>1, <2>2, <2>3, <2>4 DEF Dma!Writes
<1> QED BY <1>1 DEF Dma!Configure, JobTypes

LEMMA JobStep ==
  ASSUME NEW dw \in Dma!Writes, NEW s \in Stores, DmaShape, DmaShape', DmaPorts,
         DmaPorts', JobInv, Dma!Configure(dw), Record(dw),
         TransferMoves(dw), Answers(s)
  PROVE  JobInv'
<1> USE DEF AtBeat, GoesOn
<1>1. /\ Starts(dw) => job' = [src |-> d_src, dst |-> d_dst, len |-> d_len]
      /\ ~Starts(dw) => job' = job
  BY DEF Record, TransferMoves, Starts, ReadWaits, WordTaken, BeatWritten,
         BeatCounted, LastCounted, Faults, Finishes, RestsOn
<1>2. JobTypes /\ (d_busy => JobPlace) /\ JobWords
  BY DEF JobInv
<1>3. /\ d_src \in Addr /\ d_dst \in Addr /\ d_len \in Addr /\ d_len % 4 = 0
      /\ job.src \in Addr /\ job.dst \in Addr /\ job.len \in Addr
  BY <1>2, SocAssumption DEF SocAssumption, Dma!DmaAssumption, Dma!Addr, Addr, JobTypes
<1>4. \A a \in Addr : Wrap(a + 4) \in Addr
  BY BusAssumption DEF BusAssumption, Addr, Wrap
<1>5. JobTypes'
  <2>1. d_src' \in Addresses /\ d_dst' \in Addresses /\ d_len' \in Lengths
    BY <1>2, ProgrammedType
  <2>2. job' \in [src : Addresses, dst : Addresses, len : Lengths]
    BY <1>1, <1>2 DEF JobTypes
  <2>3. d_done' \in BOOLEAN /\ d_error' \in BOOLEAN
    BY <1>2, Zenon
    DEF JobTypes, TransferMoves, Starts, ReadWaits, WordTaken, BeatWritten,
        BeatCounted, LastCounted, Faults, Finishes, RestsOn, Aligned
  <2>4. /\ d_cur_src' \in Addr /\ d_cur_dst' \in Addr
        /\ d_remaining' \in Nat /\ d_bytes_done' \in Nat
    <3>1. CASE BeatCounted
      BY <1>2, <1>4, <3>1 DEF BeatCounted, JobTypes
    <3>2. CASE LastCounted
      BY <1>2, <3>2 DEF LastCounted, JobTypes
    <3>3. CASE Starts(dw)
      <4>1. d_len \in Nat
        BY <1>3, BusAssumption DEF BusAssumption, Addr
      <4> QED BY <1>3, <3>3, <4>1 DEF Starts
    <3>4. CASE AtBeat
      BY <1>2, <3>4 DEF JobTypes
    <3> QED BY <3>1, <3>2, <3>3, <3>4
            DEF TransferMoves, ReadWaits, WordTaken, BeatWritten, Faults, Finishes,
                RestsOn
  <2> QED BY <2>1, <2>2, <2>3, <2>4 DEF JobTypes
<1>6. ASSUME d_busy' PROVE JobPlace'
  <2>1. CASE ReadWaits \/ WordTaken \/ BeatWritten
    <3>1. /\ d_busy /\ d_state \in {"READ", "WRITE"}
          /\ d_state' \in {"READ", "WRITE", "WRESP"}
          /\ UNCHANGED <<d_done, d_error, d_cur_src, d_cur_dst, d_remaining,
                         d_bytes_done>>
      BY <2>1 DEF ReadWaits, WordTaken, BeatWritten
    <3>2. job' = job
      BY <1>1, <3>1 DEF Starts
    <3> QED BY <1>2, <3>1, <3>2 DEF JobPlace
  <2>2. CASE BeatCounted
    <3>1. job' = job /\ JobPlace
      BY <1>1, <1>2, <2>2 DEF BeatCounted, Starts
    <3>2. /\ d_bytes_done \in Nat /\ d_remaining \in Nat /\ d_remaining > 4
          /\ d_bytes_done + d_remaining = job.len /\ d_bytes_done % 4 = 0
          /\ d_cur_src = Wrap(job.src + d_bytes_done)
          /\ d_cur_dst = Wrap(job.dst + d_bytes_done)
      BY <1>2, <2>2, <3>1 DEF BeatCounted, JobTypes, JobPlace
    <3>3. /\ d_bytes_done' = d_bytes_done + 4 /\ d_remaining' = d_remaining - 4
          /\ d_cur_src' = Wrap(d_cur_src + 4) /\ d_cur_dst' = Wrap(d_cur_dst + 4)
          /\ d_state' = "READ" /\ UNCHANGED <<d_done, d_error>>
      BY <2>2 DEF BeatCounted
    <3>4. /\ d_bytes_done' + d_remaining' = job.len /\ d_bytes_done' % 4 = 0
          /\ d_remaining' > 0
      BY <1>3, <3>2, <3>3 DEF Addr
    <3>5. d_bytes_done + 4 < AddrSpace
      BY <1>3, <3>2, BusAssumption DEF BusAssumption, Addr
    <3>6. \A base \in Addr :
            Wrap(Wrap(base + d_bytes_done) + 4) = Wrap(base + (d_bytes_done + 4))
      BY <3>2, <3>5, BusAssumption DEF BusAssumption, Addr, Wrap
    <3>7. /\ d_cur_src' = Wrap(job.src + d_bytes_done')
          /\ d_cur_dst' = Wrap(job.dst + d_bytes_done')
      BY <1>3, <3>2, <3>3, <3>6
    <3> QED BY <3>1, <3>3, <3>4, <3>7 DEF JobPlace
  <2>3. CASE LastCounted
    <3>1. job' = job /\ JobPlace
      BY <1>1, <1>2, <2>3 DEF LastCounted, Starts
    <3>2. /\ d_bytes_done \in Nat /\ d_remaining \in Nat
          /\ d_bytes_done + d_remaining = job.len /\ job.len % 4 = 0
      BY <1>2, <3>1, SocAssumption DEF SocAssumption, JobTypes, JobPlace
    <3>3. /\ d_bytes_done' = d_bytes_done + d_remaining /\ d_remaining' = 0
          /\ d_state' = "DONE" /\ UNCHANGED <<d_done, d_error>>
      BY <2>3 DEF LastCounted
    <3>4. d_bytes_done' + d_remaining' = job.len /\ d_bytes_done' % 4 = 0
      BY <3>2, <3>3
    <3> QED BY <3>1, <3>3, <3>4 DEF JobPlace
  <2>4. CASE Starts(dw)
    <3>1. job' = [src |-> d_src, dst |-> d_dst, len |-> d_len]
      BY <1>1, <2>4
    <3>2. /\ Aligned(d_src) /\ Aligned(d_dst) /\ d_len # 0 /\ d_state' = "READ"
          /\ ~d_done' /\ ~d_error'
          /\ d_cur_src' = d_src /\ d_cur_dst' = d_dst /\ d_remaining' = d_len
          /\ d_bytes_done' = 0
      BY <1>6, <2>4 DEF Starts
    <3>3. \A a \in Addr : Wrap(a + 0) = a
      BY BusAssumption DEF BusAssumption, Addr, Wrap
    <3>4. 0 + d_len = d_len
      BY <1>3, BusAssumption DEF BusAssumption, Addr
    <3> QED BY <1>3, <3>1, <3>2, <3>3, <3>4 DEF JobPlace
  <2>5. CASE Faults \/ Finishes \/ RestsOn(dw)
    BY <1>6, <2>5 DEF Faults, Finishes, RestsOn
  <2> QED BY <2>1, <2>2, <2>3, <2>4, <2>5 DEF TransferMoves
<1>7. JobWords'
  <2>1. ASSUME d_busy, d_state = "READ", Decodes(d_cur_src)
        PROVE  WordAt(dram_mem', d_cur_src) = WordAt(dram_mem, d_cur_src)
    <3>1. JobPlace /\ d_remaining > 0
      BY <1>2, <2>1 DEF JobPlace, JobTypes
    <3> QED BY <1>2, <2>1, <3>1, WordKept
  <2>2. ASSUME d_state' = "WRITE"
        PROVE  Decodes(d_cur_src)' /\ d_read_data_q' = WordAt(dram_mem, d_cur_src)'
    <3>1. WordTaken
      BY <1>2, <2>2 DEF TransferMoves, Starts, ReadWaits, WordTaken, BeatWritten,
                  BeatCounted, LastCounted, Faults, Finishes, RestsOn, DmaShape
    <3>2. Decodes(d_cur_src) /\ d_read_data_q' = WordAt(dram_mem, d_cur_src)
      BY <1>2, <3>1 DEF WordTaken, JobWords, DmaPorts
    <3> QED BY <2>1, <3>1, <3>2 DEF WordTaken
  <2>3. ASSUME d_state' = "WRESP" PROVE Decodes(d_cur_src)'
    <3>1. BeatWritten
      BY <2>3 DEF TransferMoves, Starts, ReadWaits, WordTaken, BeatWritten,
                  BeatCounted, LastCounted, Faults, Finishes, RestsOn, DmaShape
    <3> QED BY <1>2, <3>1 DEF BeatWritten, JobWords
  <2>4. ASSUME dma_m_rvalid', dma_m_rok'
        PROVE  dma_m_rdata' = WordAt(dram_mem, d_cur_src)'
    <3>1. /\ d_state = "READ" /\ ~dma_m_rvalid /\ d_state' = "READ"
          /\ dma_m_rdata' = WordAt(dram_mem, d_cur_src) /\ Decodes(d_cur_src)'
      BY <2>4 DEF Answers, DmaPorts
    <3>2. ReadWaits
      BY <3>1 DEF TransferMoves, Starts, ReadWaits, WordTaken, BeatWritten,
                  BeatCounted, LastCounted, Faults, Finishes, RestsOn, DmaShape
    <3> QED BY <2>1, <3>1, <3>2 DEF ReadWaits
  <2> QED BY <2>2, <2>3, <2>4 DEF JobWords
<1> QED BY <1>5, <1>6, <1>7 DEF JobInv

-----------------------------------------------------------------------------
(* What one edge is to the job.                                            *)
JobStands ==
  Mapped(dram_mem)' = Mapped(dram_mem) /\ job' = job /\ Landed' = Landed

LEMMA JobStutters ==
  ASSUME JobStands, UNCHANGED <<d_busy, d_done, d_error>>
  PROVE  UNCHANGED Job!jobVars
BY DEF JobStands, Mapped, Job!jobVars

LEMMA LandedIs ==
  ASSUME NEW s, DmaPorts, JobTypes, JobTypes', Answers(s)
  PROVE  /\ d_state # "WRESP" \/ ~dma_m_bok => Landed = d_bytes_done
         /\ d_state = "WRESP" /\ dma_m_bok => Landed = d_bytes_done + Dma!BeatBytes
         /\ d_state # "WRITE" \/ ~Decodes(d_cur_dst) => Landed' = d_bytes_done'
         /\ d_state = "WRITE" /\ Decodes(d_cur_dst) =>
              Landed' = d_bytes_done' + (Dma!BeatBytes)'
<1>1. d_bytes_done \in Nat /\ d_bytes_done' \in Nat
  BY DEF JobTypes
<1>2. d_bytes_done + 0 = d_bytes_done /\ d_bytes_done' + 0 = d_bytes_done'
  <2>1. \A n \in Nat : n + 0 = n
    OBVIOUS
  <2> QED BY <1>1, <2>1, Zenon
<1> QED BY <1>2 DEF Landed, DmaPorts, Answers

(* A write that lands is the next beat of the job.                         *)
LEMMA WriteIsBeat ==
  ASSUME NEW s \in Stores, DmaPorts, JobInv, JobTypes', Answers(s), job' = job,
         BeatWritten, Decodes(d_cur_dst)
  PROVE  Job!CopyBeat
<1>1. /\ d_busy /\ d_state = "WRITE" /\ UNCHANGED <<d_busy, d_done, d_error>>
      /\ d_remaining' = d_remaining /\ d_bytes_done' = d_bytes_done
  BY DEF BeatWritten, GoesOn, AtBeat
<1>2. /\ JobTypes /\ JobPlace /\ Decodes(d_cur_src) /\ d_remaining > 0
      /\ d_read_data_q = WordAt(dram_mem, d_cur_src)
  BY <1>1 DEF JobInv, JobWords, JobPlace, JobTypes
<1>3. /\ d_cur_src = Job!At(job.src, d_bytes_done)
      /\ d_cur_dst = Job!At(job.dst, d_bytes_done)
      /\ d_remaining >= 4 /\ job.len - d_bytes_done = d_remaining
      /\ \A i \in Lanes : d_cur_src + i \notin Stored
      /\ \A i \in Lanes : d_cur_dst + i \notin Stored
  BY <1>2, AtJob
<1>4. /\ d_bytes_done \in Nat /\ d_remaining \in Nat
      /\ job.len \in Addr
      /\ d_cur_src \in Nat /\ d_cur_dst \in Nat
      /\ d_cur_src + 4 <= MemBytes /\ d_cur_dst + 4 <= MemBytes
  <2>1. /\ d_bytes_done \in Nat /\ d_remaining \in Nat
        /\ job.len \in Lengths /\ d_cur_src \in Addr /\ d_cur_dst \in Addr
    BY <1>2 DEF JobTypes
  <2>2. job.len \in Addr
    BY <2>1, SocAssumption DEF SocAssumption, Dma!DmaAssumption, Dma!Addr, Addr
  <2> QED BY <1>2, <2>1, <2>2, BusAssumption
          DEF BusAssumption, Decodes, Aligned, Addr
<1>5. Dma!BeatBytes = 4 /\ (Dma!BeatBytes)' = 4 /\ Dma!wstrb = Lanes
  BY <1>1, <1>3, <1>4 DEF Dma!BeatBytes, Dma!wstrb, Lanes
<1>6. Landed = d_bytes_done /\ Landed' = d_bytes_done + 4
  BY <1>1, <1>2, <1>5, LandedIs
<1>7. dram_mem' = Merge(Store(s), d_cur_dst, WordAt(dram_mem, d_cur_src), Lanes)
  BY <1>1, <1>2, <1>5 DEF Answers
<1>8. ASSUME NEW a \in 0 .. MemBytes - 1
      PROVE  Mapped(dram_mem)'[a]
               = IF a \in d_cur_dst .. d_cur_dst + 4 - 1
                 THEN Mapped(dram_mem)[d_cur_src + (a - d_cur_dst)]
                 ELSE Mapped(dram_mem)[a]
  <2>1. a - d_cur_dst \in Lanes <=> a \in d_cur_dst .. d_cur_dst + 4 - 1
    BY <1>4 DEF Lanes
  <2>2. CASE a - d_cur_dst \in Lanes
    <3>1. dram_mem'[a] = dram_mem[d_cur_src + (a - d_cur_dst)]
      BY <1>7, <2>2 DEF Merge, WordAt
    <3>2. a \notin Stored
      <4>1. d_cur_dst + (a - d_cur_dst) = a
        BY <1>4
      <4> QED BY <1>3, <2>2, <4>1
    <3>3. d_cur_src + (a - d_cur_dst) \in 0 .. MemBytes - 1
      BY <1>4, <2>2, BusAssumption DEF BusAssumption, Lanes
    <3> QED BY <1>3, <2>1, <2>2, <3>1, <3>2, <3>3 DEF Mapped
  <2>3. CASE a - d_cur_dst \notin Lanes
    <3>1. dram_mem'[a] = Store(s)[a]
      BY <1>7, <2>3 DEF Merge
    <3> QED BY <2>1, <2>3, <3>1, StoredAside DEF Mapped
  <2> QED BY <2>2, <2>3
<1>9. Mapped(dram_mem)' = [a \in 0 .. MemBytes - 1 |->
                             IF a \in d_cur_dst .. d_cur_dst + 4 - 1
                             THEN Mapped(dram_mem)[d_cur_src + (a - d_cur_dst)]
                             ELSE Mapped(dram_mem)[a]]
  BY <1>8 DEF Mapped
<1>10. /\ Landed < job.len /\ job.len - Landed >= 4
  BY <1>3, <1>4, <1>6 DEF Addr
<1> QED BY <1>1, <1>3, <1>4, <1>6, <1>9, <1>10 DEF Job!CopyBeat, Mapped

LEMMA FaultIsFail ==
  ASSUME NEW s \in Stores, DmaPorts, JobInv, JobTypes', Answers(s), job' = job,
         Faults
  PROVE  Job!Fail
<1>1. /\ d_busy /\ ~d_busy' /\ d_done' /\ d_error' /\ d_busy' = FALSE
      /\ d_done' = TRUE /\ d_error' = TRUE /\ d_state # "WRITE"
      /\ d_bytes_done' = d_bytes_done
      /\ \/ d_state = "READ" /\ ~Decodes(d_cur_src)
         \/ d_state = "WRESP" /\ ~dma_m_bok /\ ~Decodes(d_cur_dst)
  BY DEF Faults, AtBeat, DmaPorts
<1>2. JobTypes /\ JobPlace /\ d_remaining > 0
  BY <1>1 DEF JobInv, JobPlace, JobTypes
<1>3. /\ d_cur_src = Job!At(job.src, d_bytes_done)
      /\ d_cur_dst = Job!At(job.dst, d_bytes_done)
      /\ Aligned(d_cur_src) /\ Aligned(d_cur_dst)
      /\ d_remaining >= 4 /\ job.len - d_bytes_done = d_remaining
  BY <1>2, AtJob
<1>4. Landed = d_bytes_done /\ Landed' = d_bytes_done
  BY <1>1, <1>2, LandedIs
<1>5. /\ d_bytes_done \in Nat /\ d_remaining \in Nat
      /\ d_cur_src \in Addr /\ d_cur_dst \in Addr /\ job.len \in Lengths
  BY <1>2 DEF JobTypes
<1>6. job.len \in Addr
  BY <1>5, SocAssumption DEF SocAssumption, Dma!DmaAssumption, Dma!Addr, Addr
<1>7. d_cur_src >= MemBytes \/ d_cur_dst >= MemBytes
  BY <1>1, <1>3, <1>5, BusAssumption DEF BusAssumption, Decodes, Addr
<1>8. Landed < job.len
  BY <1>3, <1>4, <1>5, <1>6, BusAssumption DEF BusAssumption, Addr
<1>9. Mapped(dram_mem)' = Mapped(dram_mem)
  <2>1. dram_mem' = Store(s)
    BY <1>1 DEF Answers
  <2> QED BY <2>1, StoredUnmapped DEF Mapped
<1> QED BY <1>1, <1>3, <1>4, <1>7, <1>8, <1>9 DEF Job!Fail, Mapped

LEMMA EdgeIsJob ==
  ASSUME NEW dw, NEW s \in Stores, DmaShape, DmaPorts, JobInv, JobInv',
         Record(dw), TransferMoves(dw), Answers(s)
  PROVE  [Job!Next]_(Job!jobVars)
<1>1. /\ Starts(dw) => job' = [src |-> d_src, dst |-> d_dst, len |-> d_len]
      /\ ~Starts(dw) => job' = job
  BY DEF Record, TransferMoves, Starts, ReadWaits, WordTaken, BeatWritten,
         BeatCounted, LastCounted, Faults, Finishes, RestsOn, GoesOn
<1>2. JobTypes /\ JobTypes' /\ (d_busy => JobPlace)
  BY DEF JobInv
<1>3. d_state # "WRITE" \/ ~Decodes(d_cur_dst) =>
        Mapped(dram_mem)' = Mapped(dram_mem)
  <2>1. d_state # "WRITE" \/ ~Decodes(d_cur_dst) => dram_mem' = Store(s)
    BY DEF Answers
  <2> QED BY <2>1, StoredUnmapped DEF Mapped
<1>4. /\ d_state # "WRESP" \/ ~dma_m_bok => Landed = d_bytes_done
      /\ d_state = "WRESP" /\ dma_m_bok => Landed = d_bytes_done + Dma!BeatBytes
      /\ d_state # "WRITE" \/ ~Decodes(d_cur_dst) => Landed' = d_bytes_done'
  BY <1>2, LandedIs
<1>5. CASE ReadWaits \/ WordTaken
  <2>1. /\ d_busy /\ d_state = "READ" /\ d_bytes_done' = d_bytes_done
        /\ UNCHANGED <<d_busy, d_done, d_error>>
    BY <1>5 DEF ReadWaits, WordTaken, GoesOn, AtBeat
  <2>2. job' = job
    BY <1>1, <2>1 DEF Starts
  <2>3. JobStands
    BY <1>3, <1>4, <2>1, <2>2 DEF JobStands
  <2> QED BY <2>1, <2>3, JobStutters
<1>6. CASE BeatWritten
  <2>1. /\ d_busy /\ d_state = "WRITE" /\ d_bytes_done' = d_bytes_done
        /\ UNCHANGED <<d_busy, d_done, d_error>>
    BY <1>6 DEF BeatWritten, GoesOn, AtBeat
  <2>2. job' = job
    BY <1>1, <2>1 DEF Starts
  <2>3. CASE Decodes(d_cur_dst)
    <3>1. Job!CopyBeat
      BY <1>2, <1>6, <2>2, <2>3, WriteIsBeat
    <3> QED BY <3>1 DEF Job!Next
  <2>4. CASE ~Decodes(d_cur_dst)
    <3>1. JobStands
      BY <1>3, <1>4, <2>1, <2>2, <2>4 DEF JobStands
    <3> QED BY <2>1, <3>1, JobStutters
  <2> QED BY <2>3, <2>4
<1>7. CASE BeatCounted \/ LastCounted
  <2>1. /\ d_busy /\ d_state = "WRESP" /\ dma_m_bok
        /\ UNCHANGED <<d_busy, d_done, d_error>>
    BY <1>7 DEF BeatCounted, LastCounted, GoesOn
  <2>2. job' = job
    BY <1>1, <2>1 DEF Starts
  <2>3. JobPlace /\ d_remaining > 0 /\ d_remaining \in Nat
    BY <1>2, <2>1 DEF JobPlace, JobTypes
  <2>4. d_remaining >= 4
    BY <1>2, <2>3, AtJob
  <2>5. d_bytes_done' = d_bytes_done + Dma!BeatBytes
    <3>1. CASE BeatCounted
      BY <2>4, <3>1 DEF BeatCounted, Dma!BeatBytes
    <3>2. CASE LastCounted
      <4>1. d_remaining = 4
        BY <2>3, <2>4, <3>2 DEF LastCounted
      <4> QED BY <3>2, <4>1 DEF LastCounted, Dma!BeatBytes
    <3> QED BY <1>7, <3>1, <3>2
  <2>6. JobStands
    BY <1>3, <1>4, <2>1, <2>2, <2>5 DEF JobStands
  <2> QED BY <2>1, <2>6, JobStutters
<1>8. CASE Faults
  <2>1. job' = job
    BY <1>1, <1>8 DEF Starts, Faults
  <2> QED BY <1>2, <1>8, <2>1, FaultIsFail DEF Job!Next
<1>9. CASE Finishes
  <2>1. /\ d_busy /\ d_state = "DONE" /\ d_bytes_done' = d_bytes_done
        /\ d_busy' = FALSE /\ d_done' = TRUE /\ d_error' = d_error
    BY <1>9 DEF Finishes, AtBeat
  <2>2. job' = job
    BY <1>1, <2>1 DEF Starts
  <2>3. d_bytes_done = job.len
    <3>1. /\ d_remaining = 0 /\ d_bytes_done + d_remaining = job.len
          /\ d_bytes_done \in Nat
      BY <1>2, <2>1 DEF JobPlace, JobTypes
    <3> QED BY <3>1
  <2> QED BY <1>3, <1>4, <2>1, <2>2, <2>3 DEF Job!Next, Job!Succeed, Mapped
<1>10. CASE Starts(dw)
  <2>1. ~d_busy /\ d_state = "IDLE" /\ d_bytes_done' = 0
    BY <1>10 DEF Starts, DmaShape
  <2>2. job' = [src |-> d_src, dst |-> d_dst, len |-> d_len]
    BY <1>1, <1>10
  <2>3. job' \in [src : Addresses, dst : Addresses, len : Lengths]
    BY <1>2, <2>2 DEF JobTypes
  <2>4. Job!Misaligned(job') <=> ~Aligned(d_src) \/ ~Aligned(d_dst)
    BY <2>2 DEF Job!Misaligned, Aligned
  <2>5. job'.len = d_len
    BY <2>2
  <2>6. /\ d_error' = Job!Misaligned(job')
        /\ d_done' = (Job!Misaligned(job') \/ job'.len = 0)
        /\ d_busy' = ~d_done'
    <3>1. CASE ~Aligned(d_src) \/ ~Aligned(d_dst)
      BY <1>10, <2>4, <3>1, Zenon DEF Starts, Job!Misaligned
    <3>2. CASE Aligned(d_src) /\ Aligned(d_dst) /\ d_len = 0
      BY <1>10, <2>4, <2>5, <3>2, Zenon DEF Starts, Job!Misaligned
    <3>3. CASE Aligned(d_src) /\ Aligned(d_dst) /\ d_len # 0
      BY <1>10, <2>4, <2>5, <3>3, Zenon DEF Starts, Job!Misaligned
    <3> QED BY <3>1, <3>2, <3>3
  <2>7. Job!Submit(job')
    BY <1>3, <1>4, <2>1, <2>6 DEF Job!Submit, Mapped
  <2> QED BY <2>3, <2>7 DEF Job!Next
<1>11. CASE RestsOn(dw)
  <2>1. /\ ~d_busy /\ d_state = "IDLE" /\ d_bytes_done' = d_bytes_done
        /\ d_busy' = d_busy
    BY <1>11 DEF RestsOn, DmaShape, AtBeat
  <2>2. job' = job
    BY <1>1, <1>11 DEF RestsOn, Starts
  <2>3. JobStands
    BY <1>3, <1>4, <2>1, <2>2 DEF JobStands
  <2>4. CASE Dma!ClearBit(dw)
    <3>1. d_done' = FALSE /\ d_error' = FALSE
      BY <1>11, <2>4, Zenon DEF RestsOn
    <3> QED BY <2>1, <2>3, <3>1 DEF Job!Next, Job!Acknowledge, JobStands, Mapped
  <2>5. CASE ~Dma!ClearBit(dw)
    <3>1. d_done' = d_done /\ d_error' = d_error
      BY <1>2, <1>11, <2>5, Zenon DEF RestsOn, JobTypes
    <3> QED BY <2>1, <2>3, <3>1, JobStutters
  <2> QED BY <2>4, <2>5
<1> QED BY <1>5, <1>6, <1>7, <1>8, <1>9, <1>10, <1>11 DEF TransferMoves

LEMMA JobEdge ==
  ASSUME NEW dw \in Dma!Writes, NEW nw, NEW s \in Stores, SocInv, JobInv,
         Clock(dw, nw, s)
  PROVE  JobInv' /\ [Job!Next]_(Job!jobVars)
<1>1. /\ DmaShape /\ DmaPorts /\ JobTypes
      /\ d_busy => dw = Dma!NoWrite
      /\ Dma!DmaEdge(dw, ToDma) /\ WriteEdge(s) /\ DmaReadEdge /\ Record(dw)
  BY DEF SocInv, JobInv, Clock
<1>2. DmaShape' /\ DmaPorts'
  BY <1>1, DmaStep
<1>3. TransferMoves(dw) /\ Answers(s) /\ Dma!Configure(dw)
  BY <1>1, TransferDoes, ArrayDoes DEF Dma!DmaEdge
<1>4. JobInv'
  BY <1>1, <1>2, <1>3, JobStep
<1> QED BY <1>1, <1>3, <1>4, EdgeIsJob

LEMMA JobStarts == Init => JobInv /\ Job!Init
<1> SUFFICES ASSUME Init PROVE JobInv /\ Job!Init
  OBVIOUS
<1>1. Dma!DmaInit
  BY DEF Init
<1>2. /\ dma_m_bvalid = FALSE /\ dma_m_rvalid = FALSE
      /\ dram_mem = [a \in 0 .. MemBytes - 1 |-> a]
      /\ job = [src |-> 0, dst |-> 0, len |-> 0]
  BY Zenon DEF Init
<1>3. 0 \in Addresses /\ 0 \in Lengths /\ 0 \in Addr
  BY SocAssumption, BusAssumption
  DEF SocAssumption, Dma!DmaAssumption, BusAssumption, Addr
<1>4. d_done \in BOOLEAN /\ d_error \in BOOLEAN
  BY <1>1, Zenon DEF Dma!DmaInit
<1>5. JobInv
  BY <1>1, <1>2, <1>3, <1>4 DEF Dma!DmaInit, JobInv, JobTypes, JobWords
<1>6. Landed = 0
  BY <1>1, <1>2 DEF Dma!DmaInit, Landed
<1>7. d_busy = FALSE /\ d_done = FALSE /\ d_error = FALSE
  BY <1>1, Zenon DEF Dma!DmaInit
<1> QED BY <1>2, <1>5, <1>6, <1>7 DEF Job!Init

LEMMA JobUnchanged ==
  ASSUME JobInv, UNCHANGED vars
  PROVE  JobInv' /\ UNCHANGED Job!jobVars
<1>1. /\ UNCHANGED Dma!dmaVars
      /\ UNCHANGED <<writePort, dmaRead, dram_mem, job>>
  BY DEF vars
<1>2. /\ UNCHANGED <<d_src, d_dst, d_len, d_busy, d_done, d_error, d_state>>
      /\ UNCHANGED <<d_cur_src, d_cur_dst, d_remaining, d_bytes_done,
                     d_read_data_q>>
  BY <1>1 DEF Dma!dmaVars, Dma!config, Dma!status, Dma!cursor, Dma!counters
<1>3. UNCHANGED <<dma_m_bvalid, dma_m_bok, dma_m_rvalid, dma_m_rok, dma_m_rdata>>
  BY <1>1 DEF writePort, dmaRead
<1>4. JobInv'
  BY <1>1, <1>2, <1>3 DEF JobInv, JobTypes, JobPlace, JobWords
<1>5. Landed' = Landed
  BY <1>2, <1>3 DEF Landed, Dma!BeatBytes
<1> QED BY <1>1, <1>2, <1>4, <1>5 DEF Job!jobVars

LEMMA JobNext ==
  SocInv /\ JobInv /\ [Next]_vars => JobInv' /\ [Job!Next]_(Job!jobVars)
<1> SUFFICES ASSUME SocInv, JobInv, [Next]_vars
             PROVE  JobInv' /\ [Job!Next]_(Job!jobVars)
  OBVIOUS
<1>1. NoStore \in Stores /\ Dma!NoWrite \in Dma!Writes
  BY SocAssumption DEF SocAssumption, Dma!Writes
<1>2. CASE ProgramDma
  BY <1>1, <1>2, JobEdge DEF ProgramDma
<1>3. CASE ProgramNpu
  BY <1>1, <1>3, JobEdge DEF ProgramNpu
<1>4. CASE StoreWord
  BY <1>1, <1>4, JobEdge DEF StoreWord
<1>5. CASE UNCHANGED vars
  BY <1>5, JobUnchanged
<1> QED BY <1>2, <1>3, <1>4, <1>5 DEF Next

(* Beside a running NPU and software's stores to other words, a transfer   *)
(* still copies what was accepted, in order and word by word, fails only   *)
(* on an address that does not decode, and reports its end.                *)
THEOREM SocImplementsCopyJob == Spec => ImplementsCopyJob
<1>1. Init => Job!Init
  BY JobStarts
<1>2. Spec => []JobInv
  BY JobStarts, JobNext, SocInvariance, PTL DEF Spec
<1>3. SocInv /\ JobInv /\ [Next]_vars => [Job!Next]_(Job!jobVars)
  BY JobNext
<1> QED BY <1>1, <1>2, <1>3, SocInvariance, PTL
        DEF Spec, ImplementsCopyJob, Job!Spec
=============================================================================
