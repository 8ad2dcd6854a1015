----------------------------- MODULE E1NpuProofs -----------------------------
(***************************************************************************)
(* What one edge of the NPU does, whatever it is connected to: who is at   *)
(* work, how far its sequencer is in the tile and its ring in a stream.    *)
(***************************************************************************)
EXTENDS E1Npu, TLAPS

-----------------------------------------------------------------------------
(* Who is at work.  StatusHonest leans on it: an engine runs only while    *)
(* busy shows it, and under the ring only in its wait.                     *)
DescStates == {"IDLE", "FETCH_ADDR", "FETCH_DATA", "STREAM_ADDR", "STREAM_DATA",
               "LAUNCH", "WAIT", "ADVANCE"}

StatusTypes ==
  /\ busy \in BOOLEAN /\ done \in BOOLEAN /\ error \in BOOLEAN
  /\ gemm_busy \in BOOLEAN /\ desc_busy \in BOOLEAN
  /\ busy_count \in Nat /\ desc_state \in DescStates

StatusInv ==
  /\ StatusTypes
  /\ desc_busy <=> desc_state # "IDLE"
  /\ ~(busy_count # 0 /\ gemm_busy)
  /\ busy => ~done /\ ~error
  /\ error => done
  /\ EngineRuns => busy
  /\ busy /\ ~desc_busy => EngineRuns
  /\ desc_busy /\ desc_state # "WAIT" => busy /\ ~EngineRuns
  /\ desc_state = "WAIT" =>
       /\ busy => EngineRuns /\ (gemm_busy <=> Word0.op = GEMM)
       /\ ~busy => Word0.op = GEMM

LEMMA StatusStarts == NpuInit => StatusInv
<1> SUFFICES ASSUME NpuInit PROVE StatusInv
  OBVIOUS
<1>1. /\ busy = FALSE /\ done = FALSE /\ error = FALSE
      /\ gemm_busy = FALSE /\ desc_busy = FALSE
      /\ busy_count = 0 /\ desc_state = "IDLE"
  BY Zenon DEF NpuInit
<1> QED BY <1>1 DEF StatusInv, StatusTypes, DescStates, EngineRuns

LEMMA StatusStep ==
  ASSUME NEW w, NEW b, StatusInv, NpuEdge(w, b)
  PROVE  StatusInv'
<1> USE DEF StatusInv, StatusTypes, DescStates, EngineRuns, Report, Carry, engines, scalar
<1> DEFINE clears == ClearBit(w)
<1>0. clears \in BOOLEAN
  BY DEF ClearBit
<1> HIDE DEF clears
<1>1. CASE StartScalar(w)
  <2>1. Latency(opcode) \in Nat \ {0}
    BY DEF Latency
  <2>2. Rests
    BY <1>1 DEF StartScalar, Register, Accepts
  <2> QED BY <1>1, <2>1, <2>2 DEF StartScalar, LaunchScalar, RingRests, Rests
<1>2. CASE StartGemm(w)
  BY <1>2 DEF StartGemm, Register, Accepts, Rests, LaunchGemm, RingRests
<1>3. CASE RejectStart(w)
  BY <1>3 DEF RejectStart, Register, Accepts, Rests, RingRests
<1>4. CASE RefuseRing(w)
  BY <1>4 DEF RefuseRing, Accepts, Rests
<1>5. CASE StartRing(w)
  BY <1>5 DEF StartRing, Accepts, Rests
<1>6. CASE Rest(w)
  BY <1>6 DEF Rest, Rests, RingRests
<1>7. CASE FinishCommand(w)
  <2>1. ~GemmFault /\ (busy_count = 1 \/ gemm_busy)
    BY <1>7 DEF FinishCommand, EngineFinishes, GemmLast, GemmFault
  <2>2. busy_count' = 0 /\ gemm_busy' = FALSE
    <3>1. CASE busy_count = 1
      BY <1>7, <3>1 DEF FinishCommand, RunEngines
    <3>2. CASE busy_count # 1
      BY <1>7, <2>1, <3>2 DEF FinishCommand, RunEngines, EngineFinishes
    <3> QED BY <3>1, <3>2
  <2> QED BY <1>7, <2>2 DEF FinishCommand, RingRests
<1>8. CASE FaultCommand(w)
  BY <1>8 DEF FaultCommand, RunEngines, RingRests, GemmFault
<1>9. CASE RunCommand(w)
  BY <1>9 DEF RunCommand, RunEngines, RingRests, EngineFinishes, GemmLast, GemmFault
<1>10. CASE OfferAddress(w, b)
  BY <1>10 DEF OfferAddress, In, Proceed, Still
<1>11. CASE AwaitData(w, b)
  BY <1>11 DEF AwaitData, In, Proceed, Still
<1>12. CASE TakeWord(w, b)
  BY <1>12 DEF TakeWord, In, Proceed, Still
<1>13. CASE TakeStream(w, b)
  BY <1>13 DEF TakeStream, In, Proceed, Still
<1>14. CASE ReadFault(w, b)
  BY <1>14 DEF ReadFault, In, Abort, Still
<1>15. CASE Refuse(w)
  BY <1>15 DEF Refuse, In, Abort, Still
<1>16. CASE BeginStream(w)
  BY <1>16 DEF BeginStream, In, Proceed, Still
<1>17. CASE Launch(w)
  <2>1. Latency(Word0.op) \in Nat \ {0}
    BY DEF Latency
  <2>2. Word0' = Word0
    BY <1>17 DEF Launch, fetch, Word0
  <2> QED BY <1>17, <2>1, <2>2 DEF Launch, In, Proceed, LaunchGemm, LaunchScalar
<1>18. CASE Await(w)
  <2>1. Word0' = Word0
    BY <1>18 DEF Await, fetch, Word0
  <2>2. /\ desc_busy /\ desc_busy' /\ desc_state = "WAIT"
        /\ busy_count' = IF busy_count = 0 THEN 0 ELSE busy_count - 1
        /\ gemm_busy' = (gemm_busy /\ ~GemmFault /\ ~GemmLast)
        /\ desc_state' = IF EngineFinishes THEN "ADVANCE" ELSE "WAIT"
        /\ IF GemmFault THEN Report(w, FALSE, TRUE, TRUE) ELSE Carry(w)
    BY <1>18 DEF Await, In, RunEngines
  <2>3. CASE GemmFault
    <3>1. gemm_busy /\ ~EngineFinishes
      BY <2>3 DEF GemmFault, EngineFinishes, GemmLast
    <3> QED BY <2>1, <2>2, <2>3, <3>1
  <2>4. CASE ~GemmFault /\ EngineFinishes
    <3>1. busy_count = 1 \/ (gemm_busy /\ GemmLast)
      BY <2>4 DEF EngineFinishes, GemmLast
    <3> QED BY <2>1, <2>2, <2>4, <3>1
  <2>5. CASE ~GemmFault /\ ~EngineFinishes
    <3>1. busy_count # 1 /\ ~GemmLast
      BY <2>5 DEF EngineFinishes
    <3> QED BY <2>1, <2>2, <2>5, <3>1
  <2> QED BY <2>3, <2>4, <2>5
<1>19. CASE Advance(w)
  BY <1>19 DEF Advance, In, Still
<1>20. CASE TimeOut(w)
  BY <1>20 DEF TimeOut
<1> QED BY <1>1, <1>2, <1>3, <1>4, <1>5, <1>6, <1>7, <1>8, <1>9, <1>10, <1>11, <1>12,
           <1>13, <1>14, <1>15, <1>16, <1>17, <1>18, <1>19, <1>20 DEF NpuEdge

-----------------------------------------------------------------------------
(* What an edge is to the engines: they are started from the registers or  *)
(* by the ring, they run, they rest, or the ring's timeout stops them.     *)
Runs == RunEngines /\ UNCHANGED <<desc_busy, desc_words>>
Stays == ~EngineRuns /\ UNCHANGED engines
EngineMoves(w) ==
  StartScalar(w) \/ StartGemm(w) \/ Launch(w) \/ Runs \/ Stays \/ TimeOut(w)

LEMMA EnginesMove ==
  ASSUME NEW w, NEW b, StatusInv, NpuEdge(w, b)
  PROVE  EngineMoves(w)
<1> USE DEF EngineMoves
<1>1. CASE RejectStart(w) \/ RefuseRing(w) \/ StartRing(w) \/ Rest(w)
  <2>1. ~EngineRuns
    BY <1>1 DEF RejectStart, RefuseRing, StartRing, Rest, Register, Accepts, Rests
  <2>2. UNCHANGED engines
    BY <1>1 DEF RejectStart, RefuseRing, StartRing, Rest
  <2> QED BY <2>1, <2>2 DEF Stays
<1>2. CASE FinishCommand(w) \/ FaultCommand(w) \/ RunCommand(w)
  BY <1>2 DEF FinishCommand, FaultCommand, RunCommand, RingRests, fetch, Runs
<1>3. CASE Await(w)
  BY <1>3 DEF Await, fetch, Runs
<1>4. CASE \/ OfferAddress(w, b) \/ AwaitData(w, b) \/ TakeWord(w, b)
           \/ TakeStream(w, b) \/ ReadFault(w, b) \/ Refuse(w)
           \/ BeginStream(w) \/ Advance(w)
  BY <1>4 DEF OfferAddress, AwaitData, TakeWord, TakeStream, ReadFault, Refuse,
              BeginStream, Advance, Still, Stays
<1> QED BY <1>1, <1>2, <1>3, <1>4 DEF NpuEdge

-----------------------------------------------------------------------------
(* The sequencer goes over a tile of at most 3 by 3 by 7 products.         *)
IndexTypes ==
  /\ gemm_cfg \in (0 .. 3) \X (0 .. 3) \X (0 .. 7)
  /\ gemm_i \in Nat /\ gemm_j \in Nat /\ gemm_l \in Nat

InTile == gemm_i < gemm_cfg[1] /\ gemm_j < gemm_cfg[2] /\ gemm_l < gemm_cfg[3]
Position == (gemm_i * gemm_cfg[2] + gemm_j) * gemm_cfg[3] + gemm_l

(* One product more, in row-major order.                                   *)
LEMMA NextProduct ==
  ASSUME NEW m \in 0 .. 3, NEW n \in 0 .. 3, NEW k \in 0 .. 7,
         NEW i \in Nat, NEW j \in Nat, NEW l \in Nat, i < m, j < n, l < k
  PROVE  /\ (i * n + (j + 1)) * k = (i * n + j) * k + k
         /\ j = n - 1 => ((i + 1) * n + 0) * k = (i * n + j) * k + k
         /\ (i * n + j) * k \in Int
<1>1. i * n \in Int /\ (i + 1) * n = i * n + n
  OBVIOUS
<1>2. \A t \in Int : (t + 1) * k = t * k + k /\ t * k \in Int
  OBVIOUS
<1>3. i * n + (j + 1) = (i * n + j) + 1 /\ i * n + j \in Int
  BY <1>1
<1>4. j = n - 1 => (i + 1) * n + 0 = (i * n + j) + 1
  BY <1>1
<1> QED BY <1>2, <1>3, <1>4

(* One edge of the sequencer at work, on a product that lies in the        *)
(* scratchpad.                                                             *)
LEMMA Product ==
  ASSUME IndexTypes, gemm_busy, gemm_cfg_ok, Compute
  PROVE  /\ gemm_i' \in Nat /\ gemm_j' \in Nat /\ gemm_l' \in Nat
         /\ GemmLast => gemm_i' = 0 /\ gemm_j' = 0 /\ gemm_l' = 0
         /\ ~GemmLast /\ InTile =>
              /\ gemm_i' < gemm_cfg[1] /\ gemm_j' < gemm_cfg[2] /\ gemm_l' < gemm_cfg[3]
              /\ (gemm_i' * gemm_cfg[2] + gemm_j') * gemm_cfg[3] + gemm_l' = Position + 1
<1> DEFINE m == gemm_cfg[1]
           n == gemm_cfg[2]
           k == gemm_cfg[3]
<1>1. m \in 0 .. 3 /\ n \in 0 .. 3 /\ k \in 0 .. 7
  BY DEF IndexTypes
<1>2. /\ InTile => gemm_i < m /\ gemm_j < n /\ gemm_l < k
      /\ Position = (gemm_i * n + gemm_j) * k + gemm_l
  BY DEF InTile, Position
<1>3. /\ gemm_l' = IF gemm_l = k - 1 THEN 0 ELSE (gemm_l + 1) % 8
      /\ gemm_j' = IF gemm_l # k - 1 THEN gemm_j
                   ELSE IF gemm_j = n - 1 THEN 0 ELSE (gemm_j + 1) % 4
      /\ gemm_i' = IF ~(gemm_l = k - 1 /\ gemm_j = n - 1) THEN gemm_i
                   ELSE IF gemm_i = m - 1 THEN 0 ELSE (gemm_i + 1) % 4
  BY DEF Compute, LastL, LastJ, LastI
<1>4. GemmLast <=> gemm_l = k - 1 /\ gemm_j = n - 1 /\ gemm_i = m - 1
  BY DEF GemmLast, LastL, LastJ, LastI
<1>5. gemm_i \in Nat /\ gemm_j \in Nat /\ gemm_l \in Nat
  BY DEF IndexTypes
<1> HIDE DEF m, n, k
<1>6. gemm_i' \in Nat /\ gemm_j' \in Nat /\ gemm_l' \in Nat
  BY <1>1, <1>3, <1>5
<1>7. GemmLast => gemm_i' = 0 /\ gemm_j' = 0 /\ gemm_l' = 0
  BY <1>3, <1>4
<1>8. ASSUME ~GemmLast, InTile
      PROVE  /\ gemm_i' < m /\ gemm_j' < n /\ gemm_l' < k
             /\ (gemm_i' * n + gemm_j') * k + gemm_l' = Position + 1
  <2>1. /\ gemm_i < m /\ gemm_j < n /\ gemm_l < k
        /\ Position = (gemm_i * n + gemm_j) * k + gemm_l
    BY <1>2, <1>8
  <2>2. /\ (gemm_i * n + (gemm_j + 1)) * k = (gemm_i * n + gemm_j) * k + k
        /\ gemm_j = n - 1 => ((gemm_i + 1) * n + 0) * k = (gemm_i * n + gemm_j) * k + k
        /\ (gemm_i * n + gemm_j) * k \in Int
    BY <1>1, <1>5, <2>1, NextProduct
  <2>3. CASE gemm_l # k - 1
    <3>1. gemm_l' = gemm_l + 1 /\ gemm_j' = gemm_j /\ gemm_i' = gemm_i
      BY <1>1, <1>3, <1>5, <2>1, <2>3
    <3>2. Position + 1 = (gemm_i * n + gemm_j) * k + gemm_l'
      BY <1>5, <2>1, <2>2, <3>1
    <3> QED BY <1>1, <1>5, <2>1, <2>3, <3>1, <3>2
  <2>4. CASE gemm_l = k - 1 /\ gemm_j # n - 1
    <3>1. gemm_l' = 0 /\ gemm_j' = gemm_j + 1 /\ gemm_i' = gemm_i
      BY <1>1, <1>3, <1>5, <2>1, <2>4
    <3>2. Position + 1 = (gemm_i * n + (gemm_j + 1)) * k
      BY <1>1, <1>5, <2>1, <2>2, <2>4
    <3>3. (gemm_i * n + (gemm_j + 1)) * k \in Int
      BY <1>1, <2>2
    <3> QED BY <1>1, <1>5, <2>1, <2>4, <3>1, <3>2, <3>3
  <2>5. CASE gemm_l = k - 1 /\ gemm_j = n - 1
    <3>1. gemm_l' = 0 /\ gemm_j' = 0 /\ gemm_i' = gemm_i + 1 /\ gemm_i # m - 1
      BY <1>1, <1>3, <1>4, <1>5, <1>8, <2>1, <2>5
    <3>2. Position + 1 = ((gemm_i + 1) * n + 0) * k
      BY <1>1, <1>5, <2>1, <2>2, <2>5
    <3>3. ((gemm_i + 1) * n + 0) * k \in Int
      BY <1>1, <2>2, <2>5
    <3> QED BY <1>1, <1>5, <2>1, <2>5, <3>1, <3>2, <3>3
  <2> QED BY <2>3, <2>4, <2>5
<1> QED BY <1>6, <1>7, <1>8 DEF m, n, k

-----------------------------------------------------------------------------
(* The stream of a descriptor: it has begun only for one that is not       *)
(* refused, and what is launched has all of it.                            *)
StreamInv ==
  /\ desc_stream_done \in Nat
  /\ desc_state \in {"FETCH_ADDR", "FETCH_DATA"} => desc_stream_done = 0
  /\ desc_state \in {"STREAM_ADDR", "STREAM_DATA"} =>
       /\ Refusal = {} /\ Word0.stream
       /\ desc_stream_done % 4 = 0 /\ desc_stream_done < Word0.len
  /\ desc_state = "LAUNCH" =>
       desc_stream_done = 0 \/ (Word0.stream /\ desc_stream_done = Word0.len)
  /\ desc_state \in {"WAIT", "ADVANCE"} =>
       Refusal = {} /\ (Word0.stream => desc_stream_done = Word0.len)

LEMMA WordLength == Word0.len \in Nat
BY NpuAssumption DEF NpuAssumption, Word0, ZeroControl

LEMMA NotRefused ==
  Refusal = {} => /\ Word0.valid /\ ~Word0.writeback /\ ValidOp(Word0.op)
                  /\ Word0.stream => /\ Word0.len # 0 /\ Word0.len % 4 = 0
                                     /\ Word0.dst + Word0.len <= ScratchBytes
<1> SUFFICES ASSUME Refusal = {}
             PROVE  /\ Word0.valid /\ ~Word0.writeback /\ ValidOp(Word0.op)
                    /\ Word0.stream => /\ Word0.len # 0 /\ Word0.len % 4 = 0
                                       /\ Word0.dst + Word0.len <= ScratchBytes
  OBVIOUS
<1>1. {"OWNER"} # {} /\ {"WRITEBACK"} # {} /\ {"DONE"} # {} /\ {"STREAM"} # {}
  OBVIOUS
<1>2. Word0.valid /\ ~Word0.writeback /\ ValidOp(Word0.op) /\ StreamOk
  BY <1>1, Zenon DEF Refusal
<1> QED BY <1>2 DEF StreamOk

LEMMA SameWords ==
  ASSUME desc_words' = desc_words
  PROVE  Word0' = Word0 /\ Refusal' = Refusal /\ DescArgs' = DescArgs
BY DEF Word0, Refusal, StreamOk, StreamSource, DescArgs

LEMMA StreamStep ==
  ASSUME NEW w, NEW b, StatusInv, StreamInv, NpuEdge(w, b)
  PROVE  StreamInv'
<1> USE DEF StreamInv, In, Proceed, Abort
<1>0. desc_state \in DescStates /\ (desc_busy <=> desc_state # "IDLE")
  BY DEF StatusInv, StatusTypes
<1>1. CASE \/ StartScalar(w) \/ StartGemm(w) \/ RejectStart(w) \/ RefuseRing(w)
           \/ Rest(w) \/ FinishCommand(w) \/ FaultCommand(w) \/ RunCommand(w)
  <2>1. UNCHANGED <<desc_state, fetch>>
    BY <1>1 DEF StartScalar, StartGemm, RejectStart, RefuseRing, Rest, FinishCommand,
                FaultCommand, RunCommand, RingRests
  <2> QED BY <2>1, SameWords DEF fetch
<1>2. CASE StartRing(w)
  BY <1>2 DEF StartRing
<1>3. CASE OfferAddress(w, b)
  <2>1. UNCHANGED fetch
    BY <1>3 DEF OfferAddress
  <2>2. \/ /\ desc_state = "FETCH_ADDR"
           /\ desc_state' \in {"FETCH_ADDR", "FETCH_DATA"}
        \/ /\ desc_state = "STREAM_ADDR"
           /\ desc_state' \in {"STREAM_ADDR", "STREAM_DATA"}
    BY <1>3 DEF OfferAddress
  <2> QED BY <2>1, <2>2, SameWords DEF fetch
<1>4. CASE AwaitData(w, b)
  BY <1>4, SameWords DEF AwaitData, fetch
<1>5. CASE TakeWord(w, b)
  <2>1. desc_stream_done' = 0 /\ desc_state' \in {"LAUNCH", "FETCH_ADDR"}
    BY <1>5 DEF TakeWord
  <2> QED BY <2>1
<1>6. CASE TakeStream(w, b)
  <2> DEFINE n == desc_stream_done
             len == Word0.len
  <2>1. /\ Refusal' = {} /\ Word0' = Word0 /\ Word0.stream
        /\ n \in Nat /\ n % 4 = 0 /\ n < len
    BY <1>6, SameWords DEF TakeStream
  <2>2. len \in Nat /\ len % 4 = 0
    BY <2>1, SameWords, WordLength, NotRefused, <1>6 DEF TakeStream
  <2>3. /\ desc_stream_done' = n + 4
        /\ desc_state' = IF n + 4 >= len THEN "LAUNCH" ELSE "STREAM_ADDR"
    BY <1>6 DEF TakeStream
  <2> HIDE DEF n, len
  <2>4. n + 4 >= len => n + 4 = len
    BY <2>1, <2>2
  <2>5. (n + 4) % 4 = 0 /\ n + 4 \in Nat
    BY <2>1
  <2> QED BY <2>1, <2>2, <2>3, <2>4, <2>5 DEF len
<1>7. CASE ReadFault(w, b) \/ Refuse(w) \/ TimeOut(w)
  <2>1. desc_state' = "IDLE" /\ UNCHANGED fetch
    BY <1>7 DEF ReadFault, Refuse, TimeOut
  <2> QED BY <2>1 DEF fetch
<1>8. CASE BeginStream(w)
  <2>1. /\ Refusal' = {} /\ Word0' = Word0 /\ Word0.stream
        /\ desc_stream_done = 0 /\ desc_stream_done' = 0
    BY <1>8, SameWords DEF BeginStream, fetch, NeedsStream
  <2>2. Word0.len # 0 /\ Word0.len \in Nat
    BY <1>8, <2>1, NotRefused, WordLength DEF BeginStream
  <2> QED BY <1>8, <2>1, <2>2 DEF BeginStream
<1>9. CASE Launch(w)
  BY <1>9, SameWords DEF Launch, fetch, NeedsStream
<1>10. CASE Await(w)
  BY <1>10, SameWords DEF Await, fetch
<1>11. CASE Advance(w)
  BY <1>11 DEF Advance
<1> QED BY <1>1, <1>2, <1>3, <1>4, <1>5, <1>6, <1>7, <1>8, <1>9, <1>10, <1>11 DEF NpuEdge
=============================================================================
