------------------------------ MODULE NpuProofs ------------------------------
(***************************************************************************)
(* What holds of the NPU on its read port for every ring, memory, scratch- *)
(* pad and timeout, whatever software writes and however late the port     *)
(* answers.                                                                *)
(***************************************************************************)
EXTENDS NpuSystem, E1NpuProofs

(* What the scalar engine computes is what was accepted.                   *)
LEMMA CommandStep ==
  ASSUME NEW w, NEW b, StatusInv, CommandLatched, NpuEdge(w, b), Record(w)
  PROVE  CommandLatched'
<1> USE DEF CommandLatched, StatusInv, StatusTypes, EngineRuns
<1>1. CASE StartScalar(w)
  <2>1. ~desc_busy /\ desc_busy' = desc_busy
    BY <1>1 DEF StartScalar, Register, Accepts, Rests, RingRests
  <2>2. issued' = <<opcode, <<operands>>>>
    BY <1>1 DEF StartScalar, Record
  <2> QED BY <1>1, <2>1, <2>2 DEF StartScalar, LaunchScalar
<1>2. CASE StartGemm(w) \/ Stays \/ TimeOut(w)
  <2>1. busy_count' = 0
    BY <1>2 DEF StartGemm, Register, Accepts, Rests, LaunchGemm, scalar, engines, Stays,
                TimeOut
  <2> QED BY <2>1
<1>3. CASE Launch(w)
  <2>1. /\ desc_busy /\ desc_busy' = desc_busy
        /\ Word0' = Word0 /\ DescArgs' = DescArgs
    BY <1>3 DEF Launch, In, Proceed, fetch, Word0, DescArgs
  <2>2. CASE Word0.op = GEMM
    BY <1>3, <2>2 DEF Launch, LaunchGemm, scalar
  <2>3. CASE Word0.op # GEMM
    BY <1>3, <2>1, <2>3 DEF Launch, LaunchScalar
  <2> QED BY <2>2, <2>3
<1>4. CASE Runs
  <2>1. /\ desc_busy' = desc_busy /\ Word0' = Word0 /\ DescArgs' = DescArgs
        /\ opcode_q' = opcode_q /\ operands_q' = operands_q
    BY <1>4 DEF Runs, RunEngines, Compute, Word0, DescArgs
  <2>2. busy_count' # 0 => busy_count # 0
    BY <1>4 DEF Runs, RunEngines
  <2>3. busy_count # 0 => issued' = issued
    BY DEF Record, Register, Accepts, Rests
  <2> QED BY <2>1, <2>2, <2>3
<1> QED BY <1>1, <1>2, <1>3, <1>4, EnginesMove DEF EngineMoves

-----------------------------------------------------------------------------
(* The sequencer: its indices stay within the tile, and rest at the first  *)
(* product unless something stopped it midway.                             *)
SweepTypes ==
  /\ IndexTypes /\ macs \in Nat
  /\ reshaped \in BOOLEAN /\ stopped \in BOOLEAN

AtFirst == gemm_i = 0 /\ gemm_j = 0 /\ gemm_l = 0

SweepInv ==
  /\ SweepTypes
  /\ SweepInOrder
  /\ ~gemm_busy /\ ~stopped => AtFirst

LEMMA SweepStep ==
  ASSUME NEW w \in NpuWrites, NEW b, StatusInv, SweepInv, NpuEdge(w, b), Record(w)
  PROVE  SweepInv'
<1> USE DEF AtFirst
<1>0. /\ gemm_busy \in BOOLEAN /\ SweepTypes
      /\ gemm_cfg' = IF w.reg = "GEMM_CFG" THEN w.val ELSE gemm_cfg
      /\ macs' = IF ~gemm_busy THEN 0
                 ELSE IF gemm_cfg_ok /\ ~reshaped THEN macs + 1 ELSE macs
      /\ reshaped' = (w.reg \in {"GEMM_CFG", "GEMM_BASE", "GEMM_STRIDE"}
                      \/ (reshaped /\ gemm_busy))
      /\ stopped' = (~gemm_busy' /\ IF gemm_busy THEN ~GemmLast ELSE stopped)
  BY DEF StatusInv, StatusTypes, SweepInv, NpuEdge, Configure, PutAll, Record
<1>1. gemm_cfg' \in (0 .. 3) \X (0 .. 3) \X (0 .. 7)
  BY <1>0, NpuAssumption DEF NpuAssumption, Fits, SweepTypes, IndexTypes
<1>2. /\ macs' \in Nat /\ reshaped' \in BOOLEAN
      /\ stopped' \in BOOLEAN
  BY <1>0 DEF SweepTypes, IndexTypes, GemmLast, LastI, LastJ, LastL
<1>3. ~reshaped' => gemm_cfg' = gemm_cfg /\ (gemm_busy => ~reshaped)
  BY <1>0
<1>4. SUFFICES /\ gemm_i' \in Nat /\ gemm_j' \in Nat /\ gemm_l' \in Nat
               /\ gemm_busy' /\ ~reshaped' =>
                    /\ gemm_i' < gemm_cfg[1] /\ gemm_j' < gemm_cfg[2]
                    /\ gemm_l' < gemm_cfg[3]
                    /\ macs' = (gemm_i' * gemm_cfg[2] + gemm_j') * gemm_cfg[3] + gemm_l'
               /\ ~gemm_busy' /\ ~stopped' => AtFirst'
  BY <1>1, <1>2, <1>3 DEF SweepInv, SweepTypes, IndexTypes, SweepInOrder
<1>5. CASE StartScalar(w) \/ Stays
  <2>1. ~gemm_busy /\ gemm_busy' = gemm_busy /\ UNCHANGED sweep
    BY <1>5 DEF StartScalar, Register, Accepts, Rests, EngineRuns, LaunchScalar, Stays,
                engines
  <2> QED BY <1>0, <2>1 DEF SweepInv, SweepTypes, IndexTypes, sweep
<1>6. CASE StartGemm(w) \/ (Launch(w) /\ Word0.op = GEMM)
  <2>1. ~gemm_busy /\ gemm_busy' = TRUE /\ AtFirst' /\ gemm_cfg_ok
    BY <1>6 DEF StartGemm, Launch, Register, Accepts, Rests, EngineRuns, LaunchGemm,
                BadGemm
  <2>2. gemm_cfg[1] # 0 /\ gemm_cfg[2] # 0 /\ gemm_cfg[3] # 0
    BY <2>1 DEF gemm_cfg_ok, InScratch
  <2>3. gemm_cfg[1] \in Nat /\ gemm_cfg[2] \in Nat /\ gemm_cfg[3] \in Nat
    BY <1>0 DEF SweepTypes, IndexTypes
  <2> QED BY <1>0, <2>1, <2>2, <2>3
<1>7. CASE Launch(w) /\ Word0.op # GEMM
  <2>1. ~gemm_busy /\ gemm_busy' = gemm_busy /\ UNCHANGED sweep
    BY <1>7 DEF Launch, EngineRuns, LaunchScalar
  <2> QED BY <1>0, <2>1 DEF SweepInv, SweepTypes, IndexTypes, sweep
<1>8. CASE Runs \/ TimeOut(w)
  <2>1. /\ Compute
        /\ gemm_busy' = FALSE \/ gemm_busy' = (gemm_busy /\ ~GemmFault /\ ~GemmLast)
    BY <1>8 DEF Runs, RunEngines, TimeOut
  <2>2. CASE ~gemm_busy
    <3>1. gemm_busy' = FALSE /\ UNCHANGED sweep
      BY <2>1, <2>2 DEF Compute, sweep
    <3> QED BY <1>0, <2>2, <3>1 DEF SweepInv, SweepTypes, IndexTypes, sweep
  <2>3. CASE gemm_busy /\ ~gemm_cfg_ok
    <3>1. gemm_busy' = FALSE /\ UNCHANGED sweep /\ ~GemmLast
      BY <2>1, <2>3 DEF Compute, sweep, GemmFault, GemmLast
    <3> QED BY <1>0, <2>3, <3>1 DEF SweepTypes, IndexTypes, sweep
  <2>4. CASE gemm_busy /\ gemm_cfg_ok
    <3>0. IndexTypes
      BY <1>0 DEF SweepTypes
    <3>1. ~reshaped => InTile /\ macs = Position
      BY <2>4 DEF SweepInv, SweepInOrder, InTile, Position
    <3>2. /\ gemm_i' \in Nat /\ gemm_j' \in Nat /\ gemm_l' \in Nat
          /\ GemmLast => AtFirst'
          /\ ~GemmLast /\ ~reshaped =>
               /\ gemm_i' < gemm_cfg[1] /\ gemm_j' < gemm_cfg[2] /\ gemm_l' < gemm_cfg[3]
               /\ (gemm_i' * gemm_cfg[2] + gemm_j') * gemm_cfg[3] + gemm_l' = macs + 1
      BY <2>1, <2>4, <3>0, <3>1, Product
    <3>3. gemm_busy' => ~GemmLast
      BY <2>1
    <3>4. ~gemm_busy' /\ ~stopped' => GemmLast
      BY <1>0, <2>4
    <3> QED BY <1>0, <1>3, <2>4, <3>2, <3>3, <3>4
  <2> QED BY <2>2, <2>3, <2>4
<1> QED BY <1>5, <1>6, <1>7, <1>8, EnginesMove DEF EngineMoves

-----------------------------------------------------------------------------
(* The words of a descriptor: an answer is of the word that is awaited,    *)
(* since a request that timed out keeps the port until it is taken.        *)
SlotAt(i) == desc_base + 4 * DescWords * desc_tail + 4 * i

FetchInv ==
  /\ DOMAIN desc_words = 0 .. DescWords - 1
  /\ desc_fetch_word \in 0 .. DescWords - 1
  /\ pending \in BOOLEAN /\ rvalid \in BOOLEAN /\ rok \in BOOLEAN
  /\ meddled \in BOOLEAN
  /\ desc_busy /\ ~meddled =>
       /\ \A i \in 0 .. DescWords - 1 :
            \/ desc_state \in {"FETCH_ADDR", "FETCH_DATA"} /\ i >= desc_fetch_word
            \/ desc_words[i] = SlotAt(i)
       /\ desc_state = "FETCH_DATA" =>
            /\ pending => paddr = SlotAt(desc_fetch_word)
            /\ rvalid /\ rok => rdata = SlotAt(desc_fetch_word)

(* Where the ring points moves with software's writes and at the end of a  *)
(* descriptor only.                                                        *)
LEMMA SlotKept ==
  ASSUME NEW w, NEW b, NpuEdge(w, b), w.reg \notin {"DESC_TAIL", "DESC_BASE"},
         ~Advance(w)
  PROVE  desc_base' = desc_base /\ desc_tail' = desc_tail
<1>1. desc_base' = desc_base
  BY DEF NpuEdge, Configure, Put
<1>2. desc_tail' = desc_tail
  BY DEF NpuEdge, StartScalar, StartGemm, RejectStart, RefuseRing, StartRing, Rest,
         FinishCommand, FaultCommand, RunCommand, OfferAddress, AwaitData, TakeWord,
         TakeStream, ReadFault, Refuse, BeginStream, Launch, Await, TimeOut,
         RingRests, Proceed, Abort, Tail, Put
<1> QED BY <1>1, <1>2

LEMMA PortBits ==
  ASSUME NEW w, NEW open, FetchInv, SlaveEdge(open), Record(w)
  PROVE  /\ pending' \in BOOLEAN /\ rvalid' \in BOOLEAN /\ rok' \in BOOLEAN
         /\ meddled' \in BOOLEAN
BY Zenon DEF FetchInv, SlaveEdge, AcceptRead, AnswerRead, HoldRead, Readable, Record

LEMMA FetchShape ==
  ASSUME NEW w, NEW b, FetchInv, NpuEdge(w, b)
  PROVE  /\ DOMAIN desc_words' = 0 .. DescWords - 1
         /\ desc_fetch_word' \in 0 .. DescWords - 1
<1> DEFINE D == 0 .. DescWords - 1
<1>1. DescWords \in Nat \ {0, 1}
  BY NpuAssumption DEF NpuAssumption
<1>2. DOMAIN desc_words = D /\ desc_fetch_word \in D /\ 0 \in D
  BY <1>1 DEF FetchInv
<1>3. CASE TakeWord(w, b)
  <2>1. DOMAIN desc_words' = D
    BY <1>2, <1>3, Zenon DEF TakeWord
  <2>2. desc_fetch_word' \in D
    BY <1>1, <1>2, <1>3 DEF TakeWord
  <2> QED BY <2>1, <2>2
<1>4. CASE ~TakeWord(w, b)
  <2>1. desc_words' = desc_words /\ desc_fetch_word' \in {desc_fetch_word, 0}
    BY <1>4
    DEF NpuEdge, StartScalar, StartGemm, RejectStart, RefuseRing, StartRing, Rest,
        FinishCommand, FaultCommand, RunCommand, OfferAddress, AwaitData, TakeStream,
        ReadFault, Refuse, BeginStream, Launch, Await, Advance, TimeOut, RingRests,
        Abort, fetch
  <2> QED BY <1>2, <2>1
<1> QED BY <1>3, <1>4

LEMMA FetchStep ==
  ASSUME NEW w, NEW open, StatusInv, FetchInv,
         NpuEdge(w, FromSlave(open)), SlaveEdge(open), Record(w)
  PROVE  FetchInv'
<1> DEFINE b == FromSlave(open)
           D == 0 .. DescWords - 1
<1>0. /\ desc_state \in DescStates /\ (desc_busy <=> desc_state # "IDLE")
      /\ desc_busy /\ desc_state # "WAIT" => busy
      /\ busy \in BOOLEAN /\ desc_busy \in BOOLEAN
  BY DEF StatusInv, StatusTypes
<1>1. /\ b.arready = arready(open) /\ b.rvalid = rvalid /\ b.rok = rok
      /\ b.rdata = rdata
  BY DEF FromSlave
<1>2. NpuEdge(w, b)
  OBVIOUS
<1>3. /\ DOMAIN desc_words = D /\ desc_fetch_word \in D
      /\ pending \in BOOLEAN /\ rvalid \in BOOLEAN /\ rok \in BOOLEAN
  BY DEF FetchInv
<1>4. D \subseteq Int /\ D \subseteq Nat
  OBVIOUS
<1> HIDE DEF b
<1>5. SUFFICES ASSUME desc_busy', ~meddled'
      PROVE  /\ \A i \in D :
                  \/ /\ desc_state' \in {"FETCH_ADDR", "FETCH_DATA"}
                     /\ i >= desc_fetch_word'
                  \/ desc_words'[i] = SlotAt(i)'
             /\ desc_state' = "FETCH_DATA" =>
                  /\ pending' => paddr' = SlotAt(desc_fetch_word)'
                  /\ rvalid' /\ rok' => rdata' = SlotAt(desc_fetch_word)'
  BY <1>2, PortBits, FetchShape DEF FetchInv
<1>6. /\ w.reg \notin {"DESC_TAIL", "DESC_BASE"}
      /\ desc_busy => ~meddled
  BY <1>5 DEF Record
<1>7. CASE ~desc_busy \/ Advance(w)
  <2>1. desc_state' = "FETCH_ADDR" /\ desc_fetch_word' = 0
    <3>1. CASE Advance(w)
      BY <1>5, <3>1 DEF Advance
    <3>2. CASE ~desc_busy
      <4>1. StartRing(w)
        BY <1>2, <1>5, <3>2
        DEF NpuEdge, StartScalar, StartGemm, RejectStart, RefuseRing, Rest,
            FinishCommand, FaultCommand, RunCommand, OfferAddress, AwaitData, TakeWord,
            TakeStream, ReadFault, Refuse, BeginStream, Launch, Await, Advance, TimeOut,
            RingRests, In
      <4> QED BY <4>1 DEF StartRing
    <3> QED BY <1>7, <3>1, <3>2
  <2> QED BY <1>4, <2>1
<1>8. CASE desc_busy /\ ~Advance(w)
  <2>1. /\ \A i \in D :
             \/ desc_state \in {"FETCH_ADDR", "FETCH_DATA"} /\ i >= desc_fetch_word
             \/ desc_words[i] = SlotAt(i)
        /\ desc_state = "FETCH_DATA" =>
             /\ pending => paddr = SlotAt(desc_fetch_word)
             /\ rvalid /\ rok => rdata = SlotAt(desc_fetch_word)
    BY <1>6, <1>8 DEF FetchInv
  <2>2. desc_base' = desc_base /\ desc_tail' = desc_tail
    BY <1>2, <1>6, <1>8, SlotKept
  <2>3. /\ OfferAddress(w, b) /\ desc_state = "STREAM_ADDR" =>
             desc_state' = IF b.arready THEN "STREAM_DATA" ELSE "STREAM_ADDR"
        /\ OfferAddress(w, b) /\ desc_state = "FETCH_ADDR" =>
             desc_state' = IF b.arready THEN "FETCH_DATA" ELSE "FETCH_ADDR"
    <3>1. \A phase : phase = <<"FETCH_ADDR", "FETCH_DATA">> =>
                       phase[1] = "FETCH_ADDR" /\ phase[2] = "FETCH_DATA"
      OBVIOUS
    <3>2. \A phase : phase = <<"STREAM_ADDR", "STREAM_DATA">> =>
                       phase[1] = "STREAM_ADDR" /\ phase[2] = "STREAM_DATA"
      OBVIOUS
    <3> QED BY <3>1, <3>2 DEF OfferAddress, In
  <2>4. \A i \in D : SlotAt(i)' = SlotAt(i)
    BY <2>2 DEF SlotAt
  <2>5. CASE OfferAddress(w, b)
    <3>1. UNCHANGED fetch /\ desc_state \in {"FETCH_ADDR", "STREAM_ADDR"}
      BY <2>5 DEF OfferAddress, In
    <3>2. CASE desc_state = "STREAM_ADDR"
      <4>1. desc_state' \in {"STREAM_ADDR", "STREAM_DATA"}
        BY <2>3, <2>5, <3>2
      <4> QED BY <2>1, <2>4, <3>1, <3>2, <4>1 DEF fetch
    <3>3. CASE desc_state = "FETCH_ADDR"
      <4>1. desc_state' = IF arready(open) THEN "FETCH_DATA" ELSE "FETCH_ADDR"
        BY <1>1, <2>3, <2>5, <3>3
      <4>2. CASE arready(open)
        <5>1. arvalid
          BY <1>0, <1>8, <3>3 DEF arvalid
        <5>2. AcceptRead(open) /\ ~rvalid
          BY <4>2, <5>1 DEF SlaveEdge, AnswerRead, HoldRead, arready
        <5>3. paddr' = SlotAt(desc_fetch_word) /\ rvalid' = rvalid
          BY <3>3, <5>2 DEF AcceptRead, araddr, SlotAt
        <5>4. desc_fetch_word' = desc_fetch_word /\ desc_words' = desc_words
          BY <3>1 DEF fetch
        <5>5. SlotAt(desc_fetch_word)' = SlotAt(desc_fetch_word)
          BY <2>2, <5>4 DEF SlotAt
        <5> QED BY <2>1, <2>4, <3>3, <4>1, <4>2, <5>2, <5>3, <5>4, <5>5
      <4>3. CASE ~arready(open)
        BY <2>1, <2>4, <3>1, <3>3, <4>1, <4>3 DEF fetch
      <4> QED BY <4>2, <4>3
    <3> QED BY <3>1, <3>2, <3>3
  <2>6. CASE AwaitData(w, b)
    <3>1. UNCHANGED <<desc_state, fetch>> /\ ~rvalid
      BY <1>1, <2>6 DEF AwaitData
    <3>2. CASE desc_state = "FETCH_DATA"
      <4>1. ~arvalid
        BY <3>2 DEF arvalid
      <4>2. SlotAt(desc_fetch_word)' = SlotAt(desc_fetch_word)
        BY <2>2, <3>1 DEF SlotAt, fetch
      <4>3. /\ pending' => paddr' = SlotAt(desc_fetch_word)
            /\ rvalid' /\ rok' => rdata' = SlotAt(desc_fetch_word)
        <5>1. CASE AnswerRead(open)
          BY <2>1, <3>2, <5>1 DEF AnswerRead
        <5>2. CASE HoldRead(open)
          BY <1>3, <2>1, <3>1, <3>2, <5>2 DEF HoldRead
        <5> QED BY <4>1, <5>1, <5>2 DEF SlaveEdge, AcceptRead
      <4> QED BY <2>1, <2>4, <3>1, <3>2, <4>2, <4>3 DEF fetch
    <3>3. CASE desc_state # "FETCH_DATA"
      <4>1. desc_state = "STREAM_DATA"
        BY <2>6, <3>3 DEF AwaitData, In
      <4> QED BY <2>1, <2>4, <3>1, <4>1 DEF fetch
    <3> QED BY <3>2, <3>3
  <2>7. CASE TakeWord(w, b)
    <3>1. /\ desc_state = "FETCH_DATA" /\ rvalid /\ rok
          /\ desc_words' = [desc_words EXCEPT ![desc_fetch_word] = rdata]
          /\ desc_state' = IF desc_fetch_word = DescWords - 1 THEN "LAUNCH"
                                                              ELSE "FETCH_ADDR"
          /\ desc_fetch_word' = IF desc_fetch_word = DescWords - 1 THEN 0
                                ELSE desc_fetch_word + 1
      BY <1>1, <2>7 DEF TakeWord, In
    <3>2. \A i \in D : desc_words'[i] = IF i = desc_fetch_word THEN rdata ELSE desc_words[i]
      BY <1>3, <3>1, Zenon
    <3>3. rdata = SlotAt(desc_fetch_word)
      BY <2>1, <3>1
    <3>4. \A i \in D : i <= desc_fetch_word => desc_words'[i] = SlotAt(i)
      <4> SUFFICES ASSUME NEW i \in D, i <= desc_fetch_word
                   PROVE  desc_words'[i] = SlotAt(i)
        OBVIOUS
      <4>1. CASE i = desc_fetch_word
        BY <3>2, <3>3, <4>1
      <4>2. CASE i # desc_fetch_word
        BY <1>3, <2>1, <3>2, <4>2
      <4> QED BY <4>1, <4>2
    <3> QED BY <1>3, <2>4, <3>1, <3>4
  <2>8. CASE ~OfferAddress(w, b) /\ ~AwaitData(w, b) /\ ~TakeWord(w, b)
    <3>1. /\ desc_state \notin {"FETCH_ADDR", "FETCH_DATA"}
          /\ desc_state' \notin {"FETCH_ADDR", "FETCH_DATA"}
          /\ desc_words' = desc_words
      BY <1>0, <1>2, <1>5, <1>8, <2>8
      DEF NpuEdge, StartScalar, StartGemm, RejectStart, RefuseRing, StartRing, Rest,
          FinishCommand, FaultCommand, RunCommand, TakeStream, ReadFault, Refuse,
          BeginStream, Launch, Await, TimeOut, Register, Accepts, Rests, RingRests, In,
          Abort, fetch
    <3> QED BY <2>1, <2>4, <3>1
  <2> QED BY <2>5, <2>6, <2>7, <2>8
<1> QED BY <1>7, <1>8

-----------------------------------------------------------------------------
(* What the ring has retired.                                              *)
Slots == 0 .. RingSize - 1

AccountTypes ==
  /\ desc_tail \in Slots /\ desc_base \in Nat
  /\ first \in Slots /\ retired \in Slots
  /\ unretired \in BOOLEAN /\ meddled \in BOOLEAN

AccountInv == AccountTypes /\ RunAccounting

LEMMA NextSlot ==
  ASSUME NEW x \in Slots
  PROVE  /\ (x + 1) % RingSize = IF x + 1 = RingSize THEN 0 ELSE x + 1
         /\ (x + 1) % RingSize \in Slots /\ 0 \in Slots
<1>1. RingSize \in Nat \ {0} /\ x \in 0 .. RingSize - 1
  BY NpuAssumption DEF NpuAssumption, Slots
<1>2. CASE x + 1 = RingSize
  <2>1. RingSize % RingSize = 0
    BY <1>1
  <2> QED BY <1>1, <1>2, <2>1 DEF Slots
<1>3. CASE x + 1 # RingSize
  <2>1. x + 1 \in 0 .. RingSize - 1
    BY <1>1, <1>3
  <2>2. (x + 1) % RingSize = x + 1
    BY <1>1, <2>1
  <2> QED BY <1>1, <1>3, <2>1, <2>2 DEF Slots
<1> QED BY <1>2, <1>3

(* The edges on which the ring starts, and retires a descriptor.           *)
LEMMA RingMoves ==
  ASSUME NEW w, NEW b, StatusInv, NpuEdge(w, b)
  PROVE  /\ ~desc_busy /\ desc_busy' => StartRing(w)
         /\ In("ADVANCE") <=> Advance(w)
         /\ ~Advance(w) => desc_tail' = Put(w, "DESC_TAIL", desc_tail)
         /\ Advance(w) => desc_tail' = Put(w, "DESC_TAIL", (desc_tail + 1) % RingSize)
<1>1. ~desc_busy /\ desc_busy' => StartRing(w)
  BY DEF NpuEdge, StartScalar, StartGemm, RejectStart, RefuseRing, Rest, FinishCommand,
         FaultCommand, RunCommand, OfferAddress, AwaitData, TakeWord, TakeStream,
         ReadFault, Refuse, BeginStream, Launch, Await, Advance, TimeOut, RingRests, In
<1>2. In("ADVANCE") => Advance(w)
  <2>1. OfferAddress(w, b) => ~In("ADVANCE")
    BY DEF OfferAddress, In
  <2> QED
    BY <2>1
    DEF NpuEdge, StartScalar, StartGemm, RejectStart, RefuseRing, StartRing, Rest,
        FinishCommand, FaultCommand, RunCommand, AwaitData, TakeWord, TakeStream,
        ReadFault, Refuse, BeginStream, Launch, Await, TimeOut, In, Register, Accepts,
        Rests
<1>3. Advance(w) => /\ In("ADVANCE")
                    /\ desc_tail' = Put(w, "DESC_TAIL", (desc_tail + 1) % RingSize)
  BY DEF Advance, Tail
<1>4. ~Advance(w) => desc_tail' = Put(w, "DESC_TAIL", desc_tail)
  BY DEF NpuEdge, StartScalar, StartGemm, RejectStart, RefuseRing, StartRing, Rest,
         FinishCommand, FaultCommand, RunCommand, OfferAddress, AwaitData, TakeWord,
         TakeStream, ReadFault, Refuse, BeginStream, Launch, Await, TimeOut,
         RingRests, Proceed, Abort, Tail
<1> QED BY <1>1, <1>2, <1>3, <1>4

(* A launch takes a ring from LAUNCH to its wait; only a retirement or a   *)
(* stop ends the time between them.                                        *)
LEMMA BetweenLaunchAndRetirement ==
  ASSUME NEW w, NEW b, StatusInv, NpuEdge(w, b), desc_busy, desc_busy', ~Advance(w)
  PROVE  desc_state' \in {"WAIT", "ADVANCE"}
           <=> \/ desc_state = "LAUNCH" /\ desc_state' = "WAIT"
               \/ desc_state \in {"WAIT", "ADVANCE"}
<1>1. \/ OfferAddress(w, b) \/ AwaitData(w, b) \/ TakeWord(w, b) \/ TakeStream(w, b)
      \/ BeginStream(w) \/ Launch(w) \/ Await(w)
  BY DEF NpuEdge, StartScalar, StartGemm, RejectStart, RefuseRing, StartRing, Rest,
         FinishCommand, FaultCommand, RunCommand, ReadFault, Refuse, TimeOut, Abort,
         Register, Accepts, Rests
<1>2. CASE OfferAddress(w, b)
  <2>1. desc_state \in {"FETCH_ADDR", "STREAM_ADDR"}
    BY <1>2 DEF OfferAddress, In
  <2>2. desc_state' \in {"FETCH_ADDR", "FETCH_DATA", "STREAM_ADDR", "STREAM_DATA"}
    BY <1>2 DEF OfferAddress
  <2> QED BY <2>1, <2>2
<1>3. CASE AwaitData(w, b) \/ TakeWord(w, b) \/ TakeStream(w, b) \/ BeginStream(w)
  BY <1>3 DEF AwaitData, TakeWord, TakeStream, BeginStream, In
<1>4. CASE Launch(w) \/ Await(w)
  BY <1>4 DEF Launch, Await, In
<1> QED BY <1>1, <1>2, <1>3, <1>4

LEMMA AccountStep ==
  ASSUME NEW w \in NpuWrites, NEW b, StatusInv, AccountInv, NpuEdge(w, b), Record(w)
  PROVE  AccountInv'
<1> DEFINE starts == ~desc_busy /\ desc_busy'
           launches == desc_state = "LAUNCH" /\ desc_state' = "WAIT"
<1>1. /\ first' = IF starts THEN desc_tail ELSE first
      /\ retired' = IF starts THEN 0
                    ELSE IF In("ADVANCE") THEN (retired + 1) % RingSize ELSE retired
      /\ unretired' = (launches \/ (unretired /\ ~starts /\ ~In("ADVANCE")))
      /\ meddled' = (w.reg \in {"DESC_TAIL", "DESC_BASE"} \/ (meddled /\ ~starts))
  BY Zenon DEF Record
<1>2. /\ starts \in BOOLEAN /\ launches \in BOOLEAN
      /\ desc_busy \in BOOLEAN /\ In("ADVANCE") \in BOOLEAN
  BY DEF StatusInv, StatusTypes, In
<1>3. /\ starts => StartRing(w)
      /\ In("ADVANCE") <=> Advance(w)
      /\ ~Advance(w) => desc_tail' = Put(w, "DESC_TAIL", desc_tail)
      /\ Advance(w) => desc_tail' = Put(w, "DESC_TAIL", (desc_tail + 1) % RingSize)
  BY RingMoves
<1>4. /\ desc_tail \in Slots /\ first \in Slots /\ retired \in Slots /\ desc_base \in Nat
      /\ (desc_tail + 1) % RingSize = IF desc_tail + 1 = RingSize THEN 0 ELSE desc_tail + 1
      /\ (retired + 1) % RingSize = IF retired + 1 = RingSize THEN 0 ELSE retired + 1
      /\ (desc_tail + 1) % RingSize \in Slots /\ (retired + 1) % RingSize \in Slots
      /\ 0 \in Slots /\ unretired \in BOOLEAN /\ meddled \in BOOLEAN
  BY NextSlot DEF AccountInv, AccountTypes
<1>5. In("ADVANCE") => desc_busy /\ desc_state = "ADVANCE"
  BY DEF In
<1>6. AccountTypes'
  <2>1. desc_base' \in Nat
    BY <1>4, NpuAssumption DEF NpuEdge, Configure, Put, NpuAssumption, Fits
  <2>2. desc_tail' \in Slots
    BY <1>3, <1>4, NpuAssumption DEF Put, NpuAssumption, Fits, Slots
  <2>3. first' \in Slots /\ retired' \in Slots
    BY <1>1, <1>4
  <2>4. unretired' \in BOOLEAN /\ meddled' \in BOOLEAN
    BY <1>1, <1>2
  <2> QED BY <2>1, <2>2, <2>3, <2>4 DEF AccountTypes
<1>7. ASSUME ~meddled'
      PROVE  /\ \/ first' + retired' = desc_tail'
                \/ first' + retired' = desc_tail' + RingSize
             /\ desc_busy' => (unretired' <=> desc_state' \in {"WAIT", "ADVANCE"})
  <2>1. /\ w.reg # "DESC_TAIL" /\ (starts \/ ~meddled)
        /\ desc_tail' = IF Advance(w) THEN (desc_tail + 1) % RingSize ELSE desc_tail
    BY <1>1, <1>3, <1>7 DEF Put
  <2>2. CASE starts
    <3>1. ~Advance(w) /\ desc_state' = "FETCH_ADDR" /\ ~launches
      BY <1>3, <1>5, <2>2 DEF StartRing
    <3>2. first' = desc_tail /\ retired' = 0 /\ desc_tail' = desc_tail
      BY <1>1, <2>1, <2>2, <3>1
    <3>3. unretired' = FALSE
      BY <1>1, <2>2, <3>1
    <3> QED BY <1>4, <3>1, <3>2, <3>3 DEF Slots
  <2>3. CASE ~starts
    <3>1. /\ first + retired = desc_tail \/ first + retired = desc_tail + RingSize
          /\ desc_busy => (unretired <=> desc_state \in {"WAIT", "ADVANCE"})
      BY <2>1, <2>3 DEF AccountInv, RunAccounting
    <3>2. first' = first
      BY <1>1, <2>3
    <3>3. CASE Advance(w)
      <4>1. /\ retired' = (retired + 1) % RingSize /\ desc_tail' = (desc_tail + 1) % RingSize
            /\ desc_state' \notin {"WAIT", "ADVANCE"} /\ ~launches /\ unretired' = FALSE
        BY <1>1, <1>3, <1>5, <2>1, <2>3, <3>3 DEF Advance
      <4>2. RingSize \in Nat \ {0}
        BY NpuAssumption DEF NpuAssumption
      <4>3. \/ first' + retired' = desc_tail'
            \/ first' + retired' = desc_tail' + RingSize
        BY <1>4, <3>1, <3>2, <4>1, <4>2 DEF Slots
      <4> QED BY <4>1, <4>3
    <3>4. CASE ~Advance(w)
      <4>1. retired' = retired /\ desc_tail' = desc_tail /\ unretired' = (launches \/ unretired)
        BY <1>1, <1>2, <1>3, <1>4, <2>1, <2>3, <3>4
      <4>2. desc_busy' => /\ desc_busy
                          /\ desc_state' \in {"WAIT", "ADVANCE"}
                               <=> launches \/ desc_state \in {"WAIT", "ADVANCE"}
        BY <2>3, <3>4, BetweenLaunchAndRetirement
      <4> QED BY <3>1, <3>2, <4>1, <4>2
    <3> QED BY <3>3, <3>4
  <2> QED BY <2>2, <2>3
<1> QED BY <1>6, <1>7 DEF AccountInv, RunAccounting

-----------------------------------------------------------------------------
(* Together.  The surroundings are part of it: they say what may be        *)
(* written.                                                                *)
NpuInv ==
  /\ env \in Environments
  /\ StatusInv /\ CommandLatched /\ SweepInv /\ StreamInv /\ FetchInv /\ AccountInv

LEMMA NpuStarts == Init => NpuInv
<1> SUFFICES ASSUME Init PROVE NpuInv
  OBVIOUS
<1>1. NpuInit /\ env \in Environments
  BY DEF Init
<1>2. /\ gemm_cfg = <<0, 0, 0>> /\ desc_base = 0
      /\ busy_count = 0 /\ gemm_busy = FALSE /\ gemm_i = 0 /\ gemm_j = 0 /\ gemm_l = 0
      /\ desc_busy = FALSE /\ desc_state = "IDLE" /\ desc_tail = 0
      /\ desc_fetch_word = 0 /\ desc_stream_done = 0
      /\ desc_words = [i \in 0 .. DescWords - 1 |-> ZeroWord]
  BY <1>1, Zenon DEF NpuInit
<1>3. /\ pending = FALSE /\ rvalid = FALSE /\ rok = TRUE
      /\ first = 0 /\ retired = 0 /\ unretired = FALSE /\ meddled = FALSE
      /\ macs = 0 /\ reshaped = FALSE /\ stopped = FALSE
  BY Zenon DEF Init
<1>4. CommandLatched
  BY <1>2 DEF CommandLatched
<1>5. SweepInv
  <2>1. gemm_cfg \in (0 .. 3) \X (0 .. 3) \X (0 .. 7)
    BY <1>2
  <2>2. SweepTypes /\ AtFirst
    BY <1>2, <1>3, <2>1 DEF SweepTypes, IndexTypes, AtFirst
  <2>3. SweepInOrder
    BY <1>2, Zenon DEF SweepInOrder
  <2> QED BY <2>2, <2>3 DEF SweepInv
<1>6. StreamInv
  BY <1>2 DEF StreamInv
<1>7. FetchInv
  <2>1. DescWords \in Nat \ {0, 1}
    BY NpuAssumption DEF NpuAssumption
  <2>2. 0 \in 0 .. DescWords - 1
    BY <2>1
  <2> QED BY <1>2, <1>3, <2>2 DEF FetchInv
<1>8. AccountInv
  <2>1. 0 \in Slots
    BY NpuAssumption DEF NpuAssumption, Slots
  <2>2. AccountTypes
    BY <1>2, <1>3, <2>1 DEF AccountTypes
  <2>3. RunAccounting
    BY <1>2, <1>3 DEF RunAccounting
  <2> QED BY <2>2, <2>3 DEF AccountInv
<1> QED BY <1>1, <1>4, <1>5, <1>6, <1>7, <1>8, StatusStarts DEF NpuInv

LEMMA NpuStep == NpuInv /\ [Next]_vars => NpuInv'
<1> SUFFICES ASSUME NpuInv, [Next]_vars PROVE NpuInv'
  OBVIOUS
<1>1. CASE Next
  <2>1. PICK w \in env.writes, open \in env.fabric : Clock(w, open)
    BY <1>1 DEF Next
  <2>2. /\ NpuEdge(w, FromSlave(open)) /\ SlaveEdge(open) /\ Record(w)
        /\ env' = env
    BY <2>1 DEF Clock
  <2>3. w \in NpuWrites
    BY SystemAssumption DEF SystemAssumption, NpuInv
  <2>4. StatusInv'
    BY <2>2, StatusStep DEF NpuInv
  <2>5. CommandLatched'
    BY <2>2, CommandStep DEF NpuInv
  <2>6. SweepInv'
    BY <2>2, <2>3, SweepStep DEF NpuInv
  <2>7. StreamInv'
    BY <2>2, StreamStep DEF NpuInv
  <2>8. FetchInv'
    BY <2>2, FetchStep DEF NpuInv
  <2>9. AccountInv'
    BY <2>2, <2>3, AccountStep DEF NpuInv
  <2> QED BY <2>2, <2>4, <2>5, <2>6, <2>7, <2>8, <2>9 DEF NpuInv
<1>2. CASE UNCHANGED vars
  <2> USE <1>2 DEF vars, npuVars, slave, history, programmed, engines, scalar, sweep,
                   fetch, NpuInv
  <2>1. StatusInv'
    BY SameWords DEF StatusInv, StatusTypes, EngineRuns
  <2>2. CommandLatched'
    BY SameWords DEF CommandLatched
  <2>3. SweepInv'
    BY DEF SweepInv, SweepTypes, IndexTypes, SweepInOrder, AtFirst
  <2>4. StreamInv'
    BY SameWords DEF StreamInv
  <2>5. FetchInv'
    BY DEF FetchInv, SlotAt
  <2>6. AccountInv'
    BY DEF AccountInv, AccountTypes, RunAccounting
  <2> QED BY <2>1, <2>2, <2>3, <2>4, <2>5, <2>6
<1> QED BY <1>1, <1>2

LEMMA NpuAlways == Spec => []NpuInv
BY NpuStarts, NpuStep, PTL DEF Spec

(* What a command was given stays what it works on: the scalar engine its  *)
(* latched operands, the sequencer its order, the descriptor engine the    *)
(* words of its slot; and a stopped sweep alone can keep a GEMM from       *)
(* starting.                                                               *)
THEOREM InputsAlwaysHold == Spec => []InputsHold
<1>1. NpuInv => InputsHold
  <2> SUFFICES ASSUME NpuInv PROVE InputsHold
    OBVIOUS
  <2>1. CommandLatched /\ SweepInOrder
    BY DEF NpuInv, SweepInv
  <2>2. DescriptorWhole
    BY DEF NpuInv, FetchInv, DescriptorWhole, SlotAt
  <2>3. GoodGemmStarts
    BY DEF NpuInv, SweepInv, AtFirst, GoodGemmStarts, gemm_cfg_ok
  <2> QED BY <2>1, <2>2, <2>3 DEF InputsHold
<1> QED BY <1>1, NpuAlways, PTL

(* What the ring shows is so: busy and its engine, the descriptor at the   *)
(* tail that runs, and the tail that counts what was retired.              *)
THEOREM RingAlwaysHonest == Spec => []RingHonest
<1>1. NpuInv => RingHonest
  <2> SUFFICES ASSUME NpuInv PROVE RingHonest
    OBVIOUS
  <2>1. StatusHonest
    BY DEF NpuInv, StatusInv, StatusTypes, StatusHonest, EngineRuns, Rests
  <2>2. OnlyRunnable
    <3> DEFINE at == desc_base + 4 * DescWords * desc_tail
    <3> SUFFICES ASSUME desc_busy, ~meddled, desc_state \in {"WAIT", "ADVANCE"}
                 PROVE  /\ at \in DOMAIN Control
                        /\ Control[at].valid /\ ~Control[at].writeback
                        /\ ValidOp(Control[at].op)
                        /\ Control[at].stream => desc_stream_done = Control[at].len
      BY DEF OnlyRunnable
    <3>1. DescWords \in Nat \ {0, 1} /\ RingSize \in Nat \ {0}
      BY NpuAssumption DEF NpuAssumption
    <3>2. desc_words[0] = SlotAt(0)
      <4>1. 0 \in 0 .. DescWords - 1
        BY <3>1
      <4> QED BY <4>1 DEF NpuInv, FetchInv
    <3>3. SlotAt(0) = at
      BY <3>1 DEF SlotAt, NpuInv, AccountInv, AccountTypes, Slots
    <3>4. Refusal = {} /\ (Word0.stream => desc_stream_done = Word0.len)
      BY DEF NpuInv, StreamInv
    <3>5. Word0.valid /\ ~Word0.writeback /\ ValidOp(Word0.op)
      BY <3>4, NotRefused
    <3>6. desc_words[0] \in DOMAIN Control
      BY <3>5 DEF Word0, ZeroControl
    <3>7. Word0 = Control[at]
      BY <3>2, <3>3, <3>6 DEF Word0
    <3> QED BY <3>2, <3>3, <3>4, <3>5, <3>6, <3>7
  <2>3. RunAccounting
    BY DEF NpuInv, AccountInv
  <2> QED BY <2>1, <2>2, <2>3 DEF RingHonest
<1> QED BY <1>1, NpuAlways, PTL

(* A run that ends with its success alone in the status has brought the    *)
(* tail to the head.                                                       *)
THEOREM SuccessAlwaysDrains == Spec => SuccessDrains
<1>1. ASSUME [Next]_vars, desc_busy, ~desc_busy', desc_status' = {"DONE"}, ~meddled'
      PROVE  desc_tail' = desc_head
  <2>1. Next
    BY <1>1 DEF vars, npuVars
  <2>2. PICK w \in env.writes, open \in env.fabric : Clock(w, open)
    BY <2>1 DEF Next
  <2>3. NpuEdge(w, FromSlave(open)) /\ Record(w)
    BY <2>2 DEF Clock
  <2>4. w.reg # "DESC_TAIL"
    BY <1>1, <2>3 DEF Record
  <2>5. \A flags : flags \cup {"ERROR"} # {"DONE"}
    OBVIOUS
  <2>6. ~ReadFault(w, FromSlave(open)) /\ ~Refuse(w) /\ ~TimeOut(w)
    <3>1. \A flags : ~Abort(w, flags)
      BY <1>1, <2>5 DEF Abort, RingReport
    <3> QED BY <1>1, <3>1 DEF ReadFault, Refuse, TimeOut, RingReport
  <2>7. Advance(w)
    BY <1>1, <2>3, <2>6
    DEF NpuEdge, StartScalar, StartGemm, RejectStart, RefuseRing, StartRing, Rest,
        FinishCommand, FaultCommand, RunCommand, OfferAddress, AwaitData, TakeWord,
        TakeStream, BeginStream, Launch, Await, RingRests, Proceed
  <2> QED BY <1>1, <2>4, <2>7 DEF Advance, Tail, Put
<1>2. [Next]_vars => [desc_busy /\ ~desc_busy' /\ desc_status' = {"DONE"} /\ ~meddled'
                        => desc_tail' = desc_head]_vars
  BY <1>1
<1> QED BY <1>2, PTL DEF Spec, SuccessDrains

(* Where software leaves the registers alone while it reads busy, busy     *)
(* never goes down without done.                                           *)
THEOREM CompletionAlwaysSeen ==
  ASSUME \A e \in Environments : e.polite
  PROVE  Spec => CompletionSeen
<1>1. ASSUME NpuInv, [Next]_vars, busy, ~busy' PROVE done'
  <2>1. Next
    BY <1>1 DEF vars, npuVars
  <2>2. PICK w \in env.writes, open \in env.fabric : Clock(w, open)
    BY <2>1 DEF Next
  <2>3. NpuEdge(w, FromSlave(open)) /\ w = NoWrite
    BY <1>1, <2>2 DEF Clock, NpuInv
  <2>4. ~ClearBit(w)
    BY <2>3 DEF ClearBit, NoWrite
  <2>5. /\ ~Carry(w)
        /\ \A b, d, e : Report(w, b, d, e) => busy' = b /\ done' = (d /\ ~ClearBit(w))
    BY <1>1 DEF Carry, Report
  <2>6. \E e : Report(w, FALSE, TRUE, e)
    <3>1. \A e : ~Report(w, TRUE, FALSE, e)
      BY <1>1 DEF Report
    <3> QED
      BY <2>3, <2>5, <3>1
      DEF NpuEdge, StartScalar, StartGemm, RejectStart, RefuseRing, StartRing, Rest,
          FinishCommand, FaultCommand, RunCommand, OfferAddress, AwaitData, TakeWord,
          TakeStream, ReadFault, Refuse, BeginStream, Launch, Await, Advance, TimeOut,
          Proceed, Abort
  <2> QED BY <2>4, <2>5, <2>6
<1>2. NpuInv /\ [Next]_vars => [busy /\ ~busy' => done']_vars
  BY <1>1
<1> QED BY <1>2, NpuAlways, PTL DEF Spec, CompletionSeen
=============================================================================
