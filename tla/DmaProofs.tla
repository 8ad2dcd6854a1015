------------------------------ MODULE DmaProofs ------------------------------
(***************************************************************************)
(* What holds of DmaSystem for every address space, memory size, set of    *)
(* programmed values and number of jobs.                                   *)
(***************************************************************************)
EXTENDS DmaSystem, TLAPS

-----------------------------------------------------------------------------
(* The bus arithmetic.                                                     *)

(* An address that a 32-bit adder produces is an address.                  *)
LEMMA WrapType ==
  ASSUME NEW a \in Addr PROVE Wrap(a + 4) \in Addr
BY BusAssumption DEF BusAssumption, Addr, Wrap

(* A word read from memory, and memory after a write of some lanes of a    *)
(* word, are well-formed.                                                  *)
LEMMA WordType ==
  ASSUME NEW m \in [0 .. MemBytes - 1 -> Byte], NEW a \in Addr, Decodes(a)
  PROVE  WordAt(m, a) \in Beat
<1>1. ASSUME NEW i \in Lanes PROVE a + i \in 0 .. MemBytes - 1
  BY BusAssumption DEF BusAssumption, Decodes, Aligned, Lanes, Addr
<1> QED BY <1>1 DEF WordAt, Beat

LEMMA MergeType ==
  ASSUME NEW m \in [0 .. MemBytes - 1 -> Byte], NEW a \in Addr,
         NEW data \in Beat, NEW strb \in SUBSET Lanes
  PROVE  Merge(m, a, data, strb) \in [0 .. MemBytes - 1 -> Byte]
BY DEF Merge, Beat

LEMMA ConstantBeats == ZeroBeat \in Beat /\ Filler \in Beat
BY BusAssumption DEF BusAssumption, ZeroBeat, Filler, Beat, Byte

(* A register write carries a value of the register's range.               *)
LEMMA WriteType ==
  ASSUME NEW w \in Writes
  PROVE  /\ w.reg \in {"SRC", "DST"} => w.val \in Addresses
         /\ w.reg = "LEN" => w.val \in Lengths
<1>1. CASE w = NoWrite
  BY <1>1 DEF NoWrite
<1>2. CASE w \in [reg : {"SRC", "DST"}, val : Addresses]
  BY <1>2
<1>3. CASE w \in [reg : {"LEN"}, val : Lengths]
  BY <1>3
<1>4. CASE w \in [reg : {"CTRL"}, val : 0 .. 3]
  BY <1>4
<1> QED BY <1>1, <1>2, <1>3, <1>4 DEF Writes

-----------------------------------------------------------------------------
(* Type correctness.                                                       *)

(* Flags and numbers are proved apart: no one backend does both well.      *)
LEMMA EngineFlags ==
  ASSUME NEW w, NEW b, DmaFlags, DmaEdge(w, b)
  PROVE  DmaFlags'
<1> USE DEF DmaFlags, Carry, Clear, sent
<1>1. CASE AwaitRead(w, b)
  BY <1>1, Zenon DEF AwaitRead
<1>2. CASE TakeRead(w, b)
  BY <1>2, Zenon DEF TakeRead, StopWithError
<1>3. CASE IssueWrite(w, b)
  BY <1>3, Zenon DEF IssueWrite
<1>4. CASE AwaitResponse(w, b)
  BY <1>4, Zenon DEF AwaitResponse
<1>5. CASE WriteFault(w, b)
  BY <1>5, Zenon DEF WriteFault, StopWithError
<1>6. CASE NextBeat(w, b)
  BY <1>6, Zenon DEF NextBeat
<1>7. CASE LastBeat(w, b)
  BY <1>7, Zenon DEF LastBeat
<1>8. CASE Finish(w)
  BY <1>8, Zenon DEF Finish
<1>9. CASE Start(w)
  BY <1>9, Zenon DEF Start
<1>10. CASE Idle(w)
  BY <1>10, Zenon DEF Idle
<1> QED
  BY <1>1, <1>2, <1>3, <1>4, <1>5, <1>6, <1>7, <1>8, <1>9, <1>10, Zenon
  DEF DmaEdge

LEMMA EngineRegisters ==
  ASSUME NEW w \in Writes, NEW b, b.rdata \in Beat,
         DmaRegisters, DmaEdge(w, b)
  PROVE  DmaRegisters'
<1> USE DEF DmaRegisters, States, cursor, counters
<1>0. src' \in Addresses /\ dst' \in Addresses /\ len' \in Lengths
  BY WriteType DEF DmaEdge, Configure
<1>1. CASE AwaitRead(w, b)
  BY <1>0, <1>1 DEF AwaitRead
<1>2. CASE TakeRead(w, b)
  BY <1>0, <1>2 DEF TakeRead, StopWithError
<1>3. CASE IssueWrite(w, b)
  BY <1>0, <1>3 DEF IssueWrite
<1>4. CASE AwaitResponse(w, b)
  BY <1>0, <1>4 DEF AwaitResponse
<1>5. CASE WriteFault(w, b)
  BY <1>0, <1>5 DEF WriteFault, StopWithError
<1>6. CASE NextBeat(w, b)
  <2>1. cur_src' \in Addr /\ cur_dst' \in Addr
    BY <1>6, WrapType DEF NextBeat
  <2>2. remaining' \in Addr
    BY <1>6, BusAssumption DEF BusAssumption, NextBeat, Addr
  <2> QED BY <1>0, <1>6, <2>1, <2>2 DEF NextBeat
<1>7. CASE LastBeat(w, b)
  BY <1>0, <1>7, BusAssumption DEF BusAssumption, LastBeat, BeatBytes, Addr
<1>8. CASE Finish(w)
  BY <1>0, <1>8 DEF Finish
<1>9. CASE Start(w)
  BY <1>0, <1>9, DmaAssumption DEF DmaAssumption, Start
<1>10. CASE Idle(w)
  BY <1>0, <1>10 DEF Idle
<1> QED
  BY <1>1, <1>2, <1>3, <1>4, <1>5, <1>6, <1>7, <1>8, <1>9, <1>10
  DEF DmaEdge

LEMMA MemoryFlags ==
  ASSUME NEW m, NEW open, DramFlags, DramEdge(m, open)
  PROVE  DramFlags'
<1>1. CASE Collect(m, open)
  BY <1>1, Zenon
  DEF DramEdge, ReadChannels, AcceptRead, HoldRead, Collect, CaptureAddress,
      CaptureData, DramFlags, Decodes
<1>2. CASE Perform
  BY <1>2, Zenon
  DEF DramEdge, ReadChannels, AcceptRead, HoldRead, Perform, DramFlags, Decodes
<1> QED BY <1>1, <1>2 DEF DramEdge, WriteChannels

LEMMA MemoryRegisters ==
  ASSUME NEW m, NEW open, m.awaddr \in Addr, m.araddr \in Addr,
         m.wdata \in Beat, m.wstrb \in SUBSET Lanes,
         DramRegisters, DramEdge(m, open)
  PROVE  DramRegisters'
<1> USE DEF DramRegisters
<1>1. /\ mem' \in [0 .. MemBytes - 1 -> Byte]
      /\ write_addr_q' \in Addr /\ write_data_q' \in Beat
      /\ write_strb_q' \in SUBSET Lanes
  <2>1. CASE Collect(m, open)
    BY <2>1 DEF Collect, CaptureAddress, CaptureData
  <2>2. CASE Perform
    BY <2>2, MergeType DEF Perform
  <2> QED BY <2>1, <2>2 DEF DramEdge, WriteChannels
<1>2. rdata' \in Beat
  <2>1. CASE AcceptRead(m, open)
    BY <2>1, WordType, ConstantBeats DEF AcceptRead
  <2>2. CASE HoldRead(m, open)
    BY <2>2 DEF HoldRead
  <2> QED BY <2>1, <2>2 DEF DramEdge, ReadChannels
<1> QED BY <1>1, <1>2

LEMMA TypeInit == Init => TypeOK
<1> SUFFICES ASSUME Init PROVE TypeOK
  OBVIOUS
<1>1. DmaFlags /\ DramFlags
  BY Zenon DEF Init, DmaInit, DramInit, DmaFlags, DramFlags
<1>2. 0 \in Addr /\ 0 \in Byte
  BY BusAssumption DEF BusAssumption, Addr, Byte
<1>3. DmaRegisters
  BY <1>2, ConstantBeats, DmaAssumption
  DEF DmaAssumption, Init, DmaInit, DmaRegisters, States
<1>4. DramRegisters
  <2>1. \A a \in 0 .. MemBytes - 1 : a \in Byte
    BY BusAssumption DEF BusAssumption, Byte
  <2> QED BY <1>2, <2>1, ConstantBeats DEF Init, DramInit, DramRegisters
<1> QED BY <1>1, <1>2, <1>3, <1>4 DEF Init, TypeOK, DmaTypeOK, DramTypeOK

LEMMA TypeStep == TypeOK /\ [Next]_vars => TypeOK'
<1> SUFFICES ASSUME TypeOK, [Next]_vars PROVE TypeOK'
  OBVIOUS
<1> USE DEF TypeOK, DmaTypeOK, DramTypeOK
<1>1. CASE Next
  <2>1. PICK w \in Writes, open \in SUBSET Channels : Clock(w, open)
    BY <1>1 DEF Next
  <2>2. wstrb \in SUBSET Lanes
    BY BusAssumption
    DEF BusAssumption, wstrb, BeatBytes, Lanes, Addr, DmaRegisters
  <2>3. DmaFlags' /\ DramFlags'
    BY <2>1, EngineFlags, MemoryFlags DEF Clock
  <2>4. DmaRegisters'
    BY <2>1, EngineRegisters DEF Clock, FromDram, DramRegisters
  <2>5. DramRegisters'
    BY <2>1, <2>2, MemoryRegisters DEF Clock, FromDma, DmaRegisters
  <2>6. job' \in [src : Addr, dst : Addr, len : Addr] /\ jobs' \in Nat
    BY <2>1, DmaAssumption
    DEF DmaAssumption, Clock, Record, history, DmaRegisters
  <2> QED BY <2>3, <2>4, <2>5, <2>6
<1>2. CASE UNCHANGED vars
  BY <1>2 DEF vars, dmaVars, config, status, cursor, counters, sent,
              writeVars, readVars, history, DmaFlags, DmaRegisters,
              DramFlags, DramRegisters
<1> QED BY <1>1, <1>2

(* Every register of the engine and of the memory stays within its width   *)
(* and its encoding, whatever software writes and whenever it writes it.   *)
THEOREM TypeCorrect == Spec => []TypeOK
BY TypeInit, TypeStep, PTL DEF Spec
-----------------------------------------------------------------------------
(* The inductive invariant.  Its parts lean on each other: the accounting  *)
(* needs the FSM encoding, the bus pairing needs both, and the freshness   *)
(* of the word in flight needs the pairing.                                *)

LEMMA StatusStep ==
  ASSUME NEW w, NEW b, DmaTypeOK, StatusCoherent, DmaEdge(w, b)
  PROVE  StatusCoherent'
<1> USE DEF StatusCoherent, Carry, Clear, DmaTypeOK, DmaFlags
<1>1. CASE AwaitRead(w, b)
  BY <1>1 DEF AwaitRead
<1>2. CASE TakeRead(w, b)
  BY <1>2 DEF TakeRead, StopWithError
<1>3. CASE IssueWrite(w, b)
  BY <1>3 DEF IssueWrite
<1>4. CASE AwaitResponse(w, b)
  BY <1>4 DEF AwaitResponse
<1>5. CASE WriteFault(w, b)
  BY <1>5 DEF WriteFault, StopWithError
<1>6. CASE NextBeat(w, b)
  BY <1>6 DEF NextBeat
<1>7. CASE LastBeat(w, b)
  BY <1>7 DEF LastBeat
<1>8. CASE Finish(w)
  BY <1>8 DEF Finish
<1>9. CASE Start(w)
  BY <1>9 DEF Start
<1>10. CASE Idle(w)
  BY <1>10 DEF Idle
<1> QED
  BY <1>1, <1>2, <1>3, <1>4, <1>5, <1>6, <1>7, <1>8, <1>9, <1>10
  DEF DmaEdge

(* Advancing the cursor by a beat keeps it on the byte it designates.      *)
LEMMA WrapStep ==
  ASSUME NEW base \in Addr, NEW n \in Nat, n + 4 < AddrSpace
  PROVE  Wrap(Wrap(base + n) + 4) = Wrap(base + n + 4)
BY BusAssumption DEF BusAssumption, Addr, Wrap

LEMMA AccountingStep ==
  ASSUME NEW w, NEW b, TypeOK, StatusCoherent, Accounting,
         DmaEdge(w, b), Record(w)
  PROVE  Accounting'
<1> USE DEF Accounting, StatusCoherent, history
<1>0. DmaRegisters /\ job \in [src : Addr, dst : Addr, len : Addr]
  BY DEF TypeOK, DmaTypeOK
<1>a. ~Accepted(w) => job' = job
  BY DEF Record
<1>1. CASE AwaitRead(w, b)
  BY <1>1, <1>a DEF AwaitRead, Accepted, cursor, counters, Carry
<1>2. CASE TakeRead(w, b)
  <2>1. CASE b.rok
    BY <1>0, <1>2, <1>a, <2>1
    DEF TakeRead, StopWithError, Accepted, cursor, Carry, DmaRegisters
  <2>2. CASE ~b.rok
    BY <1>0, <1>2, <1>a, <2>2
    DEF TakeRead, StopWithError, Accepted, cursor, DmaRegisters
  <2> QED BY <2>1, <2>2
<1>3. CASE IssueWrite(w, b)
  BY <1>0, <1>3, <1>a DEF IssueWrite, Accepted, cursor, Carry, DmaRegisters
<1>4. CASE AwaitResponse(w, b)
  BY <1>4, <1>a DEF AwaitResponse, Accepted, cursor, counters, Carry
<1>5. CASE WriteFault(w, b)
  BY <1>5, <1>a DEF WriteFault, StopWithError, Accepted, cursor
<1>6. CASE NextBeat(w, b)
  <2>1. job' = job
    BY <1>6, <1>a DEF NextBeat, Accepted
  <2>2. bytes_done + 4 < AddrSpace
    BY <1>0, <1>6, BusAssumption
    DEF NextBeat, DmaRegisters, Addr, BusAssumption
  <2>3. cur_src' = Wrap(job.src + bytes_done + 4) /\
        cur_dst' = Wrap(job.dst + bytes_done + 4)
    <3>1. cur_src = Wrap(job.src + bytes_done) /\
          cur_dst = Wrap(job.dst + bytes_done)
      BY <1>0, <1>6, BusAssumption
      DEF NextBeat, DmaRegisters, Addr, BusAssumption
    <3>2. job.src \in Addr /\ job.dst \in Addr /\ bytes_done \in Nat
      BY <1>0 DEF DmaRegisters
    <3> HIDE DEF Accounting, StatusCoherent
    <3> QED BY <1>6, <2>2, <3>1, <3>2, WrapStep DEF NextBeat
  <2> QED
    BY <1>0, <1>6, <2>1, <2>3, BusAssumption
    DEF NextBeat, Carry, DmaRegisters, Addr, BusAssumption
<1>7. CASE LastBeat(w, b)
  <2>1. job' = job
    BY <1>7, <1>a DEF LastBeat, Accepted
  <2> QED
    BY <1>0, <1>7, <2>1, BusAssumption
    DEF LastBeat, BeatBytes, Carry, DmaRegisters, Addr, BusAssumption
<1>8. CASE Finish(w)
  BY <1>8, <1>a DEF Finish, Accepted, cursor, counters
<1>9. CASE Start(w)
  <2>1. job' = [src |-> src, dst |-> dst, len |-> len]
    BY <1>9 DEF Start, Record, Accepted
  <2>2. src \in Addr /\ dst \in Addr /\ len \in Addr
    BY <1>0, DmaAssumption DEF DmaAssumption, DmaRegisters
  <2>3. bytes_done' + remaining' = job'.len
    BY <1>9, <2>1, <2>2, BusAssumption DEF Start, Addr, BusAssumption
  <2>4. cur_src' = Wrap(job'.src + bytes_done') /\
        cur_dst' = Wrap(job'.dst + bytes_done')
    BY <1>9, <2>1, <2>2, BusAssumption DEF Start, Addr, Wrap, BusAssumption
  <2>5. bytes_done' % 4 = 0
    BY <1>9 DEF Start
  <2>6. busy' => Aligned(src) /\ Aligned(dst) /\ len # 0 /\ state' = "READ"
    BY <1>9 DEF Start
  <2>7. read_beats' = 0 /\ write_beats' = 0 /\ bytes_done' = 0 /\ remaining' = len
    BY <1>9 DEF Start
  <2> QED
    BY <2>1, <2>3, <2>4, <2>5, <2>6, <2>7
<1>10. CASE Idle(w)
  BY <1>10, <1>a DEF Idle, Accepted, cursor, counters, Carry
<1> QED
  BY <1>1, <1>2, <1>3, <1>4, <1>5, <1>6, <1>7, <1>8, <1>9, <1>10
  DEF DmaEdge

(* Each engine action against what the memory does on the same edge: the   *)
(* read channel, then the two halves of the write channel.                 *)
LEMMA ResponsesStep ==
  ASSUME NEW w, NEW open, TypeOK, StatusCoherent, Accounting, ResponsesMatch,
         DmaEdge(w, FromDram(open)), DramEdge(FromDma, open)
  PROVE  ResponsesMatch'
<1> DEFINE b == FromDram(open)
<1> USE DEF ResponsesMatch, StatusCoherent, FromDram, FromDma,
            arvalid, rready, awvalid, wvalid, bready, cursor, counters, sent
<1>0. DmaFlags /\ DramFlags
  BY DEF TypeOK, DmaTypeOK, DramTypeOK
<1>r. \/ arvalid /\ arready(open) /\ rvalid'
      \/ ~(arvalid /\ arready(open)) /\ (rvalid' <=> rvalid /\ ~rready)
  BY DEF DramEdge, ReadChannels, AcceptRead, HoldRead
<1>1. CASE AwaitRead(w, b)
  BY <1>0, <1>1, <1>r
  DEF AwaitRead, Carry, DmaFlags, DramFlags, arready, DramEdge, WriteChannels,
      Collect, Perform, CaptureAddress, CaptureData
<1>2. CASE TakeRead(w, b)
  BY <1>0, <1>2, <1>r
  DEF TakeRead, StopWithError, Carry, DmaFlags, DramFlags, arready, DramEdge,
      WriteChannels, Collect, Perform, CaptureAddress, CaptureData
<1>3. CASE IssueWrite(w, b)
  BY <1>0, <1>3, <1>r
  DEF IssueWrite, Carry, DmaFlags, DramFlags, awready, wready, DramEdge,
      WriteChannels, Collect, Perform, CaptureAddress, CaptureData,
      wstrb, BeatBytes
<1>4. CASE AwaitResponse(w, b)
  BY <1>0, <1>4, <1>r
  DEF AwaitResponse, Carry, DmaFlags, DramFlags, DramEdge, WriteChannels,
      Collect, Perform, CaptureAddress, CaptureData, wstrb, BeatBytes
<1>5. CASE WriteFault(w, b)
  BY <1>0, <1>5, <1>r
  DEF WriteFault, StopWithError, DmaFlags, DramFlags, DramEdge, WriteChannels,
      Collect, Perform, CaptureAddress, CaptureData
<1>6. CASE NextBeat(w, b)
  BY <1>0, <1>6, <1>r
  DEF NextBeat, Carry, DmaFlags, DramFlags, DramEdge, WriteChannels, Collect,
      Perform, CaptureAddress, CaptureData
<1>7. CASE LastBeat(w, b)
  BY <1>0, <1>7, <1>r
  DEF LastBeat, Carry, DmaFlags, DramFlags, DramEdge, WriteChannels, Collect,
      Perform, CaptureAddress, CaptureData
<1>8. CASE Finish(w)
  BY <1>0, <1>8, <1>r
  DEF Finish, DmaFlags, DramFlags, DramEdge, WriteChannels, Collect, Perform,
      CaptureAddress, CaptureData
<1>9. CASE Start(w)
  BY <1>0, <1>9, <1>r
  DEF Start, DmaFlags, DramFlags, DramEdge, WriteChannels, Collect, Perform,
      CaptureAddress, CaptureData
<1>10. CASE Idle(w)
  BY <1>0, <1>10, <1>r
  DEF Idle, Carry, DmaFlags, DramFlags, DramEdge, WriteChannels, Collect,
      Perform, CaptureAddress, CaptureData
<1> QED
  BY <1>1, <1>2, <1>3, <1>4, <1>5, <1>6, <1>7, <1>8, <1>9, <1>10
  DEF DmaEdge

(* While a word is in flight memory holds still, so the word stays fresh.  *)
LEMMA FreshStep ==
  ASSUME NEW w, NEW open, TypeOK, StatusCoherent, Accounting, ResponsesMatch,
         FreshWord, DmaEdge(w, FromDram(open)), DramEdge(FromDma, open)
  PROVE  FreshWord'
<1> DEFINE b == FromDram(open)
<1> USE DEF ResponsesMatch, StatusCoherent, FreshWord, FromDram, FromDma,
            arvalid, rready, awvalid, wvalid, bready, cursor, counters, sent
<1>0. DmaFlags /\ DramFlags
  BY DEF TypeOK, DmaTypeOK, DramTypeOK
<1>m. /\ state # "WRESP" \/ bvalid => mem' = mem
      /\ state = "WRESP" /\ ~bvalid =>
           /\ Perform
           /\ bvalid' /\ (bok' <=> Decodes(cur_dst))
      /\ bvalid' /\ bvalid => bok' = bok
      /\ bvalid' => bvalid \/ state = "WRESP"
  <2>1. CASE Collect(FromDma, open)
    BY <2>1 DEF Collect
  <2>2. CASE Perform
    <3>1. bvalid' /\ ~bvalid /\ state = "WRESP" /\ (bok' <=> Decodes(cur_dst))
      BY <2>2 DEF Perform
    <3> QED BY <2>2, <3>1
  <2> QED BY <2>1, <2>2 DEF DramEdge, WriteChannels
<1>r. /\ rvalid' => \/ /\ arvalid
                       /\ rok' <=> Decodes(cur_src)
                       /\ Decodes(cur_src) => rdata' = WordAt(mem, cur_src)
                    \/ rvalid /\ ~rready /\ rok' = rok /\ rdata' = rdata
  BY <1>0 DEF DramFlags, DramEdge, ReadChannels, AcceptRead, HoldRead
<1>1. CASE AwaitRead(w, b)
  BY <1>0, <1>1, <1>m, <1>r DEF AwaitRead, Carry
<1>2. CASE TakeRead(w, b)
  BY <1>0, <1>2, <1>m, <1>r DEF TakeRead, StopWithError, Carry
<1>3. CASE IssueWrite(w, b)
  BY <1>0, <1>3, <1>m, <1>r DEF IssueWrite, Carry
<1>4. CASE AwaitResponse(w, b)
  BY <1>0, <1>4, <1>m, <1>r DEF AwaitResponse, Carry
<1>5. CASE WriteFault(w, b)
  BY <1>0, <1>5, <1>m, <1>r DEF WriteFault, StopWithError
<1>6. CASE NextBeat(w, b)
  <2>1. ~bvalid' /\ ~rvalid' /\ state' = "READ"
    BY <1>0, <1>6, <1>r
    DEF NextBeat, DramEdge, WriteChannels, Collect, Perform
  <2> QED BY <2>1
<1>7. CASE LastBeat(w, b)
  <2>1. ~bvalid' /\ ~rvalid' /\ state' = "DONE"
    BY <1>0, <1>7, <1>r
    DEF LastBeat, DramEdge, WriteChannels, Collect, Perform
  <2> QED BY <2>1
<1>8. CASE Finish(w)
  BY <1>0, <1>8, <1>m, <1>r DEF Finish
<1>9. CASE Start(w)
  BY <1>0, <1>9, <1>m, <1>r DEF Start
<1>10. CASE Idle(w)
  BY <1>0, <1>10, <1>m, <1>r DEF Idle, Carry
<1> QED
  BY <1>1, <1>2, <1>3, <1>4, <1>5, <1>6, <1>7, <1>8, <1>9, <1>10
  DEF DmaEdge

-----------------------------------------------------------------------------
IInv == TypeOK /\ StatusCoherent /\ Accounting /\ ResponsesMatch /\ FreshWord

LEMMA InvInit == Init => IInv
<1> SUFFICES ASSUME Init PROVE IInv
  OBVIOUS
<1>1. TypeOK
  BY TypeInit
<1>2. 0 \in Addr /\ Wrap(0) = 0
  BY BusAssumption DEF BusAssumption, Addr, Wrap
<1> QED
  BY <1>1, <1>2
  DEF Init, DmaInit, DramInit, IInv, StatusCoherent, Accounting,
      ResponsesMatch, FreshWord

LEMMA InvStep == IInv /\ [Next]_vars => IInv'
<1> SUFFICES ASSUME IInv, [Next]_vars PROVE IInv'
  OBVIOUS
<1>1. TypeOK'
  BY TypeStep DEF IInv
<1>2. CASE Next
  <2>1. PICK w \in Writes, open \in SUBSET Channels : Clock(w, open)
    BY <1>2 DEF Next
  <2>2. StatusCoherent'
    BY <2>1, StatusStep DEF Clock, IInv, TypeOK
  <2>3. Accounting'
    BY <2>1, AccountingStep DEF Clock, IInv
  <2>4. ResponsesMatch'
    BY <2>1, ResponsesStep DEF Clock, IInv
  <2>5. FreshWord'
    BY <2>1, FreshStep DEF Clock, IInv
  <2> QED BY <1>1, <2>2, <2>3, <2>4, <2>5 DEF IInv
<1>3. CASE UNCHANGED vars
  <2>1. StatusCoherent' /\ Accounting'
    BY <1>3 DEF vars, dmaVars, status, cursor, counters, history, IInv,
                StatusCoherent, Accounting
  <2>2. ResponsesMatch' /\ FreshWord'
    BY <1>3 DEF vars, dmaVars, status, cursor, counters, sent, writeVars,
                readVars, IInv, ResponsesMatch, FreshWord, wstrb, BeatBytes
  <2> QED BY <1>1, <2>1, <2>2 DEF IInv
<1> QED BY <1>2, <1>3

THEOREM Invariance == Spec => []IInv
BY InvInit, InvStep, PTL DEF Spec

(* The request a transfer serves is the one that was accepted: landed plus *)
(* remaining bytes always make its length and the cursor stands where that *)
(* says, whatever SRC, DST and LEN have become.                            *)
THEOREM AccountingHolds == Spec => []Accounting
<1>1. IInv => Accounting
  BY DEF IInv
<1> QED BY <1>1, Invariance, PTL

(* No response and no half of a write ever belongs to another beat, and    *)
(* the word that is written is the word memory holds at the source.        *)
THEOREM WordInFlightHolds == Spec => []WordInFlight
<1>1. IInv => WordInFlight
  BY DEF IInv, WordInFlight
<1> QED BY <1>1, Invariance, PTL

(* A request the memory did not take stays: a channel's VALID falls only   *)
(* on the edge of its handshake, and the payload waits with it.            *)
LEMMA RequestStep ==
  ASSUME NEW w, NEW open, TypeOK, ResponsesMatch,
         DmaEdge(w, FromDram(open)), DramEdge(FromDma, open)
  PROVE  RequestsKept
<1> DEFINE b == FromDram(open)
<1> USE DEF ResponsesMatch, FromDram, FromDma, arvalid, rready, awvalid,
            wvalid, bready, cursor, counters, sent
<1>0. DmaFlags /\ DramFlags
  BY DEF TypeOK, DmaTypeOK, DramTypeOK
<1>1. CASE AwaitRead(w, b)
  BY <1>0, <1>1
  DEF RequestsKept, AwaitRead, Carry, DmaFlags, DramFlags, arready, DramEdge,
      ReadChannels, AcceptRead, HoldRead
<1>2. CASE TakeRead(w, b)
  BY <1>0, <1>2 DEF RequestsKept, TakeRead, DmaFlags, DramFlags
<1>3. CASE IssueWrite(w, b)
  BY <1>0, <1>3
  DEF RequestsKept, IssueWrite, Carry, DmaFlags, DramFlags, awready, wready,
      DramEdge, WriteChannels, Collect, Perform, CaptureAddress, CaptureData,
      wstrb, BeatBytes
<1>4. CASE ~busy \/ state \notin {"READ", "WRITE"}
  BY <1>4 DEF RequestsKept
<1> QED
  BY <1>0, <1>1, <1>2, <1>3, <1>4
  DEF DmaEdge, AwaitResponse, WriteFault, NextBeat, LastBeat, Finish, Start,
      Idle, DmaFlags

(* busy never falls without done rising on the same edge, even when that   *)
(* edge carries a clear; and no request on the bus is dropped or changed.  *)
THEOREM NothingIsDropped == Spec => NothingDropped
<1>1. ASSUME IInv, Next PROVE CompletionSeen /\ RequestsKept
  <2>1. PICK w \in Writes, open \in SUBSET Channels : Clock(w, open)
    BY <1>1 DEF Next
  <2>2. CompletionSeen
    BY <1>1, <2>1
    DEF CompletionSeen, Clock, DmaEdge, AwaitRead, TakeRead, IssueWrite,
        AwaitResponse, WriteFault, NextBeat, LastBeat, Finish, Start, Idle,
        Carry, StopWithError
  <2>3. RequestsKept
    BY <1>1, <2>1, RequestStep DEF Clock, IInv
  <2> QED BY <2>2, <2>3
<1>2. IInv /\ [Next]_vars => [CompletionSeen /\ RequestsKept]_vars
  BY <1>1
<1> QED BY <1>2, Invariance, PTL DEF Spec, NothingDropped

-----------------------------------------------------------------------------
(* The engine and the memory together implement CopyJob: every step of     *)
(* DmaSystem is a step of the job or leaves it alone.                      *)

(* While the engine runs, done and error are down and a clear does nothing.*)
LEMMA RunningStatus ==
  ASSUME NEW w, IInv, busy, Carry(w)
  PROVE  busy' = busy /\ done' = done /\ error' = error
BY DEF IInv, TypeOK, DmaTypeOK, DmaFlags, StatusCoherent, Carry, Clear

LEMMA JobKept ==
  ASSUME NEW w, busy, Record(w)
  PROVE  job' = job
BY DEF Record, Accepted, history

(* Memory changes, and a response appears, only while one is awaited.      *)
LEMMA MemoryStill ==
  ASSUME NEW open, IInv, DramEdge(FromDma, open),
         state # "WRESP" \/ bvalid
  PROVE  /\ mem' = mem
         /\ bok' = bok
         /\ bvalid' <=> bvalid /\ ~bready
<1>1. ~(write_addr_valid /\ write_data_valid /\ ~bvalid)
  BY DEF IInv, ResponsesMatch
<1>2. Collect(FromDma, open)
  BY <1>1 DEF DramEdge, WriteChannels, Perform
<1> QED BY <1>2 DEF Collect, FromDma

LEMMA LandedStill ==
  ASSUME bytes_done' = bytes_done, ~bvalid \/ ~bok, ~bvalid' \/ ~bok',
         bytes_done \in Nat
  PROVE  Landed' = bytes_done /\ Landed = bytes_done
BY DEF Landed

(* The cursor is where the job has got to.                                 *)
LEMMA CursorIsJob ==
  ASSUME IInv, busy, remaining > 0
  PROVE  /\ cur_src = Job!At(job.src, bytes_done)
         /\ cur_dst = Job!At(job.dst, bytes_done)
         /\ bytes_done < job.len
         /\ job.len - bytes_done = remaining
         /\ cur_src \in Addr /\ cur_dst \in Addr
         /\ Aligned(cur_src) /\ Aligned(cur_dst)
<1>1. /\ job.src \in Addr /\ job.dst \in Addr /\ job.len \in Addr
      /\ bytes_done \in Nat /\ remaining \in Nat
  BY BusAssumption
  DEF BusAssumption, IInv, TypeOK, DmaTypeOK, DmaRegisters, Addr
<1>2. /\ cur_src = Wrap(job.src + bytes_done)
      /\ cur_dst = Wrap(job.dst + bytes_done)
      /\ bytes_done % 4 = 0 /\ bytes_done + remaining = job.len
      /\ Aligned(job.src) /\ Aligned(job.dst)
  BY DEF IInv, Accounting
<1>3. bytes_done < AddrSpace
  BY <1>1, <1>2, BusAssumption DEF BusAssumption, Addr
<1>4. ASSUME NEW base \in Addr, Aligned(base)
      PROVE  Wrap(base + bytes_done) \in Addr /\ Aligned(Wrap(base + bytes_done))
  BY <1>1, <1>2, <1>3, <1>4, BusAssumption
  DEF BusAssumption, Addr, Wrap, Aligned
<1>5. ASSUME NEW base \in Addr
      PROVE  Job!At(base, bytes_done) = Wrap(base + bytes_done)
  BY <1>1, <1>5, BusAssumption DEF BusAssumption, Addr, Job!At, Wrap
<1> QED BY <1>1, <1>2, <1>4, <1>5

LEMMA RefinementInit == Init => Job!Init
BY DEF Init, DmaInit, DramInit, Job!Init, Landed

(* A write that memory performs is the next beat of the job, or leaves the *)
(* job where it is when the address does not decode.                       *)
LEMMA WriteIsBeat ==
  ASSUME NEW w, NEW open, IInv, AwaitResponse(w, FromDram(open)),
         DramEdge(FromDma, open), Record(w)
  PROVE  Job!CopyBeat \/ UNCHANGED Job!jobVars
<1>1. /\ busy /\ state = "WRESP" /\ ~bvalid
      /\ bytes_done' = bytes_done /\ remaining' = remaining
      /\ cur_dst' = cur_dst
      /\ busy' = busy /\ done' = done /\ error' = error /\ job' = job
  BY RunningStatus, JobKept DEF AwaitResponse, FromDram, counters, cursor
<1>2. /\ write_addr_q = cur_dst /\ write_data_q = WordAt(mem, cur_src)
      /\ write_strb_q = wstrb /\ write_addr_valid /\ write_data_valid
      /\ Decodes(cur_src)
  BY <1>1 DEF IInv, ResponsesMatch, FreshWord
<1>3. /\ bvalid' /\ (bok' <=> Decodes(cur_dst))
      /\ mem' = IF Decodes(cur_dst)
                THEN Merge(mem, cur_dst, WordAt(mem, cur_src), wstrb)
                ELSE mem
  BY <1>1, <1>2 DEF DramEdge, WriteChannels, Collect, Perform
<1>4. remaining > 0 /\ remaining \in Nat /\ bytes_done \in Nat
  BY <1>1, BusAssumption
  DEF BusAssumption, IInv, TypeOK, DmaTypeOK, DmaRegisters, Addr, Accounting
<1>5. Landed = bytes_done
  BY <1>1 DEF Landed, IInv, TypeOK, DmaTypeOK, DmaRegisters
<1>6. CASE Decodes(cur_dst)
  <2>1. Landed' = bytes_done + BeatBytes
    BY <1>1, <1>3, <1>6 DEF Landed, BeatBytes
  <2>2. /\ cur_src = Job!At(job.src, Landed) /\ cur_dst = Job!At(job.dst, Landed)
        /\ Landed < job.len /\ job.len - Landed = remaining
        /\ cur_src \in Addr /\ cur_dst \in Addr
    BY <1>1, <1>4, <1>5, CursorIsJob
  <2>3. cur_src + BeatBytes <= MemBytes /\ cur_dst + BeatBytes <= MemBytes
    BY <1>2, <1>4, <1>6, <2>2, BusAssumption
    DEF BusAssumption, Decodes, Aligned, BeatBytes, Addr
  <2>4. mem' = [a \in 0 .. MemBytes - 1 |->
                  IF a \in cur_dst .. cur_dst + BeatBytes - 1
                  THEN mem[cur_src + (a - cur_dst)] ELSE mem[a]]
    <3>1. ASSUME NEW a \in 0 .. MemBytes - 1
          PROVE  /\ a - cur_dst \in wstrb <=>
                      a \in cur_dst .. cur_dst + BeatBytes - 1
                 /\ a - cur_dst \in wstrb =>
                      WordAt(mem, cur_src)[a - cur_dst]
                        = mem[cur_src + (a - cur_dst)]
      BY <1>4, <2>2, BusAssumption
      DEF BusAssumption, wstrb, BeatBytes, WordAt, Lanes, Addr
    <3> QED BY <1>3, <1>6, <3>1 DEF Merge
  <2>5. BeatBytes = IF job.len - Landed >= 4 THEN 4 ELSE job.len - Landed
    BY <2>2 DEF BeatBytes
  <2> QED
    BY <1>1, <1>5, <2>1, <2>2, <2>3, <2>4, <2>5 DEF Job!CopyBeat
<1>7. CASE ~Decodes(cur_dst)
  <2>1. Landed' = Landed
    BY <1>1, <1>3, <1>4, <1>5, <1>7 DEF Landed
  <2> QED BY <1>1, <1>3, <1>7, <2>1 DEF Job!jobVars
<1> QED BY <1>6, <1>7

(* A transfer fails only where the job stands on an address that does not  *)
(* decode, and it leaves memory and the count alone.                       *)
LEMMA FaultIsFail ==
  ASSUME NEW w, NEW open, IInv, DramEdge(FromDma, open), Record(w),
         \/ TakeRead(w, FromDram(open)) /\ ~rok
         \/ WriteFault(w, FromDram(open))
  PROVE  Job!Fail
<1>1. /\ busy /\ ~busy' /\ done' /\ error' /\ job' = job
      /\ bytes_done' = bytes_done /\ remaining > 0
      /\ \/ state = "READ" /\ ~bvalid /\ ~Decodes(cur_src)
         \/ state = "WRESP" /\ bvalid /\ ~bok /\ ~Decodes(cur_dst)
  BY JobKept, BusAssumption
  DEF BusAssumption, IInv, TypeOK, DmaTypeOK, DmaRegisters, Addr, Accounting,
      ResponsesMatch, FreshWord, TakeRead, WriteFault, StopWithError, FromDram
<1>2. mem' = mem /\ Landed' = Landed /\ Landed = bytes_done
  <2>1. mem' = mem /\ bok' = bok /\ (bvalid' => bvalid)
    BY <1>1, MemoryStill
  <2> QED BY <1>1, <2>1, LandedStill
           DEF IInv, TypeOK, DmaTypeOK, DmaRegisters
<1>3. /\ cur_src = Job!At(job.src, Landed) /\ cur_dst = Job!At(job.dst, Landed)
      /\ Landed < job.len
      /\ cur_src \in Addr /\ cur_dst \in Addr
      /\ Aligned(cur_src) /\ Aligned(cur_dst)
  BY <1>1, <1>2, CursorIsJob
<1>4. cur_src >= MemBytes \/ cur_dst >= MemBytes
  BY <1>1, <1>3, BusAssumption DEF BusAssumption, Decodes, Addr
<1>5. busy' = FALSE /\ done' = TRUE /\ error' = TRUE
  BY Zenon DEF TakeRead, WriteFault, StopWithError, FromDram
<1> QED BY <1>1, <1>2, <1>3, <1>4, <1>5 DEF Job!Fail

(* On an edge that leaves the transfer running, or the engine idle, the    *)
(* job stutters: the engine only moves the beat along, or counts it.       *)
LEMMA RunningStutters ==
  ASSUME NEW w, NEW open, IInv, DramEdge(FromDma, open), Record(w),
         busy, Carry(w), state # "WRESP" \/ bvalid,
         bytes_done' + (IF bvalid' /\ bok' THEN BeatBytes' ELSE 0) = Landed
  PROVE  UNCHANGED Job!jobVars
BY RunningStatus, JobKept, MemoryStill DEF Job!jobVars, Landed

LEMMA RefinementStep == IInv /\ [Next]_vars => [Job!Next]_(Job!jobVars)
<1> SUFFICES ASSUME IInv, [Next]_vars PROVE [Job!Next]_(Job!jobVars)
  OBVIOUS
<1>0. bytes_done \in Nat /\ remaining \in Nat /\ DmaFlags
  BY BusAssumption
  DEF BusAssumption, IInv, TypeOK, DmaTypeOK, DmaRegisters, Addr
<1>1. CASE Next
  <2> PICK w \in Writes, open \in SUBSET Channels : Clock(w, open)
    BY <1>1 DEF Next
  <2> DEFINE b == FromDram(open)
  <2>0. DmaEdge(w, b) /\ DramEdge(FromDma, open) /\ Record(w)
    BY DEF Clock
  <2>1. CASE AwaitRead(w, b) \/ IssueWrite(w, b) \/ (TakeRead(w, b) /\ rok)
    <3>1. busy /\ Carry(w) /\ state # "WRESP" /\ ~bvalid
      BY <2>1, Zenon
      DEF AwaitRead, IssueWrite, TakeRead, FromDram, IInv, ResponsesMatch
    <3>2. bytes_done' = bytes_done /\ ~bvalid'
      BY <2>0, <2>1, <3>1, MemoryStill
      DEF AwaitRead, IssueWrite, TakeRead, counters
    <3>3. bytes_done' + (IF bvalid' /\ bok' THEN BeatBytes' ELSE 0) = Landed
      BY <3>1, <3>2 DEF Landed
    <3> QED BY <2>0, <3>1, <3>3, RunningStutters
  <2>2. CASE AwaitResponse(w, b)
    BY <2>0, <2>2, WriteIsBeat DEF Job!Next
  <2>3. CASE WriteFault(w, b) \/ (TakeRead(w, b) /\ ~rok)
    BY <2>0, <2>3, FaultIsFail DEF Job!Next
  <2>4. CASE NextBeat(w, b) \/ LastBeat(w, b)
    <3>1. busy /\ Carry(w) /\ bvalid /\ bok /\ bready
      BY <2>4 DEF NextBeat, LastBeat, FromDram, bready
    <3>2. ~bvalid'
      BY <2>0, <3>1, MemoryStill
    <3>3. bytes_done' = bytes_done + BeatBytes
      BY <1>0, <2>4 DEF NextBeat, LastBeat, BeatBytes
    <3>4. bytes_done' + (IF bvalid' /\ bok' THEN BeatBytes' ELSE 0) = Landed
      BY <1>0, <3>1, <3>2, <3>3 DEF Landed, BeatBytes
    <3> QED BY <2>0, <3>1, <3>4, RunningStutters
  <2>5. CASE Finish(w)
    <3>1. busy /\ state = "DONE" /\ ~bvalid /\ ~error /\ bytes_done = job.len
      BY <1>0, <2>5 DEF Finish, IInv, StatusCoherent, Accounting, ResponsesMatch,
                        TypeOK
    <3>2. mem' = mem /\ ~bvalid' /\ job' = job
      BY <2>0, <3>1, MemoryStill, JobKept
    <3>3. bytes_done' = bytes_done /\ busy' = FALSE /\ done' = TRUE
      BY <2>5 DEF Finish, counters
    <3>4. error' = error
      BY <3>1, <2>5, <1>0 DEF Finish, DmaFlags
    <3>5. Landed' = Landed /\ Landed = job.len
      BY <1>0, <3>1, <3>2, <3>3 DEF Landed
    <3> QED BY <3>1, <3>2, <3>3, <3>4, <3>5 DEF Job!Next, Job!Succeed
  <2>6. CASE Start(w)
    <3>1. ~busy /\ state = "IDLE" /\ ~bvalid
      BY <2>6 DEF Start, IInv, StatusCoherent, ResponsesMatch
    <3>2. mem' = mem /\ ~bvalid' /\ bytes_done' = 0
      BY <2>0, <2>6, <3>1, MemoryStill DEF Start
    <3>3. Landed' = 0
      BY <3>2 DEF Landed
    <3>4. job' = [src |-> src, dst |-> dst, len |-> len]
      BY <2>0, <2>6 DEF Start, Record, Accepted
    <3>5. job' \in [src : Addresses, dst : Addresses, len : Lengths]
      BY <3>4 DEF IInv, TypeOK, DmaTypeOK, DmaRegisters
    <3>6. Job!Misaligned(job') <=> ~Aligned(src) \/ ~Aligned(dst)
      BY <3>4 DEF Job!Misaligned, Aligned
    <3>7. /\ error' = Job!Misaligned(job')
          /\ done' = (Job!Misaligned(job') \/ job'.len = 0)
          /\ busy' = ~done'
      <4>1. job'.len = len
        BY <3>4
      <4>2. CASE ~Aligned(src) \/ ~Aligned(dst)
        BY <2>6, <3>6, <4>2, Zenon DEF Start, Job!Misaligned
      <4>3. CASE Aligned(src) /\ Aligned(dst) /\ len = 0
        BY <2>6, <3>6, <4>1, <4>3, Zenon DEF Start, Job!Misaligned
      <4>4. CASE Aligned(src) /\ Aligned(dst) /\ len # 0
        BY <2>6, <3>6, <4>1, <4>4, Zenon DEF Start, Job!Misaligned
      <4> QED BY <4>2, <4>3, <4>4
    <3>8. Job!Submit(job')
      BY <3>1, <3>2, <3>3, <3>7 DEF Job!Submit
    <3> QED BY <3>5, <3>8 DEF Job!Next
  <2>7. CASE Idle(w)
    <3>1. ~busy /\ state = "IDLE" /\ ~bvalid
      BY <2>7 DEF Idle, IInv, StatusCoherent, ResponsesMatch
    <3>2. mem' = mem /\ ~bvalid' /\ bytes_done' = bytes_done /\ job' = job
      BY <2>0, <2>7, <3>1, MemoryStill
      DEF Idle, counters, Record, Accepted, history
    <3>3. Landed' = Landed
      BY <3>1, <3>2 DEF Landed
    <3>4. CASE ClearBit(w)
      <4>1. done' = FALSE /\ error' = FALSE /\ busy' = busy
        BY <2>7, <3>4, Zenon DEF Idle, Carry, Clear
      <4> QED BY <3>1, <3>2, <3>3, <4>1 DEF Job!Next, Job!Acknowledge
    <3>5. CASE ~ClearBit(w)
      <4>1. done' = done /\ error' = error /\ busy' = busy
        BY <1>0, <2>7, <3>5, Zenon DEF Idle, Carry, Clear, DmaFlags
      <4> QED BY <3>2, <3>3, <4>1 DEF Job!jobVars
    <3> QED BY <3>4, <3>5
  <2> QED
    BY <2>0, <2>1, <2>2, <2>3, <2>4, <2>5, <2>6, <2>7 DEF DmaEdge
<1>2. CASE UNCHANGED vars
  BY <1>2 DEF vars, dmaVars, status, counters, cursor, writeVars, history,
              Job!jobVars, Landed, BeatBytes
<1> QED BY <1>1, <1>2

(* The engine and the memory implement the copy job: what a transfer moves *)
(* is what was accepted, in order and no byte beyond its length, it fails  *)
(* only on an address that does not decode with the count saying how far   *)
(* it got, and every end is reported.                                      *)
THEOREM DmaImplementsCopyJob == Spec => ImplementsCopyJob
BY RefinementInit, RefinementStep, Invariance, PTL
DEF Spec, ImplementsCopyJob, Job!Spec
=============================================================================
