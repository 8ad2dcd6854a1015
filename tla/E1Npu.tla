-------------------------------- MODULE E1Npu --------------------------------
(***************************************************************************)
(* The NPU, rtl/npu/e1_npu.sv: a scalar engine, a GEMM sequencer on a      *)
(* scratchpad, and a descriptor engine that fetches commands from a ring   *)
(* in memory and runs them on the other two.  One step is one rising edge  *)
(* of clk with rst_n high; w is the register write on the MMIO port, b the *)
(* answers on the read master port.                                        *)
(*                                                                         *)
(* Words have no value here: a word read from memory is its address, the   *)
(* three operand registers are one value, and a result is the operation    *)
(* that was computed.  What the descriptor engine must understand of the   *)
(* word at an address is given by Control and Source.  The scratchpad's    *)
(* contents and the performance counters are left out.                     *)
(***************************************************************************)
EXTENDS Integers

CONSTANTS
  NpuWrites,      (* the register writes software may make                 *)
  Control,        (* address -> the fields of the word as a word 0         *)
  Source,         (* address -> the word as a stream source address        *)
  RingSize,       (* 8: DESC_HEAD and DESC_TAIL have 3 bits                *)
  DescWords,      (* 4: words of a descriptor                              *)
  ScratchBytes,   (* 64                                                    *)
  TimeoutLimit    (* 128: DESC_TIMEOUT_LIMIT                               *)

NoWrite == [reg |-> "NONE", val |-> <<0>>]

(* What is written has the width of its register.                          *)
Fits(w) ==
  /\ w.reg = "GEMM_CFG" => w.val \in (0 .. 3) \X (0 .. 3) \X (0 .. 7)
  /\ w.reg \in {"DESC_HEAD", "DESC_TAIL"} => w.val[1] \in 0 .. RingSize - 1
  /\ w.reg = "DESC_BASE" => w.val[1] \in Nat

ASSUME NpuAssumption ==
  /\ NoWrite \in NpuWrites /\ \A w \in NpuWrites : Fits(w)
  /\ \A a \in DOMAIN Control : Control[a].len \in Nat /\ Control[a].dst \in Nat
  /\ RingSize \in Nat \ {0} /\ DescWords \in Nat \ {0, 1}
  /\ ScratchBytes \in Nat /\ TimeoutLimit \in Nat

VARIABLES
  opcode, operands, gemm_cfg, gemm_base, gemm_stride,
  cmd_param, desc_base, desc_head,               (* what software programs *)
  busy, done, error,                             (* status[0], [1], [2]    *)
  busy_count, opcode_q, operands_q, result,      (* the scalar engine      *)
  gemm_busy, gemm_i, gemm_j, gemm_l,             (* the GEMM sequencer     *)
  desc_busy, desc_state, desc_tail,              (* the descriptor engine  *)
  desc_fetch_word, desc_words, desc_stream_done,
  desc_timeout_count, desc_status, desc_err_index

programmed == <<opcode, operands, gemm_cfg, gemm_base, gemm_stride,
                cmd_param, desc_base, desc_head>>
scalar == <<busy_count, opcode_q, operands_q, result>>
sweep  == <<gemm_i, gemm_j, gemm_l>>
engines == <<scalar, gemm_busy, sweep>>
fetch  == <<desc_fetch_word, desc_words, desc_stream_done>>
npuVars == <<programmed, busy, done, error, engines, desc_busy, desc_state,
             desc_tail, fetch, desc_timeout_count, desc_status,
             desc_err_index>>

GEMM == 8                       \* OP_GEMM_S8
ValidOp(op) == op <= GEMM
Latency(op) == IF op \in {4, 7} THEN 3 ELSE IF op \in {2, 3} THEN 2 ELSE 1

ZeroWord == -1                  \* a word of desc_words after reset
ZeroControl == [valid |-> FALSE, writeback |-> FALSE, op |-> 0,
                stream |-> FALSE, dst |-> 0, len |-> 0]

NpuInit ==
  /\ opcode = 0 /\ operands = 0
  /\ gemm_cfg = <<0, 0, 0>> /\ gemm_base = <<0, 0, 0>>
  /\ gemm_stride = <<0, 0, 0>>
  /\ cmd_param = 0 /\ desc_base = 0 /\ desc_head = 0
  /\ busy = FALSE /\ done = FALSE /\ error = FALSE
  /\ busy_count = 0 /\ opcode_q = 0 /\ operands_q = <<0>>
  /\ result = <<0, <<0>>>>
  /\ gemm_busy = FALSE /\ gemm_i = 0 /\ gemm_j = 0 /\ gemm_l = 0
  /\ desc_busy = FALSE /\ desc_state = "IDLE" /\ desc_tail = 0
  /\ desc_fetch_word = 0 /\ desc_stream_done = 0
  /\ desc_words = [i \in 0 .. DescWords - 1 |-> ZeroWord]
  /\ desc_timeout_count = 0 /\ desc_status = {"EMPTY"} /\ desc_err_index = 0

-----------------------------------------------------------------------------
(* Register writes.  They come last in the always block, so they win over  *)
(* what the engines assign on the same edge: a clear erases the completion *)
(* it meets, and a written DESC_TAIL replaces the advanced one.            *)

Put(w, name, old) == IF w.reg = name THEN w.val[1] ELSE old
PutAll(w, name, old) == IF w.reg = name THEN w.val ELSE old

StartBit(w) == w.reg = "CTRL" /\ w.val[1] = 1
ClearBit(w) == w.reg = "CTRL" /\ w.val[2] = 1

Configure(w) ==
  /\ opcode' = Put(w, "OPCODE", opcode)
  /\ operands' = Put(w, "OPERANDS", operands)
  /\ gemm_cfg' = PutAll(w, "GEMM_CFG", gemm_cfg)
  /\ gemm_base' = PutAll(w, "GEMM_BASE", gemm_base)
  /\ gemm_stride' = PutAll(w, "GEMM_STRIDE", gemm_stride)
  /\ cmd_param' = Put(w, "CMD_PARAM", cmd_param)
  /\ desc_base' = Put(w, "DESC_BASE", desc_base)
  /\ desc_head' = Put(w, "DESC_HEAD", desc_head)

Report(w, b, d, e) ==
  /\ busy' = b
  /\ done' = (d /\ ~ClearBit(w))
  /\ error' = (e /\ ~ClearBit(w))

RingReport(w, flags, index, count) ==
  /\ desc_status' = IF ClearBit(w) THEN {} ELSE flags
  /\ desc_err_index' = IF ClearBit(w) THEN 0 ELSE index
  /\ desc_timeout_count' = IF ClearBit(w) THEN 0 ELSE count

Tail(w, t) == desc_tail' = Put(w, "DESC_TAIL", t)

Carry(w) == Report(w, busy, done, error)
RingCarry(w, count) == RingReport(w, desc_status, desc_err_index, count)
RingRests(w) ==
  /\ RingCarry(w, desc_timeout_count)
  /\ Tail(w, desc_tail)
  /\ UNCHANGED <<desc_busy, desc_state, fetch>>

-----------------------------------------------------------------------------
(* The scalar engine and the GEMM sequencer.                               *)

InScratch(i, j, l) ==
  LET m == gemm_cfg[1]  n == gemm_cfg[2]  k == gemm_cfg[3]
      a == gemm_base[1] + i * gemm_stride[1] + l
      b == gemm_base[2] + l * gemm_stride[2] + j
      c == gemm_base[3] + i * gemm_stride[3] + 4 * j
  IN /\ m # 0 /\ n # 0 /\ k # 0
     /\ a < ScratchBytes /\ b < ScratchBytes
     /\ c + 3 < ScratchBytes /\ c % 4 = 0

gemm_cfg_ok == InScratch(gemm_i, gemm_j, gemm_l)

LastI == gemm_i = gemm_cfg[1] - 1
LastJ == gemm_j = gemm_cfg[2] - 1
LastL == gemm_l = gemm_cfg[3] - 1
GemmFault == gemm_busy /\ ~gemm_cfg_ok
GemmLast  == gemm_busy /\ gemm_cfg_ok /\ LastI /\ LastJ /\ LastL
EngineRuns == busy_count # 0 \/ gemm_busy
EngineFinishes == busy_count = 1 \/ GemmLast

(* One edge of both engines.  A multiply-accumulate moves the innermost    *)
(* index; a fault leaves the indices where they are.                       *)
ComputeLive ==   \* mutant of Compute: the operands are those of the moment
  /\ result' = IF busy_count = 1 THEN <<opcode_q, operands_q>> ELSE result
  /\ opcode_q' = opcode_q /\ operands_q' = <<operands>>
  /\ UNCHANGED sweep

Compute ==
  LET mac == gemm_busy /\ gemm_cfg_ok IN
  /\ result' = IF busy_count = 1 THEN <<opcode_q, operands_q>> ELSE result
  /\ gemm_l' = IF ~mac THEN gemm_l ELSE IF LastL THEN 0 ELSE (gemm_l + 1) % 8
  /\ gemm_j' = IF ~(mac /\ LastL) THEN gemm_j
               ELSE IF LastJ THEN 0 ELSE (gemm_j + 1) % 4
  /\ gemm_i' = IF ~(mac /\ LastL /\ LastJ) THEN gemm_i
               ELSE IF LastI THEN 0 ELSE (gemm_i + 1) % 4
  /\ UNCHANGED <<opcode_q, operands_q>>

RunEngines ==
  /\ Compute
  /\ busy_count' = IF busy_count = 0 THEN 0 ELSE busy_count - 1
  /\ gemm_busy' = (gemm_busy /\ ~GemmFault /\ ~GemmLast)

LaunchGemm ==
  /\ gemm_busy' = TRUE
  /\ gemm_i' = 0 /\ gemm_j' = 0 /\ gemm_l' = 0
  /\ UNCHANGED scalar

LaunchScalar(op, args) ==
  /\ busy_count' = Latency(op)
  /\ opcode_q' = op /\ operands_q' = args
  /\ UNCHANGED <<result, gemm_busy, sweep>>

-----------------------------------------------------------------------------
(* CTRL_STATUS.start is looked at only when all three engines rest; at any *)
(* other time it does nothing.                                             *)

Rests == ~EngineRuns /\ ~desc_busy
Accepts(w) == Rests /\ StartBit(w)
Register(w) == Accepts(w) /\ cmd_param # 1

StartScalar(w) ==
  /\ Register(w) /\ ValidOp(opcode) /\ opcode # GEMM
  /\ LaunchScalar(opcode, <<operands>>)
  /\ Report(w, TRUE, FALSE, FALSE)
  /\ RingRests(w)

\* mutant of StartGemm: the indices are not reset
StartGemmWarm(w) ==
  /\ Register(w) /\ opcode = GEMM /\ gemm_cfg_ok
  /\ gemm_busy' = TRUE /\ UNCHANGED <<scalar, sweep>>
  /\ Report(w, TRUE, FALSE, FALSE)
  /\ RingRests(w)

StartGemm(w) ==
  /\ Register(w) /\ opcode = GEMM /\ gemm_cfg_ok
  /\ LaunchGemm
  /\ Report(w, TRUE, FALSE, FALSE)
  /\ RingRests(w)

RejectStart(w) ==
  /\ Register(w)
  /\ ~ValidOp(opcode) \/ (opcode = GEMM /\ ~gemm_cfg_ok)
  /\ Report(w, FALSE, TRUE, TRUE)
  /\ RingRests(w)
  /\ UNCHANGED engines

RefuseRing(w) ==
  /\ Accepts(w) /\ cmd_param = 1
  /\ \/ desc_base % 4 # 0
        /\ RingReport(w, {"ERROR"}, desc_tail, desc_timeout_count)
     \/ desc_base % 4 = 0 /\ desc_head = desc_tail
        /\ RingReport(w, {"EMPTY"}, desc_tail, desc_timeout_count)
  /\ Report(w, FALSE, TRUE, TRUE)
  /\ Tail(w, desc_tail)
  /\ UNCHANGED <<engines, desc_busy, desc_state, fetch>>

\* mutant of StartRing: the timeout counts on from the run before
StartRingLate(w) ==
  /\ Accepts(w) /\ cmd_param = 1
  /\ desc_base % 4 = 0 /\ desc_head # desc_tail
  /\ desc_busy' = TRUE /\ desc_state' = "FETCH_ADDR"
  /\ desc_fetch_word' = 0 /\ desc_stream_done' = 0
  /\ Report(w, TRUE, FALSE, FALSE)
  /\ RingReport(w, {}, desc_tail, desc_timeout_count)
  /\ Tail(w, desc_tail)
  /\ UNCHANGED <<engines, desc_words>>

StartRing(w) ==
  /\ Accepts(w) /\ cmd_param = 1
  /\ desc_base % 4 = 0 /\ desc_head # desc_tail
  /\ desc_busy' = TRUE /\ desc_state' = "FETCH_ADDR"
  /\ desc_fetch_word' = 0 /\ desc_stream_done' = 0
  /\ Report(w, TRUE, FALSE, FALSE)
  /\ RingReport(w, {}, desc_tail, 0)
  /\ Tail(w, desc_tail)
  /\ UNCHANGED <<engines, desc_words>>

Rest(w) ==
  /\ Rests /\ ~StartBit(w)
  /\ Carry(w) /\ RingRests(w)
  /\ UNCHANGED engines

(* A command started from the registers runs without the ring.             *)

FinishCommand(w) ==
  /\ ~desc_busy /\ EngineFinishes
  /\ RunEngines /\ Report(w, FALSE, TRUE, FALSE) /\ RingRests(w)

FaultCommand(w) ==
  /\ ~desc_busy /\ GemmFault
  /\ RunEngines /\ Report(w, FALSE, TRUE, TRUE) /\ RingRests(w)

RunCommand(w) ==
  /\ ~desc_busy /\ EngineRuns /\ ~EngineFinishes /\ ~GemmFault
  /\ RunEngines /\ Carry(w) /\ RingRests(w)

-----------------------------------------------------------------------------
(* The descriptor engine.  It fetches from the ring at the DESC_BASE and   *)
(* DESC_TAIL of the moment, not at those of the start.                     *)

Word0 == IF desc_words[0] \in DOMAIN Control THEN Control[desc_words[0]]
                                             ELSE ZeroControl
StreamSource == IF desc_words[1] \in DOMAIN Source THEN Source[desc_words[1]]
                                                   ELSE 0
StreamOk ==
  Word0.stream => /\ StreamSource % 4 = 0 /\ Word0.dst % 4 = 0
                  /\ Word0.len # 0 /\ Word0.len % 4 = 0
                  /\ Word0.dst + Word0.len <= ScratchBytes
DescArgs == [i \in 1 .. DescWords - 1 |-> desc_words[i]]

arvalid == busy /\ desc_busy /\ desc_state \in {"FETCH_ADDR", "STREAM_ADDR"}
rready  == busy /\ desc_busy /\ desc_state \in {"FETCH_DATA", "STREAM_DATA"}
araddr  ==
  IF desc_state = "STREAM_ADDR" THEN StreamSource + desc_stream_done
  ELSE desc_base + 4 * DescWords * desc_tail + 4 * desc_fetch_word

TimedOut == desc_timeout_count >= TimeoutLimit

(* An edge of the descriptor engine that is in state s and in time.        *)
In(s) == desc_busy /\ ~TimedOut /\ desc_state = s

(* The counter and the rest of the ring on an edge that only moves on.     *)
Proceed(w) ==
  /\ RingCarry(w, desc_timeout_count + 1)
  /\ Tail(w, desc_tail)
  /\ Carry(w)
  /\ UNCHANGED desc_busy

AbortPast(w, flags) ==   \* mutant of Abort: steps over the descriptor
  /\ desc_busy' = FALSE /\ desc_state' = "IDLE"
  /\ Report(w, FALSE, TRUE, TRUE)
  /\ RingReport(w, flags \cup {"ERROR"}, desc_err_index,
                desc_timeout_count + 1)
  /\ Tail(w, (desc_tail + 1) % RingSize)
  /\ UNCHANGED fetch

Abort(w, flags) ==
  /\ desc_busy' = FALSE /\ desc_state' = "IDLE"
  /\ Report(w, FALSE, TRUE, TRUE)
  /\ RingReport(w, flags \cup {"ERROR"}, desc_err_index,
                desc_timeout_count + 1)
  /\ Tail(w, desc_tail)
  /\ UNCHANGED fetch

Still == ~EngineRuns /\ UNCHANGED engines   \* the engines run only in WAIT

OfferBlindly(w, b) ==   \* mutant of OfferAddress: does not wait for arready
  \E phase \in {<<"FETCH_ADDR", "FETCH_DATA">>,
                <<"STREAM_ADDR", "STREAM_DATA">>} :
    /\ In(phase[1])
    /\ desc_state' = phase[2]
    /\ Proceed(w) /\ Still
    /\ UNCHANGED fetch

OfferAddress(w, b) ==
  \E phase \in {<<"FETCH_ADDR", "FETCH_DATA">>,
                <<"STREAM_ADDR", "STREAM_DATA">>} :
    /\ In(phase[1])
    /\ desc_state' = IF b.arready THEN phase[2] ELSE phase[1]
    /\ Proceed(w) /\ Still
    /\ UNCHANGED fetch

AwaitData(w, b) ==
  /\ In("FETCH_DATA") \/ In("STREAM_DATA")
  /\ ~b.rvalid
  /\ Proceed(w) /\ Still
  /\ UNCHANGED <<desc_state, fetch>>

TakeWord(w, b) ==
  LET last == desc_fetch_word = DescWords - 1 IN
  /\ In("FETCH_DATA") /\ b.rvalid /\ b.rok
  /\ desc_words' = [desc_words EXCEPT ![desc_fetch_word] = b.rdata]
  /\ desc_fetch_word' = IF last THEN 0 ELSE desc_fetch_word + 1
  /\ desc_state' = IF last THEN "LAUNCH" ELSE "FETCH_ADDR"
  /\ Proceed(w) /\ Still
  /\ UNCHANGED desc_stream_done

TakeStream(w, b) ==
  /\ In("STREAM_DATA") /\ b.rvalid /\ b.rok
  /\ desc_stream_done' = desc_stream_done + 4
  /\ desc_state' = IF desc_stream_done + 4 >= Word0.len THEN "LAUNCH"
                                                       ELSE "STREAM_ADDR"
  /\ Proceed(w) /\ Still
  /\ UNCHANGED <<desc_fetch_word, desc_words>>

ReadFault(w, b) ==
  /\ b.rvalid /\ ~b.rok
  /\ \/ In("FETCH_DATA") /\ Abort(w, {"FETCH"})
     \/ In("STREAM_DATA") /\ Abort(w, {"FETCH", "STREAM"})
  /\ Still

RefusalLoose ==   \* mutant of Refusal: a writeback request is not refused
  IF ~Word0.valid THEN {"OWNER"}
  ELSE IF ~ValidOp(Word0.op) THEN {"DONE"}
  ELSE IF ~StreamOk THEN {"STREAM"}
  ELSE {}

(* What a fetched descriptor is refused for, in the order it is examined.  *)
Refusal ==
  IF ~Word0.valid THEN {"OWNER"}
  ELSE IF Word0.writeback THEN {"WRITEBACK"}
  ELSE IF ~ValidOp(Word0.op) THEN {"DONE"}
  ELSE IF ~StreamOk THEN {"STREAM"}
  ELSE {}

NeedsStream == Word0.stream /\ desc_stream_done = 0
BadGemm == Word0.op = GEMM /\ ~gemm_cfg_ok

Refuse(w) ==
  /\ In("LAUNCH")
  /\ \/ Refusal # {} /\ Abort(w, Refusal)
     \/ Refusal = {} /\ ~NeedsStream /\ BadGemm /\ Abort(w, {"DONE"})
  /\ Still

BeginStream(w) ==
  /\ In("LAUNCH") /\ Refusal = {} /\ NeedsStream
  /\ desc_state' = "STREAM_ADDR"
  /\ Proceed(w) /\ Still
  /\ UNCHANGED fetch

Launch(w) ==
  /\ In("LAUNCH") /\ Refusal = {} /\ ~NeedsStream /\ ~BadGemm
  /\ ~EngineRuns
  /\ IF Word0.op = GEMM THEN LaunchGemm ELSE LaunchScalar(Word0.op, DescArgs)
  /\ desc_state' = "WAIT"
  /\ Proceed(w)
  /\ UNCHANGED fetch

(* A fault of the sequencer reports itself, but the ring goes on waiting.  *)
Await(w) ==
  /\ In("WAIT")
  /\ RunEngines
  /\ desc_state' = IF EngineFinishes THEN "ADVANCE" ELSE "WAIT"
  /\ IF GemmFault THEN Report(w, FALSE, TRUE, TRUE) ELSE Carry(w)
  /\ RingCarry(w, desc_timeout_count + 1)
  /\ Tail(w, desc_tail)
  /\ UNCHANGED <<desc_busy, fetch>>

\* mutant of Advance: the tail is compared before it advances
AdvanceLate(w) ==
  LET next == (desc_tail + 1) % RingSize
      last == desc_tail = desc_head
  IN
  /\ In("ADVANCE")
  /\ Tail(w, next)
  /\ RingReport(w, {"DONE"}, desc_tail, 0)
  /\ desc_stream_done' = 0
  /\ desc_busy' = ~last
  /\ desc_state' = IF last THEN "IDLE" ELSE "FETCH_ADDR"
  /\ desc_fetch_word' = IF last THEN desc_fetch_word ELSE 0
  /\ IF last THEN Report(w, FALSE, TRUE, FALSE) ELSE Carry(w)
  /\ Still
  /\ UNCHANGED desc_words

Advance(w) ==
  LET next == (desc_tail + 1) % RingSize
      last == next = desc_head
  IN
  /\ In("ADVANCE")
  /\ Tail(w, next)
  /\ RingReport(w, {"DONE"}, desc_tail, 0)
  /\ desc_stream_done' = 0
  /\ desc_busy' = ~last
  /\ desc_state' = IF last THEN "IDLE" ELSE "FETCH_ADDR"
  /\ desc_fetch_word' = IF last THEN desc_fetch_word ELSE 0
  /\ IF last THEN Report(w, FALSE, TRUE, FALSE) ELSE Carry(w)
  /\ Still
  /\ UNCHANGED desc_words

\* mutant of TimeOut: the engine it waited for goes on
TimeOutAlone(w) ==
  /\ desc_busy /\ TimedOut
  /\ desc_busy' = FALSE /\ desc_state' = "IDLE"
  /\ RunEngines
  /\ Report(w, FALSE, TRUE, TRUE)
  /\ RingReport(w, {"ERROR", "TIMEOUT"}, desc_err_index,
                desc_timeout_count + 1)
  /\ Tail(w, desc_tail)
  /\ UNCHANGED fetch

\* mutant of TimeOut: error without done
TimeOutSilently(w) ==
  /\ desc_busy /\ TimedOut
  /\ desc_busy' = FALSE /\ desc_state' = "IDLE"
  /\ Compute /\ busy_count' = 0 /\ gemm_busy' = FALSE
  /\ Report(w, FALSE, FALSE, TRUE)
  /\ RingReport(w, {"ERROR", "TIMEOUT"}, desc_err_index,
                desc_timeout_count + 1)
  /\ Tail(w, desc_tail)
  /\ UNCHANGED fetch

TimeOutRetries(w) ==   \* mutant of TimeOut: the count starts over
  /\ desc_busy /\ TimedOut
  /\ Carry(w) /\ RingCarry(w, 0) /\ Tail(w, desc_tail)
  /\ UNCHANGED <<engines, desc_busy, desc_state, fetch>>

TimeOut(w) ==
  /\ desc_busy /\ TimedOut
  /\ desc_busy' = FALSE /\ desc_state' = "IDLE"
  /\ Compute /\ busy_count' = 0 /\ gemm_busy' = FALSE
  /\ Report(w, FALSE, TRUE, TRUE)
  /\ RingReport(w, {"ERROR", "TIMEOUT"}, desc_err_index,
                desc_timeout_count + 1)
  /\ Tail(w, desc_tail)
  /\ UNCHANGED fetch

NpuEdge(w, b) ==
  /\ Configure(w)
  /\ \/ StartScalar(w) \/ StartGemm(w) \/ RejectStart(w)
     \/ RefuseRing(w) \/ StartRing(w) \/ Rest(w)
     \/ FinishCommand(w) \/ FaultCommand(w) \/ RunCommand(w)
     \/ OfferAddress(w, b) \/ AwaitData(w, b)
     \/ TakeWord(w, b) \/ TakeStream(w, b) \/ ReadFault(w, b)
     \/ Refuse(w) \/ BeginStream(w) \/ Launch(w)
     \/ Await(w) \/ Advance(w) \/ TimeOut(w)
=============================================================================
