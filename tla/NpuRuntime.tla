----------------------------- MODULE NpuRuntime -----------------------------
(***************************************************************************)
(* The reference runtime of the NPU, compiler/runtime/e1_npu_runtime.py:   *)
(* scalar commands, GEMMs and descriptor rings, one call after the other,  *)
(* each a sequence of register writes, a bounded poll of CTRL_STATUS and a *)
(* read of what the command left.  The NPU below it is the one of E1Npu    *)
(* (rtl/npu/e1_npu.sv), reduced to what a register write or a read can     *)
(* tell: it starts only when it rests, takes the operands of a scalar      *)
(* command when it starts and those of a GEMM while it runs, and answers   *)
(* after any number of polls.                                              *)
(*                                                                         *)
(* A value is the call it is of: a register that holds call 2's operands   *)
(* holds 2, and so does the result that was computed from them.            *)
(***************************************************************************)
EXTENDS Naturals, Sequences

CONSTANTS
    Polls,        \* timeout_polls of a call
    Dims,         \* dimensions m, n, k a caller may ask of a GEMM
    Streams,      \* stream descriptors (offset, bytes) a caller may pack
    MaxCalls      \* bound: calls made

ScratchSize == 64
GemmOp == "gemm"

ASSUME RuntimeAssumption ==
    /\ Polls \in Nat \ {0} /\ MaxCalls \in Nat
    /\ \A d \in Dims : d \in [m : Nat, n : Nat, k : Nat]
    /\ \A s \in Streams : s \in [offset : Nat, bytes : Nat]

VARIABLES
    regs,      \* what the runtime programmed
    engine,    \* what the NPU is doing
    status,    \* CTRL_STATUS.done, .error
    call,      \* the call that is being made
    answer     \* how the last call ended
runtimeVars == <<regs, engine, status, call, answer>>
-----------------------------------------------------------------------------
\* The checks before a call touches a register.  gemm_s8: the tile's layout in
\* the scratchpad, and its bound.
CBase(d) == ((d.m * d.k + d.k * d.n + 3) \div 4) * 4
GemmFits(d) ==
    /\ d.m \in 1 .. 3 /\ d.n \in 1 .. 3 /\ d.k \in 1 .. 7
    /\ CBase(d) + 4 * d.m * d.n <= ScratchSize

\* What the sequencer asks of each of its steps, with the bases and the strides
\* the runtime programs.
InTile(d, i, j, l) ==
    /\ i * d.k + l < ScratchSize
    /\ d.m * d.k + l * d.n + j < ScratchSize
    /\ LET c == CBase(d) + i * 4 * d.n + 4 * j IN c + 3 < ScratchSize /\ c % 4 = 0

\* pack_stream_descriptor_word0, and what the descriptor engine asks of the
\* fields of six bits it unpacks.
StreamPacks(s) ==
    /\ s.offset <= 63 /\ s.offset % 4 = 0
    /\ s.bytes \in 1 .. 63 /\ s.bytes % 4 = 0
    /\ s.offset + s.bytes <= ScratchSize
StreamRuns(s) ==
    LET dst == s.offset % 64  len == s.bytes % 64
    IN  dst % 4 = 0 /\ len # 0 /\ len % 4 = 0 /\ dst + len <= ScratchSize
-----------------------------------------------------------------------------
CallStepsSticky == [scalar |-> <<"operands", "opcode", "clear", "start", "poll", "read">>,
          ring   |-> <<"ring", "param", "clear", "start", "poll", "read">>,
          gemm   |-> <<"scratch", "config", "opcode", "clear", "start", "poll", "read">>]

\* The writes and reads of each kind of call, in order.
CallSteps == [scalar |-> <<"param", "operands", "opcode", "clear", "start", "poll", "read">>,
          ring   |-> <<"ring", "param", "clear", "start", "poll", "read">>,
          gemm   |-> <<"scratch", "config", "opcode", "clear", "start", "poll", "read">>]

Resting == [runs |-> "nothing", of |-> 0]
RingRegs == {"base", "head", "tail"}
NoCall == [kind |-> "none", op |-> "none", id |-> 0, at |-> 1, polls |-> 0, late |-> FALSE]
NoAnswer == [kind |-> "none", op |-> "none", id |-> 0, verdict |-> "none", got |-> 0,
             late |-> FALSE, again |-> FALSE]

RuntimeInit ==
    /\ regs = [param |-> 0, operands |-> 0, opcode |-> "scalar", config |-> 0,
               scratch |-> 0, ring |-> [r \in RingRegs |-> 0], queued |-> FALSE, result |-> 0]
    /\ engine = Resting
    /\ status = [done |-> FALSE, error |-> FALSE]
    /\ call = NoCall
    /\ answer = NoAnswer

\* What a call runs.  run() lets every opcode of four bits through, that of the GEMM
\* and those the NPU does not know included.
Opcodes(kind) == IF kind = "scalar" THEN {"scalar", GemmOp, "unknown"} ELSE {kind}

\* A call whose arguments pass its checks.  late: an earlier call gave up and
\* its command is still running.
Begin(kind) ==
    /\ call.kind = "none" /\ answer.id < MaxCalls
    /\ kind = "gemm" => \E d \in Dims : GemmFits(d)
    /\ \E op \in Opcodes(kind) :
         call' = [NoCall EXCEPT !.kind = kind, !.op = op, !.id = answer.id + 1,
                    !.late = engine # Resting]
    /\ UNCHANGED <<regs, engine, status, answer>>

At(step) == call.kind # "none" /\ CallSteps[call.kind][call.at] = step
Onward == call' = [call EXCEPT !.at = @ + 1]

\* A GEMM, or a ring, that runs has its operands changed under it.
Mixed(what) == IF engine.runs = what THEN [engine EXCEPT !.of = 0] ELSE engine

\* A write of call id, which runs op, and what it leaves in the NPU.
Written(step, op, id) ==
    \/ step = "param"    /\ regs' = [regs EXCEPT !.param = IF op = "ring" THEN 1 ELSE 0]
                         /\ UNCHANGED engine
    \/ step = "operands" /\ regs' = [regs EXCEPT !.operands = id] /\ UNCHANGED engine
    \/ step = "opcode"   /\ regs' = [regs EXCEPT !.opcode = op] /\ UNCHANGED engine
    \/ step = "ring"     /\ regs' = [regs EXCEPT !.ring = [r \in RingRegs |-> id], !.queued = TRUE]
                         /\ engine' = Mixed("ring")
    \/ step = "scratch"  /\ regs' = [regs EXCEPT !.scratch = id] /\ engine' = Mixed("gemm")
    \/ step = "config"   /\ regs' = [regs EXCEPT !.config = id] /\ engine' = Mixed("gemm")

Program ==
    /\ call.kind # "none" /\ Written(CallSteps[call.kind][call.at], call.op, call.id)
    /\ Onward
    /\ UNCHANGED <<status, answer>>

ClearEngine ==
    /\ At("clear") /\ Onward
    /\ status' = [done |-> FALSE, error |-> FALSE]
    /\ UNCHANGED <<regs, engine, answer>>

\* A start while the NPU works does nothing.  With CMD_PARAM 1 it is the ring that
\* starts, whatever the opcode says.  An empty ring is refused, and so are a GEMM
\* that was never configured and an opcode the NPU does not know.  A ring is that of
\* a call if all its registers are.
RingOf == IF \A r \in RingRegs : regs.ring[r] = regs.ring["base"] THEN regs.ring["base"] ELSE 0
Refused ==
    IF regs.param = 1 THEN ~regs.queued
    ELSE regs.opcode = "unknown" \/ (regs.opcode = GemmOp /\ regs.config = 0)
StartEngine ==
    IF engine # Resting THEN UNCHANGED <<engine, status>>
    ELSE IF Refused
    THEN status' = [done |-> TRUE, error |-> TRUE] /\ UNCHANGED engine
    ELSE /\ status' = [done |-> FALSE, error |-> FALSE]
         /\ engine' = IF regs.param = 1 THEN [runs |-> "ring", of |-> RingOf]
                      ELSE IF regs.opcode = GemmOp
                      THEN [runs |-> "gemm", of |-> IF regs.scratch = regs.config
                                                    THEN regs.config ELSE 0]
                      ELSE [runs |-> "scalar", of |-> regs.operands]

Start ==
    /\ At("start") /\ Onward
    /\ StartEngine
    /\ UNCHANGED <<regs, answer>>

\* The NPU ends what it does.  A ring that fails stays at the descriptor it
\* failed at; one that does not is empty then, and its commands have left their
\* results.
FinishCommand ==
    /\ engine # Resting
    /\ engine' = Resting
    /\ \/ /\ status' = [done |-> TRUE, error |-> FALSE]
          /\ regs' = CASE engine.runs = "scalar" -> [regs EXCEPT !.result = engine.of]
                       [] engine.runs = "gemm"   -> [regs EXCEPT !.scratch = engine.of]
                       [] OTHER -> [regs EXCEPT !.result = engine.of, !.scratch = engine.of,
                                                !.queued = FALSE]
       \/ /\ engine.runs = "ring"
          /\ status' = [done |-> TRUE, error |-> TRUE]
          /\ regs' = [regs EXCEPT !.scratch = engine.of]
Finish == FinishCommand /\ UNCHANGED <<call, answer>>

End(verdict, got) ==
    /\ answer' = [kind |-> call.kind, op |-> call.op, id |-> call.id, verdict |-> verdict,
                  got |-> got, late |-> call.late,
                  again |-> call.kind = "gemm" /\ regs.param = 1]
    /\ call' = NoCall

\* _poll_status: an error outweighs done; after the last poll the call gives up.
Poll ==
    /\ At("poll")
    /\ IF status.error THEN End("rejected", 0)
       ELSE IF status.done THEN Onward /\ UNCHANGED answer
       ELSE IF call.polls + 1 >= Polls THEN End("timeout", 0)
       ELSE call' = [call EXCEPT !.polls = @ + 1] /\ UNCHANGED answer
    /\ UNCHANGED <<regs, engine, status>>

\* RESULT, the scratchpad, or DESC_STATUS, which says that the ring is done.
ReadBack ==
    /\ At("read")
    /\ CASE call.kind = "scalar" -> End("ok", regs.result)
         [] call.kind = "gemm"   -> End("ok", regs.scratch)
         [] OTHER                -> End(IF regs.queued THEN "failed" ELSE "ok", regs.scratch)
    /\ UNCHANGED <<regs, engine, status>>

RuntimeNext ==
    \/ \E kind \in DOMAIN CallSteps : Begin(kind)
    \/ Program \/ ClearEngine \/ Start \/ Finish \/ Poll \/ ReadBack

RuntimeSpec == RuntimeInit /\ [][RuntimeNext]_runtimeVars
-----------------------------------------------------------------------------
\* A call that returns, returns what its own command computed, and a GEMM or a scalar
\* command the NPU knows is not rejected when its arguments passed the checks: unless an
\* earlier call gave up while its command ran, or a ring was submitted before and a
\* GEMM, which does not write CMD_PARAM, starts the ring again.  run() with an opcode
\* the NPU does not know never returns; with the GEMM's, which starts the last GEMM
\* again or is rejected when there was none, it returns the result of another call.
OwnResult ==
    LET excused == answer.late \/ answer.again
        raw == answer.kind = "scalar" /\ answer.op = GemmOp
    IN  /\ answer.verdict = "ok" =>
             \/ excused
             \/ IF raw THEN answer.got # answer.id ELSE answer.got = answer.id
        /\ answer.verdict = "rejected" =>
             answer.kind = "ring" \/ answer.op = "unknown" \/ raw \/ excused
        /\ answer.op = "unknown" => answer.verdict # "ok" \/ excused

\* What the checks let through the NPU runs to its end: every step of a GEMM stays
\* in the scratchpad, and a stream descriptor survives its packing.
ChecksSuffice ==
    /\ \A d \in Dims : GemmFits(d) =>
         \A i \in 0 .. d.m - 1, j \in 0 .. d.n - 1, l \in 0 .. d.k - 1 : InTile(d, i, j, l)
    /\ \A s \in Streams : StreamPacks(s) => StreamRuns(s)

\* "Run bounded INT8 GEMM, returning an MxN int32 matrix": without an earlier call
\* that gave up, what a GEMM returns is its product.
GemmIsRun == answer.kind = "gemm" /\ answer.verdict = "ok" /\ ~answer.late => answer.got = answer.id
=============================================================================
