------------------------------ MODULE NpuSystem ------------------------------
(***************************************************************************)
(* The NPU on its read port: e1_npu, the software that programs it, and a  *)
(* read slave that holds one request (the port e1_soc_top.sv gives it,     *)
(* which answers on the next edge; here the answer may also be late, or    *)
(* the request withheld, as long as the fabric likes).                     *)
(***************************************************************************)
EXTENDS E1Npu

CONSTANTS
  MemTop,        (* addresses from here on are answered with an error      *)
  Environments   (* the surroundings the NPU is put in: what software may  *)
                 (* write, whether it leaves the registers alone while it  *)
                 (* reads busy, and which channels an edge may let through *)

ASSUME SystemAssumption ==
  /\ MemTop \in Nat
  /\ Environments \subseteq [writes : SUBSET NpuWrites, polite : BOOLEAN,
                             fabric : SUBSET SUBSET {"AR", "R"}]

VARIABLES
  env,                     (* the surroundings of this behaviour           *)
  pending, paddr,          (* the slave owes the answer for paddr          *)
  rvalid, rok, rdata,
  issued,      (* history: the scalar command accepted last                *)
  first, retired,  (* history: the tail the ring's run began at, and how   *)
                   (* many descriptors it has retired, modulo RingSize     *)
  unretired,   (* history: the descriptor at the tail was launched         *)
  meddled,     (* history: DESC_TAIL or DESC_BASE was written since        *)
  macs,        (* history: products the sequencer has accumulated          *)
  reshaped,    (* history: a GEMM register was written since its launch    *)
  stopped      (* history: the last GEMM launched was stopped midway       *)

slave   == <<pending, paddr, rvalid, rok, rdata>>
history == <<issued, first, retired, unretired, meddled, macs, reshaped,
             stopped>>
vars    == <<env, npuVars, slave, history>>

ErrorWord == -2                               \* 32'hDEAD_BEEF
Readable(a) == a % 4 = 0 /\ a < MemTop

arready(open) == ~pending /\ ~rvalid /\ "AR" \in open
FromSlave(open) == [arready |-> arready(open), rvalid |-> rvalid,
                    rok |-> rok, rdata |-> rdata]

AcceptRead(open) ==
  /\ arvalid /\ arready(open)
  /\ pending' = TRUE /\ paddr' = araddr
  /\ UNCHANGED <<rvalid, rok, rdata>>

AnswerRead(open) ==
  /\ pending /\ "R" \in open
  /\ pending' = FALSE /\ rvalid' = TRUE
  /\ rok' = Readable(paddr)
  /\ rdata' = IF Readable(paddr) THEN paddr ELSE ErrorWord
  /\ UNCHANGED paddr

HoldRead(open) ==
  /\ ~(arvalid /\ arready(open)) /\ ~(pending /\ "R" \in open)
  /\ rvalid' = (rvalid /\ ~rready)
  /\ UNCHANGED <<pending, paddr, rok, rdata>>

SlaveEdge(open) == AcceptRead(open) \/ AnswerRead(open) \/ HoldRead(open)

Record(w) ==
  LET starts   == ~desc_busy /\ desc_busy'
      launches == desc_state = "LAUNCH" /\ desc_state' = "WAIT"
  IN
  /\ issued' = IF Register(w) /\ ValidOp(opcode) /\ opcode # GEMM
               THEN <<opcode, <<operands>>>> ELSE issued
  /\ first' = IF starts THEN desc_tail ELSE first
  /\ retired' = IF starts THEN 0
                ELSE IF In("ADVANCE") THEN (retired + 1) % RingSize
                ELSE retired
  /\ unretired' = (launches \/ (unretired /\ ~starts /\ ~In("ADVANCE")))
  /\ meddled' = (w.reg \in {"DESC_TAIL", "DESC_BASE"}
                 \/ (meddled /\ ~starts))
  /\ macs' = IF ~gemm_busy THEN 0
             ELSE IF gemm_cfg_ok /\ ~reshaped THEN macs + 1 ELSE macs
  /\ reshaped' = (w.reg \in {"GEMM_CFG", "GEMM_BASE", "GEMM_STRIDE"}
                  \/ (reshaped /\ gemm_busy))
  /\ stopped' = (~gemm_busy' /\ IF gemm_busy THEN ~GemmLast ELSE stopped)

Init ==
  /\ env \in Environments
  /\ NpuInit
  /\ pending = FALSE /\ paddr = 0
  /\ rvalid = FALSE /\ rok = TRUE /\ rdata = 0
  /\ issued = <<0, <<0>>>> /\ first = 0 /\ retired = 0
  /\ unretired = FALSE /\ meddled = FALSE
  /\ macs = 0 /\ reshaped = FALSE /\ stopped = FALSE

Clock(w, open) ==
  /\ env.polite /\ busy => w = NoWrite
  /\ NpuEdge(w, FromSlave(open))
  /\ SlaveEdge(open)
  /\ Record(w)
  /\ UNCHANGED env

Next == \E w \in env.writes, open \in env.fabric : Clock(w, open)

Spec == Init /\ [][Next]_vars

(* The clock runs.  Nothing is assumed of the fabric: a request may never  *)
(* be taken and an answer may never come.                                  *)
FairSpec == Spec /\ WF_vars(Next)

-----------------------------------------------------------------------------
(* verify/formal/e1_npu_formal.sv asserts the status encoding.  Beyond it: *)
(* busy always has an engine behind it, at most one engine runs, and under *)
(* the ring only while the ring waits for it; the one way to be at work    *)
(* without showing busy is the ring's wait after a GEMM fault.             *)
StatusHonest ==
  /\ busy => ~done /\ ~error
  /\ error => done
  /\ busy => ~Rests
  /\ ~Rests /\ ~busy => /\ desc_busy /\ desc_state = "WAIT" /\ ~EngineRuns
                        /\ Word0.op = GEMM
  /\ ~(busy_count # 0 /\ gemm_busy)
  /\ desc_busy <=> desc_state # "IDLE"
  /\ desc_busy /\ EngineRuns =>
        desc_state = "WAIT" /\ (gemm_busy <=> Word0.op = GEMM)

(* "Operands are latched when start is accepted" (docs/arch/npu.md): what  *)
(* the scalar engine computes is the command that was accepted, whatever   *)
(* is written meanwhile; under the ring it is the fetched descriptor.      *)
CommandLatched ==
  busy_count # 0 =>
    <<opcode_q, operands_q>> =
      IF desc_busy THEN <<Word0.op, DescArgs>> ELSE issued

(* A descriptor is executed whole: its words come from the slot at the     *)
(* tail, never partly from another, even when the answer to a request that *)
(* timed out arrives in a later run.                                       *)
DescriptorWhole ==
  LET at(i) == desc_base + 4 * DescWords * desc_tail + 4 * i IN
  desc_busy /\ ~meddled =>
    /\ \A i \in 0 .. DescWords - 1 :
         \/ desc_state \in {"FETCH_ADDR", "FETCH_DATA"} /\ i >= desc_fetch_word
         \/ desc_words[i] = at(i)
    /\ desc_state = "FETCH_DATA" =>
         /\ pending => paddr = at(desc_fetch_word)
         /\ rvalid /\ rok => rdata = at(desc_fetch_word)

(* "Software must set valid_owner before advancing DESC_HEAD; the current  *)
(* RTL rejects descriptors without this bit" (docs/arch/npu.md): what runs *)
(* is a descriptor that memory offers at the tail, with every stream byte  *)
(* it asks for in the scratchpad, also after a run that stopped midway.    *)
OnlyRunnable ==
  LET at == desc_base + 4 * DescWords * desc_tail IN
  desc_busy /\ ~meddled /\ desc_state \in {"WAIT", "ADVANCE"} =>
    /\ at \in DOMAIN Control
    /\ Control[at].valid /\ ~Control[at].writeback /\ ValidOp(Control[at].op)
    /\ Control[at].stream => desc_stream_done = Control[at].len

(* DESC_TAIL counts what the ring has retired, each descriptor in order    *)
(* and each launched once, and a run that stops on a fault or a timeout    *)
(* leaves the tail on the descriptor it was at.                            *)
RunAccounting ==
  ~meddled => /\ first + retired = desc_tail
                 \/ first + retired = desc_tail + RingSize
              /\ desc_busy => (unretired <=> desc_state \in {"WAIT", "ADVANCE"})

(* A run that reports success has drained the ring: DESC_TAIL reached the  *)
(* DESC_HEAD of that moment.                                               *)
SuccessDrains ==
  [][desc_busy /\ ~desc_busy' /\ desc_status' = {"DONE"} /\ ~meddled'
       => desc_tail' = desc_head]_vars

(* The sequencer visits the products of the tile once each in row-major    *)
(* order: m * n * k of them end a command, unless a GEMM register is       *)
(* written on the way.                                                     *)
SweepInOrder ==
  LET m == gemm_cfg[1]  n == gemm_cfg[2]  k == gemm_cfg[3] IN
  gemm_busy /\ ~reshaped =>
    /\ gemm_i < m /\ gemm_j < n /\ gemm_l < k
    /\ macs = (gemm_i * n + gemm_j) * k + gemm_l

(* The start check looks at the indices the last sweep left               *)
(* (e1_npu.sv:193-206, 560): a GEMM whose first product lies in the        *)
(* scratchpad is refused only after one that a fault or the ring's timeout *)
(* stopped midway.                                                         *)
GoodGemmStarts == ~gemm_busy /\ ~stopped /\ InScratch(0, 0, 0) => gemm_cfg_ok

(* A command that stops says so to software that clears done only before   *)
(* it starts the next command.                                             *)
CompletionSeen == [][busy /\ ~busy' => done']_vars

(* Every command ends, even when the fabric never answers.                 *)
EveryCommandEnds == busy ~> ~busy

(* What a command was given stays what it works on: its latched inputs,    *)
(* the order of its sweep and the words of its descriptor; and what an     *)
(* earlier one left does not keep it from starting.                        *)
InputsHold == CommandLatched /\ SweepInOrder /\ DescriptorWhole /\ GoodGemmStarts

(* What the ring shows is so: its status, the descriptor it runs and the   *)
(* tail.                                                                   *)
RingHonest == StatusHonest /\ OnlyRunnable /\ RunAccounting
=============================================================================
