---------------------------- MODULE MCNpuSystem ----------------------------
(* Rings of two-word descriptors at address 0, and the surroundings that   *)
(* the NPU is put in.                                                      *)
EXTENDS NpuSystem, TLC

Reg(name, vals) == [reg : {name}, val : vals]
Ctrl == Reg("CTRL", {<<1, 0>>, <<0, 1>>, <<1, 1>>})

Env(writes, polite, fabric) ==
  [writes |-> {NoWrite} \cup writes, polite |-> polite, fabric |-> fabric]
(* At most one of the two channels concerns the slave on an edge.          *)
AnyDelay == {{}, {"AR", "R"}}
NoDelay  == {{"AR", "R"}}

Desc(op) == [ZeroControl EXCEPT !.valid = TRUE, !.op = op]
Stream(op, dst, len) ==
  [Desc(op) EXCEPT !.stream = TRUE, !.dst = dst, !.len = len]

(* A ring of eight: a scalar, a streamed GEMM, a streamed scalar that runs *)
(* past the end of memory at 64, one of each descriptor to refuse, and a   *)
(* slow scalar.                                                            *)
LongRing == (0 :> Desc(0)) @@ (8 :> Stream(8, 0, 4)) @@ (16 :> Stream(0, 0, 8))
              @@ (24 :> ZeroControl) @@ (32 :> Desc(9))
              @@ (40 :> [Desc(0) EXCEPT !.writeback = TRUE])
              @@ (48 :> Stream(0, 2, 4)) @@ (56 :> Desc(4))
LongSource == (12 :> 40) @@ (20 :> 60)

(* Software that waits for each run to end, on a bus that delays and       *)
(* withholds.                                                              *)
Patient ==
  Env(Ctrl \cup Reg("CMD_PARAM", {<<1>>})
        \cup Reg("DESC_HEAD", {<<0>>, <<2>>, <<3>>})
        \cup Reg("DESC_TAIL", {<<7>>})
        \cup Reg("GEMM_CFG", {<<1, 1, 2>>}),
      TRUE, AnyDelay)

(* Runs from most slots, from misaligned and unreadable bases, and of a    *)
(* GEMM whose second product lies outside the scratchpad.                  *)
Careless ==
  Env(Reg("CTRL", {<<1, 0>>}) \cup Reg("CMD_PARAM", {<<1>>})
        \cup Reg("DESC_TAIL", {<<1>>, <<3>>, <<4>>, <<5>>, <<6>>})
        \cup Reg("DESC_BASE", {<<2>>, <<MemTop>>})
        \cup Reg("GEMM_CFG", {<<1, 1, 2>>})
        \cup Reg("GEMM_BASE", {<<7, 0, 0>>}),
      TRUE, NoDelay)

RingEnvironments == {Patient, Careless}
RingWrites == UNION {e.writes : e \in RingEnvironments}

(* A ring of two: a GEMM and a scalar.                                     *)
ShortRing == (0 :> Desc(8)) @@ (8 :> Desc(2))
NoSource == << >>

(* Commands from the registers: a scalar one, a GEMM that fits, fits only  *)
(* at its first product, or not at all.                                    *)
Commands ==
  Env(Reg("CTRL", {<<1, 0>>, <<0, 1>>}) \cup Reg("OPCODE", {<<4>>, <<8>>})
        \cup Reg("OPERANDS", {<<1>>})
        \cup Reg("GEMM_CFG", {<<2, 1, 2>>, <<1, 2, 1>>})
        \cup Reg("GEMM_BASE", {<<0, 0, 0>>, <<5, 0, 0>>})
        \cup Reg("GEMM_STRIDE", {<<2, 1, 4>>}),
      FALSE, NoDelay)

(* The ring's registers rewritten while it runs.                           *)
Meddling ==
  Env(Reg("CTRL", {<<1, 0>>, <<0, 1>>}) \cup Reg("CMD_PARAM", {<<1>>})
        \cup Reg("DESC_HEAD", {<<0>>, <<1>>}) \cup Reg("DESC_TAIL", {<<1>>})
        \cup Reg("GEMM_CFG", {<<1, 1, 2>>}),
      FALSE, AnyDelay)

BusyEnvironments == {Commands, Meddling}
BusyWrites == UNION {e.writes : e \in BusyEnvironments}
=============================================================================
