-------------------------------- MODULE E1Bus --------------------------------
(***************************************************************************)
(* The 32-bit AXI-Lite data path shared by the masters and the memory.     *)
(* Memory is a function from byte addresses to values: a byte of initial   *)
(* memory holds its own address, so a value tells where it came from.      *)
(***************************************************************************)
EXTENDS Integers

CONSTANTS
  AddrSpace,   (* addresses and lengths are below it: 2^32 in the RTL      *)
  MemBytes     (* bytes that decode: DEPTH_WORDS * 4 in the RTL            *)

ASSUME BusAssumption ==
  /\ AddrSpace \in Nat /\ AddrSpace >= 4 /\ AddrSpace % 4 = 0
  /\ MemBytes \in Nat /\ MemBytes <= AddrSpace /\ MemBytes % 4 = 0

Addr  == 0 .. AddrSpace - 1
Lanes == 0 .. 3                \* the byte lanes of a bus word
Byte  == 0 .. MemBytes         \* MemBytes is the filler a faulty read gives
Beat  == [Lanes -> Byte]

Aligned(a) == a % 4 = 0
Decodes(a) == Aligned(a) /\ a < MemBytes
Wrap(a) == IF a < AddrSpace THEN a ELSE a - AddrSpace   \* the carry is lost

ZeroBeat == [i \in Lanes |-> 0]
Filler   == [i \in Lanes |-> MemBytes]
WordAt(mem, a) == [i \in Lanes |-> mem[a + i]]
Merge(mem, a, data, strb) ==
  [x \in 0 .. MemBytes - 1 |-> IF x - a \in strb THEN data[x - a] ELSE mem[x]]
=============================================================================
