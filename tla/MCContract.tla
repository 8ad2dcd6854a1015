------------------------------ MODULE MCContract ------------------------------
(* Four words of memory in a space of five, so that the last one faults.   *)
(* The DMA copies up to two words among the first three; the CPU reads the *)
(* one that faults and stores to the fourth.                               *)
EXTENDS LinuxSocContract

MCAddresses == {0, 4}
MCLengths   == {0, 7}
StartWrites == [reg : {"LEN"}, val : {7}] \cup [reg : {"CTRL"}, val : {1}]
MCWrites    == StartWrites \cup [reg : {"DST"}, val : {4}]
                 \cup [reg : {"CTRL"}, val : {2}]
=============================================================================
