---------------------------- MODULE MCDmaSystem ----------------------------
(* Two words of memory in a space of three, so that the last word faults;  *)
(* addresses that are aligned, misaligned and undecoded; lengths that are  *)
(* empty, end in a partial beat, and run past the end of memory.           *)
EXTENDS DmaSystem

MCAddresses == {0, 4, 6}
MCLengths   == {0, 3, 5}
=============================================================================
