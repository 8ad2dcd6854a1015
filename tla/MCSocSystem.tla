---------------------------- MODULE MCSocSystem ----------------------------
(* A ring of two two-word descriptors at 0 and 8.  The DMA copies the one  *)
(* staged at 16 over the first; software stores it over the second.        *)
EXTENDS SocSystem, TLC

MCAddresses == {0, 16}
MCLengths   == {0, 8}

Reg(name, vals) == [reg : {name}, val : vals]
MCNpuWrites ==
  {NoWrite} \cup Reg("CTRL", {<<1, 0>>, <<0, 1>>})
    \cup Reg("CMD_PARAM", {<<1>>})
    \cup Reg("DESC_HEAD", {<<0>>, <<1>>})

Desc(op) == [ZeroControl EXCEPT !.valid = TRUE, !.op = op]
MCControl == (0 :> Desc(0)) @@ (8 :> Desc(4)) @@ (16 :> Desc(2))
MCSource  == << >>

WordOf(a) == [i \in Lanes |-> a + i]
MCStores == {NoStore, [addr |-> 8, data |-> WordOf(16)]}
=============================================================================
