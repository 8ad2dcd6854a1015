---------------------------- MODULE DevicesProofs ----------------------------
(***************************************************************************)
(* What the properties of MCDevices say: of the interrupt controller, for  *)
(* every number of sources, whichever of them are pulsed and however often *)
(* each is raised; and of the UART, for every depth of its queues, length  *)
(* of a byte, and software.                                                *)
(***************************************************************************)
EXTENDS MCDevices, SequenceTheorems, WellFoundedInduction, TLAPS

(* The inductive invariant.  A half of a write is on the bus or in the     *)
(* controller, and a write is answered once both are there; what has been  *)
(* claimed, or is about to be, is still up.                                *)
OutWords == Intc!Sources \cup {Intc!NoWord, Intc!Word(Intc!Sources)}
IntcTypeOK ==
  /\ pc \in {"boot", "enabling", "ready", "claiming", "serving", "completing"}
  /\ out \in [aw : {Intc!NoReg, "ENABLE", "CLAIM"}, w : OutWords, ar : {Intc!NoReg, "CLAIM"}]
  /\ write_addr \in {Intc!NoReg, "ENABLE", "CLAIM"}
  /\ pending \subseteq Intc!Sources /\ level \subseteq Intc!Sources
  /\ bvalid \in BOOLEAN /\ rvalid \in BOOLEAN

WriteIdle == /\ out.aw = Intc!NoReg /\ out.w = Intc!NoWord
             /\ write_addr = Intc!NoReg /\ write_data = Intc!NoWord
HalvesOnce ==
  /\ out.aw = Intc!NoReg \/ write_addr = Intc!NoReg
  /\ out.w = Intc!NoWord \/ write_data = Intc!NoWord
  /\ bvalid => WriteIdle
BusFollows ==
  /\ HalvesOnce
  /\ pc = "enabling" => out.aw # "CLAIM" /\ write_addr # "CLAIM"
  /\ pc = "completing" =>
       /\ id \in Intc!Sources
       /\ \/ bvalid
          \/ out.aw = "CLAIM" /\ out.w = id /\ write_addr = Intc!NoReg /\ write_data = Intc!NoWord
          \/ write_addr = "CLAIM" /\ write_data = id
  /\ pc \notin {"enabling", "completing"} => WriteIdle /\ ~bvalid
  /\ pc # "claiming" => out.ar = Intc!NoReg /\ ~rvalid
  /\ rvalid => out.ar = Intc!NoReg

Up == level \cup Pulsed
PendingIsUp ==
  \A s \in pending : s \in Up \/ (pc = "completing" /\ ~bvalid /\ s = id)
ClaimsAreUp ==
  /\ rvalid => rdata \in Up \cup {0}
  /\ pc = "serving" => id \in Up /\ id \in Intc!Sources

IntcInv == IntcTypeOK /\ BusFollows /\ PendingIsUp /\ ClaimsAreUp
           /\ (rvalid => rdata \in Intc!Sources \cup {0})

-----------------------------------------------------------------------------
(* The lowest of the sources that are pending and enabled is one of them.  *)
LEMMA ClaimIsPending ==
  ASSUME Intc!IntcAssumption, pending \subseteq Intc!Sources
  PROVE  Intc!claim_id \in pending \cup {0}
<1>1. CASE pending \cap enable = {}
  BY <1>1 DEF Intc!claim_id
<1>2. CASE pending \cap enable # {}
  <2> DEFINE T == pending \cap enable
             below == OpToRel(<, Nat)
  <2>1. T \subseteq Nat /\ T # {}
    <3>1. \A s \in Intc!Sources : s \in Nat
      BY DEF Intc!IntcAssumption, Intc!Sources
    <3> QED BY <1>2, <3>1
  <2>2. PICK x \in T : \A y \in T : ~(<<y, x>> \in below)
    <3> HIDE DEF T, below
    <3> QED BY <2>1, NatLessThanWellFounded, WFMin DEF below
  <2>3. \A y \in T : <<y, x>> \in below <=> y < x
    BY <2>1 DEF OpToRel
  <2>4. \A t \in T : t \in Nat /\ ~(t < x)
    <3> HIDE DEF T, below
    <3> QED BY <2>1, <2>2, <2>3
  <2>5. \A t \in T : x <= t
    <3> HIDE DEF T, below
    <3> QED BY <2>1, <2>2, <2>4
  <2> QED BY <1>2, <2>5 DEF Intc!claim_id
<1> QED BY <1>1, <1>2

LEMMA IntcStarts == Intc!Init => IntcInv
<1> SUFFICES ASSUME Intc!Init PROVE IntcInv
  OBVIOUS
<1>1. /\ pc = "boot" /\ out = Intc!Quiet /\ write_addr = Intc!NoReg /\ write_data = Intc!NoWord
      /\ pending = {} /\ level = {} /\ bvalid = FALSE /\ rvalid = FALSE
  BY DEF Intc!Init, Intc!IntcInit
<1>2. IntcTypeOK
  BY <1>1 DEF IntcTypeOK, Intc!Quiet, OutWords
<1>3. BusFollows
  BY <1>1 DEF BusFollows, HalvesOnce, WriteIdle, Intc!Quiet
<1> QED BY <1>1, <1>2, <1>3 DEF IntcInv, PendingIsUp, ClaimsAreUp
-----------------------------------------------------------------------------
(* What the handler drives next.                                           *)
LEMMA WritesOf ==
  ASSUME NEW reg, NEW w
  PROVE  /\ Intc!Write(reg, w).aw = reg /\ Intc!Write(reg, w).w = w
         /\ Intc!Write(reg, w).ar = Intc!NoReg
BY DEF Intc!Write, Intc!Quiet

LEMMA ReadsOf ==
  ASSUME NEW reg
  PROVE  Intc!Read(reg).aw = Intc!NoReg /\ Intc!Read(reg).w = Intc!NoWord /\ Intc!Read(reg).ar = reg
BY DEF Intc!Read, Intc!Quiet

LEMMA HeldOf ==
  ASSUME IntcTypeOK
  PROVE  /\ Intc!Hold(out).aw = IF Intc!awready THEN Intc!NoReg ELSE out.aw
         /\ Intc!Hold(out).w = IF Intc!wready THEN Intc!NoWord ELSE out.w
         /\ Intc!Hold(out).ar = IF Intc!arready THEN Intc!NoReg ELSE out.ar
BY DEF Intc!Hold, IntcTypeOK

(* The handler's steps: where they lead, what they need, what they drive.  *)
Goes ==
  \/ /\ pc' = pc /\ id' = id /\ out' = Intc!Hold(out)
  \/ /\ pc = "boot" /\ pc' = "enabling"
     /\ \E w \in {Intc!NoWord, Intc!Word(Intc!Sources)}, reg \in {Intc!NoReg, "ENABLE"} :
           out' = Intc!Write(reg, w)
  \/ /\ pc = "enabling" /\ pc' = pc /\ Intc!Idle
     /\ \/ /\ write_addr # Intc!NoReg /\ write_data = Intc!NoWord
           /\ out' = Intc!Write(Intc!NoReg, Intc!Word(Intc!Sources))
        \/ /\ write_addr = Intc!NoReg /\ write_data # Intc!NoWord
           /\ out' = Intc!Write("ENABLE", Intc!NoWord)
  \/ /\ pc \in {"enabling", "completing"} /\ pc' = "ready" /\ bvalid /\ out' = out
  \/ /\ pc = "ready" /\ pc' = "claiming" /\ out' = Intc!Read("CLAIM")
  \/ /\ pc = "claiming" /\ rvalid /\ id' = rdata /\ out' = out
     /\ pc' = IF rdata = 0 THEN "ready" ELSE "serving"
  \/ /\ pc = "serving" /\ pc' = "completing" /\ id' = id /\ out' = Intc!Write("CLAIM", id)

LEMMA HandlerGoes == Intc!Handler \/ Intc!Wait => Goes
<1>1. Intc!EnableAll => Goes
  BY DEF Intc!EnableAll, Goes
<1> QED
  BY <1>1
  DEF Intc!Handler, Intc!Wait, Intc!SendHalf, Intc!Written, Intc!Claim, Intc!Claimed,
      Intc!Served, Goes

(* The two channels of the controller on an edge.                          *)
Answered == pc \in {"enabling", "completing"} /\ pc' = "ready"
Collects ==
  /\ write_addr = Intc!NoReg \/ write_data = Intc!NoWord \/ bvalid
  /\ write_addr' = IF out.aw # Intc!NoReg /\ Intc!awready THEN out.aw ELSE write_addr
  /\ write_data' = IF out.w # Intc!NoWord /\ Intc!wready THEN out.w ELSE write_data
  /\ bvalid' <=> bvalid /\ ~Answered
  /\ pending' = pending \cup level
Performs ==
  /\ write_addr # Intc!NoReg /\ write_data # Intc!NoWord /\ ~bvalid
  /\ pending' = IF write_addr = "CLAIM"
                THEN (pending \cup level) \ {write_data} ELSE pending \cup level
  /\ write_addr' = Intc!NoReg /\ write_data' = Intc!NoWord /\ bvalid' = TRUE
Answers ==
  \/ /\ out.ar # Intc!NoReg /\ ~rvalid
     /\ rvalid' = TRUE /\ rdata' = Intc!ReadAt(out.ar)
  \/ /\ out.ar = Intc!NoReg \/ rvalid
     /\ rvalid' <=> rvalid /\ ~(pc = "claiming" /\ pc' # "claiming")
     /\ rdata' = rdata
Lines(raised) ==
  \/ /\ pc = "serving" /\ pc' = "completing"
     /\ level' = ((level \ {id}) \ Pulsed) \cup raised
  \/ /\ ~(pc = "serving" /\ pc' = "completing")
     /\ level' = (level \ Pulsed) \cup raised

LEMMA EdgeDoes ==
  ASSUME IntcTypeOK, Intc!Clock
  PROVE  /\ Goes /\ Answers
         /\ Collects \/ Performs
         /\ bvalid' \in BOOLEAN /\ rvalid' \in BOOLEAN
         /\ \E raised \in SUBSET Intc!Sources : Lines(raised)
<1> DEFINE m == [aw |-> out.aw, w |-> out.w, ar |-> out.ar,
                 bready |-> Answered, rready |-> pc = "claiming" /\ pc' # "claiming"]
<1>1. PICK raised \in SUBSET Intc!Sources :
        /\ Intc!Handler \/ Intc!Wait
        /\ Intc!IntcEdge(level, m)
        /\ Intc!Devices(raised, IF pc = "serving" /\ pc' = "completing" THEN {id} ELSE {})
  BY Zenon DEF Intc!Clock, Answered
<1>2. Goes
  BY <1>1, HandlerGoes
<1>3. m.aw = out.aw /\ m.w = out.w /\ m.ar = out.ar /\ m.bready = Answered
      /\ m.rready = (pc = "claiming" /\ pc' # "claiming")
  OBVIOUS
<1> HIDE DEF m
<1>4. bvalid \in BOOLEAN /\ rvalid \in BOOLEAN
  BY DEF IntcTypeOK
<1>5. Collects \/ Performs
  <2>1. CASE Intc!CollectWrite(level, m)
    BY <1>3, <1>4, <2>1 DEF Intc!CollectWrite, Collects
  <2>2. CASE Intc!PerformWrite(level, m)
    BY <2>2 DEF Intc!PerformWrite, Performs
  <2> QED BY <1>1, <2>1, <2>2 DEF Intc!IntcEdge
<1>6. Answers
  BY <1>1, <1>3, <1>4
  DEF Intc!IntcEdge, Intc!AcceptRead, Intc!HoldRead, Intc!arready, Answers
<1>7. Lines(raised)
  BY <1>1 DEF Intc!Devices, Lines
<1>8. bvalid' \in BOOLEAN /\ rvalid' \in BOOLEAN
  BY <1>1, <1>4, Zenon
  DEF Intc!IntcEdge, Intc!CollectWrite, Intc!PerformWrite, Intc!AcceptRead, Intc!HoldRead
<1> QED BY <1>2, <1>5, <1>6, <1>7, <1>8

LEMMA BusStep ==
  ASSUME Intc!IntcAssumption, IntcInv, Goes, Answers, Collects \/ Performs
  PROVE  BusFollows'
<1> USE DEF IntcInv, BusFollows, HalvesOnce, WriteIdle
<1>0. /\ pc \in {"boot", "enabling", "ready", "claiming", "serving", "completing"}
      /\ bvalid \in BOOLEAN /\ rvalid \in BOOLEAN
      /\ out.aw \in {Intc!NoReg, "ENABLE", "CLAIM"} /\ out.ar \in {Intc!NoReg, "CLAIM"}
  BY DEF IntcTypeOK
<1>1. \A s \in Intc!Sources : s # Intc!NoWord
  BY DEF Intc!Sources, Intc!NoWord, Intc!IntcAssumption
<1>2. CASE pc' = pc /\ id' = id /\ out' = Intc!Hold(out)
  <2>1. /\ out'.aw = IF Intc!awready THEN Intc!NoReg ELSE out.aw
        /\ out'.w = IF Intc!wready THEN Intc!NoWord ELSE out.w
        /\ out'.ar = IF Intc!arready THEN Intc!NoReg ELSE out.ar
    BY <1>2, HeldOf
  <2>2. CASE Collects
    BY <1>0, <1>1, <1>2, <2>1, <2>2
    DEF Collects, Answers, Answered, Intc!awready, Intc!wready, Intc!arready, Intc!NoReg
  <2>3. CASE Performs
    BY <1>0, <1>1, <1>2, <2>1, <2>3
    DEF Performs, Answers, Answered, Intc!awready, Intc!wready, Intc!arready, Intc!NoReg
  <2> QED BY <2>2, <2>3
<1>3. CASE pc = "boot" /\ pc' = "enabling"
           /\ \E w \in {Intc!NoWord, Intc!Word(Intc!Sources)}, reg \in {Intc!NoReg, "ENABLE"} :
                 out' = Intc!Write(reg, w)
  <2>1. PICK w \in {Intc!NoWord, Intc!Word(Intc!Sources)}, reg \in {Intc!NoReg, "ENABLE"} :
          out'.aw = reg /\ out'.w = w /\ out'.ar = Intc!NoReg
    BY <1>3, WritesOf
  <2> QED BY <1>0, <1>3, <2>1 DEF Collects, Performs, Answers, Answered, Intc!NoReg
<1>4. CASE /\ pc = "enabling" /\ pc' = pc /\ Intc!Idle
           /\ \/ /\ write_addr # Intc!NoReg /\ write_data = Intc!NoWord
                 /\ out' = Intc!Write(Intc!NoReg, Intc!Word(Intc!Sources))
              \/ /\ write_addr = Intc!NoReg /\ write_data # Intc!NoWord
                 /\ out' = Intc!Write("ENABLE", Intc!NoWord)
  BY <1>0, <1>4, WritesOf DEF Collects, Performs, Answers, Answered, Intc!NoReg, Intc!Idle
<1>5. CASE pc \in {"enabling", "completing"} /\ pc' = "ready" /\ bvalid /\ out' = out
  BY <1>0, <1>5 DEF Collects, Performs, Answers, Answered
<1>6. CASE pc = "ready" /\ pc' = "claiming" /\ out' = Intc!Read("CLAIM")
  BY <1>0, <1>6, ReadsOf DEF Collects, Performs, Answers, Answered
<1>7. CASE /\ pc = "claiming" /\ rvalid /\ id' = rdata /\ out' = out
           /\ pc' = IF rdata = 0 THEN "ready" ELSE "serving"
  BY <1>0, <1>7 DEF Collects, Performs, Answers, Answered
<1>8. CASE pc = "serving" /\ pc' = "completing" /\ id' = id /\ out' = Intc!Write("CLAIM", id)
  BY <1>0, <1>8, WritesOf DEF Collects, Performs, Answers, Answered, ClaimsAreUp
<1> QED BY <1>2, <1>3, <1>4, <1>5, <1>6, <1>7, <1>8 DEF Goes

LEMMA OutStep ==
  ASSUME IntcInv, Goes
  PROVE  /\ out' \in [aw : {Intc!NoReg, "ENABLE", "CLAIM"}, w : OutWords, ar : {Intc!NoReg, "CLAIM"}]
         /\ pc' \in {"boot", "enabling", "ready", "claiming", "serving", "completing"}
<1> DEFINE A == {Intc!NoReg, "ENABLE", "CLAIM"}
           B == {Intc!NoReg, "CLAIM"}
           O == [aw : A, w : OutWords, ar : B]
<1>1. /\ out \in O /\ Intc!NoReg \in A /\ "ENABLE" \in A /\ "CLAIM" \in A /\ Intc!NoReg \in B
      /\ "CLAIM" \in B /\ Intc!NoWord \in OutWords /\ Intc!Word(Intc!Sources) \in OutWords
      /\ pc = "serving" => id \in OutWords
  BY DEF IntcInv, IntcTypeOK, ClaimsAreUp, OutWords
<1>p. pc' \in {"boot", "enabling", "ready", "claiming", "serving", "completing"}
  BY DEF Goes, IntcInv, IntcTypeOK
<1> HIDE DEF A, B
<1>2. ASSUME NEW reg \in A, NEW w \in OutWords PROVE Intc!Write(reg, w) \in O
  <2>1. [aw |-> Intc!NoReg, w |-> Intc!NoWord, ar |-> Intc!NoReg] \in O
    BY <1>1
  <2>2. PICK o \in O : o = Intc!Quiet
    BY <2>1 DEF Intc!Quiet
  <2>3. [o EXCEPT !.aw = reg, !.w = w] \in O
    OBVIOUS
  <2> QED BY <2>2, <2>3 DEF Intc!Write
<1>3. Intc!Read("CLAIM") \in O
  <2>1. PICK r \in B : r = "CLAIM"
    BY <1>1
  <2>2. [aw |-> Intc!NoReg, w |-> Intc!NoWord, ar |-> Intc!NoReg] \in O
    BY <1>1
  <2>3. PICK o \in O : o = Intc!Quiet
    BY <2>2 DEF Intc!Quiet
  <2>4. [o EXCEPT !.ar = r] \in O
    OBVIOUS
  <2> QED BY <2>1, <2>3, <2>4 DEF Intc!Read
<1>4. Intc!Hold(out) \in O
  <2>1. out.aw \in A /\ out.w \in OutWords /\ out.ar \in B
    BY <1>1
  <2>2. PICK a \in A, b \in OutWords, c \in B :
                     /\ a = IF Intc!awready THEN Intc!NoReg ELSE out.aw
                     /\ b = IF Intc!wready THEN Intc!NoWord ELSE out.w
                     /\ c = IF Intc!arready THEN Intc!NoReg ELSE out.ar
    BY <1>1, <2>1
  <2>3. Intc!Hold(out) = [out EXCEPT !.aw = a, !.w = b, !.ar = c]
    BY <2>2, Zenon DEF Intc!Hold
  <2> QED BY <1>1, <2>3
<1>5. out' \in O
  <2> HIDE DEF O
  <2>1. CASE out' = out \/ out' = Intc!Hold(out) \/ out' = Intc!Read("CLAIM")
    BY <1>1, <1>3, <1>4, <2>1
  <2>2. CASE \E w \in {Intc!NoWord, Intc!Word(Intc!Sources)}, reg \in {Intc!NoReg, "ENABLE"} :
                out' = Intc!Write(reg, w)
    BY <1>1, <1>2, <2>2
  <2>3. CASE out' = Intc!Write(Intc!NoReg, Intc!Word(Intc!Sources)) \/ out' = Intc!Write("ENABLE", Intc!NoWord)
    BY <1>1, <1>2, <2>3
  <2>4. CASE pc = "serving" /\ out' = Intc!Write("CLAIM", id)
    BY <1>1, <1>2, <2>4
  <2> QED BY <2>1, <2>2, <2>3, <2>4, Zenon DEF Goes
<1> QED BY <1>5, <1>p DEF A, B

(* No step drops a pending bit but the completion of the source claimed.   *)
Cleared == \A s \in pending \ pending' : pc = "completing" /\ id = s

LEMMA ClearedStep ==
  ASSUME IntcInv, Collects \/ Performs PROVE Cleared
<1> SUFFICES ASSUME NEW s \in pending \ pending' PROVE pc = "completing" /\ id = s
  BY DEF Cleared
<1>1. Performs /\ write_addr = "CLAIM" /\ s = write_data
  BY DEF Collects, Performs
<1>2. pc \in {"enabling", "completing"}
  BY <1>1 DEF IntcInv, IntcTypeOK, BusFollows, WriteIdle, Performs
<1> QED BY <1>1, <1>2 DEF IntcInv, BusFollows, Performs

LEMMA UpStep ==
  ASSUME NEW raised, Lines(raised)
  PROVE  \A s \in Up : s \in Up' \/ (pc = "serving" /\ pc' = "completing" /\ s = id)
BY DEF Up, Lines

LEMMA PendingStep ==
  ASSUME NEW raised, IntcInv, Goes, Collects \/ Performs, Lines(raised)
  PROVE  PendingIsUp'
<1> SUFFICES ASSUME NEW s \in pending'
             PROVE  s \in Up' \/ (pc' = "completing" /\ ~bvalid' /\ s = id')
  BY DEF PendingIsUp, Up
<1>0. bvalid \in BOOLEAN
  BY DEF IntcInv, IntcTypeOK
<1>1. s \in pending \/ s \in Up
  BY DEF Collects, Performs, Up
<1>2. CASE s \in Up
  <2>1. CASE s \notin Up'
    <3>1. pc = "serving" /\ pc' = "completing" /\ s = id
      BY <1>2, <2>1, UpStep
    <3>2. id' = id
      BY <3>1 DEF Goes
    <3>3. ~bvalid'
      BY <1>0, <3>1 DEF IntcInv, BusFollows, WriteIdle, Collects, Performs
    <3> QED BY <3>1, <3>2, <3>3
  <2> QED BY <2>1
<1>3. CASE s \notin Up
  <2>1. pc = "completing" /\ ~bvalid /\ s = id /\ s \in pending
    BY <1>1, <1>3 DEF IntcInv, PendingIsUp
  <2>2. pc' = "completing" /\ id' = id
    BY <2>1 DEF Goes
  <2>3. Collects
    BY <1>3, <2>1 DEF IntcInv, BusFollows, Performs
  <2>4. ~bvalid'
    BY <1>0, <2>1, <2>3 DEF Collects
  <2> QED BY <2>1, <2>2, <2>4
<1> QED BY <1>2, <1>3

LEMMA ClaimsStep ==
  ASSUME Intc!IntcAssumption, NEW raised, IntcInv, Goes, Answers, Lines(raised)
  PROVE  ClaimsAreUp' /\ (rvalid' => rdata' \in Intc!Sources \cup {0})
<1>0. rvalid \in BOOLEAN /\ pending \subseteq Intc!Sources /\ out.ar \in {Intc!NoReg, "CLAIM"}
  BY DEF IntcInv, IntcTypeOK
<1>1. ASSUME rvalid'
      PROVE  rdata' \in Up' \cup {0} /\ rdata' \in Intc!Sources \cup {0}
  <2>1. CASE ~rvalid
    <3>1. pc = "claiming" /\ out.ar = "CLAIM" /\ rdata' = Intc!claim_id
      BY <1>0, <1>1, <2>1 DEF Answers, IntcInv, BusFollows, Intc!ReadAt, Intc!NoReg
    <3>2. Intc!claim_id \in pending \cup {0}
      BY <1>0, ClaimIsPending
    <3>3. Intc!claim_id \in Up \cup {0}
      BY <3>1, <3>2 DEF IntcInv, PendingIsUp
    <3>4. Intc!claim_id \in Up' \cup {0}
      BY <3>1, <3>3, UpStep
    <3> QED BY <1>0, <3>1, <3>2, <3>4
  <2>2. CASE rvalid
    <3>1. rdata' = rdata /\ rdata \in Up \cup {0} /\ rdata \in Intc!Sources \cup {0}
          /\ pc = "claiming"
      BY <1>1, <2>2 DEF Answers, IntcInv, BusFollows, ClaimsAreUp
    <3>2. rdata \in Up' \cup {0}
      BY <3>1, UpStep
    <3> QED BY <3>1, <3>2
  <2> QED BY <2>1, <2>2
<1>2. ASSUME pc' = "serving"
      PROVE  id' \in Up' /\ id' \in Intc!Sources
  <2>1. CASE pc = "serving"
    <3>1. id' = id /\ id \in Up /\ id \in Intc!Sources
      BY <1>2, <2>1 DEF Goes, IntcInv, ClaimsAreUp
    <3> QED BY <1>2, <3>1, UpStep
  <2>2. CASE pc # "serving"
    <3>1. pc = "claiming" /\ rvalid /\ id' = rdata /\ rdata # 0
      BY <1>2, <2>2 DEF Goes
    <3>2. rdata \in Up /\ rdata \in Intc!Sources
      BY <3>1 DEF IntcInv, ClaimsAreUp
    <3> QED BY <3>1, <3>2, UpStep
  <2> QED BY <2>1, <2>2
<1> QED BY <1>1, <1>2 DEF ClaimsAreUp, Up

LEMMA IntcStep ==
  ASSUME Intc!IntcAssumption, IntcInv, Intc!Next
  PROVE  IntcInv' /\ Cleared
<1>1. /\ Goes /\ Answers
      /\ Collects \/ Performs
      /\ bvalid' \in BOOLEAN /\ rvalid' \in BOOLEAN
      /\ \E raised \in SUBSET Intc!Sources : Lines(raised)
  BY EdgeDoes DEF Intc!Next, IntcInv
<1>2. PICK raised \in SUBSET Intc!Sources : Lines(raised)
  BY <1>1
<1>3. IntcTypeOK'
  <2>1. pending' \subseteq Intc!Sources /\ level' \subseteq Intc!Sources
    BY <1>1, <1>2 DEF IntcInv, IntcTypeOK, Collects, Performs, Lines
  <2>2. write_addr' \in {Intc!NoReg, "ENABLE", "CLAIM"}
    BY <1>1 DEF IntcInv, IntcTypeOK, Collects, Performs
  <2> QED BY <1>1, <2>1, <2>2, OutStep DEF IntcTypeOK, OutWords
<1> QED BY <1>1, <1>2, <1>3, BusStep, PendingStep, ClaimsStep, ClearedStep DEF IntcInv

LEMMA IntcKeeps ==
  ASSUME Intc!IntcAssumption, IntcInv, [Intc!Next]_Intc!vars
  PROVE  IntcInv' /\ [Cleared]_Intc!vars
<1>1. CASE UNCHANGED Intc!vars
  BY <1>1
  DEF Intc!vars, Intc!intcVars, Intc!Sources, Intc!Words, Intc!Word, Intc!SetBits,
      Intc!NoReg, Intc!NoWord, IntcInv, IntcTypeOK, OutWords, BusFollows, HalvesOnce, WriteIdle,
      PendingIsUp, ClaimsAreUp, Up
<1> QED BY <1>1, IntcStep

-----------------------------------------------------------------------------
mcVars == <<block, vars, intc>>

(* A step of MCDevices is one of the controller, or leaves it alone.       *)
LEMMA ControllerStep == [MCNext]_mcVars => [Intc!Next]_Intc!vars
<1>1. CASE MCNext
  BY <1>1 DEF MCNext, UartNext, IntcNext, Controller, intc, Intc!vars, Intc!intcVars
<1>2. CASE UNCHANGED mcVars
  BY <1>2 DEF mcVars, intc, Intc!vars, Intc!intcVars
<1> QED BY <1>1, <1>2

LEMMA ControllerKeeps == IntcInv /\ [MCNext]_mcVars => IntcInv' /\ [Cleared]_Intc!vars
<1> SUFFICES ASSUME IntcInv, [MCNext]_mcVars PROVE IntcInv' /\ [Cleared]_Intc!vars
  OBVIOUS
<1>1. Intc!IntcAssumption
  BY ControllerAssumption
<1>2. [Intc!Next]_Intc!vars
  BY ControllerStep
<1> QED BY <1>1, <1>2, IntcKeeps

LEMMA ControllerAlways == MCSpec => []IntcInv
<1>1. MCInit => IntcInv
  BY IntcStarts DEF MCInit
<1>2. IntcInv /\ [MCNext]_mcVars => IntcInv'
  BY ControllerKeeps
<1> QED BY <1>1, <1>2, PTL DEF MCSpec, mcVars

(* A device that holds its line and has been claimed still holds it, for   *)
(* any number of devices, of which any may raise theirs at any time: no    *)
(* claim is spurious, none is served twice.                                *)
THEOREM ClaimsAlwaysReal == MCSpec => []ClaimIsReal
<1>1. IntcInv => ClaimIsReal
  BY DEF IntcInv, ClaimsAreUp, ClaimIsReal, Intc!ClaimIsReal, Up
<1> QED BY <1>1, ControllerAlways, PTL

(* A pending bit falls only when the handler completes that very source.   *)
THEOREM CompletionAlwaysClears == MCSpec => OnlyCompletionClears
<1>1. [][Cleared]_Intc!vars => OnlyCompletionClears
  BY PTL DEF OnlyCompletionClears, Intc!OnlyCompletionClears, Cleared
<1>2. IntcInv /\ [MCNext]_mcVars => [Cleared]_Intc!vars
  BY ControllerKeeps
<1> QED BY <1>1, <1>2, ControllerAlways, PTL DEF MCSpec, mcVars

-----------------------------------------------------------------------------
(* The UART.  First what a division leaves, for the pointers of the queues *)
(* that wrap around.                                                       *)
LEMMA Division ==
  ASSUME NEW x \in Nat
  PROVE  x \div FifoDepth \in Nat /\ x % FifoDepth \in 0 .. FifoDepth - 1 /\ x = FifoDepth * (x \div FifoDepth) + (x % FifoDepth)
BY UartAssumption
LEMMA Unique ==
  ASSUME NEW p \in Int, NEW q \in Int, NEW r \in 0 .. FifoDepth - 1, NEW s \in 0 .. FifoDepth - 1,
         FifoDepth * p + r = FifoDepth * q + s
  PROVE  r = s
<1>1. p <= q - 1 => FifoDepth * p <= FifoDepth * q - FifoDepth
  BY UartAssumption
<1>2. q <= p - 1 => FifoDepth * q <= FifoDepth * p - FifoDepth
  BY UartAssumption
<1>3. FifoDepth * p \in Int /\ FifoDepth * q \in Int
  BY UartAssumption
<1>4. p = q
  BY <1>1, <1>2, <1>3, UartAssumption
<1> QED BY <1>4, UartAssumption
LEMMA Remainder ==
  ASSUME NEW x \in Nat, NEW q \in Nat, NEW r \in 0 .. FifoDepth - 1, x = FifoDepth * q + r
  PROVE  x % FifoDepth = r
<1>1. x \div FifoDepth \in Nat /\ x % FifoDepth \in 0 .. FifoDepth - 1 /\ x = FifoDepth * (x \div FifoDepth) + (x % FifoDepth)
  BY Division
<1> QED BY <1>1, Unique
LEMMA ModStep ==
  ASSUME NEW x \in Nat
  PROVE  /\ x % FifoDepth \in 0 .. FifoDepth - 1
         /\ (x + 1) % FifoDepth = IF x % FifoDepth = FifoDepth - 1 THEN 0 ELSE (x % FifoDepth) + 1
<1>0. \E q \in Nat, r \in 0 .. FifoDepth - 1 : x = FifoDepth * q + r /\ x % FifoDepth = r
  BY Division
<1> PICK q \in Nat, r \in 0 .. FifoDepth - 1 : x = FifoDepth * q + r /\ x % FifoDepth = r
  BY <1>0
<1>3. CASE r = FifoDepth - 1
  <2>1. x + 1 = FifoDepth * (q + 1) + 0 /\ x + 1 \in Nat /\ 0 \in 0 .. FifoDepth - 1
    BY <1>3, UartAssumption
  <2>3. 0 = (x + 1) % FifoDepth
    BY <2>1, Remainder
  <2> QED BY <1>3, <2>3
<1>4. CASE r # FifoDepth - 1
  <2>1. x + 1 = FifoDepth * q + (r + 1) /\ r + 1 \in 0 .. FifoDepth - 1
    BY <1>4, UartAssumption
  <2>3. r + 1 = (x + 1) % FifoDepth
    BY <2>1, Remainder
  <2> QED BY <1>4, <2>3
<1> QED BY <1>3, <1>4
LEMMA ModTurn ==
  ASSUME NEW x \in Nat
  PROVE  (x + FifoDepth) % FifoDepth = x % FifoDepth
<1>0. \E q \in Nat, r \in 0 .. FifoDepth - 1 : x = FifoDepth * q + r /\ x % FifoDepth = r
  BY Division
<1> PICK q \in Nat, r \in 0 .. FifoDepth - 1 : x = FifoDepth * q + r /\ x % FifoDepth = r
  BY <1>0
<1>4. x + FifoDepth = FifoDepth * (q + 1) + r /\ x + FifoDepth \in Nat
  BY UartAssumption
<1> QED BY <1>4, Remainder
LEMMA ModSmall ==
  ASSUME NEW x \in Nat
  PROVE  /\ x < FifoDepth => x % FifoDepth = x
         /\ x >= FifoDepth /\ x < FifoDepth + FifoDepth => x % FifoDepth = x - FifoDepth
BY UartAssumption

Byte == [1 .. Bits -> Bit]
Queue(fifo, rd, wr, count, met, bytes) ==
  /\ fifo \in [Slots -> Byte] /\ rd \in Slots /\ wr \in Slots
  /\ count \in 0 .. FifoDepth /\ met \in Nat
  /\ (rd + count + met) % FifoDepth = wr
  /\ bytes = IF met = 0 THEN Held(fifo, rd, count) ELSE <<>>

LEMMA Afterwards ==
  ASSUME NEW p \in Slots
  PROVE  /\ After(p) \in Slots
         /\ After(p) = p + 1 \/ (p + 1 = FifoDepth /\ After(p) = 0)
<1>1. p \in Nat /\ p < FifoDepth
  BY UartAssumption DEF Slots
<1>2. p % FifoDepth = p
  BY <1>1, ModSmall
<1>3. After(p) = IF p % FifoDepth = FifoDepth - 1 THEN 0 ELSE (p % FifoDepth) + 1
  BY <1>1, ModStep DEF After
<1> QED BY <1>1, <1>2, <1>3, UartAssumption DEF Slots

LEMMA HeldIsSeq ==
  ASSUME NEW fifo \in [Slots -> Byte], NEW rd \in Slots, NEW count \in 0 .. FifoDepth
  PROVE  /\ Held(fifo, rd, count) \in Seq(Byte) /\ Len(Held(fifo, rd, count)) = count
         /\ \A i \in 1 .. count : Held(fifo, rd, count)[i] = fifo[(rd + i - 1) % FifoDepth]
<1>1. \A i \in 1 .. count : rd + i - 1 \in Nat
  BY UartAssumption DEF Slots
<1>2. \A i \in 1 .. count : (rd + i - 1) % FifoDepth \in Slots
  BY <1>1, ModStep DEF Slots
<1>3. Held(fifo, rd, count) \in [1 .. count -> Byte]
  BY <1>2 DEF Held
<1>4. count \in Nat
  BY UartAssumption
<1> QED BY <1>3, <1>4 DEF Held

\* What stands in a queue is at distinct places.
LEMMA Places ==
  ASSUME NEW rd \in Slots, NEW i \in Nat, NEW j \in Nat, i < FifoDepth, j < FifoDepth,
         i # j
  PROVE  (rd + i) % FifoDepth # (rd + j) % FifoDepth
<1>1. rd \in Nat /\ rd < FifoDepth /\ rd + i \in Nat /\ rd + j \in Nat
  BY UartAssumption DEF Slots
<1>2. (rd + i) % FifoDepth = rd + i \/ (rd + i) % FifoDepth = rd + i - FifoDepth
  BY <1>1, ModSmall, UartAssumption
<1>3. (rd + j) % FifoDepth = rd + j \/ (rd + j) % FifoDepth = rd + j - FifoDepth
  BY <1>1, ModSmall, UartAssumption
<1>4. (rd + i) % FifoDepth \in 0 .. FifoDepth - 1 /\ (rd + j) % FifoDepth \in 0 .. FifoDepth - 1
  BY <1>1, ModStep
<1> QED BY <1>1, <1>2, <1>3, <1>4, UartAssumption

\* The place after the first is the first of the rest.
LEMMA FromNext ==
  ASSUME NEW rd \in Slots, NEW k \in Nat
  PROVE  (After(rd) + k) % FifoDepth = (rd + 1 + k) % FifoDepth
<1>1. rd \in Nat
  BY DEF Slots
<1>2. CASE After(rd) = rd + 1
  BY <1>2
<1>3. CASE After(rd) = 0 /\ rd + 1 = FifoDepth
  <2>1. (k + FifoDepth) % FifoDepth = k % FifoDepth
    BY ModTurn
  <2>2. rd + 1 + k = k + FifoDepth /\ After(rd) + k = k
    BY <1>1, <1>3, UartAssumption
  <2> QED BY <2>1, <2>2
<1> QED BY <1>2, <1>3, Afterwards

\* One edge of a queue: put writes v at its end, take drops its first.
QueueMoves(put, take, v, fifo, rd, wr, count, met, bytes, fifo1, rd1, wr1, count1, met1, bytes1) ==
  /\ put \in BOOLEAN /\ take \in BOOLEAN
  /\ put => v \in Byte /\ count # FifoDepth
  /\ take => count # 0
  /\ fifo1 = (IF put THEN [fifo EXCEPT ![wr] = v] ELSE fifo)
  /\ rd1 = (IF take THEN After(rd) ELSE rd)
  /\ wr1 = (IF put THEN After(wr) ELSE wr)
  /\ count1 = (IF take THEN (count - 1) % CountWidth
               ELSE IF put THEN count + 1 ELSE count)
  /\ met1 = (IF put /\ take THEN met + 1 ELSE met)
  /\ bytes1 = (LET left == IF take THEN Tail(bytes) ELSE bytes
               IN IF met1 # 0 THEN <<>> ELSE IF put THEN Append(left, v) ELSE left)
LEMMA QueueStep ==
  ASSUME NEW put, NEW take, NEW v,
         NEW fifo, NEW rd, NEW wr, NEW count, NEW met, NEW bytes,
         NEW fifo1, NEW rd1, NEW wr1, NEW count1, NEW met1, NEW bytes1,
         Queue(fifo, rd, wr, count, met, bytes),
         QueueMoves(put, take, v, fifo, rd, wr, count, met, bytes,
                    fifo1, rd1, wr1, count1, met1, bytes1)
  PROVE  Queue(fifo1, rd1, wr1, count1, met1, bytes1)
<1> USE DEF QueueMoves
<1>1. /\ fifo \in [Slots -> Byte] /\ rd \in Slots /\ wr \in Slots
      /\ count \in 0 .. FifoDepth /\ met \in Nat
      /\ (rd + count + met) % FifoDepth = wr
  BY DEF Queue
<1>2. rd \in Nat /\ rd < FifoDepth /\ count \in Nat /\ FifoDepth \in Nat /\ FifoDepth > 0
  BY <1>1, UartAssumption DEF Slots
<1>3. fifo1 \in [Slots -> Byte]
  BY <1>1
<1>4. rd1 \in Slots /\ wr1 \in Slots /\ met1 \in Nat
  BY <1>1, Afterwards
<1>5. take => (count - 1) % CountWidth = count - 1
  <2> SUFFICES ASSUME take PROVE (count - 1) % CountWidth = count - 1
    OBVIOUS
  <2>1. count - 1 \in Nat /\ count - 1 < CountWidth /\ CountWidth \in Nat \ {0}
    BY <1>1, <1>2 DEF CountWidth
  <2> HIDE DEF CountWidth
  <2> QED BY <2>1
<1>6. count1 = IF take THEN count - 1 ELSE IF put THEN count + 1 ELSE count
  BY <1>5
<1>7. count1 \in 0 .. FifoDepth
  BY <1>1, <1>2, <1>6
<1>8. rd + count + met \in Nat /\ count + met \in Nat
  BY <1>1, <1>2
<1>9. /\ rd1 = (IF take THEN After(rd) ELSE rd) /\ wr1 = (IF put THEN After(wr) ELSE wr)
      /\ met1 = (IF put /\ take THEN met + 1 ELSE met)
      /\ put \in BOOLEAN /\ take \in BOOLEAN /\ (take => count # 0)
  OBVIOUS
<1>10. (rd1 + count1 + met1) % FifoDepth = wr1
  <2> HIDE DEF QueueMoves
  <2>1. (rd + count + met + 1) % FifoDepth = After(wr)
    <3>1. After(wr) = IF wr % FifoDepth = FifoDepth - 1 THEN 0 ELSE (wr % FifoDepth) + 1
      BY <1>1, ModStep, UartAssumption DEF After, Slots
    <3>2. wr % FifoDepth = wr
      BY <1>1, ModSmall, UartAssumption DEF Slots
    <3> QED BY <1>1, <1>8, <3>1, <3>2, ModStep
  <2>2. CASE take
    <3>1. count + met - 1 \in Nat
      BY <1>1, <1>2, <1>9, <2>2
    <3>2. (After(rd) + (count + met - 1)) % FifoDepth = (rd + 1 + (count + met - 1)) % FifoDepth
      BY <1>1, <3>1, FromNext
    <3>3. (After(rd) + (count + met)) % FifoDepth = (rd + 1 + (count + met)) % FifoDepth
      BY <1>1, <1>8, FromNext
    <3>4. After(rd) \in Nat
      BY <1>1, Afterwards DEF Slots
    <3>5. CASE put
      <4>1. rd1 + count1 + met1 = After(rd) + (count + met)
        BY <1>1, <1>2, <1>6, <1>9, <2>2, <3>4, <3>5
      <4>2. rd + count + met + 1 = rd + 1 + (count + met)
        BY <1>1, <1>2
      <4> QED BY <1>9, <2>1, <3>3, <3>5, <4>1, <4>2
    <3>6. CASE ~put
      <4>1. rd1 + count1 + met1 = After(rd) + (count + met - 1)
        BY <1>1, <1>2, <1>6, <1>9, <2>2, <3>4, <3>6
      <4>2. rd + count + met = rd + 1 + (count + met - 1)
        BY <1>1, <1>2
      <4> QED BY <1>1, <1>9, <3>2, <3>6, <4>1, <4>2
    <3> QED BY <3>5, <3>6
  <2>3. CASE ~take
    <3>1. rd1 + count1 + met1 = IF put THEN rd + count + met + 1 ELSE rd + count + met
      BY <1>1, <1>2, <1>6, <1>9, <2>3
    <3> QED BY <1>1, <1>9, <2>1, <2>3, <3>1
  <2> QED BY <2>2, <2>3
<1>11. bytes1 = IF met1 = 0 THEN Held(fifo1, rd1, count1) ELSE <<>>
  <2> SUFFICES ASSUME met1 = 0 PROVE bytes1 = Held(fifo1, rd1, count1)
    OBVIOUS
  <2>1. met = 0 /\ ~(put /\ take)
    BY <1>1
  <2>2. bytes = Held(fifo, rd, count)
    BY <2>1 DEF Queue
  <2>3. /\ bytes \in Seq(Byte) /\ Len(bytes) = count
        /\ \A i \in 1 .. count : bytes[i] = fifo[(rd + i - 1) % FifoDepth]
    BY <1>1, <2>2, HeldIsSeq
  <2>4. /\ Held(fifo1, rd1, count1) \in Seq(Byte) /\ Len(Held(fifo1, rd1, count1)) = count1
        /\ \A i \in 1 .. count1 :
             Held(fifo1, rd1, count1)[i] = fifo1[(rd1 + i - 1) % FifoDepth]
    <3> HIDE DEF QueueMoves
    <3> QED BY <1>3, <1>4, <1>7, HeldIsSeq
  <2> DEFINE H == Held(fifo1, rd1, count1)
  <2> HIDE DEF H
  <2>5. CASE take
    <3>1. bytes1 = Tail(bytes) /\ fifo1 = fifo /\ count1 = count - 1 /\ count # 0
      BY <1>6, <2>1, <2>5
    <3>2. bytes1 \in Seq(Byte) /\ Len(bytes1) = count1
          /\ \A i \in 1 .. count1 : bytes1[i] = bytes[i + 1]
      BY <1>2, <2>3, <3>1
    <3>3. \A i \in 1 .. count1 : H[i] = bytes1[i]
      <4> TAKE i \in 1 .. count1
      <4>1. i \in Nat /\ i - 1 \in Nat /\ i + 1 \in 1 .. count
        BY <1>2, <3>1
      <4>2. (After(rd) + (i - 1)) % FifoDepth = (rd + 1 + (i - 1)) % FifoDepth
        BY <1>1, <4>1, FromNext
      <4>3. rd1 = After(rd) /\ After(rd) \in Nat
        BY <1>1, <2>5, Afterwards DEF Slots
      <4>4. After(rd) + (i - 1) = rd1 + i - 1 /\ rd + 1 + (i - 1) = rd + (i + 1) - 1
        BY <1>2, <4>1, <4>3
      <4>5. H[i] = fifo[(rd1 + i - 1) % FifoDepth]
        BY <2>4, <3>1 DEF H
      <4>6. bytes1[i] = fifo[(rd + (i + 1) - 1) % FifoDepth]
        BY <2>3, <3>2, <4>1
      <4> QED BY <4>2, <4>4, <4>5, <4>6
    <3> QED BY <2>4, <3>2, <3>3, SeqEqual DEF H
  <2>6. CASE put
    <3>1. /\ bytes1 = Append(bytes, v) /\ rd1 = rd /\ count1 = count + 1 /\ v \in Byte
          /\ count < FifoDepth /\ fifo1 = [fifo EXCEPT ![wr] = v]
      BY <1>1, <1>2, <1>6, <2>1, <2>6
    <3>2. bytes1 \in Seq(Byte) /\ Len(bytes1) = count1
          /\ bytes1[count1] = v /\ \A i \in 1 .. count : bytes1[i] = bytes[i]
      BY <1>2, <2>3, <3>1
    <3>3. \A i \in 1 .. count1 : H[i] = bytes1[i]
      <4> TAKE i \in 1 .. count1
      <4>1. i - 1 \in Nat /\ i - 1 < FifoDepth /\ rd + i - 1 = rd + (i - 1)
            /\ rd + (i - 1) \in Nat
        BY <1>2, <3>1
      <4>2. wr = (rd + count) % FifoDepth
        BY <1>1, <1>2, <2>1
      <4>3. H[i] = fifo1[(rd + (i - 1)) % FifoDepth]
        BY <2>4, <3>1, <4>1 DEF H
      <4>4. (rd + (i - 1)) % FifoDepth \in Slots
        BY <4>1, ModStep DEF Slots
      <4>5. CASE i = count1
        <5>1. i - 1 = count
          BY <1>2, <3>1, <4>5
        <5> QED BY <1>1, <3>1, <3>2, <4>2, <4>3, <4>5, <5>1
      <4>6. CASE i # count1
        <5>1. i \in 1 .. count /\ i - 1 # count
          BY <1>2, <3>1, <4>6
        <5>2. (rd + (i - 1)) % FifoDepth # (rd + count) % FifoDepth
          BY <1>1, <1>2, <3>1, <4>1, <5>1, Places
        <5>3. H[i] = fifo[(rd + (i - 1)) % FifoDepth]
          BY <1>1, <3>1, <4>2, <4>3, <4>4, <5>2
        <5> QED BY <2>3, <3>2, <4>1, <5>1, <5>3
      <4> QED BY <4>5, <4>6
    <3> QED BY <2>4, <3>2, <3>3, SeqEqual DEF H
  <2>7. CASE ~put /\ ~take
    BY <1>6, <2>1, <2>2, <2>7
  <2> QED BY <2>1, <2>5, <2>6, <2>7
<1> QED BY <1>3, <1>4, <1>7, <1>10, <1>11 DEF Queue

\* ------------------------------------------------------------- the edge
LEMMA Shifting ==
  ASSUME NEW b \in Byte, NEW x \in Bit
  PROVE  /\ Head(b) = b[1] /\ b[1] \in Bit
         /\ ShiftIn(b, x) \in Byte
         /\ \A i \in 1 .. Bits : ShiftIn(b, x)[i] = IF i = Bits THEN x ELSE b[i + 1]
<1>1. b \in Seq(Bit) /\ Len(b) = Bits /\ Bits \in Nat \ {0}
  BY UartAssumption DEF Byte
<1>2. Head(b) = b[1] /\ b[1] \in Bit
  BY <1>1
<1>3. Tail(b) \in Seq(Bit) /\ Len(Tail(b)) = Bits - 1
      /\ \A i \in 1 .. Bits - 1 : Tail(b)[i] = b[i + 1]
  BY <1>1
<1>4. ShiftIn(b, x) \in Seq(Bit) /\ Len(ShiftIn(b, x)) = Bits
      /\ \A i \in 1 .. Bits : ShiftIn(b, x)[i] = IF i = Bits THEN x ELSE Tail(b)[i]
  BY <1>1, <1>3 DEF ShiftIn
<1>5. ShiftIn(b, x) \in Byte
  BY <1>4 DEF Byte
<1>6. \A i \in 1 .. Bits : i # Bits => Tail(b)[i] = b[i + 1]
  BY <1>1, <1>3
<1> QED BY <1>2, <1>4, <1>5, <1>6

States == {"IDLE", "START", "DATA", "STOP"}
UartTypes ==
  /\ software \in Softwares
  /\ uart_en \in BOOLEAN /\ rx_ie \in BOOLEAN
  /\ baud_div \in {0} \cup software.speeds /\ baud_cnt \in Nat
  /\ tx_state \in States /\ tx_load_byte \in BOOLEAN /\ tx_shift \in Byte /\ tx \in Bit
  /\ rx_state \in States /\ rx_push_byte \in BOOLEAN /\ rx_shift \in Byte
  /\ rx_byte_val \in Byte /\ rx_sync0 \in Bit /\ rx_sync1 \in Bit
  /\ rx_overrun \in BOOLEAN /\ garbled \in BOOLEAN
QueueInv ==
  /\ Queue(tx_fifo, tx_rd_ptr, tx_wr_ptr, tx_count, tx_met, unsent)
  /\ Queue(rx_fifo, rx_rd_ptr, rx_wr_ptr, rx_count, rx_met, unread)
  /\ tx_load_byte => tx_state = "START" /\ ~tx_empty
  /\ dropped => rx_overrun

\* What software may ask of an edge.
Access(op) ==
  \/ op.kind = "putBaud" /\ op.val \in software.speeds
  \/ op.kind = "putControl" /\ op.val.en \in BOOLEAN /\ op.val.rx_ie \in BOOLEAN
  \/ op.kind = "putData" /\ op.val \in software.bytes
  \/ op.kind \in {"getData", "getStatus", "none"}

LEMMA EveryStepIsAnEdge ==
  ASSUME Next
  PROVE  \E op : Access(op) /\ Edge(op)
<1>1. CASE SetSpeed
  BY <1>1 DEF SetSpeed, Sets, Op, Access
<1>2. CASE Enable
  BY <1>2 DEF Enable, EnableIs, Op, Access
<1>3. CASE Change
  <2>1. CASE uart_en /\ Edge(EnableIs(FALSE))
    BY <2>1 DEF EnableIs, Op, Access
  <2>2. CASE \E d \in software.speeds \ {baud_div} : Sets(d)
    BY <2>2 DEF Sets, Op, Access
  <2> QED BY <1>3, <2>1, <2>2 DEF Change
<1>4. CASE PutByte
  BY <1>4 DEF PutByte, Op, Access
<1>5. CASE GetByte
  BY <1>5 DEF GetByte, Op, Access
<1>6. CASE GetStatus
  BY <1>6 DEF GetStatus, Op, Access
<1>7. CASE NoAccess
  BY <1>7 DEF NoAccess, Op, Access
<1> QED BY <1>1, <1>2, <1>3, <1>4, <1>5, <1>6, <1>7 DEF Next

LEMMA SoftwareTypes ==
  ASSUME UartTypes
  PROVE  /\ software.bytes \subseteq Byte /\ software.speeds \subseteq Nat \ {0}
         /\ baud_div \in Nat
BY SoftwareAssumption DEF UartTypes, Byte

LEMMA UartTypesStep ==
  ASSUME UartTypes, QueueInv, NEW op, Access(op), Edge(op)
  PROVE  UartTypes'
<1>1. UartEdge(op, tx) /\ software' = software
  BY DEF Edge
<1>2. /\ software.bytes \subseteq Byte /\ software.speeds \subseteq Nat \ {0}
      /\ baud_div \in Nat
  BY SoftwareTypes
<1>3. BaudCounter /\ Control(op) /\ Sender /\ Synchronise(tx) /\ Receiver /\ RxQueue(op)
  BY <1>1 DEF UartEdge
<1>4. uart_en' \in BOOLEAN /\ rx_ie' \in BOOLEAN /\ baud_div' \in {0} \cup software'.speeds
  BY <1>1, <1>3 DEF Control, Access, UartTypes, controlVars
<1>5. baud_cnt' \in Nat
  BY <1>2, <1>3 DEF BaudCounter, UartTypes
<1>6. tx_state' \in States /\ tx_load_byte' \in BOOLEAN /\ tx_shift' \in Byte /\ tx' \in Bit
  <2>1. tx_fifo[tx_rd_ptr] \in Byte
    BY DEF QueueInv, Queue
  <2>2. CASE TakeByte
    BY <2>1, <2>2 DEF TakeByte, States, Bit
  <2>3. CASE StartBit
    BY <2>3 DEF StartBit, States, Bit, UartTypes
  <2>4. CASE DataBit
    <3>1. Head(tx_shift) \in Bit /\ ShiftIn(tx_shift, 1) \in Byte
      BY Shifting DEF UartTypes, Bit
    <3> QED BY <2>4, <3>1 DEF DataBit, States, UartTypes
  <2>5. CASE StopOrIdle
    BY <2>5 DEF StopOrIdle, States, Bit, UartTypes
  <2> QED BY <1>3, <2>2, <2>3, <2>4, <2>5 DEF Sender
<1>7. rx_sync0' \in Bit /\ rx_sync1' \in Bit
  BY <1>3 DEF Synchronise, UartTypes
<1>8. rx_state' \in States /\ rx_push_byte' \in BOOLEAN /\ rx_shift' \in Byte /\ rx_byte_val' \in Byte
  <2>1. ShiftIn(rx_shift, rx_sync1) \in Byte
    BY Shifting DEF UartTypes
  <2>2. CASE SeeStart
    BY <2>2 DEF SeeStart, States, UartTypes
  <2>3. CASE CountDown
    BY <2>3 DEF CountDown, States, UartTypes
  <2>4. CASE ConfirmStart
    BY <2>4 DEF ConfirmStart, States, UartTypes
  <2>5. CASE SampleBit
    BY <2>1, <2>5 DEF SampleBit, States, UartTypes
  <2>6. CASE PushByte
    BY <2>1, <2>6 DEF PushByte, States, UartTypes
  <2> QED BY <1>3, <2>2, <2>3, <2>4, <2>5, <2>6 DEF Receiver
<1>9. rx_overrun' \in BOOLEAN
  BY <1>3 DEF RxQueue, UartTypes
<1>10. garbled' \in BOOLEAN
  BY DEF Edge, History
<1> QED BY <1>1, <1>4, <1>5, <1>6, <1>7, <1>8, <1>9, <1>10 DEF UartTypes

LEMMA QueueInvStep ==
  ASSUME UartTypes, QueueInv, NEW op, Access(op), Edge(op)
  PROVE  QueueInv'
<1>1. UartEdge(op, tx) /\ History(op)
  BY DEF Edge
<1>2. TxQueue(op) /\ RxQueue(op) /\ Sender
  BY <1>1 DEF UartEdge
<1>3. Queue(tx_fifo, tx_rd_ptr, tx_wr_ptr, tx_count, tx_met, unsent)'
  <2>1. Put(op) => op.val \in Byte /\ tx_count # FifoDepth
    BY SoftwareTypes DEF Put, Access, tx_full
  <2>2. Put(op) \in BOOLEAN /\ tx_load_byte \in BOOLEAN /\ (tx_load_byte => tx_count # 0)
    BY DEF Put, UartTypes, QueueInv, tx_empty
  <2>3. Queue(tx_fifo, tx_rd_ptr, tx_wr_ptr, tx_count, tx_met, unsent)
    BY DEF QueueInv
  <2>4. /\ tx_fifo' = (IF Put(op) THEN [tx_fifo EXCEPT ![tx_wr_ptr] = op.val] ELSE tx_fifo)
        /\ tx_rd_ptr' = (IF tx_load_byte THEN After(tx_rd_ptr) ELSE tx_rd_ptr)
        /\ tx_wr_ptr' = (IF Put(op) THEN After(tx_wr_ptr) ELSE tx_wr_ptr)
        /\ tx_count' = (IF tx_load_byte THEN (tx_count - 1) % CountWidth
                        ELSE IF Put(op) THEN tx_count + 1 ELSE tx_count)
    BY <1>2 DEF TxQueue
  <2>5. tx_met' = IF Put(op) /\ tx_load_byte THEN tx_met + 1 ELSE tx_met
    BY <1>1 DEF History, TxMeets
  <2>6. unsent' = (LET left == IF tx_load_byte THEN Tail(unsent) ELSE unsent
                   IN IF tx_met' # 0 THEN <<>>
                      ELSE IF Put(op) THEN Append(left, op.val) ELSE left)
    BY <1>1 DEF History
  <2>7. QueueMoves(Put(op), tx_load_byte, op.val,
                   tx_fifo, tx_rd_ptr, tx_wr_ptr, tx_count, tx_met, unsent,
                   tx_fifo', tx_rd_ptr', tx_wr_ptr', tx_count', tx_met', unsent')
    BY <2>1, <2>2, <2>4, <2>5, <2>6, Zenon DEF QueueMoves
  <2>8. Queue(tx_fifo', tx_rd_ptr', tx_wr_ptr', tx_count', tx_met', unsent')
    BY <2>3, <2>7, QueueStep
  <2> QED BY <2>8
<1>4. Queue(rx_fifo, rx_rd_ptr, rx_wr_ptr, rx_count, rx_met, unread)'
  <2>1. Pushes => rx_byte_val \in Byte /\ rx_count # FifoDepth
    BY DEF Pushes, UartTypes, rx_full
  <2>2. Pushes \in BOOLEAN /\ Got(op) \in BOOLEAN /\ (Got(op) => rx_count # 0)
    BY DEF Pushes, Got, UartTypes, rx_empty
  <2>3. Queue(rx_fifo, rx_rd_ptr, rx_wr_ptr, rx_count, rx_met, unread)
    BY DEF QueueInv
  <2>4. /\ rx_fifo' = (IF Pushes THEN [rx_fifo EXCEPT ![rx_wr_ptr] = rx_byte_val] ELSE rx_fifo)
        /\ rx_rd_ptr' = (IF Got(op) THEN After(rx_rd_ptr) ELSE rx_rd_ptr)
        /\ rx_wr_ptr' = (IF Pushes THEN After(rx_wr_ptr) ELSE rx_wr_ptr)
        /\ rx_count' = (IF Got(op) THEN (rx_count - 1) % CountWidth
                        ELSE IF Pushes THEN rx_count + 1 ELSE rx_count)
    BY <1>2 DEF RxQueue
  <2>5. rx_met' = IF Pushes /\ Got(op) THEN rx_met + 1 ELSE rx_met
    BY <1>1 DEF History, RxMeets
  <2>6. unread' = (LET left == IF Got(op) THEN Tail(unread) ELSE unread
                   IN IF rx_met' # 0 THEN <<>>
                      ELSE IF Pushes THEN Append(left, rx_byte_val) ELSE left)
    BY <1>1 DEF History
  <2>7. QueueMoves(Pushes, Got(op), rx_byte_val,
                   rx_fifo, rx_rd_ptr, rx_wr_ptr, rx_count, rx_met, unread,
                   rx_fifo', rx_rd_ptr', rx_wr_ptr', rx_count', rx_met', unread')
    BY <2>1, <2>2, <2>4, <2>5, <2>6, Zenon DEF QueueMoves
  <2>8. Queue(rx_fifo', rx_rd_ptr', rx_wr_ptr', rx_count', rx_met', unread')
    BY <2>3, <2>7, QueueStep
  <2> QED BY <2>8
<1>5. (tx_load_byte => tx_state = "START" /\ ~tx_empty)'
  <2>1. CASE TakeByte
    <3>1. tx_state' = "START" /\ tx_count # 0 /\ ~tx_load_byte
      BY <2>1 DEF TakeByte, tx_empty, QueueInv
    <3>2. tx_count \in 0 .. FifoDepth /\ FifoDepth \in Nat
      BY UartAssumption DEF QueueInv, Queue
    <3>3. tx_count' # 0
      BY <1>2, <3>1, <3>2 DEF TxQueue
    <3> QED BY <3>1, <3>3 DEF tx_empty
  <2>2. CASE ~TakeByte
    <3>1. tx_load_byte' = FALSE
      BY <1>2, <2>2 DEF Sender, StartBit, DataBit, StopOrIdle
    <3> QED BY <3>1
  <2> QED BY <2>1, <2>2
<1>6. (dropped => rx_overrun)'
  BY <1>1, <1>2 DEF History, StatusMeets, RxQueue, QueueInv
<1> QED BY <1>3, <1>4, <1>5, <1>6 DEF QueueInv

\* ------------------------------------------------------------- the line
\* Where the sender is: the bit it is sending, 0 the start bit, and for how many edges.
Slot == IF tx_state = "START" THEN 0
        ELSE IF tx_state = "DATA" THEN tx_bit_cnt + 1
        ELSE IF tx_state = "STOP" THEN Bits + 1 ELSE Bits + 2
Phase == baud_div - 1 - baud_cnt
Level(b, k) == IF k = 0 THEN 0 ELSE IF k \in 1 .. Bits THEN b[k] ELSE 1
\* What a register shows that is d edges behind.
Line(b, k, r, d) == Level(b, IF r >= d THEN k ELSE k - 1)

\* The receiver samples bit j this many edges after it began.
Delay == 4 + (baud_div \div 2)
Lag(period, delay, j, k, r, c) ==
  /\ c \in 0 .. period - 1
  /\ \/ k = j - 1 /\ c = delay + period - r
     \/ k = j /\ c = delay - r
     \/ k = j + 1 /\ c = delay - period - r
Lags(j) == Lag(baud_div, Delay, j, Slot, Phase, rx_baud_cnt)

Succeeds(period, k, r, k1, r1) ==
  \/ k1 = k /\ r1 = r + 1 /\ r # period - 1
  \/ k1 = k + 1 /\ r1 = 0 /\ r = period - 1

LEMMA LineMoves ==
  ASSUME NEW period \in Nat, period >= 3, NEW k \in Int, NEW r \in 0 .. period - 1,
         NEW k1, NEW r1, Succeeds(period, k, r, k1, r1), NEW b
  PROVE  /\ Level(b, k) = Line(b, k1, r1, 1)
         /\ Line(b, k, r, 1) = Line(b, k1, r1, 2)
         /\ Line(b, k, r, 2) = Line(b, k1, r1, 3)
         /\ r1 \in 0 .. period - 1
<1>1. CASE k1 = k /\ r1 = r + 1 /\ r # period - 1
  BY <1>1 DEF Line
<1>2. CASE k1 = k + 1 /\ r1 = 0 /\ r = period - 1
  <2>1. k1 - 1 = k
    BY <1>2
  <2> QED BY <1>2, <2>1 DEF Line
<1> QED BY <1>1, <1>2 DEF Succeeds

LEMMA LagMoves ==
  ASSUME NEW period \in Nat, period >= 3, NEW delay \in Nat, delay >= 5, delay <= period + 2,
         NEW j \in Int, NEW k \in Int, NEW r \in 0 .. period - 1, NEW c,
         Lag(period, delay, j, k, r, c)
  PROVE  /\ c = 0 => (k = j /\ r = delay) \/ (k = j + 1 /\ r = delay - period)
         /\ r = period - 1 /\ k = j + 1 => c = 0
         /\ \A k1, r1 :
              Succeeds(period, k, r, k1, r1) =>
                /\ c # 0 => Lag(period, delay, j, k1, r1, c - 1)
                /\ c = 0 => Lag(period, delay, j + 1, k1, r1, period - 1)
BY DEF Lag, Succeeds

Shifts(b) ==
  /\ tx_state = "START" => tx_shift = b
  /\ tx_state = "DATA" =>
       /\ tx_bit_cnt \in 0 .. Bits - 1
       /\ \A i \in 1 .. Bits - tx_bit_cnt : tx_shift[i] = b[tx_bit_cnt + i]
Wires(b) ==
  /\ tx = Line(b, Slot, Phase, 1)
  /\ rx_sync0 = Line(b, Slot, Phase, 2)
  /\ rx_sync1 = Line(b, Slot, Phase, 3)

\* The receiver's last byte, of which it was sent the bits of c.
Pushed(c) == rx_byte_val = ShiftIn(c, 1)
Waits(b) ==
  /\ rx_state = "IDLE"
  /\ (Slot = 0 /\ Phase <= 3) \/ (Slot = 1 /\ Phase = 0 /\ baud_div = 3)
  /\ IF rx_push_byte THEN Slot = 0 /\ Phase = 0 /\ \E c \in Byte : Pushed(c) /\ flying = <<c, b>>
     ELSE flying = <<b>>
Starts(b) == rx_state = "START" /\ ~rx_push_byte /\ flying = <<b>> /\ Lags(0)
Gathers(b) ==
  /\ rx_state = "DATA" /\ ~rx_push_byte /\ flying = <<b>>
  /\ rx_bit_cnt \in 0 .. Bits - 1 /\ Lags(rx_bit_cnt + 1)
  /\ \A i \in 1 .. rx_bit_cnt : rx_shift[Bits - rx_bit_cnt + i] = b[i]
Stops(b) ==
  rx_state = "STOP" /\ ~rx_push_byte /\ flying = <<b>> /\ rx_shift = b /\ Lags(Bits + 1)
Ended(b) ==
  /\ rx_state = "IDLE"
  /\ (Slot = Bits + 1 /\ Phase >= 3) \/ Slot = Bits + 2
  /\ IF rx_push_byte THEN Pushed(b) /\ flying = <<b>> ELSE Slot = Bits + 1 /\ flying = <<>>

\* A byte is on the line.
Frame(b) ==
  /\ uart_en /\ baud_div >= 3 /\ baud_cnt < baud_div
  /\ Shifts(b) /\ Wires(b)
  /\ Waits(b) \/ Starts(b) \/ Gathers(b) \/ Stops(b) \/ Ended(b)

LineInv == ~garbled => (Quiet /\ flying = <<>>) \/ \E b \in Byte : Frame(b)

\* --------------------------------------------------- steps of the sender
LEMMA Delays ==
  ASSUME NEW period \in Nat, period >= 3
  PROVE  /\ 4 + (period \div 2) \in Nat /\ 4 + (period \div 2) >= 5
         /\ 4 + (period \div 2) <= period + 2 /\ period \div 2 <= period - 1
OBVIOUS

LEMMA SameSettings ==
  ASSUME UartTypes, NEW op, Access(op), Edge(op), ~garbled', ~Quiet'
  PROVE  ~garbled /\ uart_en' = uart_en /\ baud_div' = baud_div
<1>1. ~garbled /\ ~Changes(op)
  BY DEF Edge, History
<1>2. Control(op)
  BY DEF Edge, UartEdge
<1> QED BY <1>1, <1>2 DEF Control, Changes, controlVars

LEMMA FlyingMoves ==
  ASSUME NEW op, Edge(op), ~garbled', ~Quiet'
  PROVE  flying' = LET left == IF rx_push_byte /\ flying # <<>> THEN Tail(flying) ELSE flying
                   IN IF tx_load_byte' THEN Append(left, tx_fifo[tx_rd_ptr]) ELSE left
BY DEF Edge, History

\* A sender that is sending goes on by one edge.
LEMMA SenderMoves ==
  ASSUME UartTypes, UartTypes', NEW b \in Byte, Frame(b), tx_state # "IDLE",
         Sender, BaudCounter, Synchronise(tx), uart_en' = uart_en, baud_div' = baud_div
  PROVE  /\ Succeeds(baud_div, Slot, Phase, Slot', Phase')
         /\ Slot \in Int /\ Phase \in 0 .. baud_div - 1
         /\ baud_cnt' < baud_div' /\ Shifts(b)' /\ Wires(b)'
         /\ tx_load_byte' = FALSE
         /\ tx_state = "STOP" <=> Slot = Bits + 1
         /\ Slot' = Bits + 2 <=> tx_state' = "IDLE"
         /\ tx_state' = "IDLE" => tx_state = "STOP"
         /\ Slot' \in 0 .. Bits + 2 /\ Slot \in 0 .. Bits + 1
<1>1. /\ baud_div \in Nat /\ baud_div >= 3 /\ baud_cnt \in Nat /\ baud_cnt < baud_div
      /\ Bits \in Nat /\ Bits > 0 /\ uart_en /\ Shifts(b) /\ Wires(b)
  BY UartAssumption, SoftwareTypes DEF UartTypes, Frame
<1>2. baud_tick <=> baud_cnt = 0
  BY <1>1 DEF baud_tick
<1>3. /\ baud_cnt' = IF baud_cnt = 0 THEN baud_div - 1 ELSE baud_cnt - 1
      /\ Phase \in 0 .. baud_div - 1
      /\ Phase' = IF baud_cnt = 0 THEN 0 ELSE Phase + 1
      /\ Phase = baud_div - 1 <=> baud_cnt = 0
  BY <1>1 DEF BaudCounter, Phase
<1>4. tx_state = "START" \/ tx_state = "DATA" \/ tx_state = "STOP"
  BY DEF UartTypes, States
<1>8. ASSUME tx' = Level(b, Slot), Succeeds(baud_div, Slot, Phase, Slot', Phase'),
             Slot \in Int
      PROVE  Wires(b)'
  <2>1. /\ Level(b, Slot) = Line(b, Slot', Phase', 1)
        /\ Line(b, Slot, Phase, 1) = Line(b, Slot', Phase', 2)
        /\ Line(b, Slot, Phase, 2) = Line(b, Slot', Phase', 3)
    BY <1>1, <1>3, <1>8, LineMoves
  <2>2. rx_sync0' = tx /\ rx_sync1' = rx_sync0
    BY DEF Synchronise
  <2> QED BY <1>1, <1>8, <2>1, <2>2 DEF Wires
<1>5. CASE tx_state = "START"
  <2>1. StartBit
    BY <1>5 DEF Sender, TakeByte, DataBit, StopOrIdle
  <2>2. /\ Slot = 0 /\ tx' = Level(b, Slot) /\ tx_load_byte' = FALSE
        /\ IF baud_cnt = 0 THEN tx_state' = "DATA" /\ tx_bit_cnt' = 0 /\ Slot' = 1
           ELSE tx_state' = "START" /\ Slot' = 0
    BY <1>2, <1>5, <2>1 DEF StartBit, Slot, Level
  <2>3. Shifts(b)'
    BY <1>1, <1>2, <1>5, <2>1 DEF StartBit, Shifts
  <2>4. Succeeds(baud_div, Slot, Phase, Slot', Phase') /\ Slot \in Int
    BY <1>1, <1>3, <2>2 DEF Succeeds
  <2>5. Wires(b)'
    BY <1>8, <2>2, <2>4
  <2> QED BY <1>1, <1>3, <1>5, <2>2, <2>3, <2>4, <2>5
<1>6. CASE tx_state = "DATA"
  <2>1. DataBit
    BY <1>6 DEF Sender, TakeByte, StartBit, StopOrIdle
  <2>2. /\ tx_bit_cnt \in 0 .. Bits - 1
        /\ \A i \in 1 .. Bits - tx_bit_cnt : tx_shift[i] = b[tx_bit_cnt + i]
        /\ Slot = tx_bit_cnt + 1
    BY <1>1, <1>6 DEF Shifts, Slot
  <2>3. Head(tx_shift) = b[tx_bit_cnt + 1]
    <3>1. Head(tx_shift) = tx_shift[1]
      BY Shifting DEF UartTypes, Bit
    <3> QED BY <1>1, <2>2, <3>1
  <2>4. tx' = Level(b, Slot) /\ tx_load_byte' = FALSE
    BY <1>1, <2>1, <2>2, <2>3 DEF DataBit, Level
  <2>5. CASE baud_cnt # 0
    <3>1. tx_state' = "DATA" /\ tx_bit_cnt' = tx_bit_cnt /\ tx_shift' = tx_shift /\ Slot' = Slot
      BY <1>2, <1>6, <2>1, <2>5 DEF DataBit, Slot
    <3>2. Shifts(b)'
      BY <2>2, <3>1 DEF Shifts
    <3>3. Succeeds(baud_div, Slot, Phase, Slot', Phase') /\ Slot \in Int
      BY <1>1, <1>3, <2>2, <2>5, <3>1 DEF Succeeds
    <3>4. Wires(b)'
      BY <1>8, <2>4, <3>3
    <3> QED BY <1>1, <1>3, <1>6, <2>2, <2>4, <2>5, <3>1, <3>2, <3>3, <3>4
  <2>6. CASE baud_cnt = 0 /\ tx_bit_cnt = Bits - 1
    <3>1. tx_state' = "STOP" /\ Slot' = Bits + 1
      BY <1>2, <2>1, <2>6 DEF DataBit, Slot
    <3>2. Shifts(b)'
      BY <3>1 DEF Shifts
    <3>3. Slot' = Slot + 1
      BY <1>1, <2>2, <2>6, <3>1
    <3>4. Succeeds(baud_div, Slot, Phase, Slot', Phase') /\ Slot \in Int
      BY <1>1, <1>3, <2>2, <2>6, <3>3 DEF Succeeds
    <3>5. Wires(b)'
      BY <1>8, <2>4, <3>4
    <3> QED BY <1>1, <1>3, <1>6, <2>2, <2>4, <2>6, <3>1, <3>2, <3>3, <3>4, <3>5
  <2>7. CASE baud_cnt = 0 /\ tx_bit_cnt # Bits - 1
    <3>1. /\ tx_state' = "DATA" /\ tx_bit_cnt' = tx_bit_cnt + 1 /\ Slot' = tx_bit_cnt + 1 + 1
          /\ tx_shift' = ShiftIn(tx_shift, 1)
      BY <1>2, <1>6, <2>1, <2>7 DEF DataBit, Slot
    <3>2. \A i \in 1 .. Bits - (tx_bit_cnt + 1) : tx_shift'[i] = b[tx_bit_cnt + 1 + i]
      <4> TAKE i \in 1 .. Bits - (tx_bit_cnt + 1)
      <4>1. i \in 1 .. Bits /\ i # Bits /\ i + 1 \in 1 .. Bits - tx_bit_cnt
            /\ tx_bit_cnt + 1 + i = tx_bit_cnt + (i + 1)
        BY <1>1, <2>2
      <4>2. tx_shift'[i] = tx_shift[i + 1]
        BY <3>1, <4>1, Shifting DEF UartTypes, Bit
      <4> QED BY <2>2, <4>1, <4>2
    <3>3. Shifts(b)'
      BY <1>1, <2>2, <2>7, <3>1, <3>2 DEF Shifts
    <3>4. Succeeds(baud_div, Slot, Phase, Slot', Phase') /\ Slot \in Int
      BY <1>1, <1>3, <2>2, <2>7, <3>1 DEF Succeeds
    <3>5. Wires(b)'
      BY <1>8, <2>4, <3>4
    <3> QED BY <1>1, <1>3, <1>6, <2>2, <2>4, <2>7, <3>1, <3>3, <3>4, <3>5
  <2> QED BY <2>5, <2>6, <2>7
<1>7. CASE tx_state = "STOP"
  <2>1. StopOrIdle
    BY <1>7 DEF Sender, TakeByte, StartBit, DataBit
  <2>2. /\ Slot = Bits + 1 /\ tx' = Level(b, Slot) /\ tx_load_byte' = FALSE
        /\ IF baud_cnt = 0 THEN tx_state' = "IDLE" /\ Slot' = Bits + 2
           ELSE tx_state' = "STOP" /\ Slot' = Bits + 1
    BY <1>1, <1>2, <1>7, <2>1 DEF StopOrIdle, Slot, Level
  <2>3. Shifts(b)'
    BY <2>2 DEF Shifts
  <2>4. Succeeds(baud_div, Slot, Phase, Slot', Phase') /\ Slot \in Int
    BY <1>1, <1>3, <2>2 DEF Succeeds
  <2>5. Wires(b)'
    BY <1>8, <2>2, <2>4
  <2> QED BY <1>1, <1>3, <1>7, <2>2, <2>3, <2>4, <2>5
<1> QED BY <1>4, <1>5, <1>6, <1>7

\* ------------------------------------------------- steps of the receiver
LEMMA OneAndTwo ==
  ASSUME NEW b, NEW c
  PROVE  /\ <<b>> # <<>> /\ Tail(<<b>>) = <<>>
         /\ <<c, b>> # <<>> /\ Tail(<<c, b>>) = <<b>> /\ Append(<<>>, b) = <<b>>
         /\ Append(<<b>>, c) = <<b, c>>
<1>1. <<b>> \in Seq({b, c}) /\ Len(<<b>>) = 1 /\ <<c, b>> \in Seq({b, c}) /\ Len(<<c, b>>) = 2
  OBVIOUS
<1>2. <<b>> # <<>> /\ <<c, b>> # <<>>
  BY <1>1
<1>3. Tail(<<b>>) = <<>>
  BY <1>1
<1>4. Tail(<<c, b>>) = <<b>>
  BY <1>1
<1>5. Append(<<>>, b) = <<b>>
  OBVIOUS
<1>6. Append(<<b>>, c) = <<b, c>>
  <2>1. /\ Append(<<b>>, c) \in Seq({b, c}) /\ Len(Append(<<b>>, c)) = 2
        /\ Append(<<b>>, c)[1] = b /\ Append(<<b>>, c)[2] = c
    BY <1>1
  <2>2. <<b, c>> \in Seq({b, c}) /\ Len(<<b, c>>) = 2 /\ <<b, c>>[1] = b /\ <<b, c>>[2] = c
    OBVIOUS
  <2>3. \A i \in 1 .. 2 : Append(<<b>>, c)[i] = <<b, c>>[i]
    <3> TAKE i \in 1 .. 2
    <3>1. i = 1 \/ i = 2
      OBVIOUS
    <3> QED BY <2>1, <2>2, <3>1
  <2> QED BY <2>1, <2>2, <2>3, SeqEqual
<1> QED BY <1>2, <1>3, <1>4, <1>5, <1>6

LEMMA Levels ==
  ASSUME NEW b \in Byte
  PROVE  /\ Level(b, 0) = 0 /\ Level(b, -1) = 1
         /\ Level(b, Bits) \in Bit /\ Level(b, Bits + 1) = 1 /\ Level(b, Bits + 2) = 1
         /\ \A k \in 1 .. Bits : Level(b, k) = b[k]
BY UartAssumption DEF Level, Byte, Bit

\* The byte assembled so far, and one bit more.
LEMMA Assembled ==
  ASSUME NEW b \in Byte, NEW s \in Byte, NEW n \in 0 .. Bits - 1,
         \A i \in 1 .. n : s[Bits - n + i] = b[i]
  PROVE  /\ \A i \in 1 .. n + 1 : ShiftIn(s, b[n + 1])[Bits - (n + 1) + i] = b[i]
         /\ n = Bits - 1 => ShiftIn(s, b[n + 1]) = b
<1> DEFINE t == ShiftIn(s, b[n + 1])
<1>1. Bits \in Nat /\ n + 1 \in 1 .. Bits /\ b[n + 1] \in Bit
  BY UartAssumption DEF Byte
<1>2. t \in Byte /\ \A i \in 1 .. Bits : t[i] = IF i = Bits THEN b[n + 1] ELSE s[i + 1]
  BY <1>1, Shifting
<1> HIDE DEF t
<1>3. \A i \in 1 .. n + 1 : t[Bits - (n + 1) + i] = b[i]
  <2> TAKE i \in 1 .. n + 1
  <2>1. CASE i = n + 1
    <3>1. Bits - (n + 1) + i = Bits
      BY <1>1, <2>1
    <3> QED BY <1>1, <1>2, <2>1, <3>1
  <2>2. CASE i # n + 1
    <3>1. /\ i \in 1 .. n /\ Bits - (n + 1) + i \in 1 .. Bits
          /\ Bits - (n + 1) + i # Bits /\ Bits - (n + 1) + i + 1 = Bits - n + i
      BY <1>1, <2>2
    <3> QED BY <1>2, <3>1
  <2> QED BY <2>1, <2>2
<1>4. ASSUME n = Bits - 1 PROVE t = b
  <2>1. \A i \in 1 .. Bits : t[i] = b[i]
    BY <1>1, <1>3, <1>4
  <2>2. t \in Seq(Bit) /\ b \in Seq(Bit) /\ Len(t) = Bits /\ Len(b) = Bits
    BY <1>1, <1>2 DEF Byte
  <2> QED BY <2>1, <2>2, SeqEqual
<1> QED BY <1>3, <1>4 DEF t

\* The receiver is at one of its places in the frame.
Heard(b) == Waits(b) \/ Starts(b) \/ Gathers(b) \/ Stops(b) \/ Ended(b)

LEMMA ReceiverMoves ==
  ASSUME UartTypes, UartTypes', NEW b \in Byte, Frame(b), tx_state # "IDLE",
         Sender, BaudCounter, Synchronise(tx), Receiver,
         uart_en' = uart_en, baud_div' = baud_div, ~Quiet',
         flying' = IF rx_push_byte /\ flying # <<>> THEN Tail(flying) ELSE flying
  PROVE  Heard(b)'
<1>1. /\ Succeeds(baud_div, Slot, Phase, Slot', Phase')
      /\ Slot \in Int /\ Phase \in 0 .. baud_div - 1
      /\ Slot \in 0 .. Bits + 1 /\ Slot' \in 0 .. Bits + 2
      /\ Wires(b)' /\ tx_load_byte' = FALSE
      /\ Slot' = Bits + 2 <=> tx_state' = "IDLE"
  BY SenderMoves
<1>2. /\ baud_div \in Nat /\ baud_div >= 3 /\ Bits \in Nat /\ Bits > 0
      /\ uart_en /\ baud_div # 0 /\ Wires(b)
  BY UartAssumption, SoftwareTypes DEF Frame
<1>3. Delay \in Nat /\ Delay >= 5 /\ Delay <= baud_div + 2
      /\ baud_div \div 2 = Delay - 4 /\ Delay' = Delay /\ Delay - 4 <= baud_div - 1
  BY <1>2, Delays DEF Delay
<1>4. CASE Waits(b)
  <2>1. rx_state = "IDLE"
    BY <1>4 DEF Waits
  <2>2. SeeStart
    BY <2>1 DEF Receiver, CountDown, ConfirmStart, SampleBit, PushByte
  <2>3. flying' = <<b>>
    <3>1. CASE rx_push_byte
      <4>1. PICK c \in Byte : flying = <<c, b>>
        BY <1>4, <3>1 DEF Waits
      <4> QED BY <3>1, <4>1, OneAndTwo
    <3>2. CASE ~rx_push_byte
      BY <1>4, <3>2 DEF Waits
    <3> QED BY <3>1, <3>2
  <2>4. CASE Slot = 0 /\ Phase <= 2
    <3>1. rx_sync1 = 1
      BY <1>1, <1>2, <2>4, Levels DEF Wires, Line
    <3>2. rx_state' = "IDLE" /\ rx_push_byte' = FALSE
      BY <2>1, <2>2, <3>1 DEF SeeStart
    <3>3. (Slot' = 0 /\ Phase' <= 3) \/ (Slot' = 1 /\ Phase' = 0 /\ baud_div = 3)
      BY <1>1, <1>2, <2>4 DEF Succeeds
    <3>4. Waits(b)'
      BY <2>3, <3>2, <3>3 DEF Waits
    <3> QED BY <3>4 DEF Heard
  <2>5. CASE (Slot = 0 /\ Phase = 3) \/ (Slot = 1 /\ Phase = 0 /\ baud_div = 3)
    <3>1. rx_sync1 = 0
      BY <1>1, <1>2, <2>5, Levels DEF Wires, Line
    <3>2. rx_state' = "START" /\ rx_push_byte' = FALSE /\ rx_baud_cnt' = Delay - 4
      BY <1>2, <1>3, <2>1, <2>2, <3>1 DEF SeeStart
    <3>3. Lag(baud_div, Delay, 0, Slot', Phase', Delay - 4)
      BY <1>1, <1>2, <1>3, <2>5 DEF Succeeds, Lag
    <3>4. Starts(b)'
      BY <1>3, <2>3, <3>2, <3>3 DEF Starts, Lags
    <3> QED BY <3>4 DEF Heard
  <2> QED BY <1>1, <1>4, <2>4, <2>5 DEF Waits
<1>5. CASE Starts(b)
  <2>1. /\ rx_state = "START" /\ flying' = flying /\ flying = <<b>>
        /\ Lag(baud_div, Delay, 0, Slot, Phase, rx_baud_cnt)
    BY <1>5 DEF Starts, Lags
  <2>2. CASE rx_baud_cnt # 0
    <3>1. CountDown
      BY <2>1, <2>2 DEF Receiver, SeeStart, ConfirmStart, SampleBit, PushByte
    <3>2. Lag(baud_div, Delay, 0, Slot', Phase', rx_baud_cnt - 1)
      BY <1>1, <1>2, <1>3, <2>1, <2>2, LagMoves
    <3>3. Starts(b)'
      BY <1>3, <2>1, <3>1, <3>2 DEF Starts, Lags, CountDown
    <3> QED BY <3>3 DEF Heard
  <2>3. CASE rx_baud_cnt = 0
    <3>1. ConfirmStart
      BY <2>1, <2>3 DEF Receiver, SeeStart, CountDown, SampleBit, PushByte
    <3>2. rx_sync1 = 0
      <4>1. (Slot = 0 /\ Phase = Delay) \/ (Slot = 0 + 1 /\ Phase = Delay - baud_div)
        BY <1>1, <1>2, <1>3, <2>1, <2>3, LagMoves
      <4>2. Line(b, Slot, Phase, 3) = Level(b, 0)
        BY <1>2, <1>3, <4>1 DEF Line
      <4> QED BY <1>2, <4>2, Levels DEF Wires
    <3>3. Lag(baud_div, Delay, 1, Slot', Phase', baud_div - 1)
      BY <1>1, <1>2, <1>3, <2>1, <2>3, LagMoves
    <3>4. /\ rx_state' = "DATA" /\ rx_push_byte' = FALSE /\ rx_baud_cnt' = baud_div - 1
          /\ rx_bit_cnt' = 0
      BY <3>1, <3>2 DEF ConfirmStart
    <3>5. Gathers(b)'
      <4>1. /\ rx_bit_cnt' + 1 = 1 /\ rx_bit_cnt' \in 0 .. Bits - 1
            /\ \A i \in 1 .. rx_bit_cnt' : rx_shift'[Bits - rx_bit_cnt' + i] = b[i]
        BY <1>2, <3>4
      <4> QED BY <1>3, <2>1, <3>3, <3>4, <4>1 DEF Gathers, Lags
    <3> QED BY <3>5 DEF Heard
  <2> QED BY <2>2, <2>3
<1>6. CASE Gathers(b)
  <2>1. /\ rx_state = "DATA" /\ flying' = flying /\ flying = <<b>>
        /\ rx_bit_cnt \in 0 .. Bits - 1 /\ rx_bit_cnt + 1 \in Int
        /\ Lag(baud_div, Delay, rx_bit_cnt + 1, Slot, Phase, rx_baud_cnt)
        /\ \A i \in 1 .. rx_bit_cnt : rx_shift[Bits - rx_bit_cnt + i] = b[i]
    BY <1>2, <1>6 DEF Gathers, Lags
  <2>2. CASE rx_baud_cnt # 0
    <3>1. CountDown
      BY <2>1, <2>2 DEF Receiver, SeeStart, ConfirmStart, SampleBit, PushByte
    <3>2. Lag(baud_div, Delay, rx_bit_cnt + 1, Slot', Phase', rx_baud_cnt - 1)
      BY <1>1, <1>2, <1>3, <2>1, <2>2, LagMoves
    <3>3. Gathers(b)'
      BY <1>3, <2>1, <3>1, <3>2 DEF Gathers, Lags, CountDown
    <3> QED BY <3>3 DEF Heard
  <2>3. CASE rx_baud_cnt = 0
    <3>1. SampleBit
      BY <2>1, <2>3 DEF Receiver, SeeStart, CountDown, ConfirmStart, PushByte
    <3>2. rx_sync1 = b[rx_bit_cnt + 1]
      <4>0. \/ Slot = rx_bit_cnt + 1 /\ Phase = Delay
            \/ Slot = rx_bit_cnt + 1 + 1 /\ Phase = Delay - baud_div
        BY <1>1, <1>2, <1>3, <2>1, <2>3, LagMoves
      <4>3. Line(b, Slot, Phase, 3) = Level(b, rx_bit_cnt + 1)
        <5>1. CASE Slot = rx_bit_cnt + 1 /\ Phase = Delay
          BY <1>3, <5>1 DEF Line
        <5>2. CASE Slot = rx_bit_cnt + 1 + 1 /\ Phase = Delay - baud_div
          <6>1. ~(Phase >= 3) /\ Slot - 1 = rx_bit_cnt + 1
            BY <1>2, <1>3, <2>1, <5>2
          <6> QED BY <6>1 DEF Line
        <5> QED BY <4>0, <5>1, <5>2
      <4>1. rx_sync1 = Level(b, rx_bit_cnt + 1)
        BY <1>2, <4>3 DEF Wires
      <4>2. rx_bit_cnt + 1 \in 1 .. Bits
        BY <1>2, <2>1
      <4> QED BY <4>1, <4>2, Levels
    <3>3. Lag(baud_div, Delay, rx_bit_cnt + 1 + 1, Slot', Phase', baud_div - 1)
      BY <1>1, <1>2, <1>3, <2>1, <2>3, LagMoves
    <3>4. /\ \A i \in 1 .. rx_bit_cnt + 1 : rx_shift'[Bits - (rx_bit_cnt + 1) + i] = b[i]
          /\ rx_bit_cnt = Bits - 1 => rx_shift' = b
      BY <2>1, <3>1, <3>2, Assembled DEF SampleBit, UartTypes
    <3>5. CASE rx_bit_cnt = Bits - 1
      <4>1. Bits + 1 = rx_bit_cnt + 1 + 1
        BY <1>2, <3>5
      <4>2. rx_state' = "STOP" /\ rx_push_byte' = FALSE /\ rx_baud_cnt' = baud_div - 1
        BY <3>1, <3>5 DEF SampleBit
      <4>3. Stops(b)'
        BY <1>3, <2>1, <3>3, <3>4, <3>5, <4>1, <4>2 DEF Stops, Lags
      <4> QED BY <4>3 DEF Heard
    <3>6. CASE rx_bit_cnt # Bits - 1
      <4>1. /\ rx_state' = "DATA" /\ rx_push_byte' = FALSE /\ rx_baud_cnt' = baud_div - 1
            /\ rx_bit_cnt' = rx_bit_cnt + 1
        BY <2>1, <3>1, <3>6 DEF SampleBit
      <4>2. rx_bit_cnt + 1 \in 0 .. Bits - 1
        BY <1>2, <2>1, <3>6
      <4>3. Gathers(b)'
        BY <1>3, <2>1, <3>3, <3>4, <4>1, <4>2 DEF Gathers, Lags
      <4> QED BY <4>3 DEF Heard
    <3> QED BY <3>5, <3>6
  <2> QED BY <2>2, <2>3
<1>7. CASE Stops(b)
  <2>1. /\ rx_state = "STOP" /\ flying' = flying /\ flying = <<b>> /\ rx_shift = b
        /\ Lag(baud_div, Delay, Bits + 1, Slot, Phase, rx_baud_cnt) /\ Bits + 1 \in Int
    BY <1>2, <1>7 DEF Stops, Lags
  <2>2. CASE rx_baud_cnt # 0
    <3>1. CountDown
      BY <2>1, <2>2 DEF Receiver, SeeStart, ConfirmStart, SampleBit, PushByte
    <3>2. Lag(baud_div, Delay, Bits + 1, Slot', Phase', rx_baud_cnt - 1)
      BY <1>1, <1>2, <1>3, <2>1, <2>2, LagMoves
    <3>3. Stops(b)'
      BY <1>3, <2>1, <3>1, <3>2 DEF Stops, Lags, CountDown
    <3> QED BY <3>3 DEF Heard
  <2>3. CASE rx_baud_cnt = 0
    <3>1. PushByte
      BY <2>1, <2>3 DEF Receiver, SeeStart, CountDown, ConfirmStart, SampleBit
    <3>2. Slot = Bits + 1 /\ Phase = Delay
      BY <1>1, <1>2, <1>3, <2>1, <2>3, LagMoves
    <3>3. (Slot' = Bits + 1 /\ Phase' >= 3) \/ Slot' = Bits + 2
      BY <1>1, <1>2, <1>3, <3>2 DEF Succeeds
    <3>4. rx_sync1 = 1
      <4>1. Line(b, Slot, Phase, 3) = Level(b, Bits + 1)
        BY <1>2, <1>3, <3>2 DEF Line
      <4> QED BY <1>2, <4>1, Levels DEF Wires
    <3>5. Pushed(b)'
      BY <2>1, <3>1, <3>4 DEF Pushed, PushByte
    <3>6. Ended(b)'
      BY <2>1, <3>1, <3>3, <3>5 DEF Ended, PushByte
    <3> QED BY <3>6 DEF Heard
  <2> QED BY <2>2, <2>3
<1>8. CASE Ended(b)
  <2>0. rx_state = "IDLE" /\ Slot = Bits + 1 /\ Phase >= 3
    BY <1>1, <1>2, <1>8 DEF Ended
  <2>1. rx_state = "IDLE" /\ Slot = Bits + 1 /\ Phase >= 3 /\ flying' = <<>>
    BY <1>8, <2>0, OneAndTwo DEF Ended
  <2>2. rx_sync1 = 1 /\ rx_sync0 = 1 /\ tx = 1
    BY <1>1, <1>2, <2>1, Levels DEF Wires, Line
  <2>3. SeeStart
    BY <2>1 DEF Receiver, CountDown, ConfirmStart, SampleBit, PushByte
  <2>4. rx_state' = "IDLE" /\ rx_push_byte' = FALSE
    BY <2>1, <2>2, <2>3 DEF SeeStart
  <2>5. CASE Slot' = Bits + 1
    <3>1. Phase' >= 3
      BY <1>1, <1>2, <2>1, <2>5 DEF Succeeds
    <3>2. Ended(b)'
      BY <2>1, <2>4, <2>5, <3>1 DEF Ended
    <3> QED BY <3>2 DEF Heard
  <2>6. CASE Slot' = Bits + 2
    <3>1. Phase' = 0 /\ Phase' \in 0 .. baud_div - 1 /\ baud_div' = baud_div
      BY <1>1, <1>2, <2>1, <2>6 DEF Succeeds
    <3>2. tx' = 1
      <4>1. tx' = Level(b, Bits + 1)
        BY <1>1, <1>2, <2>6, <3>1 DEF Wires, Line
      <4> QED BY <4>1, Levels
    <3>3. rx_sync0' = 1 /\ rx_sync1' = 1
      BY <2>2 DEF Synchronise
    <3> QED BY <1>1, <2>4, <2>6, <3>2, <3>3 DEF Quiet
  <2> QED BY <1>1, <1>2, <2>1, <2>5, <2>6 DEF Succeeds
<1> QED BY <1>4, <1>5, <1>6, <1>7, <1>8 DEF Frame

\* ---------------------------------------------------- an idle sender
LEMMA FrameStarts ==
  ASSUME UartTypes, UartTypes', NEW b \in Byte, b = tx_fifo[tx_rd_ptr],
         TakeByte, BaudCounter, Synchronise(tx), uart_en' = uart_en, baud_div' = baud_div,
         tx = 1, rx_sync0 = 1, rx_state' = "IDLE",
         IF rx_push_byte' THEN \E c \in Byte : Pushed(c)' /\ flying' = <<c, b>>
                          ELSE flying' = <<b>>
  PROVE  Frame(b)'
<1>1. uart_en /\ baud_div # 0 /\ baud_cnt = 0 /\ baud_div \in Nat /\ baud_div >= 3
  <2>1. uart_en /\ baud_div # 0 /\ baud_cnt = 0
    BY DEF TakeByte, baud_tick
  <2>2. baud_div \in software.speeds /\ software \in Softwares /\ baud_div \in Nat
    BY <2>1, SoftwareTypes DEF UartTypes
  <2> QED BY <2>1, <2>2, SpeedAssumption
<1>2. /\ baud_cnt' = baud_div' - 1 /\ tx_state' = "START" /\ tx_shift' = b /\ tx' = 1
      /\ rx_sync0' = 1 /\ rx_sync1' = 1
  BY <1>1 DEF BaudCounter, TakeByte, Synchronise
<1>3. Slot' = 0 /\ Phase' = 0
  BY <1>1, <1>2 DEF Slot, Phase
<1>4. Shifts(b)'
  BY <1>2 DEF Shifts
<1>5. Wires(b)'
  <2>1. Line(b, 0, 0, 1) = 1 /\ Line(b, 0, 0, 2) = 1 /\ Line(b, 0, 0, 3) = 1
    BY Levels DEF Line
  <2> QED BY <1>2, <1>3, <2>1 DEF Wires
<1>6. Waits(b)'
  BY <1>3 DEF Waits
<1> QED BY <1>1, <1>2, <1>4, <1>5, <1>6 DEF Frame

\* What the line shows of a frame whose sender is idle.
LEMMA FrameEnds ==
  ASSUME UartTypes, NEW b \in Byte, Frame(b), tx_state = "IDLE"
  PROVE  /\ tx = 1 /\ rx_sync0 = 1 /\ rx_sync1 = 1
         /\ \/ Stops(b)
            \/ rx_state = "IDLE" /\ rx_push_byte /\ Pushed(b) /\ flying = <<b>>
<1>1. /\ baud_div \in Nat /\ baud_div >= 3 /\ Bits \in Nat /\ Bits > 0 /\ Slot = Bits + 2
      /\ Wires(b)
  BY UartAssumption, SoftwareTypes DEF Frame, Slot
<1>2. Line(b, Slot, Phase, 1) = 1 /\ Line(b, Slot, Phase, 2) = 1 /\ Line(b, Slot, Phase, 3) = 1
  <2>1. Slot - 1 = Bits + 1
    BY <1>1
  <2> QED BY <1>1, <2>1, Levels DEF Line
<1>3. ~Waits(b) /\ ~Starts(b)
  BY <1>1 DEF Waits, Starts, Lags, Lag
<1>4. ~Gathers(b)
  <2> SUFFICES ASSUME Gathers(b) PROVE FALSE
    OBVIOUS
  <2>1. rx_bit_cnt \in 0 .. Bits - 1 /\ Slot <= rx_bit_cnt + 1 + 1
    BY <1>1 DEF Gathers, Lags, Lag
  <2> QED BY <1>1, <2>1
<1>5. Ended(b) => rx_state = "IDLE" /\ rx_push_byte /\ Pushed(b) /\ flying = <<b>>
  BY <1>1 DEF Ended
<1> QED BY <1>1, <1>2, <1>3, <1>4, <1>5 DEF Frame, Wires

LEMMA LineInvStep ==
  ASSUME UartTypes, UartTypes', QueueInv, LineInv,
         NEW op, Access(op), Edge(op)
  PROVE  LineInv'
<1> SUFFICES ASSUME ~garbled'
             PROVE  (Quiet' /\ flying' = <<>>) \/ \E b \in Byte : Frame(b)'
  BY DEF LineInv
<1>1. /\ BaudCounter /\ Sender /\ Synchronise(tx) /\ Receiver
      /\ tx_fifo[tx_rd_ptr] \in Byte
  BY DEF Edge, UartEdge, QueueInv, Queue
<1>2. CASE Quiet'
  <2>1. tx_load_byte' = FALSE
    BY <1>2 DEF Quiet, UartTypes
  <2>2. flying' = <<>>
    BY <1>2, <2>1 DEF Edge, History
  <2> QED BY <1>2, <2>2
<1>3. CASE ~Quiet'
  <2>1. ~garbled /\ uart_en' = uart_en /\ baud_div' = baud_div
    BY <1>3, SameSettings
  <2>2. flying' = LET left == IF rx_push_byte /\ flying # <<>> THEN Tail(flying) ELSE flying
                  IN IF tx_load_byte' THEN Append(left, tx_fifo[tx_rd_ptr]) ELSE left
    BY <1>3, FlyingMoves
  <2>3. CASE Quiet /\ flying = <<>>
    <3>1. rx_state' = "IDLE" /\ rx_push_byte' = FALSE /\ rx_sync0' = 1 /\ rx_sync1' = 1
      BY <1>1, <2>3 DEF Quiet, Receiver, SeeStart, CountDown, ConfirmStart, SampleBit,
                        PushByte, Synchronise
    <3>2. CASE TakeByte
      <4>1. flying' = <<tx_fifo[tx_rd_ptr]>>
        BY <2>2, <2>3, <3>2, OneAndTwo DEF TakeByte
      <4>2. tx = 1 /\ rx_sync0 = 1
        BY <2>3 DEF Quiet
      <4>3. \A b \in Byte : b = tx_fifo[tx_rd_ptr] => Frame(b)'
        BY <1>1, <2>1, <3>1, <3>2, <4>1, <4>2, FrameStarts
      <4> QED BY <1>1, <4>3
    <3>3. CASE ~TakeByte
      <4>1. StopOrIdle
        BY <1>1, <2>3, <3>3 DEF Quiet, Sender, StartBit, DataBit
      <4>2. Quiet'
        BY <2>3, <3>1, <4>1 DEF Quiet, StopOrIdle
      <4> QED BY <1>3, <4>2
    <3> QED BY <3>2, <3>3
  <2>4. ASSUME NEW b \in Byte, Frame(b), tx_state # "IDLE"
        PROVE  \E c \in Byte : Frame(c)'
    <3>1. /\ baud_cnt' < baud_div' /\ Shifts(b)' /\ Wires(b)' /\ tx_load_byte' = FALSE
      BY <1>1, <2>1, <2>4, SenderMoves
    <3>2. flying' = IF rx_push_byte /\ flying # <<>> THEN Tail(flying) ELSE flying
      BY <2>2, <3>1
    <3>3. Heard(b)'
      BY <1>1, <1>3, <2>1, <2>4, <3>2, ReceiverMoves
    <3>4. uart_en' /\ baud_div' >= 3
      BY <2>1, <2>4 DEF Frame
    <3>5. Frame(b)'
      BY <3>1, <3>3, <3>4 DEF Frame, Heard
    <3> QED BY <3>5
  <2>5. ASSUME NEW b \in Byte, Frame(b), tx_state = "IDLE"
        PROVE  \E c \in Byte : Frame(c)'
    <3>1. /\ tx = 1 /\ rx_sync0 = 1 /\ rx_sync1 = 1
          /\ \/ Stops(b)
             \/ rx_state = "IDLE" /\ rx_push_byte /\ Pushed(b) /\ flying = <<b>>
      BY <2>5, FrameEnds
    <3>2. /\ baud_div \in Nat /\ baud_div >= 3 /\ baud_cnt \in Nat /\ baud_cnt < baud_div
          /\ uart_en /\ Bits \in Nat /\ Bits > 0 /\ Slot = Bits + 2 /\ baud_div # 0
          /\ Phase \in 0 .. baud_div - 1 /\ (Phase = baud_div - 1 <=> baud_cnt = 0)
      BY <2>5, UartAssumption, SoftwareTypes DEF UartTypes, Frame, Slot, Phase
    <3>3. /\ Delay \in Nat /\ Delay >= 5 /\ Delay <= baud_div + 2 /\ Delay' = Delay
      BY <2>1, <3>2, Delays DEF Delay
    <3>4. Stops(b) =>
            /\ flying = <<b>> /\ ~rx_push_byte /\ rx_state = "STOP"
            /\ Lag(baud_div, Delay, Bits + 1, Slot, Phase, rx_baud_cnt)
            /\ Phase = baud_div - 1 => rx_baud_cnt = 0
      <4>1. Bits + 1 \in Int /\ Slot \in Int /\ Slot = Bits + 1 + 1
        BY <3>2
      <4> QED BY <3>2, <3>3, <4>1, LagMoves DEF Stops, Lags
    <3>5. Stops(b) /\ rx_baud_cnt = 0 => rx_state' = "IDLE" /\ rx_push_byte' = TRUE /\ Pushed(b)'
      <4>1. Stops(b) /\ rx_baud_cnt = 0 => PushByte /\ rx_shift = b
        BY <1>1, <3>4 DEF Receiver, SeeStart, CountDown, ConfirmStart, SampleBit, Stops
      <4> QED BY <3>1, <4>1 DEF PushByte, Pushed
    <3>6. ~Stops(b) => /\ rx_state' = "IDLE" /\ rx_push_byte' = FALSE
                       /\ rx_push_byte /\ flying = <<b>>
      BY <1>1, <3>1 DEF Receiver, SeeStart, CountDown, ConfirmStart, SampleBit, PushByte
    <3>7. CASE TakeByte
      <4>1. baud_cnt = 0 /\ tx_load_byte' = TRUE
        BY <3>7 DEF TakeByte, baud_tick
      <4>2. rx_state' = "IDLE"
        BY <3>2, <3>4, <3>5, <3>6, <4>1
      <4> DEFINE c == tx_fifo[tx_rd_ptr]
      <4>3. IF rx_push_byte' THEN \E d \in Byte : Pushed(d)' /\ flying' = <<d, c>>
            ELSE flying' = <<c>>
        <5>1. CASE Stops(b)
          <6>1. rx_push_byte' = TRUE /\ Pushed(b)' /\ flying = <<b>> /\ ~rx_push_byte
            BY <3>2, <3>4, <3>5, <4>1, <5>1
          <6>2. flying' = Append(<<b>>, c)
            BY <2>2, <4>1, <6>1
          <6>3. flying' = <<b, c>>
            BY <6>2, OneAndTwo
          <6> QED BY <6>1, <6>3
        <5>2. CASE ~Stops(b)
          <6>1. flying' = Append(Tail(<<b>>), c)
            BY <2>2, <3>6, <4>1, <5>2, OneAndTwo
          <6>2. flying' = <<c>>
            BY <6>1, OneAndTwo
          <6> QED BY <3>6, <5>2, <6>2
        <5> QED BY <5>1, <5>2
      <4> HIDE DEF c
      <4>4. \A d \in Byte : d = c => Frame(d)'
        BY <1>1, <2>1, <3>1, <3>7, <4>2, <4>3, FrameStarts DEF c
      <4> QED BY <1>1, <4>4 DEF c
    <3>8. CASE ~TakeByte
      <4>1. StopOrIdle
        BY <1>1, <2>5, <3>8 DEF Sender, StartBit, DataBit
      <4>2. tx_state' = "IDLE" /\ tx' = 1 /\ tx_load_byte' = FALSE
        BY <2>5, <4>1 DEF StopOrIdle
      <4>3. Slot' = Bits + 2 /\ rx_sync0' = 1 /\ rx_sync1' = 1
        BY <1>1, <3>1, <4>2 DEF Slot, Synchronise
      <4>4. Stops(b)
        BY <1>3, <3>6, <4>2, <4>3 DEF Quiet
      <4>5. flying' = <<b>>
        BY <2>2, <3>4, <4>2, <4>4
      <4>6. Wires(b)'
        <5>1. Bits + 2 - 1 = Bits + 1
          BY <3>2
        <5>2. \A r \in Int, d \in Int : Line(b, Bits + 2, r, d) = 1
          <6>1. Level(b, Bits + 2) = 1 /\ Level(b, Bits + 2 - 1) = 1
            BY <5>1, Levels
          <6> TAKE r \in Int, d \in Int
          <6>2. CASE r >= d
            BY <6>1, <6>2 DEF Line
          <6>3. CASE ~(r >= d)
            BY <3>2, <5>1, <6>1, <6>3, Levels DEF Line
          <6> QED BY <6>2, <6>3
        <5>3. Phase' \in Int
          BY <1>1, <2>1, <3>2 DEF BaudCounter, Phase
        <5> QED BY <4>2, <4>3, <5>2, <5>3 DEF Wires
      <4>7. Shifts(b)'
        BY <4>2 DEF Shifts
      <4>8. uart_en' /\ baud_div' >= 3 /\ baud_cnt' < baud_div'
        BY <1>1, <2>1, <3>2 DEF BaudCounter
      <4>9. CASE rx_baud_cnt = 0
        <5>1. Ended(b)'
          BY <3>5, <4>3, <4>4, <4>5, <4>9 DEF Ended
        <5> QED BY <4>6, <4>7, <4>8, <5>1 DEF Frame
      <4>10. CASE rx_baud_cnt # 0
        <5>1. CountDown
          BY <1>1, <3>4, <4>4, <4>10 DEF Receiver, SeeStart, ConfirmStart, SampleBit, PushByte
        <5>2. Phase' = Phase + 1 /\ Phase # baud_div - 1
          BY <1>1, <2>1, <3>2, <3>4, <4>4, <4>10 DEF BaudCounter, Phase
        <5>3. Lag(baud_div, Delay, Bits + 1, Slot', Phase', rx_baud_cnt - 1)
          BY <3>2, <3>3, <3>4, <4>3, <4>4, <4>10, <5>2 DEF Lag
        <5>4. Stops(b)'
          BY <2>1, <3>3, <3>4, <4>4, <4>5, <5>1, <5>3 DEF Stops, Lags, CountDown
        <5> QED BY <4>6, <4>7, <4>8, <5>4 DEF Frame
      <4> QED BY <4>9, <4>10
    <3> QED BY <3>7, <3>8
  <2> QED BY <2>1, <2>3, <2>4, <2>5 DEF LineInv
<1> QED BY <1>2, <1>3

\* ------------------------------------------------------------- together
UartInv == UartTypes /\ QueueInv /\ LineInv

LEMMA UartStarts == Init => UartInv
<1> SUFFICES ASSUME Init PROVE UartInv
  OBVIOUS
<1>1. FifoDepth \in Nat \ {0} /\ Bits \in Nat \ {0} /\ Zeros \in Byte /\ Ones \in Byte
  BY UartAssumption DEF Zeros, Ones, Byte, Bit
<1>2. UartTypes
  BY <1>1, SoftwareAssumption DEF Init, UartInit, UartTypes, States, Bit
<1>3. \A fifo \in [Slots -> Byte] : Queue(fifo, 0, 0, 0, 0, <<>>)
  <2> TAKE fifo \in [Slots -> Byte]
  <2>1. Held(fifo, 0, 0) = <<>>
    BY <1>1 DEF Held
  <2>2. (0 + 0 + 0) % FifoDepth = 0 /\ 0 \in Slots /\ 0 \in 0 .. FifoDepth /\ 0 \in Nat
    BY <1>1, ModSmall DEF Slots
  <2> QED BY <2>1, <2>2 DEF Queue
<1>4. QueueInv
  BY <1>1, <1>3 DEF Init, UartInit, QueueInv
<1>5. Quiet /\ flying = <<>>
  BY DEF Init, UartInit, Quiet
<1> QED BY <1>2, <1>4, <1>5 DEF UartInv, LineInv

LEMMA UartStep ==
  ASSUME UartInv, [Next]_vars
  PROVE  UartInv'
<1>1. CASE Next
  <2>1. PICK op : Access(op) /\ Edge(op)
    BY <1>1, EveryStepIsAnEdge
  <2>2. UartTypes' /\ QueueInv'
    BY <2>1, UartTypesStep, QueueInvStep DEF UartInv
  <2> QED BY <2>1, <2>2, LineInvStep DEF UartInv
<1>2. CASE UNCHANGED vars
  BY <1>2
  DEF vars, uartVars, historyVars, controlVars, senderVars, txQueueVars, receiverVars,
      rxQueueVars, UartInv, UartTypes, QueueInv, LineInv, Quiet, Frame, Shifts, Wires,
      Waits, Starts, Gathers, Stops, Ended, Lags, Lag, Slot, Phase, Delay, Line, tx_empty, Pushed
<1> QED BY <1>1, <1>2

LEMMA UartFaithful ==
  ASSUME UartInv
  PROVE  BytesAccountedFor
<1>1. QueuesRight /\ OneByteEach
  BY DEF UartInv, QueueInv, Queue, QueuesRight, OneByteEach
<1>2. ShiftedOnceTooOften
  <2> SUFFICES ASSUME ~garbled
               PROVE  /\ rx_state = "STOP" => flying # <<>> /\ rx_shift = Head(flying)
                      /\ rx_push_byte => flying # <<>> /\ rx_byte_val = ShiftIn(Head(flying), 1)
    BY DEF ShiftedOnceTooOften
  <2>1. CASE Quiet
    BY <2>1 DEF Quiet
  <2>2. CASE ~Quiet
    <3>1. PICK b \in Byte : Frame(b)
      BY <2>2 DEF UartInv, LineInv
    <3>2. rx_state = "STOP" => flying = <<b>> /\ rx_shift = b
      BY <3>1 DEF Frame, Waits, Starts, Gathers, Stops, Ended
    <3>3. rx_push_byte => \/ Pushed(b) /\ flying = <<b>>
                          \/ \E c \in Byte : Pushed(c) /\ flying = <<c, b>>
      BY <3>1 DEF Frame, Waits, Starts, Gathers, Stops, Ended
    <3>4. ASSUME rx_push_byte
          PROVE  flying # <<>> /\ rx_byte_val = ShiftIn(Head(flying), 1)
      <4>1. CASE Pushed(b) /\ flying = <<b>>
        BY <4>1, OneAndTwo DEF Pushed
      <4>2. ASSUME NEW c \in Byte, Pushed(c), flying = <<c, b>>
            PROVE  flying # <<>> /\ rx_byte_val = ShiftIn(Head(flying), 1)
        <5>1. Head(<<c, b>>) = c
          OBVIOUS
        <5> QED BY <4>2, <5>1, OneAndTwo DEF Pushed
      <4> QED BY <3>3, <3>4, <4>1, <4>2
    <3> QED BY <3>2, <3>4, OneAndTwo
  <2> QED BY <2>1, <2>2
<1>3. ReceptionTold
  <2>1. unread # <<>> => ~rx_empty
    BY UartAssumption DEF UartInv, QueueInv, Queue, Held, rx_empty
  <2> QED BY <2>1 DEF ReceptionTold, UartInv, QueueInv, irq
<1> QED BY <1>1, <1>2, <1>3 DEF BytesAccountedFor

(* Bytes keep their order and their number on the way through queues of    *)
(* any depth and along the line at every period of three edges or more,    *)
(* and what is pushed is the byte sent with the stop bit shifted in,       *)
(* whenever software accesses the device or changes its speed.             *)
THEOREM BytesAlwaysAccountedFor == MCSpec => []BytesAccountedFor
<1>1. MCInit => UartInv
  BY UartStarts DEF MCInit
<1>2. UartInv /\ [MCNext]_mcVars => UartInv'
  <2> SUFFICES ASSUME UartInv, [MCNext]_mcVars PROVE UartInv'
    OBVIOUS
  <2>1. [Next]_vars
    BY DEF MCNext, UartNext, IntcNext, Controller, mcVars
  <2> QED BY <2>1, UartStep
<1>3. UartInv => BytesAccountedFor
  BY UartFaithful
<1> QED BY <1>1, <1>2, <1>3, PTL DEF MCSpec, mcVars
=============================================================================
