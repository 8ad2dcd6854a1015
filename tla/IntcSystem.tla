------------------------------ MODULE IntcSystem ------------------------------
(***************************************************************************)
(* The interrupt controller between the devices' interrupt lines and a     *)
(* handler.  A device raises its line and, unless it is a pulsed one, holds *)
(* it until it is served (e1_dma and e1_npu hold theirs until done is      *)
(* cleared, e1_display's vsync lasts one edge).  The handler does what the *)
(* contract tests do: enable the sources, and when the interrupt is up     *)
(* claim, serve the device, complete; one bus operation at a time.         *)
(***************************************************************************)
EXTENDS E1Intc

CONSTANTS
  Pulsed,      (* sources whose line is up for one edge per event          *)
  MaxEvents    (* bound on the events of each device                       *)

SystemAssumption == Pulsed \subseteq Sources /\ MaxEvents \in Nat

VARIABLES
  level,       (* irq_sources                                              *)
  events,      (* history: events per device, at most MaxEvents            *)
  pc, id,      (* the handler's place, and the source it has claimed       *)
  out          (* what it drives on the bus                                *)

vars == <<intcVars, level, events, pc, id, out>>

Quiet == [aw |-> NoReg, w |-> NoWord, ar |-> NoReg]

Init ==
  /\ IntcInit
  /\ level = {} /\ events = [s \in Sources |-> 0]
  /\ pc = "boot" /\ id = 0 /\ out = Quiet

-----------------------------------------------------------------------------
(* The devices, on each edge.                                              *)
Devices(raised, served) ==
  /\ \A s \in raised : s \notin level /\ events[s] < MaxEvents
  /\ level' = ((level \ served) \ Pulsed) \cup raised
  /\ events' = [s \in Sources |-> IF s \in raised THEN events[s] + 1
                                  ELSE events[s]]

(* A half that is not taken stays on the bus.                              *)
Hold(o) == [o EXCEPT !.aw = IF awready THEN NoReg ELSE @,
                     !.w  = IF wready THEN NoWord ELSE @,
                     !.ar = IF arready THEN NoReg ELSE @]
Write(reg, w) == [Quiet EXCEPT !.aw = reg, !.w = w]
Read(reg) == [Quiet EXCEPT !.ar = reg]
Idle == out.aw = NoReg /\ out.w = NoWord /\ out.ar = NoReg

EnableAll == pc = "boot" /\ pc' = "enabling"
             /\ out' \in {Write("ENABLE", Word(Sources)),   \* or one half
                          Write("ENABLE", NoWord),          \* first
                          Write(NoReg, Word(Sources))}
             /\ UNCHANGED id
SendHalf == pc = "enabling" /\ Idle
            /\ \/ /\ write_addr # NoReg /\ write_data = NoWord
                  /\ out' = Write(NoReg, Word(Sources))
               \/ /\ write_addr = NoReg /\ write_data # NoWord
                  /\ out' = Write("ENABLE", NoWord)
            /\ UNCHANGED <<pc, id>>
Written(from, to) == pc = from /\ bvalid /\ pc' = to /\ UNCHANGED <<id, out>>
Claim == /\ pc = "ready" /\ cpu_external_irq
         /\ pc' = "claiming" /\ out' = Read("CLAIM") /\ UNCHANGED id
Claimed == /\ pc = "claiming" /\ rvalid
           /\ id' = rdata
           /\ pc' = IF rdata = 0 THEN "ready" ELSE "serving"
           /\ UNCHANGED out
Served == /\ pc = "serving"
          /\ pc' = "completing" /\ out' = Write("CLAIM", id) /\ UNCHANGED id
Wait == out' = Hold(out) /\ UNCHANGED <<pc, id>>

Handler == \/ EnableAll \/ SendHalf \/ Written("enabling", "ready")
           \/ Claim \/ Claimed \/ Served \/ Written("completing", "ready")

(* The handler may let any number of edges go by before a step; it takes   *)
(* an answer with the step that answer lets it make.                       *)
Clock ==
  \E raised \in SUBSET Sources :
    /\ Handler \/ Wait
    /\ IntcEdge(level, [aw |-> out.aw, w |-> out.w, ar |-> out.ar,
                        bready |-> pc \in {"enabling", "completing"}
                                     /\ pc' = "ready",
                        rready |-> pc = "claiming" /\ pc' # "claiming"])
    /\ Devices(raised, IF pc = "serving" /\ pc' = "completing"
                       THEN {id} ELSE {})

Next == Clock
Spec == Init /\ [][Next]_vars
FairSpec == /\ Spec
            /\ WF_vars(Clock)                  \* the clock runs
            /\ WF_vars(Clock /\ pc' # pc)      \* the handler gets on
            /\ WF_vars(Clock /\ SendHalf)

-----------------------------------------------------------------------------
(* A device that holds its line, claimed and not served yet, has it up: no *)
(* claim is spurious, none is served twice for one event.  (The device is  *)
(* served before the completion, and the claim register still shows a      *)
(* source until its completion has been performed.)                        *)
ClaimIsReal == pc = "serving" => id \in level \cup Pulsed

(* A pending bit falls only when the handler completes that very source,   *)
(* whatever else is raised, claimed or written meanwhile.                  *)
OnlyCompletionClears ==
  [][\A s \in pending \ pending' : pc = "completing" /\ id = s]_vars

(* Every event is served: a line that is held, raised again on the very    *)
(* edge of the completion too, and a pulse once it is latched, unless its  *)
(* source is completed before it is claimed.                               *)
Serving(s) == pc = "serving" /\ id = s
EveryEventServed ==
  /\ \A s \in Sources \ Pulsed : s \in level ~> s \notin level
  /\ \A s \in Pulsed :
       s \in pending /\ ~(pc = "completing" /\ id = s) ~> Serving(s)
=============================================================================
