------------------------------ MODULE MCDevices ------------------------------
(* Two slaves with software behind them, one at a time: a behaviour is of  *)
(* the UART or of the interrupt controller, and the other stays at reset.  *)
(* The UART has bytes of two bits in queues of two.  The controller has    *)
(* three sources, the second one pulsed; the lowest one is claimed first.  *)
EXTENDS UartSystem

CONSTANTS
  NumSources, Pulsed, MaxEvents   (* of the controller: see IntcSystem     *)

VARIABLES
  block,          (* the one this behaviour is of                          *)
  enable, pending, write_addr, write_data, bvalid, rvalid, rdata, level,
  events, pc, id, out

(* One that meets an event of a queue once, at the shortest period, and    *)
(* one that changes the speed or disables the device in between.           *)
Steady == [bytes |-> {<<0, 1>>, <<1, 0>>}, speeds |-> {3}, reads |-> TRUE,
           meets |-> 1, changes |-> 0]
Restless == [bytes |-> {<<0, 1>>}, speeds |-> {3, 4}, reads |-> FALSE,
             meets |-> 0, changes |-> 2]
MCSoftwares == {Steady, Restless}

Intc == INSTANCE IntcSystem
ASSUME ControllerAssumption == Intc!IntcAssumption /\ Intc!SystemAssumption

intc == <<enable, pending, write_addr, write_data, bvalid, rvalid, rdata, level,
          events, pc, id, out>>

MCInit == /\ Init /\ Intc!Init
          /\ block = "uart" \/ (block = "intc" /\ software = Steady)
UartNext == block = "uart" /\ Next /\ UNCHANGED <<block, intc>>
Controller(A) == block = "intc" /\ A /\ UNCHANGED <<block, vars>>
IntcNext == Controller(Intc!Next)
MCNext == UartNext \/ IntcNext

(* What UartSystem's and IntcSystem's FairSpec say, of the block that runs. *)
Fairness ==
  /\ <>[](block = "intc" \/ ~Running) \/ []<><<TRUE>>_vars
  /\ WF_intc(Controller(Intc!Clock))
  /\ WF_intc(Controller(Intc!Clock /\ pc' # pc))
  /\ WF_intc(Controller(Intc!Clock /\ Intc!SendHalf))
MCSpec == MCInit /\ [][MCNext]_<<block, vars, intc>> /\ Fairness

(* No claim is spurious, none is served twice: see IntcSystem.             *)
ClaimIsReal == Intc!ClaimIsReal
(* A pending bit falls only when the handler completes that very source:   *)
(* see IntcSystem.                                                         *)
OnlyCompletionClears == Intc!OnlyCompletionClears
(* Every event is served, if its line is held or its pulse is not lost on  *)
(* the edge of a completion: see IntcSystem.                               *)
EveryEventServed == Intc!EveryEventServed

(* For every byte sent one is heard, and every event is served: see        *)
(* UartSystem and IntcSystem.                                              *)
DevicesServe == EveryByteHeard /\ EveryEventServed
=============================================================================
