------------------------------- MODULE MCFabric -------------------------------
(* What carries an access from the CPU to a slave, one block at a time: a  *)
(* behaviour is of the crossbar, among its masters and slaves, or of the   *)
(* CPU's bridge, and the other block stays at reset.                       *)
(*                                                                         *)
(* The crossbar: the CPU, master 0, and one master of lower priority.  The *)
(* environments in which every slave answers are under WdLimit; the one    *)
(* with a slave that does not is under ShortLimit, two edges, so that the  *)
(* watchdog's work fits the run.                                           *)
EXTENDS InterconnectSystem

CONSTANTS
  ShortLimit,     (* the watchdog's, where a slave does not answer         *)
  DoubleWords, Ids, Uses, InitialMem, BadWords   (* of the bridge          *)

VARIABLES
  block,          (* the one this behaviour is of                          *)
  quick, use, rd_state, rd_id, rd_base, rd_len, rd_beat_cnt, rd_data_lo, rd_ok,
  wr_state, wr_id, wr_base, wr_len, wr_beat_cnt, wr_data, wr_strb, wr_ok,
  wr_need_hi, ar, aw, w, reading, received, writing, sent, fr, fw, mem, seen,
  want, faulted, nearBad, lone

bridge == <<quick, use, rd_state, rd_id, rd_base, rd_len, rd_beat_cnt,
            rd_data_lo, rd_ok, wr_state, wr_id, wr_base, wr_len, wr_beat_cnt,
            wr_data, wr_strb, wr_ok, wr_need_hi, ar, aw, w, reading, received,
            writing, sent, fr, fw, mem, seen, want, faulted, nearBad, lone>>

ASSUME ShortAssumption == ShortLimit \in Nat
Short == INSTANCE InterconnectSystem WITH
           WdLimit <- ShortLimit, Patience <- ShortLimit

Env(inFlight, from, into, dead, within) ==
  [inFlight |-> inFlight, apart |-> inFlight > 1,
   reads |-> [m \in Masters |-> from[m + 1]],
   writes |-> [m \in Masters |-> into[m + 1]],
   dead |-> dead, within |-> within]
None == <<{}, {}>>

(* Two masters with a read or a write each; one at the crossbar's own      *)
(* registers; and one whose three reads meet a queue of two.               *)
ReadingTwo == Env(1, <<{"DRAM", "INTC"}, {"DRAM"}>>, None, {}, 3)
WritingTwo == Env(1, None, <<{"DRAM"}, {"DRAM", "ERR"}>>, {}, 2)
Debugging  == Env(1, <<{"ERR", "DBG"}, {}>>, <<{"DBG"}, {}>>, {}, 3)
Crowding   == Env(3, <<{"DRAM", "ERR"}, {}>>, None, {}, 12)

(* A slave that never answers, beside one that does.                       *)
DramDead == Env(1, <<{"DRAM"}, {"DRAM", "INTC"}>>, None, {"DRAM"}, AnyTime)

MCEnvironments == {ReadingTwo, WritingTwo, Debugging, Crowding, DramDead}
ASSUME EnvironmentsApart == \A e \in MCEnvironments : KeptApart(e)

(* Where all slaves answer it is known within how many edges; where one    *)
(* does not, a master has one request under way, because the watchdog      *)
(* counts on from one request to the next.                                 *)
TimesKnown(e) == IF e.dead = {} THEN e.within # AnyTime ELSE e.inFlight <= 1
ASSUME EnvironmentsTimed == \A e \in MCEnvironments : TimesKnown(e)

(* Two reads under way, an answer leaving as the next request enters.      *)
Pipelining == [Env(2, <<{"DRAM", "INTC"}, {}>>, None, {}, 6) EXCEPT !.apart = FALSE]
PipelinedEnvironments == {Pipelining}

-----------------------------------------------------------------------------
(* The bridge: three double words of two words each, every word telling    *)
(* its address; the low half of the second one answers with an error.      *)
(* Beats are of two values, one per half, with every strobe.  One CPU      *)
(* offers addresses before their data.                                     *)
AllBeats == {[data |-> [lo |-> 7, hi |-> 8], strb |-> s] : s \in SUBSET {"lo", "hi"}}
Reading == [reads |-> {1, 2}, writes |-> {}, last |-> 2, beats |-> {}, alone |-> FALSE]
Writing == [reads |-> {}, writes |-> {1, 2}, last |-> 1, beats |-> AllBeats,
            alone |-> FALSE]
AddressFirst == [Writing EXCEPT !.writes = {1}, !.alone = TRUE,
                   !.beats = {[data |-> [lo |-> 7, hi |-> 8], strb |-> {"hi"}]}]

MCUses == {Reading, Writing, AddressFirst}
MCMem == [a \in 0 .. 5 |-> a + 1]

Bridge == INSTANCE BridgeSystem WITH NoData <- 0
ASSUME BridgeAssumptions == Bridge!BridgeAssumption /\ Bridge!UseAssumption

-----------------------------------------------------------------------------
MCInit ==
  /\ Init /\ Bridge!Init
  /\ \/ block = "crossbar" /\ use = CHOOSE u \in Uses : TRUE
     \/ block = "bridge" /\ env = ReadingTwo

CrossbarNext ==
  /\ block = "crossbar" /\ UNCHANGED <<block, bridge>>
  /\ IF env.dead = {} THEN Next ELSE Short!Next
BridgeNext == block = "bridge" /\ Bridge!Next /\ UNCHANGED <<block, vars>>
MCNext == CrossbarNext \/ BridgeNext
MCSpec == /\ MCInit /\ [][MCNext]_<<block, vars, bridge>>
          /\ []<><<TRUE>>_<<clk, quick>>

(* What the modules promise, each of its own block.                        *)
(* The bridge: see BridgeSystem.                                           *)
BeatOfBurst == Bridge!BeatOfBurst
(* A beat shown without error holds both words as they were read: see      *)
(* BridgeSystem.                                                           *)
BothHalves == Bridge!BothHalves
(* A write burst that is answered is in memory: see BridgeSystem.          *)
BurstWritten == Bridge!BurstWritten
(* An address taken without data leaves nothing behind: see BridgeSystem.  *)
LoneForgotten == Bridge!LoneForgotten
(* Every burst offered is served to its end: see BridgeSystem.             *)
EveryBurstEnds == Bridge!EveryBurstEnds
(* timeout_irq is pulsed for a request older than the limit only, under    *)
(* the shorter one; where every slave answers, no age is counted and no    *)
(* timeout may come at all: see InterconnectSystem.                        *)
ShortTimeoutOnlyLate == Short!TimeoutOnlyLate

(* Bursts are read and written whole, beat for beat.                       *)
BurstsWhole == BeatOfBurst /\ BurstWritten /\ LoneForgotten
(* Every request is answered and every burst ends: see InterconnectSystem  *)
(* and BridgeSystem.                                                       *)
FabricServes == EveryRequestAnswered /\ EveryBurstEnds
=============================================================================
