-------------------------- MODULE InterconnectSystem --------------------------
(***************************************************************************)
(* The crossbar between masters that keep to AXI-Lite (an offer stands     *)
(* until it is taken, and so does an answer) and slaves that hold one read *)
(* and one write, as e1_axi_lite_dram, the interrupt controller and the    *)
(* DMA's register wrapper do.                                              *)
(***************************************************************************)
EXTENDS E1Interconnect, Sequences

CONSTANTS
  Environments,   (* the surroundings the crossbar is put in: who asks for *)
                  (* what, how many requests a master has under way per    *)
                  (* channel, whether it keeps them apart (none of its     *)
                  (* requests enters a queue on the edge where an answer   *)
                  (* leaves it), which slaves never answer, and the edges  *)
                  (* within which the others do, when that is known        *)
  Patience        (* bound on the ages below                               *)

AnyTime == 0
ASSUME SystemAssumption ==
  /\ Environments \subseteq
       [inFlight : Nat, apart : BOOLEAN,
        reads : [Masters -> SUBSET (Slaves \cup NoSlave)],
        writes : [Masters -> SUBSET (Slaves \cup NoSlave)],
        dead : SUBSET Slaves, within : {AnyTime} \cup 1 .. WdLimit]
  /\ Patience \in Nat

(* A master with more than one request under way keeps them apart and      *)
(* leaves the debug registers alone: see RightAnswer.                      *)
KeptApart(e) ==
  e.inFlight <= 1 \/ (e.apart /\ \A m \in Masters : "DBG" \notin e.reads[m])

VARIABLES
  clk,             (* changes on every edge, whatever else does            *)
  env,             (* the surroundings of this behaviour                   *)
  tag,             (* per master: the tags of its next AR, AW and W        *)
  reader, writer,  (* per slave: the request it holds, and whether it has  *)
                   (* answered it                                          *)
  reads, writes,   (* history: per master, requests taken and unanswered   *)
  datas,           (* history: per master, write data taken and unanswered *)
  ages             (* history: per master, the edges since each of its     *)
                   (* reads, and both halves of each write, were taken     *)

envVars == <<tag, reader, writer, reads, writes, datas, ages>>
vars == <<clk, env, icVars, envVars>>

Nobody == [who |-> -1, addr |-> NoAddr, data |-> NoData, done |-> FALSE]

FromSlaves ==
  [t \in Slaves |-> [arready |-> reader[t] = Nobody,
                     rvalid |-> reader[t].done, rresp |-> "OKAY",
                     awready |-> writer[t] = Nobody,
                     bvalid |-> writer[t].done, bresp |-> "OKAY"]]

(* What a master may do on an edge: have its next request taken on each    *)
(* channel that is ready, while it has fewer than env.inFlight under way,  *)
(* and take the answers it is shown.  Requests that are offered and not    *)
(* taken leave no trace in the interconnect.                               *)
Room(under) == Len(under) < env.inFlight
MayAsk(m, s) ==
  {NoAddr} \cup IF arready(m, s) /\ Room(reads[m])
                THEN [to : env.reads[m], tag : {tag[m].ar}] ELSE {}
MayAddress(m) ==
  {NoAddr} \cup IF awready(m) /\ Room(writes[m])
                THEN [to : env.writes[m], tag : {tag[m].aw}] ELSE {}
MaySend(m) ==
  {NoData} \cup IF wready(m) /\ Room(datas[m]) /\ env.writes[m] # {}
                THEN {tag[m].w} ELSE {}

(* The masters' choices on one channel.                                    *)
Choices(may) ==
  {c \in [Masters -> UNION {may[m] : m \in Masters}] :
     \A m \in Masters : c[m] \in may[m]}

(* Slaves take what they are offered; an answer may come on any later      *)
(* edge, when it is among those that answer.                               *)
SlavesEdge(i, answering) ==
  /\ reader' = [t \in Slaves |->
       IF reader[t] = Nobody
       THEN IF ReadOf(t) = {} THEN Nobody
            ELSE LET m == CHOOSE m \in ReadOf(t) : TRUE IN
                 [who |-> m, addr |-> ar_pip[m], data |-> NoData,
                  done |-> <<t, "R">> \in answering]
       ELSE IF reader[t].done /\ slave_rready(t, i) THEN Nobody
       ELSE [reader[t] EXCEPT !.done = @ \/ <<t, "R">> \in answering]]
  /\ writer' = [t \in Slaves |->
       IF writer[t] = Nobody
       THEN IF WriteOf(t) = {} THEN Nobody
            ELSE LET m == CHOOSE m \in WriteOf(t) : TRUE IN
                 [who |-> m, addr |-> aw_pip[m].addr, data |-> aw_pip[m].data,
                  done |-> <<t, "B">> \in answering]
       ELSE IF writer[t].done /\ slave_bready(t, i) THEN Nobody
       ELSE [writer[t] EXCEPT !.done = @ \/ <<t, "B">> \in answering]]

Grow(q, x, none, shrink) ==
  LET r == IF shrink /\ q # << >> THEN Tail(q) ELSE q IN
  IF x = none THEN r ELSE Append(r, x)

Later(n) == IF n < Patience THEN n + 1 ELSE n
Aged(old, answered, new) ==
  LET gone == IF answered THEN 1 ELSE 0 IN
  [k \in 1 .. new |-> IF k + gone <= Len(old) THEN Later(old[k + gone]) ELSE 0]
Fewer(m, n) == IF m < n THEN m ELSE n

Record(i, s) ==
  /\ reads' = [m \in Masters |-> Grow(reads[m], i[m].ar, NoAddr,
                                      ReadDone(m, i, s))]
  /\ writes' = [m \in Masters |-> Grow(writes[m], i[m].aw, NoAddr,
                                       WriteDone(m, i, s))]
  /\ datas' = [m \in Masters |-> Grow(datas[m], i[m].w, NoData,
                                      WriteDone(m, i, s))]
  /\ ages' = [m \in Masters |->
       [r |-> Aged(ages[m].r, ReadDone(m, i, s), Len(reads'[m])),
        w |-> Aged(ages[m].w, WriteDone(m, i, s),
                   Fewer(Len(writes'[m]), Len(datas'[m])))]]
  /\ tag' = [m \in Masters |->
       [ar |-> IF i[m].ar = NoAddr THEN tag[m].ar ELSE (tag[m].ar + 1) % (env.inFlight + 1),
        aw |-> IF i[m].aw = NoAddr THEN tag[m].aw ELSE (tag[m].aw + 1) % (env.inFlight + 1),
        w  |-> IF i[m].w = NoData THEN tag[m].w ELSE (tag[m].w + 1) % (env.inFlight + 1)]]

(* The answer that a queue awaits has come, or is the interconnect's own,  *)
(* and time is left for those behind it, two edges each and four for one   *)
(* still in the pipeline: the watchdog counts on from one to the next.     *)
InTime(q, holders, piped) ==
  q.ost > 0 => LET t == Owes(q) IN
               q.wd + 2 * (q.ost - 1) + (IF piped THEN 4 ELSE 0)
                 < env.within - (IF t \in Slaves /\ ~holders[t].done
                              THEN 1 ELSE 0)

Init ==
  /\ clk = FALSE /\ env \in Environments
  /\ IcInit
  /\ tag = [m \in Masters |-> [ar |-> 0, aw |-> 0, w |-> 0]]
  /\ reader = [t \in Slaves |-> Nobody] /\ writer = [t \in Slaves |-> Nobody]
  /\ reads = [m \in Masters |-> << >>] /\ writes = [m \in Masters |-> << >>]
  /\ datas = [m \in Masters |-> << >>]
  /\ ages = [m \in Masters |-> [r |-> << >>, w |-> << >>]]

Clock(i, answering) ==
  LET s == FromSlaves IN
  /\ InterconnectEdge(i, s)
  /\ SlavesEdge(i, answering)
  /\ Record(i, s)
  /\ clk' = ~clk /\ UNCHANGED env
  /\ env.apart => \A m \in Masters : ~(ar_pip_drain(m, s) /\ i[m].rready)
                                    /\ ~(aw_pip_drain(m, s) /\ i[m].bready)
  /\ env.within # AnyTime =>
       \A m \in Masters : /\ InTime(rd'[m], reader', ar_pip'[m] # NoAddr)
                          /\ InTime(wr'[m], writer', aw_pip'[m] # NoWrite)

(* The slaves that could answer on this edge, and on which channel.        *)
Asked ==
  {<<t, "R">> : t \in {x \in Slaves \ env.dead :
     ~reader[x].done /\ (reader[x] # Nobody \/ ReadOf(x) # {})}}
  \cup {<<t, "B">> : t \in {x \in Slaves \ env.dead :
     ~writer[x].done /\ (writer[x] # Nobody \/ WriteOf(x) # {})}}

Inputs ==
  LET s == FromSlaves
      ars == Choices([m \in Masters |-> MayAsk(m, s)])
      aws == Choices([m \in Masters |-> MayAddress(m)])
      ws  == Choices([m \in Masters |-> MaySend(m)])
      rs  == Choices([m \in Masters |-> {FALSE, rvalid(m, s)}])
      bs  == Choices([m \in Masters |-> {FALSE, bvalid(m, s)}])
  IN {[m \in Masters |-> [ar |-> c[1][m], aw |-> c[2][m], w |-> c[3][m],
                          rready |-> c[4][m], bready |-> c[5][m]]]
        : c \in ars \X aws \X ws \X rs \X bs}

Next == \E i \in Inputs, answering \in SUBSET Asked : Clock(i, answering)

Spec == Init /\ [][Next]_vars
(* The clock runs: there is always another edge.                           *)
ClockRuns == []<><<TRUE>>_clk
FairSpec == Spec /\ ClockRuns

-----------------------------------------------------------------------------
(* Every answer a master is shown is that of its oldest request: it comes  *)
(* from the port that request named and, at a slave, from that very        *)
(* request, not another master's and not an earlier one's.  A read of the  *)
(* debug registers shows the one it named: with several requests under way *)
(* it shows the one taken last instead.  The exception is the answer the   *)
(* watchdog gives in the slave's place.                                    *)
RightAnswer ==
  \A m \in Masters :
    /\ rvalid(m, FromSlaves) =>
         LET t == Owes(rd[m])  first == Head(reads[m]) IN
         /\ reads[m] # << >>
         /\ t = first.to \/ (t = "ERR" /\ timeout_status[m])
         /\ t \in Slaves => reader[t].who = m /\ reader[t].addr = first
         /\ t = "DBG" => rd_dbg_laddr[m] = first
    /\ bvalid(m, FromSlaves) =>
         LET t == Owes(wr[m])  first == Head(writes[m]) IN
         /\ writes[m] # << >> /\ datas[m] # << >>
         /\ t = first.to \/ (t = "ERR" /\ timeout_status[m])
         /\ t \in Slaves => writer[t].who = m /\ writer[t].addr = first
                            /\ writer[t].data = first.tag

(* The interconnect owes exactly what it has taken: no request is lost     *)
(* between the ports, the pipeline and the queue of answers.               *)
NothingLost ==
  \A m \in Masters :
    /\ Len(reads[m]) = rd[m].ost + (IF ar_pip[m] # NoAddr THEN 1 ELSE 0)
    /\ Len(writes[m]) = wr[m].ost + (IF aw_pip[m] # NoWrite THEN 1 ELSE 0)
                                  + (IF aw_held[m] # NoAddr THEN 1 ELSE 0)
    /\ Len(datas[m]) = wr[m].ost + (IF aw_pip[m] # NoWrite THEN 1 ELSE 0)
                                 + (IF w_held[m] # NoData THEN 1 ELSE 0)

(* "If an outstanding transaction on any master receives no response       *)
(* within 1024 cycles, timeout_irq[m] is pulsed": and only then.           *)
Old(age) == \E k \in DOMAIN age : age[k] >= WdLimit
TimeoutOnlyLate ==
  [][\A m \in Masters : timeout_irq'[m] =>
                          Old(ages[m].r) \/ Old(ages[m].w)]_vars

(* Masters that have one request under way get their answer, those of      *)
(* lower priority too: no higher one can keep an arbiter for itself.       *)
EveryRequestAnswered ==
  \A m \in Masters :
    /\ env.within # AnyTime /\ env.inFlight = 1 /\ reads[m] # << >>
         ~> reads[m] = << >>
    /\ env.inFlight = 1 /\ writes[m] # << >> /\ datas[m] # << >>
         ~> writes[m] = << >>
=============================================================================
