----------------------------- MODULE FabricProofs -----------------------------
(***************************************************************************)
(* Proofs about the crossbar among its masters and slaves, for any number  *)
(* of masters, queues of any depth, any limit of the watchdog, and slaves  *)
(* that answer late or never, wherever requests are kept apart; and about  *)
(* the bridge in front of it, for a memory of any size, bursts of any      *)
(* length, any set of words that fail, and a fabric that takes and answers *)
(* when it likes.  Last, the crossbar's timeouts, for any shorter limit    *)
(* where a slave never answers.                                            *)
(***************************************************************************)
EXTENDS MCFabric, TLAPS

-----------------------------------------------------------------------------
\* ------------------------------------------------------------- the queues

\* Counters go once around their modulus at most.
LEMMA ModSmall ==
  ASSUME NEW x \in Nat, NEW F \in Nat \ {0}
  PROVE  /\ x < F => x % F = x
         /\ x >= F /\ x < F + F => x % F = x - F
OBVIOUS

Ports == Slaves \cup NoSlave \cup {"NONE"}
Requests == [to : Slaves \cup NoSlave, tag : Nat]

QueueTypes(q) ==
  /\ q = [fifo |-> q.fifo, head |-> q.head, tail |-> q.tail, ost |-> q.ost, wd |-> q.wd]
  /\ q.fifo \in [Index -> Ports]
  /\ q.head \in Index /\ q.tail \in Index /\ q.ost \in 0 .. MaxOutst /\ q.wd \in Nat
  /\ q.tail = (q.head + q.ost) % MaxOutst

\* Who owes the k-th answer of a queue.
Entry(q, k) == q.fifo[(q.head + (k - 1)) % MaxOutst]

QueueMoves(q, push, to, pop, r) ==
  /\ push \in BOOLEAN /\ pop \in BOOLEAN /\ ~(push /\ pop)
  /\ push => q.ost # MaxOutst /\ to \in Ports
  /\ pop => q.ost # 0
  /\ r = QueueEdge(q, push, to, pop)

LEMMA Around ==
  ASSUME NEW h \in Index, NEW k \in 0 .. MaxOutst
  PROVE  /\ (h + k) % MaxOutst \in Index
         /\ (h + k) % MaxOutst = h + k \/ (h + k) % MaxOutst = h + k - MaxOutst
         /\ h + k < MaxOutst => (h + k) % MaxOutst = h + k
         /\ h + k >= MaxOutst => (h + k) % MaxOutst = h + k - MaxOutst
<1>1. h \in Nat /\ h < MaxOutst /\ MaxOutst \in Nat \ {0} /\ h + k \in Nat
  BY InterconnectAssumption DEF Index
<1>2. /\ h + k < MaxOutst => (h + k) % MaxOutst = h + k
      /\ h + k >= MaxOutst /\ h + k < MaxOutst + MaxOutst => (h + k) % MaxOutst = h + k - MaxOutst
  BY <1>1
<1>3. h + k < MaxOutst + MaxOutst
  BY <1>1
<1> DEFINE w1 == (h + k) % MaxOutst
<1> HIDE DEF w1
<1>4. /\ h + k < MaxOutst => w1 = h + k
      /\ h + k >= MaxOutst => w1 = h + k - MaxOutst
  BY <1>2, <1>3 DEF w1
<1>5. w1 \in Index /\ (w1 = h + k \/ w1 = h + k - MaxOutst)
  BY <1>1, <1>4 DEF Index
<1> QED BY <1>4, <1>5 DEF w1
LEMMA Onward ==
  ASSUME NEW h \in Index
  PROVE  /\ (h + 1) % MaxOutst \in Index
         /\ h + 1 < MaxOutst => (h + 1) % MaxOutst = h + 1
         /\ h + 1 >= MaxOutst => (h + 1) % MaxOutst = h + 1 - MaxOutst
<1>1. \A k \in 0 .. MaxOutst :
        /\ (h + k) % MaxOutst \in Index
        /\ h + k < MaxOutst => (h + k) % MaxOutst = h + k
        /\ h + k >= MaxOutst => (h + k) % MaxOutst = h + k - MaxOutst
  BY Around
<1>2. 1 \in 0 .. MaxOutst
  BY InterconnectAssumption
<1> QED BY <1>1, <1>2

LEMMA QueueStep ==
  ASSUME NEW q, NEW push, NEW to, NEW pop, NEW r,
         QueueTypes(q), QueueMoves(q, push, to, pop, r)
  PROVE  /\ QueueTypes(r)
         /\ r.ost = IF pop THEN q.ost - 1 ELSE IF push THEN q.ost + 1 ELSE q.ost
         /\ \A k \in 1 .. r.ost :
              Entry(r, k) = IF pop THEN Entry(q, k + 1)
                            ELSE IF push /\ k = r.ost THEN to
                            ELSE IF k = 1 /\ WatchdogLate(q) THEN "ERR" ELSE Entry(q, k)
         /\ WatchdogLate(q) /\ ~pop => WatchdogLate(r)
<1> DEFINE late == q.ost > 0 /\ q.wd >= WdLimit
           fifo == IF push THEN [q.fifo EXCEPT ![q.tail] = to] ELSE q.fifo
           S(k) == (q.head + k) % MaxOutst
<1>1. /\ q.fifo \in [Index -> Ports] /\ q.head \in Index /\ q.tail \in Index
      /\ q.ost \in 0 .. MaxOutst /\ q.wd \in Nat /\ q.tail = S(q.ost)
  BY DEF QueueTypes
<1>2. /\ MaxOutst \in Nat \ {0} /\ q.head \in Nat /\ q.head < MaxOutst /\ q.ost \in Nat
      /\ WdLimit \in Nat
  BY <1>1, InterconnectAssumption DEF Index
<1>3. /\ push \in BOOLEAN /\ pop \in BOOLEAN /\ ~(push /\ pop)
      /\ push => q.ost # MaxOutst /\ to \in Ports
      /\ pop => q.ost # 0
      /\ late \in BOOLEAN /\ (late <=> WatchdogLate(q)) /\ (late => q.ost # 0)
  BY <1>2 DEF QueueMoves, WatchdogLate
<1>4. /\ r.fifo = (IF late THEN [fifo EXCEPT ![q.head] = "ERR"] ELSE fifo)
      /\ r.head = (IF pop THEN (q.head + 1) % MaxOutst ELSE q.head)
      /\ r.tail = (IF push THEN (q.tail + 1) % MaxOutst ELSE q.tail)
      /\ r.ost = (IF pop THEN q.ost - 1 ELSE IF push THEN q.ost + 1 ELSE q.ost)
      /\ r.wd = (IF q.ost = 0 THEN 0 ELSE IF ~late THEN q.wd + 1
                 ELSE IF pop THEN 0 ELSE q.wd)
      /\ r = [fifo |-> r.fifo, head |-> r.head, tail |-> r.tail, ost |-> r.ost, wd |-> r.wd]
  BY DEF QueueMoves, QueueEdge, WatchdogLate
<1> HIDE DEF late
<1>5. r.ost \in 0 .. MaxOutst /\ r.wd \in Nat /\ r.ost \in Nat
  <2>1. q.ost - 1 \in Int /\ (q.ost # 0 => q.ost - 1 \in 0 .. MaxOutst)
        /\ (q.ost # MaxOutst => q.ost + 1 \in 0 .. MaxOutst)
    BY <1>1, <1>2
  <2>2. r.ost \in 0 .. MaxOutst
    BY <1>1, <1>3, <1>4, <2>1
  <2>3. r.wd \in Nat
    BY <1>1, <1>4
  <2> QED BY <1>2, <2>2, <2>3
<1>6. \A k \in 0 .. MaxOutst : /\ S(k) \in Index
                               /\ q.head + k < MaxOutst => S(k) = q.head + k
                               /\ q.head + k >= MaxOutst => S(k) = q.head + k - MaxOutst
  BY <1>1, Around
<1> HIDE DEF S
<1>7. S(0) = q.head /\ S(1) = (q.head + 1) % MaxOutst
  BY <1>2, <1>6 DEF S
<1>8. \A k \in 0 .. MaxOutst - 1 :
        (S(1) + k) % MaxOutst = S(k + 1)
  <2> TAKE k \in 0 .. MaxOutst - 1
  <2>1. k \in 0 .. MaxOutst /\ k + 1 \in 0 .. MaxOutst /\ 1 \in 0 .. MaxOutst
    BY <1>2
  <2>2. /\ S(1) \in Index
        /\ S(1) + k < MaxOutst => (S(1) + k) % MaxOutst = S(1) + k
        /\ S(1) + k >= MaxOutst => (S(1) + k) % MaxOutst = S(1) + k - MaxOutst
    BY <1>6, <2>1, Around
  <2>3. S(1) = q.head + 1 \/ (S(1) = q.head + 1 - MaxOutst /\ q.head + 1 = MaxOutst)
    BY <1>2, <1>6, <2>1
  <2>4. /\ q.head + (k + 1) < MaxOutst => S(k + 1) = q.head + (k + 1)
        /\ q.head + (k + 1) >= MaxOutst => S(k + 1) = q.head + (k + 1) - MaxOutst
    BY <1>6, <2>1
  <2> HIDE DEF S
  <2>5. k \in Nat /\ k < MaxOutst
    BY <1>2
  <2> DEFINE x == (S(1) + k) % MaxOutst
  <2> HIDE DEF x
  <2>7. /\ S(1) + k < MaxOutst => x = S(1) + k
        /\ S(1) + k >= MaxOutst => x = S(1) + k - MaxOutst
    BY <2>2 DEF x
  <2>8. x = S(k + 1)
    BY <1>2, <2>3, <2>4, <2>5, <2>7
  <2> QED BY <2>8 DEF x
<1>9. \A j, k \in 0 .. MaxOutst - 1 : S(j) = S(k) => j = k
  BY <1>2, <1>6
<1>10. r.head \in Index /\ r.tail \in Index
  <2>1. (q.tail + 1) % MaxOutst \in Index /\ (q.head + 1) % MaxOutst \in Index
    BY <1>1, Onward
  <2> QED BY <1>1, <1>4, <2>1
<1>11. r.fifo \in [Index -> Ports]
  BY <1>1, <1>3, <1>4 DEF Ports, NoSlave
<1>12. r.tail = (r.head + r.ost) % MaxOutst
  <2>1. CASE pop
    <3>1. q.ost - 1 \in 0 .. MaxOutst - 1 /\ q.ost - 1 + 1 = q.ost
      BY <1>1, <1>2, <1>3, <2>1
    <3>2. (S(1) + (q.ost - 1)) % MaxOutst = S(q.ost)
      BY <1>8, <3>1
    <3> QED BY <1>1, <1>3, <1>4, <1>7, <2>1, <3>2
  <2>2. CASE push
    <3>1. q.ost \in 0 .. MaxOutst /\ q.ost + 1 \in 0 .. MaxOutst /\ 1 \in 0 .. MaxOutst
      BY <1>1, <1>2, <1>3, <2>2
    <3>2. /\ (q.tail + 1) < MaxOutst => (q.tail + 1) % MaxOutst = q.tail + 1
          /\ (q.tail + 1) >= MaxOutst => (q.tail + 1) % MaxOutst = q.tail + 1 - MaxOutst
      BY <1>1, Onward
    <3>3. (q.tail + 1) % MaxOutst = S(q.ost + 1)
      BY <1>1, <1>2, <1>6, <3>1, <3>2
    <3> QED BY <1>3, <1>4, <2>2, <3>3 DEF S
  <2>3. CASE ~pop /\ ~push
    BY <1>1, <1>4, <2>3 DEF S
  <2> QED BY <1>3, <2>1, <2>2, <2>3
<1>13. \A k \in 1 .. r.ost :
         Entry(r, k) = IF pop THEN Entry(q, k + 1)
                       ELSE IF push /\ k = r.ost THEN to
                       ELSE IF k = 1 /\ late THEN "ERR" ELSE Entry(q, k)
  <2> TAKE k \in 1 .. r.ost
  <2>1. k - 1 \in 0 .. MaxOutst - 1 /\ k \in Nat /\ k - 1 + 1 = k
    BY <1>2, <1>5
  <2>2. Entry(q, k) = q.fifo[S(k - 1)]
    BY DEF Entry, S
  <2>3. CASE pop
    <3>1. k \in 0 .. MaxOutst - 1 /\ k # 0 /\ k + 1 - 1 = k /\ 0 \in 0 .. MaxOutst - 1
      BY <1>1, <1>2, <1>3, <1>4, <2>1, <2>3
    <3>2. (r.head + (k - 1)) % MaxOutst = S(k)
      BY <1>4, <1>7, <1>8, <2>1, <2>3
    <3>3. S(k) # q.head /\ S(k) \in Index
      BY <1>2, <1>6, <1>7, <1>9, <3>1
    <3>4. r.fifo[S(k)] = q.fifo[S(k)]
      BY <1>1, <1>3, <1>4, <2>3, <3>3
    <3>5. Entry(q, k + 1) = q.fifo[S(k)]
      BY <3>1 DEF Entry, S
    <3> QED BY <2>3, <3>2, <3>4, <3>5 DEF Entry
  <2>4. CASE ~pop
    <3>1. Entry(r, k) = r.fifo[S(k - 1)] /\ S(k - 1) \in Index
      BY <1>2, <1>4, <1>6, <2>1, <2>4 DEF Entry, S
    <3>2. k = 1 <=> S(k - 1) = q.head
      <4>1. 0 \in 0 .. MaxOutst - 1
        BY <1>2
      <4> QED BY <1>7, <1>9, <2>1, <4>1
    <3>3. CASE push /\ k = r.ost
      <4>1. S(k - 1) = q.tail /\ (late => k # 1)
        BY <1>1, <1>2, <1>3, <1>4, <2>1, <2>4, <3>3
      <4> QED BY <1>1, <1>4, <2>4, <3>1, <3>2, <3>3, <4>1
    <3>4. CASE ~(push /\ k = r.ost)
      <4>1. push => S(k - 1) # q.tail
        <5> SUFFICES ASSUME push PROVE S(k - 1) # q.tail
          OBVIOUS
        <5>1. q.ost \in 0 .. MaxOutst - 1 /\ k - 1 # q.ost
          BY <1>1, <1>2, <1>3, <1>4, <2>1, <2>4, <3>4
        <5> QED BY <1>1, <1>9, <2>1, <5>1
      <4>2. fifo[S(k - 1)] = q.fifo[S(k - 1)]
        BY <1>1, <3>1, <4>1
      <4>3. fifo \in [Index -> Ports]
        BY <1>1, <1>3
      <4> QED BY <1>4, <2>2, <2>4, <3>1, <3>2, <3>4, <4>2, <4>3
    <3> QED BY <3>3, <3>4
  <2> QED BY <2>3, <2>4
<1>14. late /\ ~pop => WatchdogLate(r)
  <2> SUFFICES ASSUME late, ~pop PROVE WatchdogLate(r)
    OBVIOUS
  <2>1. r.ost > 0 /\ r.wd = q.wd
    BY <1>2, <1>3, <1>4
  <2> QED BY <2>1 DEF WatchdogLate, late
<1> QED BY <1>3, <1>4, <1>5, <1>10, <1>11, <1>12, <1>13, <1>14 DEF QueueTypes

-----------------------------------------------------------------------------
\* ------------------------------------------------------------- the channels

\* Reads and writes go the same way: a queue per master, Q; the requests it has
\* taken and not answered, A; the one in the pipeline stage, P; what each slave
\* holds, H; and the status of the masters' timeouts, S.  Each answer a queue
\* waits for is of the request at its place, at a slave of the one that slave
\* holds, and nothing else waits for it; the watchdog may have put its own answer
\* in the first place.
Honest(m, q, a, H, late) ==
  \A k \in 1 .. q.ost :
    /\ Entry(q, k) = a[k].to \/ (Entry(q, k) = "ERR" /\ k = 1 /\ WatchdogLate(q) /\ late)
    /\ Entry(q, k) \in Slaves =>
         /\ H[Entry(q, k)].who = m /\ H[Entry(q, k)].addr = a[k]
         /\ \A j \in 1 .. q.ost : Entry(q, j) = Entry(q, k) => j = k
Behind(q, a, p) ==
  /\ a \in Seq(Requests) /\ p \in Requests \cup {NoAddr}
  /\ q.ost <= Len(a)
  /\ p # NoAddr => q.ost + 1 <= Len(a) /\ a[q.ost + 1] = p
Channel(Q, A, P, H, S) ==
  \A m \in Masters : /\ QueueTypes(Q[m]) /\ Behind(Q[m], A[m], P[m])
                     /\ Honest(m, Q[m], A[m], H, S[m])

\* One edge: push and pop are the masters whose pipeline stage drains, and those
\* who take an answer.
Remains(b, a, pop) ==
  IF pop THEN Len(b) + 1 >= Len(a) /\ \A k \in 1 .. Len(a) - 1 : b[k] = a[k + 1]
  ELSE Len(b) >= Len(a) /\ \A k \in 1 .. Len(a) : b[k] = a[k]
Passes(m, q, a, p, H, push, pop, q1, a1, p1, H1, late1) ==
  /\ QueueMoves(q, push, p.to, pop, q1)
  /\ push => /\ p # NoAddr
             /\ p.to \in Slaves => H[p.to] = Nobody /\ H1[p.to].who = m /\ H1[p.to].addr = p
  /\ a1 \in Seq(Requests) /\ p1 \in Requests \cup {NoAddr}
  /\ Remains(a1, a, pop)
  /\ p1 # NoAddr => q1.ost + 1 <= Len(a1) /\ a1[q1.ost + 1] = p1
  /\ WatchdogLate(q) => late1
ChannelMoves(Q, A, P, H, push, pop, Q1, A1, P1, H1, S1) ==
  /\ \A m \in Masters : Passes(m, Q[m], A[m], P[m], H, push[m], pop[m],
                               Q1[m], A1[m], P1[m], H1, S1[m])
  /\ \A t \in Slaves : H[t] # Nobody =>
       \/ H1[t].who = H[t].who /\ H1[t].addr = H[t].addr
       \/ \E n \in Masters : pop[n] /\ Entry(Q[n], 1) = t

LEMMA ChannelStep ==
  ASSUME NEW Q, NEW A, NEW P, NEW H, NEW S, NEW push, NEW pop,
         NEW Q1, NEW A1, NEW P1, NEW H1, NEW S1,
         Channel(Q, A, P, H, S), ChannelMoves(Q, A, P, H, push, pop, Q1, A1, P1, H1, S1)
  PROVE  Channel(Q1, A1, P1, H1, S1)
<1> SUFFICES ASSUME NEW m \in Masters
             PROVE  /\ QueueTypes(Q1[m]) /\ Behind(Q1[m], A1[m], P1[m])
                    /\ Honest(m, Q1[m], A1[m], H1, S1[m])
  BY DEF Channel
<1> DEFINE q == Q[m]  r == Q1[m]  a == A[m]  b == A1[m]
<1>1. /\ QueueTypes(q) /\ Behind(q, a, P[m]) /\ Honest(m, q, a, H, S[m])
      /\ Passes(m, q, a, P[m], H, push[m], pop[m], r, b, P1[m], H1, S1[m])
  BY DEF Channel, ChannelMoves
<1>2. QueueMoves(q, push[m], P[m].to, pop[m], r)
  BY <1>1 DEF Passes
<1>3. /\ QueueTypes(r)
      /\ r.ost = IF pop[m] THEN q.ost - 1 ELSE IF push[m] THEN q.ost + 1 ELSE q.ost
      /\ \A k \in 1 .. r.ost :
           Entry(r, k) = IF pop[m] THEN Entry(q, k + 1)
                         ELSE IF push[m] /\ k = r.ost THEN P[m].to
                         ELSE IF k = 1 /\ WatchdogLate(q) THEN "ERR" ELSE Entry(q, k)
      /\ WatchdogLate(q) /\ ~pop[m] => WatchdogLate(r)
  BY <1>1, <1>2, QueueStep
<1>4. /\ push[m] \in BOOLEAN /\ pop[m] \in BOOLEAN /\ ~(push[m] /\ pop[m])
      /\ (push[m] => q.ost # MaxOutst) /\ (pop[m] => q.ost # 0)
      /\ q.ost \in 0 .. MaxOutst
  BY <1>1, <1>2 DEF QueueMoves, QueueTypes
<1>5. /\ a \in Seq(Requests) /\ b \in Seq(Requests) /\ Len(a) \in Nat /\ Len(b) \in Nat
      /\ q.ost <= Len(a) /\ q.ost \in Nat /\ r.ost \in Nat
  BY <1>1, <1>3, <1>4, InterconnectAssumption DEF Behind, Passes
<1>6. /\ push[m] => P[m] # NoAddr /\ q.ost + 1 <= Len(a) /\ a[q.ost + 1] = P[m]
                    /\ (P[m].to \in Slaves => H[P[m].to] = Nobody /\ H1[P[m].to].who = m
                                              /\ H1[P[m].to].addr = P[m])
      /\ IF pop[m] THEN Len(b) + 1 >= Len(a) /\ \A k \in 1 .. Len(a) - 1 : b[k] = a[k + 1]
         ELSE Len(b) >= Len(a) /\ \A k \in 1 .. Len(a) : b[k] = a[k]
      /\ WatchdogLate(q) => S1[m]
  BY <1>1 DEF Behind, Passes, Remains
<1> HIDE DEF q, r, a, b
<1>7. Behind(r, b, P1[m])
  <2>1. r.ost <= Len(b)
    BY <1>3, <1>4, <1>5, <1>6
  <2> QED BY <1>1, <1>5, <2>1 DEF Behind, Passes
<1>8. \A k \in 1 .. q.ost : Entry(q, k) \in Slaves /\ ~(pop[m] /\ k = 1) =>
        H1[Entry(q, k)].who = m /\ H1[Entry(q, k)].addr = a[k]
  <2> TAKE k \in 1 .. q.ost
  <2> HAVE Entry(q, k) \in Slaves /\ ~(pop[m] /\ k = 1)
  <2> DEFINE t == Entry(q, k)
  <2>1. /\ t \in Slaves /\ H[t].who = m /\ H[t].addr = a[k]
        /\ \A j \in 1 .. q.ost : Entry(q, j) = t => j = k
    BY <1>1 DEF Honest
  <2>2. H[t] # Nobody
    BY <2>1 DEF Nobody, Masters
  <2>3. ASSUME NEW n \in Masters, pop[n], Entry(Q[n], 1) = t PROVE FALSE
    <3>1. 1 \in 1 .. Q[n].ost
      <4>1. QueueTypes(Q[n]) /\ QueueMoves(Q[n], push[n], P[n].to, pop[n], Q1[n])
        BY DEF Channel, ChannelMoves, Passes
      <4>2. Q[n].ost \in 0 .. MaxOutst /\ Q[n].ost # 0
        BY <2>3, <4>1 DEF QueueTypes, QueueMoves
      <4> QED BY <4>2, InterconnectAssumption
    <3>2. Honest(n, Q[n], A[n], H, S[n])
      BY DEF Channel
    <3>3. n = m
      BY <2>1, <2>3, <3>1, <3>2 DEF Honest
    <3> QED BY <2>1, <2>3, <3>1, <3>3 DEF q
  <2>4. H1[t].who = H[t].who /\ H1[t].addr = H[t].addr
    BY <2>1, <2>2, <2>3 DEF ChannelMoves
  <2> QED BY <2>1, <2>4
<1>9. Honest(m, r, b, H1, S1[m])
  <2> SUFFICES ASSUME NEW k \in 1 .. r.ost
               PROVE  /\ Entry(r, k) = b[k].to
                         \/ (Entry(r, k) = "ERR" /\ k = 1 /\ WatchdogLate(r) /\ S1[m])
                      /\ Entry(r, k) \in Slaves =>
                           /\ H1[Entry(r, k)].who = m /\ H1[Entry(r, k)].addr = b[k]
                           /\ \A j \in 1 .. r.ost : Entry(r, j) = Entry(r, k) => j = k
    BY DEF Honest
  <2>1. k \in Nat /\ k >= 1
    OBVIOUS
  <2>2. \A j \in 1 .. q.ost :
          /\ Entry(q, j) = a[j].to \/ (Entry(q, j) = "ERR" /\ j = 1 /\ WatchdogLate(q))
          /\ Entry(q, j) \in Slaves => H[Entry(q, j)].who = m
          /\ Entry(q, j) \in Slaves =>
               \A i \in 1 .. q.ost : Entry(q, i) = Entry(q, j) => i = j
    BY <1>1 DEF Honest
  <2>3. CASE pop[m]
    <3>1. \A j \in 1 .. r.ost : j + 1 \in 1 .. q.ost /\ j + 1 # 1 /\ j \in 1 .. Len(a) - 1
                                /\ Entry(r, j) = Entry(q, j + 1)
      BY <1>3, <1>4, <1>5, <2>3
    <3>2. b[k] = a[k + 1]
      BY <1>6, <2>3, <3>1
    <3>3. Entry(r, k) = b[k].to
      BY <2>2, <3>1, <3>2
    <3>4. ASSUME Entry(r, k) \in Slaves, NEW j \in 1 .. r.ost, Entry(r, j) = Entry(r, k)
          PROVE  j = k
      <4>1. j + 1 = k + 1
        BY <2>2, <3>1, <3>4
      <4> QED BY <4>1, <2>1
    <3> QED BY <1>8, <3>1, <3>2, <3>3, <3>4
  <2>4. CASE ~pop[m]
    <3>1. \A j \in 1 .. r.ost : \/ /\ push[m] /\ j = r.ost /\ j = q.ost + 1
                                   /\ Entry(r, j) = P[m].to
                                \/ /\ j \in 1 .. q.ost /\ j \in 1 .. Len(a)
                                   /\ \/ Entry(r, j) = Entry(q, j)
                                      \/ j = 1 /\ WatchdogLate(q) /\ Entry(r, j) = "ERR"
      BY <1>3, <1>4, <1>5, <2>4
    <3>2. \A j \in 1 .. Len(a) : b[j] = a[j]
      BY <1>6, <2>4
    <3>3. "ERR" \notin Slaves
      BY DEF Slaves
    <3>4. CASE push[m] /\ k = r.ost /\ k = q.ost + 1 /\ Entry(r, k) = P[m].to
      <4>1. b[k] = P[m]
        BY <1>5, <1>6, <3>2, <3>4
      <4>2. ASSUME P[m].to \in Slaves, NEW j \in 1 .. r.ost, Entry(r, j) = P[m].to, j # k
            PROVE  FALSE
        <5>1. j \in 1 .. q.ost /\ Entry(q, j) = P[m].to
          BY <3>1, <3>3, <3>4, <4>2
        <5>2. H[P[m].to].who = m /\ H[P[m].to] = Nobody
          BY <1>6, <2>2, <3>4, <4>2, <5>1
        <5> QED BY <5>2 DEF Nobody, Masters
      <4> QED BY <1>6, <3>4, <4>1, <4>2
    <3>5. CASE /\ k \in 1 .. q.ost /\ k \in 1 .. Len(a)
               /\ \/ Entry(r, k) = Entry(q, k)
                  \/ k = 1 /\ WatchdogLate(q) /\ Entry(r, k) = "ERR"
      <4>1. b[k] = a[k]
        BY <3>2, <3>5
      <4>2. CASE k = 1 /\ WatchdogLate(q) /\ Entry(r, k) = "ERR"
        BY <1>3, <1>6, <2>4, <3>3, <4>2
      <4>3. CASE Entry(r, k) = Entry(q, k)
        <5>1. Entry(r, k) = b[k].to
              \/ (Entry(r, k) = "ERR" /\ k = 1 /\ WatchdogLate(r) /\ S1[m])
          BY <1>3, <1>6, <2>2, <2>4, <3>5, <4>1, <4>3
        <5>2. Entry(r, k) \in Slaves => H1[Entry(r, k)].who = m /\ H1[Entry(r, k)].addr = b[k]
          BY <1>8, <2>4, <3>5, <4>1, <4>3
        <5>3. ASSUME Entry(r, k) \in Slaves, NEW j \in 1 .. r.ost, Entry(r, j) = Entry(r, k)
              PROVE  j = k
          <6>1. CASE j \in 1 .. q.ost /\ Entry(r, j) = Entry(q, j)
            BY <2>2, <3>5, <4>3, <5>3, <6>1
          <6>2. CASE push[m] /\ Entry(r, j) = P[m].to
            <7>0. P[m].to = Entry(q, k) /\ P[m].to \in Slaves /\ push[m]
              BY <4>3, <5>3, <6>2
            <7>1. H[P[m].to].who = m /\ H[P[m].to] = Nobody
              BY <1>6, <2>2, <3>5, <7>0
            <7> QED BY <7>1 DEF Nobody, Masters
          <6> QED BY <3>1, <3>3, <5>3, <6>1, <6>2
        <5> QED BY <5>1, <5>2, <5>3
      <4> QED BY <3>5, <4>2, <4>3
    <3> QED BY <3>1, <3>4, <3>5
  <2> QED BY <1>4, <2>3, <2>4
<1> QED BY <1>3, <1>7, <1>9 DEF q, r, a, b

-----------------------------------------------------------------------------
\* -------------------------------------------------------------- the system

\* The environments these theorems are about.  Elsewhere an entering request is not
\* counted when an answer leaves (e1_axi_lite_interconnect.sv:715), and a read of the
\* debug registers is answered for the latest address (551).
Separated == \A e \in Environments : KeptApart(e)

Writes == [addr : Requests, data : Nat]
Holders == [who : Masters \cup {-1}, addr : Requests \cup {NoAddr}, data : Nat \cup {NoData},
            done : BOOLEAN]
CrossTypes ==
  /\ env \in Environments
  /\ aw_held \in [Masters -> Requests \cup {NoAddr}] /\ w_held \in [Masters -> Nat \cup {NoData}]
  /\ ar_pip \in [Masters -> Requests \cup {NoAddr}] /\ aw_pip \in [Masters -> Writes \cup {NoWrite}]
  /\ reader \in [Slaves -> Holders] /\ writer \in [Slaves -> Holders]
  /\ tag \in [Masters -> [ar : Nat, aw : Nat, w : Nat]]
  /\ datas \in [Masters -> Seq(Nat)]

PipedAddress == [m \in Masters |-> aw_pip[m].addr]
ReadsHonest == Channel(rd, reads, ar_pip, reader, timeout_status)
WritesHonest == Channel(wr, writes, PipedAddress, writer, timeout_status)

\* What is held alone came last; the halves of a write have the same tag, since
\* both are counted from where the oldest write under way was.
HeldIsLast ==
  \A m \in Masters : /\ aw_held[m] # NoAddr => aw_held[m] = writes[m][Len(writes[m])]
                     /\ w_held[m] # NoData => w_held[m] = datas[m][Len(datas[m])]
TagAt(b, k, n) == IF b + k <= n THEN b + k ELSE b + k - n - 1
Tagged(n, b, addrs, words, next) ==
  /\ Len(addrs) <= n /\ Len(words) <= n
  /\ \A k \in 1 .. Len(addrs) : addrs[k].tag = TagAt(b, k - 1, n)
  /\ \A k \in 1 .. Len(words) : words[k] = TagAt(b, k - 1, n)
  /\ next.aw = TagAt(b, Len(addrs), n) /\ next.w = TagAt(b, Len(words), n)
HalvesTagged ==
  \A m \in Masters : \E b \in 0 .. env.inFlight :
    Tagged(env.inFlight, b, writes[m], datas[m], tag[m])
HalvesMeet ==
  /\ \A m \in Masters : aw_pip[m] # NoWrite => aw_pip[m].data = aw_pip[m].addr.tag
  /\ \A t \in Slaves : writer[t] # Nobody => writer[t].data = writer[t].addr.tag

\* The address a debug read is answered for.
DebugRead ==
  \A m \in Masters :
    /\ Len(reads[m]) <= env.inFlight
    /\ \/ env.inFlight <= 1 /\ (reads[m] # << >> => rd_dbg_laddr[m] = reads[m][1])
       \/ env.inFlight > 1 /\ \A k \in 1 .. Len(reads[m]) : reads[m][k].to # "DBG"

CrossInv ==
  /\ CrossTypes /\ ReadsHonest /\ WritesHonest /\ NothingLost
  /\ HeldIsLast /\ HalvesTagged /\ HalvesMeet /\ DebugRead

LEMMA NoneIsNoRequest ==
  /\ NoAddr \notin Requests /\ NoWrite \notin Writes /\ NoData \notin Nat
  /\ NoWrite.addr = NoAddr /\ \A x \in Writes : x.addr \in Requests /\ x # NoWrite
BY DEF NoAddr, NoWrite, NoData, Requests, Writes

\* What is lost at the front and new at the end of a sequence of requests.
One(yes) == IF yes THEN 1 ELSE 0
Follows(T, b, a, lost, new, x) ==
  /\ a \in Seq(T) /\ b \in Seq(T) /\ Len(a) \in Nat /\ Len(b) \in Nat
  /\ lost \in {0, 1} /\ new \in {0, 1} /\ lost <= Len(a) /\ Len(b) = Len(a) - lost + new
  /\ \A k \in 1 .. Len(a) - lost : b[k] = a[k + lost]
  /\ new = 1 => b[Len(b)] = x
LEMMA Grown ==
  ASSUME NEW T, NEW q, NEW x, NEW none, NEW shrink, q \in Seq(T), shrink \in BOOLEAN,
         x # none => x \in T, shrink => Len(q) # 0
  PROVE  Follows(T, Grow(q, x, none, shrink), q, One(shrink), One(x # none), x)
<1> DEFINE r == IF shrink THEN Tail(q) ELSE q
           lost == One(shrink)
<1>0. q # << >> <=> Len(q) # 0
  OBVIOUS
<1>1. /\ r \in Seq(T) /\ Len(r) = Len(q) - lost
      /\ Len(r) \in Nat /\ Len(q) \in Nat /\ lost \in {0, 1} /\ lost <= Len(q)
      /\ \A k \in 1 .. Len(r) : r[k] = q[k + lost]
  <2>1. CASE shrink
    BY <1>0, <2>1 DEF One
  <2>2. CASE ~shrink
    <3>1. \A k \in 1 .. Len(q) : k + 0 = k
      OBVIOUS
    <3> QED BY <2>2, <3>1 DEF One
  <2> QED BY <2>1, <2>2
<1>2. Grow(q, x, none, shrink) = IF x = none THEN r ELSE Append(r, x)
  BY <1>0 DEF Grow
<1> HIDE DEF r, lost
<1>3. CASE x = none
  <2>1. One(x # none) = 0 /\ Grow(q, x, none, shrink) = r
    BY <1>2, <1>3 DEF One
  <2> QED BY <1>1, <2>1 DEF Follows, lost
<1>4. CASE x # none
  <2>1. /\ Append(r, x) \in Seq(T) /\ Len(Append(r, x)) = Len(r) + 1
        /\ \A k \in 1 .. Len(r) : Append(r, x)[k] = r[k]
        /\ Append(r, x)[Len(r) + 1] = x
    BY <1>1, <1>4
  <2>2. One(x # none) = 1 /\ Grow(q, x, none, shrink) = Append(r, x)
    BY <1>2, <1>4 DEF One
  <2> DEFINE g == Append(r, x)
  <2> HIDE DEF g
  <2>3. /\ g \in Seq(T) /\ Len(g) = Len(r) + 1 /\ Len(g) = Len(q) - lost + 1 /\ Len(g) \in Nat
        /\ \A k \in 1 .. Len(q) - lost : g[k] = q[k + lost]
        /\ g[Len(g)] = x
    BY <1>1, <2>1 DEF g
  <2> QED BY <1>1, <2>2, <2>3 DEF Follows, lost, g
<1> QED BY <1>3, <1>4

LEMMA FirstIsOne ==
  ASSUME NEW C, C \subseteq Masters
  PROVE  First(C) \subseteq C /\ \A m, n \in First(C) : m = n
<1>1. \A m, n \in First(C) : ~(m < n)
  BY DEF First, Masters
<1> QED BY <1>1 DEF First, Masters

LEMMA Oldest ==
  ASSUME NEW q, QueueTypes(q)
  PROVE  Owes(q) = IF q.ost # 0 THEN Entry(q, 1) ELSE "NONE"
<1>1. q.head \in Index /\ q.ost \in Nat
  BY InterconnectAssumption DEF QueueTypes
<1>2. q.head \in Nat /\ q.head < MaxOutst /\ MaxOutst \in Nat
  BY <1>1, InterconnectAssumption DEF Index
<1>3. (q.head + (1 - 1)) % MaxOutst = q.head
  BY <1>2, ModSmall
<1> QED BY <1>1, <1>3 DEF Owes, Entry

\* Answers are shown for what is owed only.
LEMMA ShownIsOwed ==
  ASSUME CrossInv, NEW m \in Masters
  PROVE  /\ rvalid(m, FromSlaves) \in BOOLEAN /\ bvalid(m, FromSlaves) \in BOOLEAN
         /\ rvalid(m, FromSlaves) => rd[m].ost # 0 /\ Owes(rd[m]) = Entry(rd[m], 1)
         /\ bvalid(m, FromSlaves) => wr[m].ost # 0 /\ Owes(wr[m]) = Entry(wr[m], 1)
<1>1. QueueTypes(rd[m]) /\ QueueTypes(wr[m])
  BY DEF CrossInv, ReadsHonest, WritesHonest, Channel
<1>2. /\ Owes(rd[m]) = IF rd[m].ost # 0 THEN Entry(rd[m], 1) ELSE "NONE"
      /\ Owes(wr[m]) = IF wr[m].ost # 0 THEN Entry(wr[m], 1) ELSE "NONE"
  BY <1>1, Oldest
<1>3. rvalid(m, FromSlaves) => Owes(rd[m]) # "NONE"
  BY DEF rvalid, NoSlave, Slaves
<1>4. bvalid(m, FromSlaves) => Owes(wr[m]) # "NONE"
  BY DEF bvalid, NoSlave, Slaves
<1>5. rvalid(m, FromSlaves) \in BOOLEAN /\ bvalid(m, FromSlaves) \in BOOLEAN
  BY DEF rvalid, bvalid
<1> QED BY <1>2, <1>3, <1>4, <1>5

LEMMA RightFromInv == CrossInv => RightAnswer
<1> SUFFICES ASSUME CrossInv, NEW m \in Masters
    PROVE  /\ rvalid(m, FromSlaves) =>
                LET t == Owes(rd[m])  first == Head(reads[m]) IN
                /\ reads[m] # << >>
                /\ t = first.to \/ (t = "ERR" /\ timeout_status[m])
                /\ t \in Slaves => reader[t].who = m /\ reader[t].addr = first
                /\ t = "DBG" => rd_dbg_laddr[m] = first
           /\ bvalid(m, FromSlaves) =>
                LET t == Owes(wr[m])  first == Head(writes[m]) IN
                /\ writes[m] # << >> /\ datas[m] # << >>
                /\ t = first.to \/ (t = "ERR" /\ timeout_status[m])
                /\ t \in Slaves => writer[t].who = m /\ writer[t].addr = first
                                   /\ writer[t].data = first.tag
  BY DEF RightAnswer
<1>1. /\ Honest(m, rd[m], reads[m], reader, timeout_status[m])
      /\ Honest(m, wr[m], writes[m], writer, timeout_status[m])
      /\ Behind(rd[m], reads[m], ar_pip[m]) /\ Behind(wr[m], writes[m], PipedAddress[m])
      /\ rd[m].ost \in 0 .. MaxOutst /\ wr[m].ost \in 0 .. MaxOutst
  BY DEF CrossInv, ReadsHonest, WritesHonest, Channel, QueueTypes
<1>2. ASSUME rvalid(m, FromSlaves)
      PROVE  LET t == Owes(rd[m])  first == Head(reads[m]) IN
             /\ reads[m] # << >>
             /\ t = first.to \/ (t = "ERR" /\ timeout_status[m])
             /\ t \in Slaves => reader[t].who = m /\ reader[t].addr = first
             /\ t = "DBG" => rd_dbg_laddr[m] = first
  <2>1. rd[m].ost # 0 /\ Owes(rd[m]) = Entry(rd[m], 1) /\ 1 \in 1 .. rd[m].ost
    BY <1>1, <1>2, ShownIsOwed, InterconnectAssumption
  <2>2. reads[m] \in Seq(Requests) /\ reads[m] # << >> /\ Head(reads[m]) = reads[m][1]
        /\ 1 \in 1 .. Len(reads[m])
    BY <1>1, <2>1, InterconnectAssumption DEF Behind
  <2>3. LET t == Owes(rd[m])  first == reads[m][1] IN
        /\ t = first.to \/ (t = "ERR" /\ timeout_status[m])
        /\ t \in Slaves => reader[t].who = m /\ reader[t].addr = first
    BY <1>1, <2>1 DEF Honest
  <2>4. Owes(rd[m]) = "DBG" => rd_dbg_laddr[m] = reads[m][1]
    BY <2>2, <2>3 DEF CrossInv, DebugRead
  <2> QED BY <2>1, <2>2, <2>3, <2>4
<1>3. ASSUME bvalid(m, FromSlaves)
      PROVE  LET t == Owes(wr[m])  first == Head(writes[m]) IN
             /\ writes[m] # << >> /\ datas[m] # << >>
             /\ t = first.to \/ (t = "ERR" /\ timeout_status[m])
             /\ t \in Slaves => writer[t].who = m /\ writer[t].addr = first
                                /\ writer[t].data = first.tag
  <2>1. wr[m].ost # 0 /\ Owes(wr[m]) = Entry(wr[m], 1) /\ 1 \in 1 .. wr[m].ost
    BY <1>1, <1>3, ShownIsOwed, InterconnectAssumption
  <2>2. writes[m] \in Seq(Requests) /\ writes[m] # << >> /\ Head(writes[m]) = writes[m][1]
    BY <1>1, <2>1, InterconnectAssumption DEF Behind
  <2>3. LET t == Owes(wr[m])  first == writes[m][1] IN
        /\ t = first.to \/ (t = "ERR" /\ timeout_status[m])
        /\ t \in Slaves => writer[t].who = m /\ writer[t].addr = first
    BY <1>1, <2>1 DEF Honest
  <2>4. datas[m] # << >>
    <3>1. Len(datas[m]) = wr[m].ost + (IF aw_pip[m] # NoWrite THEN 1 ELSE 0)
                                    + (IF w_held[m] # NoData THEN 1 ELSE 0)
      BY DEF CrossInv, NothingLost
    <3>2. wr[m].ost \in Nat /\ wr[m].ost >= 1
      BY <1>1, <2>1, InterconnectAssumption
    <3>3. Len(datas[m]) >= 1
      BY <3>1, <3>2
    <3>4. Len(<< >>) = 0
      OBVIOUS
    <3> QED BY <3>3, <3>4
  <2>5. Owes(wr[m]) \in Slaves => writer[Owes(wr[m])] # Nobody
    BY <2>3 DEF Nobody, Masters
  <2> QED BY <2>2, <2>3, <2>4, <2>5 DEF CrossInv, HalvesMeet
<1> QED BY <1>2, <1>3

-----------------------------------------------------------------------------
\* --------------------------------------------------------------- the edge

LEMMA Chosen ==
  ASSUME NEW may, NEW c \in Choices(may), NEW m \in Masters
  PROVE  c[m] \in may[m]
BY DEF Choices

LEMMA InputsMay ==
  ASSUME NEW i \in Inputs, NEW m \in Masters
  PROVE  /\ i[m].ar \in MayAsk(m, FromSlaves) /\ i[m].aw \in MayAddress(m) /\ i[m].w \in MaySend(m)
         /\ i[m].rready \in {FALSE, rvalid(m, FromSlaves)}
         /\ i[m].bready \in {FALSE, bvalid(m, FromSlaves)}
<1> DEFINE ask == [n \in Masters |-> MayAsk(n, FromSlaves)]
           address == [n \in Masters |-> MayAddress(n)]
           send == [n \in Masters |-> MaySend(n)]
           take == [n \in Masters |-> {FALSE, rvalid(n, FromSlaves)}]
           done == [n \in Masters |-> {FALSE, bvalid(n, FromSlaves)}]
<1>1. \E c \in Choices(ask) \X Choices(address) \X Choices(send) \X Choices(take) \X Choices(done) :
        i = [n \in Masters |-> [ar |-> c[1][n], aw |-> c[2][n], w |-> c[3][n],
                                rready |-> c[4][n], bready |-> c[5][n]]]
  BY DEF Inputs
<1> PICK c \in Choices(ask) \X Choices(address) \X Choices(send) \X Choices(take) \X Choices(done) :
        i = [n \in Masters |-> [ar |-> c[1][n], aw |-> c[2][n], w |-> c[3][n],
                                rready |-> c[4][n], bready |-> c[5][n]]]
  BY <1>1
<1>2. /\ c[1] \in Choices(ask) /\ c[2] \in Choices(address) /\ c[3] \in Choices(send)
      /\ c[4] \in Choices(take) /\ c[5] \in Choices(done)
  OBVIOUS
<1>3. /\ i[m].ar = c[1][m] /\ i[m].aw = c[2][m] /\ i[m].w = c[3][m]
      /\ i[m].rready = c[4][m] /\ i[m].bready = c[5][m]
  OBVIOUS
<1> HIDE DEF ask, address, send, take, done
<1>4. /\ c[1][m] \in ask[m] /\ c[2][m] \in address[m] /\ c[3][m] \in send[m]
      /\ c[4][m] \in take[m] /\ c[5][m] \in done[m]
  BY <1>2, Chosen
<1> QED BY <1>3, <1>4 DEF ask, address, send, take, done

\* What one edge does to a master's reads and to its writes.
ReadMoves(m, x, push, pop) ==
  /\ push \in BOOLEAN /\ pop \in BOOLEAN /\ ~(push /\ pop)
  /\ push => ar_pip[m] # NoAddr /\ rd[m].ost # MaxOutst
  /\ pop => rd[m].ost # 0
  /\ x \in Requests \cup {NoAddr}
  /\ x # NoAddr => /\ ar_pip[m] = NoAddr \/ push
                   /\ Len(reads[m]) < env.inFlight /\ x.to \in env.reads[m]
  /\ rd'[m] = QueueEdge(rd[m], push, ar_pip[m].to, pop)
  /\ reads'[m] = Grow(reads[m], x, NoAddr, pop)
  /\ ar_pip'[m] = IF x # NoAddr THEN x ELSE IF push THEN NoAddr ELSE ar_pip[m]
  /\ rd_dbg_laddr'[m] = IF x # NoAddr THEN x ELSE rd_dbg_laddr[m]
WriteMoves(m, x, y, push, pop, pair) ==
  /\ push \in BOOLEAN /\ pop \in BOOLEAN /\ pair \in BOOLEAN /\ ~(push /\ pop)
  /\ push => aw_pip[m] # NoWrite /\ wr[m].ost # MaxOutst
  /\ pop => wr[m].ost # 0
  /\ pair => /\ aw_held[m] # NoAddr /\ w_held[m] # NoData /\ (aw_pip[m] = NoWrite \/ push)
  /\ x \in Requests \cup {NoAddr} /\ y \in Nat \cup {NoData}
  /\ x # NoAddr => aw_held[m] = NoAddr /\ Len(writes[m]) < env.inFlight /\ x.tag = tag[m].aw
  /\ y # NoData => w_held[m] = NoData /\ Len(datas[m]) < env.inFlight /\ y = tag[m].w
  /\ wr'[m] = QueueEdge(wr[m], push, aw_pip[m].addr.to, pop)
  /\ writes'[m] = Grow(writes[m], x, NoAddr, pop)
  /\ datas'[m] = Grow(datas[m], y, NoData, pop)
  /\ aw_pip'[m] = IF pair THEN [addr |-> aw_held[m], data |-> w_held[m]]
                  ELSE IF push THEN NoWrite ELSE aw_pip[m]
  /\ aw_held'[m] = IF x # NoAddr THEN x ELSE IF pair THEN NoAddr ELSE aw_held[m]
  /\ w_held'[m] = IF y # NoData THEN y ELSE IF pair THEN NoData ELSE w_held[m]
  /\ tag'[m].aw = IF x = NoAddr THEN tag[m].aw ELSE (tag[m].aw + 1) % (env.inFlight + 1)
  /\ tag'[m].w = IF y = NoData THEN tag[m].w ELSE (tag[m].w + 1) % (env.inFlight + 1)

LEMMA Counts ==
  ASSUME CrossInv, NEW m \in Masters
  PROVE  rd[m].ost \in Nat /\ wr[m].ost \in Nat
<1>1. QueueTypes(rd[m]) /\ QueueTypes(wr[m])
  BY DEF CrossInv, ReadsHonest, WritesHonest, Channel
<1>2. rd[m].ost \in 0 .. MaxOutst /\ wr[m].ost \in 0 .. MaxOutst
  BY <1>1 DEF QueueTypes
<1> QED BY <1>2, InterconnectAssumption

LEMMA Environs ==
  ASSUME CrossInv
  PROVE  /\ env.inFlight \in Nat /\ env.reads \in [Masters -> SUBSET (Slaves \cup NoSlave)]
         /\ env.writes \in [Masters -> SUBSET (Slaves \cup NoSlave)]
BY SystemAssumption DEF CrossInv, CrossTypes

LEMMA ReadsMove ==
  ASSUME CrossInv, Separated, NEW i \in Inputs, NEW answering, Clock(i, answering),
         NEW m \in Masters
  PROVE  ReadMoves(m, i[m].ar, ar_pip_drain(m, FromSlaves), ReadDone(m, i, FromSlaves))
<1> DEFINE push == ar_pip_drain(m, FromSlaves)
           pop == ReadDone(m, i, FromSlaves)
           x == i[m].ar
<1>1. /\ x \in MayAsk(m, FromSlaves) /\ i[m].rready \in {FALSE, rvalid(m, FromSlaves)}
  BY InputsMay
<1>2. push \in BOOLEAN /\ pop \in BOOLEAN
  BY DEF ar_pip_drain, ReadDone
<1>3. push => ar_pip[m] # NoAddr /\ rd[m].ost # MaxOutst
  <2>1. rd_grant \subseteq {n \in Masters : rd_cand(n)}
    BY FirstIsOne DEF rd_grant
  <2> QED BY <2>1 DEF ar_pip_drain, rd_cand, Full
<1>4. pop => rd[m].ost # 0 /\ i[m].rready
  BY ShownIsOwed DEF ReadDone
<1>5. /\ x \in Requests \cup {NoAddr}
      /\ x # NoAddr => /\ arready(m, FromSlaves) /\ Len(reads[m]) < env.inFlight
                       /\ x.to \in env.reads[m]
  <2>1. tag[m].ar \in Nat /\ env.reads[m] \subseteq Slaves \cup NoSlave
    BY Environs DEF CrossInv, CrossTypes
  <2> QED BY <1>1, <2>1 DEF MayAsk, Room, Requests
<1>6. arready(m, FromSlaves) => ar_pip[m] = NoAddr \/ push
  BY DEF arready
<1>7. ~(push /\ pop)
  <2> SUFFICES ASSUME push, pop PROVE FALSE
    OBVIOUS
  <2>1. CASE env.apart
    BY <1>4, <2>1 DEF Clock
  <2>2. CASE env.inFlight <= 1
    <3>1. Len(reads[m]) = rd[m].ost + 1 /\ Len(reads[m]) <= env.inFlight
      BY <1>3 DEF CrossInv, NothingLost, DebugRead
    <3>2. rd[m].ost \in Nat /\ rd[m].ost # 0
      BY <1>4, Counts
    <3> QED BY <2>2, <3>1, <3>2, Environs
  <2> QED BY <2>1, <2>2 DEF Separated, KeptApart, CrossInv, CrossTypes
<1>8. /\ rd'[m] = QueueEdge(rd[m], push, ar_pip[m].to, pop)
      /\ reads'[m] = Grow(reads[m], x, NoAddr, pop)
      /\ ar_pip'[m] = IF TakesRead(m, i, FromSlaves) THEN x ELSE IF push THEN NoAddr ELSE ar_pip[m]
      /\ rd_dbg_laddr'[m] = IF TakesRead(m, i, FromSlaves) THEN x ELSE rd_dbg_laddr[m]
  BY DEF Clock, InterconnectEdge, QueuesEdge, PipelineEdge, Record
<1>9. TakesRead(m, i, FromSlaves) <=> x # NoAddr
  BY <1>5 DEF TakesRead
<1> HIDE DEF push, pop, x
<1>10. ReadMoves(m, x, push, pop)
  BY <1>2, <1>3, <1>4, <1>5, <1>6, <1>7, <1>8, <1>9 DEF ReadMoves
<1> QED BY <1>10 DEF push, pop, x

LEMMA WritesMove ==
  ASSUME CrossInv, Separated, NEW i \in Inputs, NEW answering, Clock(i, answering),
         NEW m \in Masters
  PROVE  WriteMoves(m, i[m].aw, i[m].w, aw_pip_drain(m, FromSlaves),
                    WriteDone(m, i, FromSlaves), Paired(m, FromSlaves))
<1> DEFINE push == aw_pip_drain(m, FromSlaves)
           pop == WriteDone(m, i, FromSlaves)
           pair == Paired(m, FromSlaves)
           x == i[m].aw
           y == i[m].w
<1>1. /\ x \in MayAddress(m) /\ y \in MaySend(m)
      /\ i[m].bready \in {FALSE, bvalid(m, FromSlaves)}
  BY InputsMay
<1>2. push \in BOOLEAN /\ pop \in BOOLEAN /\ pair \in BOOLEAN
  BY DEF aw_pip_drain, WriteDone, Paired
<1>3. push => aw_pip[m] # NoWrite /\ wr[m].ost # MaxOutst
  <2>1. wr_grant \subseteq {n \in Masters : wr_cand(n)}
    BY FirstIsOne DEF wr_grant
  <2> QED BY <2>1 DEF aw_pip_drain, wr_cand, Full
<1>4. pop => wr[m].ost # 0 /\ i[m].bready
  BY ShownIsOwed DEF WriteDone
<1>5. /\ x \in Requests \cup {NoAddr}
      /\ x # NoAddr => awready(m) /\ Len(writes[m]) < env.inFlight /\ x.tag = tag[m].aw
      /\ y \in Nat \cup {NoData}
      /\ y # NoData => wready(m) /\ Len(datas[m]) < env.inFlight /\ y = tag[m].w
  <2>1. tag[m].aw \in Nat /\ tag[m].w \in Nat /\ env.writes[m] \subseteq Slaves \cup NoSlave
    BY Environs DEF CrossInv, CrossTypes
  <2> QED BY <1>1, <2>1 DEF MayAddress, MaySend, Room, Requests
<1>6. pair => aw_held[m] # NoAddr /\ w_held[m] # NoData /\ (aw_pip[m] = NoWrite \/ push)
  BY DEF Paired
<1>7. ~(push /\ pop)
  <2> SUFFICES ASSUME push, pop PROVE FALSE
    OBVIOUS
  <2>1. CASE env.apart
    BY <1>4, <2>1 DEF Clock
  <2>2. CASE env.inFlight <= 1
    <3>1. Len(writes[m]) = wr[m].ost + 1 + (IF aw_held[m] # NoAddr THEN 1 ELSE 0)
      BY <1>3 DEF CrossInv, NothingLost
    <3>2. Len(writes[m]) <= env.inFlight
      BY DEF CrossInv, HalvesTagged, Tagged
    <3>3. wr[m].ost \in Nat /\ wr[m].ost # 0
      BY <1>4, Counts
    <3> QED BY <2>2, <3>1, <3>2, <3>3, Environs
  <2> QED BY <2>1, <2>2 DEF Separated, KeptApart, CrossInv, CrossTypes
<1>8. /\ wr'[m] = QueueEdge(wr[m], push, aw_pip[m].addr.to, pop)
      /\ writes'[m] = Grow(writes[m], x, NoAddr, pop)
      /\ datas'[m] = Grow(datas[m], y, NoData, pop)
      /\ aw_pip'[m] = IF pair THEN [addr |-> aw_held[m], data |-> w_held[m]]
                      ELSE IF push THEN NoWrite ELSE aw_pip[m]
      /\ aw_held'[m] = IF TakesAddr(m, i) THEN x ELSE IF pair THEN NoAddr ELSE aw_held[m]
      /\ w_held'[m] = IF TakesData(m, i) THEN y ELSE IF pair THEN NoData ELSE w_held[m]
  BY DEF Clock, InterconnectEdge, QueuesEdge, PipelineEdge, HoldEdge, Record
<1>9. /\ tag'[m].aw = IF x = NoAddr THEN tag[m].aw ELSE (tag[m].aw + 1) % (env.inFlight + 1)
      /\ tag'[m].w = IF y = NoData THEN tag[m].w ELSE (tag[m].w + 1) % (env.inFlight + 1)
  BY DEF Clock, Record
<1>10. /\ TakesAddr(m, i) <=> x # NoAddr
       /\ TakesData(m, i) <=> y # NoData
       /\ x # NoAddr => aw_held[m] = NoAddr
       /\ y # NoData => w_held[m] = NoData
  BY <1>5 DEF TakesAddr, TakesData, awready, wready
<1> HIDE DEF push, pop, pair, x, y
<1>11. WriteMoves(m, x, y, push, pop, pair)
  BY <1>2, <1>3, <1>4, <1>5, <1>6, <1>7, <1>8, <1>9, <1>10 DEF WriteMoves
<1> QED BY <1>11 DEF push, pop, pair, x, y

\* The requests of a master, as its queue, its pipeline stage and what is held
\* alone have them.
ReadKeeps(m) ==
  /\ Len(reads[m]) = rd[m].ost + (IF ar_pip[m] # NoAddr THEN 1 ELSE 0)
  /\ Behind(rd[m], reads[m], ar_pip[m])
  /\ Len(reads[m]) <= env.inFlight
  /\ \/ env.inFlight <= 1 /\ (reads[m] # << >> => rd_dbg_laddr[m] = reads[m][1])
     \/ env.inFlight > 1 /\ \A k \in 1 .. Len(reads[m]) : reads[m][k].to # "DBG"

LEMMA ReadStep ==
  ASSUME CrossInv, Separated, env' = env, NEW m \in Masters, NEW x, NEW push, NEW pop,
         ReadMoves(m, x, push, pop)
  PROVE  /\ ReadKeeps(m)'
         /\ Follows(Requests, reads'[m], reads[m], One(pop), One(x # NoAddr), x)
         /\ QueueMoves(rd[m], push, ar_pip[m].to, pop, rd'[m])
<1> DEFINE q == rd[m]  r == rd'[m]  a == reads[m]  b == reads'[m]  p == ar_pip[m]
           p1 == ar_pip'[m]  n == env.inFlight
           la == rd_dbg_laddr[m]  lb == rd_dbg_laddr'[m]
           lost == One(pop)  new == One(x # NoAddr)
<1>1. /\ push \in BOOLEAN /\ pop \in BOOLEAN /\ ~(push /\ pop)
      /\ (push => p # NoAddr /\ q.ost # MaxOutst)
      /\ (pop => q.ost # 0)
      /\ x \in Requests \cup {NoAddr}
      /\ (x # NoAddr => /\ p = NoAddr \/ push
                        /\ Len(a) < n /\ x.to \in env.reads[m])
      /\ r = QueueEdge(q, push, p.to, pop)
      /\ b = Grow(a, x, NoAddr, pop)
      /\ p1 = (IF x # NoAddr THEN x ELSE IF push THEN NoAddr ELSE p)
      /\ lb = (IF x # NoAddr THEN x ELSE la)
  BY DEF ReadMoves
<1>2. /\ QueueTypes(q) /\ a \in Seq(Requests) /\ p \in Requests \cup {NoAddr}
      /\ (p # NoAddr => a[q.ost + 1] = p) /\ q.ost \in Nat
      /\ Len(a) = q.ost + (IF p # NoAddr THEN 1 ELSE 0)
  BY Counts DEF CrossInv, ReadsHonest, Channel, Behind, NothingLost
<1>3. /\ n \in Nat /\ Len(a) <= n
      /\ \/ n <= 1 /\ (a # << >> => la = a[1])
         \/ n > 1 /\ \A k \in 1 .. Len(a) : a[k].to # "DBG"
  BY Environs DEF CrossInv, DebugRead
<1>4. n > 1 => "DBG" \notin env.reads[m]
  <2>1. env \in Environments
    BY DEF CrossInv, CrossTypes
  <2> QED BY <1>3, <2>1 DEF Separated, KeptApart
<1>5. a # << >> <=> Len(a) # 0
  BY <1>2
<1>6. (pop => Len(a) # 0) /\ (x # NoAddr => x \in Requests)
  BY <1>1, <1>2
<1> HIDE DEF q, r, a, b, p, p1, n, la, lb
<1>7. Follows(Requests, b, a, lost, new, x)
  BY <1>1, <1>2, <1>6, Grown
<1>8. QueueMoves(q, push, p.to, pop, r)
  <2>1. push => p.to \in Ports
    BY <1>1, <1>2 DEF Requests, Ports
  <2> QED BY <1>1, <2>1 DEF QueueMoves
<1>9. r.ost = IF pop THEN q.ost - 1 ELSE IF push THEN q.ost + 1 ELSE q.ost
  BY <1>2, <1>8, QueueStep
<1>10. NoAddr \notin Requests
  BY NoneIsNoRequest
<1>11. /\ a \in Seq(Requests) /\ b \in Seq(Requests) /\ Len(a) \in Nat /\ Len(b) \in Nat
       /\ lost <= Len(a) /\ Len(b) = Len(a) - lost + new
       /\ \A k \in 1 .. Len(a) - lost : b[k] = a[k + lost]
       /\ (new = 1 => b[Len(b)] = x)
  BY <1>7 DEF Follows
<1>12. /\ lost = (IF pop THEN 1 ELSE 0) /\ new = (IF x # NoAddr THEN 1 ELSE 0)
  BY DEF One
<1> HIDE DEF lost, new
<1>13. /\ Len(b) = r.ost + (IF p1 # NoAddr THEN 1 ELSE 0)
       /\ r.ost <= Len(b) /\ (p1 # NoAddr => r.ost + 1 <= Len(b)) /\ r.ost \in Nat
  BY <1>1, <1>2, <1>11, <1>12, <1>9, <1>10
<1>14. p1 # NoAddr => b[r.ost + 1] = p1
  <2>1. CASE x # NoAddr
    <3>1. new = 1 /\ p1 = x
      BY <1>1, <1>12, <2>1
    <3>2. b[Len(b)] = x
      BY <1>11, <3>1, Zenon
    <3>3. Len(b) = r.ost + 1
      BY <1>13, <2>1, <3>1
    <3> QED BY <3>1, <3>2, <3>3
  <2>2. CASE x = NoAddr
    <3> SUFFICES ASSUME p1 # NoAddr PROVE b[r.ost + 1] = p1
      OBVIOUS
    <3>1. p1 = p /\ ~push /\ p # NoAddr
      BY <1>1, <2>2
    <3>2. r.ost + 1 \in 1 .. Len(a) - lost /\ r.ost + 1 + lost = q.ost + 1
      BY <1>1, <1>2, <1>11, <1>12, <1>9, <3>1
    <3> QED BY <1>2, <1>11, <3>1, <3>2
  <2> QED BY <2>1, <2>2
<1>15. Behind(r, b, p1)
  BY <1>1, <1>2, <1>11, <1>13, <1>14 DEF Behind
<1>16. Len(b) <= n
  BY <1>1, <1>3, <1>11, <1>12
<1>17. \/ n <= 1 /\ (b # << >> => lb = b[1])
       \/ n > 1 /\ \A k \in 1 .. Len(b) : b[k].to # "DBG"
  <2>1. CASE n <= 1
    <3> SUFFICES ASSUME b # << >> PROVE lb = b[1]
      BY <2>1
    <3>1. Len(b) = 1
      BY <1>11, <1>3, <1>16, <2>1
    <3>2. CASE x # NoAddr
      <4>1. new = 1 /\ lb = x
        BY <1>1, <1>12, <3>2
      <4>2. b[Len(b)] = x
        BY <1>11, <4>1, Zenon
      <4> QED BY <3>1, <4>1, <4>2
    <3>3. CASE x = NoAddr
      <4>1. lost = 0 /\ Len(a) = 1
        BY <1>1, <1>3, <1>11, <1>12, <2>1, <3>1, <3>3
      <4>2. 1 \in 1 .. Len(a) - lost /\ 1 + lost = 1
        BY <4>1
      <4>3. b[1] = a[1] /\ la = a[1] /\ lb = la
        BY <1>1, <1>3, <1>5, <1>11, <2>1, <3>3, <4>1, <4>2
      <4> QED BY <4>3
    <3> QED BY <3>2, <3>3
  <2>2. CASE n > 1
    <3> SUFFICES ASSUME NEW k \in 1 .. Len(b) PROVE b[k].to # "DBG"
      BY <2>2
    <3>1. CASE new = 1 /\ k = Len(b)
      <4>0. b[Len(b)] = x
        BY <1>11, <3>1, Zenon
      <4>1. x # NoAddr /\ b[k] = x
        BY <1>12, <3>1, <4>0
      <4>2. x.to \in env.reads[m] /\ "DBG" \notin env.reads[m]
        BY <1>1, <1>4, <2>2, <4>1
      <4> QED BY <4>1, <4>2
    <3>2. CASE ~(new = 1 /\ k = Len(b))
      <4>1. k \in 1 .. Len(a) - lost /\ k + lost \in 1 .. Len(a)
        BY <1>11, <1>12, <3>2
      <4> QED BY <1>3, <1>11, <2>2, <4>1
    <3> QED BY <3>1, <3>2
  <2> QED BY <1>3, <2>1, <2>2
<1> USE DEF q, r, a, b, p, p1, n, la, lb, lost, new
<1>18. ReadKeeps(m)'
  <2>1. env.inFlight' = n
    OBVIOUS
  <2> QED BY <1>13, <1>15, <1>16, <1>17, <2>1 DEF ReadKeeps
<1> QED BY <1>7, <1>8, <1>18

\* The tags count around, from the oldest write under way.
LEMMA TagsCount ==
  ASSUME NEW n \in Nat, NEW b \in 0 .. n
  PROVE  /\ \A k \in 0 .. n : TagAt(b, k, n) \in 0 .. n
         /\ \A k \in 0 .. n : k < n => (TagAt(b, k, n) + 1) % (n + 1) = TagAt(b, k + 1, n)
         /\ n > 0 => /\ TagAt(b, 1, n) \in 0 .. n
                     /\ \A k \in 0 .. n : TagAt(TagAt(b, 1, n), k, n) = TagAt(b, k + 1, n)
<1>1. \A k \in 0 .. n : TagAt(b, k, n) \in 0 .. n
  BY DEF TagAt
<1>2. \A y \in 0 .. n : (y + 1) % (n + 1) = IF y < n THEN y + 1 ELSE 0
  <2> TAKE y \in 0 .. n
  <2>1. CASE y < n
    <3>1. y + 1 \in Nat /\ y + 1 < n + 1 /\ n + 1 \in Nat \ {0}
      BY <2>1
    <3> QED BY <2>1, <3>1
  <2>2. CASE y = n
    <3>1. (n + 1) % (n + 1) = 0
      OBVIOUS
    <3> QED BY <2>2, <3>1
  <2> QED BY <2>1, <2>2
<1>3. ASSUME NEW k \in 0 .. n, k < n
      PROVE  (TagAt(b, k, n) + 1) % (n + 1) = TagAt(b, k + 1, n)
  <2>1. (TagAt(b, k, n) + 1) % (n + 1) = IF TagAt(b, k, n) < n THEN TagAt(b, k, n) + 1 ELSE 0
    BY <1>1, <1>2
  <2>2. (IF TagAt(b, k, n) < n THEN TagAt(b, k, n) + 1 ELSE 0) = TagAt(b, k + 1, n)
    BY <1>3 DEF TagAt
  <2> QED BY <2>1, <2>2
<1>4. ASSUME n > 0
      PROVE  /\ TagAt(b, 1, n) \in 0 .. n
             /\ \A k \in 0 .. n : TagAt(TagAt(b, 1, n), k, n) = TagAt(b, k + 1, n)
  BY <1>4 DEF TagAt
<1> QED BY <1>1, <1>3, <1>4

\* Addresses and words stay tagged alike, whatever comes and goes.
LEMMA TagsStep ==
  ASSUME NEW n \in Nat, NEW b \in 0 .. n, NEW a, NEW d, NEW next, NEW a1, NEW d1, NEW next1,
         NEW lost, NEW new, NEW more, NEW x, NEW y,
         Tagged(n, b, a, d, next),
         Follows(Requests, a1, a, lost, new, x), Follows(Nat, d1, d, lost, more, y),
         new = 1 => Len(a) < n /\ x.tag = next.aw,
         more = 1 => Len(d) < n /\ y = next.w,
         next1.aw = IF new = 1 THEN (next.aw + 1) % (n + 1) ELSE next.aw,
         next1.w = IF more = 1 THEN (next.w + 1) % (n + 1) ELSE next.w
  PROVE  \E c \in 0 .. n : Tagged(n, c, a1, d1, next1)
<1> DEFINE c == IF lost = 1 THEN TagAt(b, 1, n) ELSE b
<1>1. /\ Len(a) \in Nat /\ Len(a1) \in Nat /\ lost <= Len(a) /\ Len(a1) = Len(a) - lost + new
      /\ \A k \in 1 .. Len(a) - lost : a1[k] = a[k + lost]
      /\ new = 1 => a1[Len(a1)] = x
      /\ Len(d) \in Nat /\ Len(d1) \in Nat /\ lost <= Len(d) /\ Len(d1) = Len(d) - lost + more
      /\ \A k \in 1 .. Len(d) - lost : d1[k] = d[k + lost]
      /\ more = 1 => d1[Len(d1)] = y
      /\ lost \in {0, 1} /\ new \in {0, 1} /\ more \in {0, 1}
  BY DEF Follows
<1>2. /\ Len(a) <= n /\ Len(d) <= n
      /\ \A k \in 1 .. Len(a) : a[k].tag = TagAt(b, k - 1, n)
      /\ \A k \in 1 .. Len(d) : d[k] = TagAt(b, k - 1, n)
      /\ next.aw = TagAt(b, Len(a), n) /\ next.w = TagAt(b, Len(d), n)
  BY DEF Tagged
<1>3. c \in 0 .. n /\ \A k \in 0 .. n : TagAt(c, k, n) = TagAt(b, k + lost, n)
  <2>1. CASE lost = 1
    BY <1>1, <1>2, <2>1, TagsCount
  <2>2. CASE lost = 0
    <3>1. \A k \in 0 .. n : k + 0 = k
      OBVIOUS
    <3> QED BY <2>2, <3>1
  <2> QED BY <1>1, <2>1, <2>2
<1>4. /\ \A k \in 0 .. n : k < n => (TagAt(b, k, n) + 1) % (n + 1) = TagAt(b, k + 1, n)
  BY TagsCount
<1> HIDE DEF c
<1>5. Len(a1) <= n /\ Len(d1) <= n
  BY <1>1, <1>2
<1>6. next1.aw = TagAt(b, Len(a) + new, n) /\ next1.w = TagAt(b, Len(d) + more, n)
  <2>1. next1.aw = TagAt(b, Len(a) + new, n)
    <3>1. CASE new = 1
      BY <1>1, <1>2, <1>4, <3>1
    <3>2. CASE new = 0
      <4>1. Len(a) + 0 = Len(a)
        BY <1>1
      <4> QED BY <1>2, <3>2, <4>1
    <3> QED BY <1>1, <3>1, <3>2
  <2>2. next1.w = TagAt(b, Len(d) + more, n)
    <3>1. CASE more = 1
      BY <1>1, <1>2, <1>4, <3>1
    <3>2. CASE more = 0
      <4>1. Len(d) + 0 = Len(d)
        BY <1>1
      <4> QED BY <1>2, <3>2, <4>1
    <3> QED BY <1>1, <3>1, <3>2
  <2> QED BY <2>1, <2>2
<1>7. next1.aw = TagAt(c, Len(a1), n) /\ next1.w = TagAt(c, Len(d1), n)
  <2>1. Len(a1) + lost = Len(a) + new /\ Len(d1) + lost = Len(d) + more
    BY <1>1
  <2>2. Len(a1) \in 0 .. n /\ Len(d1) \in 0 .. n
    BY <1>1, <1>5
  <2> QED BY <1>3, <1>6, <2>1, <2>2
<1>8. \A k \in 1 .. Len(a1) : a1[k].tag = TagAt(c, k - 1, n)
  <2> TAKE k \in 1 .. Len(a1)
  <2>1. k \in Nat /\ k - 1 \in 0 .. n
    BY <1>1, <1>5
  <2>2. TagAt(c, k - 1, n) = TagAt(b, k - 1 + lost, n)
    BY <1>3, <2>1
  <2>3. CASE k \in 1 .. Len(a) - lost
    <3>1. k + lost \in 1 .. Len(a) /\ k + lost - 1 = k - 1 + lost
      BY <1>1, <2>3
    <3>2. a1[k] = a[k + lost]
      BY <1>1, <2>3
    <3> DEFINE j == k + lost
    <3> HIDE DEF j
    <3>3. j \in 1 .. Len(a)
      BY <3>1 DEF j
    <3>4. a[j].tag = TagAt(b, j - 1, n)
      BY <1>2, <3>3
    <3>5. j - 1 = k - 1 + lost /\ a1[k] = a[j]
      BY <1>1, <2>1, <3>1, <3>2 DEF j
    <3> QED BY <2>2, <3>4, <3>5
  <2>4. CASE k \notin 1 .. Len(a) - lost
    <3>1. new = 1 /\ k = Len(a1) /\ k - 1 + lost = Len(a)
      BY <1>1, <2>1, <2>4
    <3> QED BY <1>1, <1>2, <2>2, <3>1
  <2> QED BY <2>3, <2>4
<1>9. \A k \in 1 .. Len(d1) : d1[k] = TagAt(c, k - 1, n)
  <2> TAKE k \in 1 .. Len(d1)
  <2>1. k \in Nat /\ k - 1 \in 0 .. n
    BY <1>1, <1>5
  <2>2. TagAt(c, k - 1, n) = TagAt(b, k - 1 + lost, n)
    BY <1>3, <2>1
  <2>3. CASE k \in 1 .. Len(d) - lost
    <3>1. k + lost \in 1 .. Len(d) /\ k + lost - 1 = k - 1 + lost
      BY <1>1, <2>3
    <3> QED BY <1>1, <1>2, <2>2, <2>3, <3>1
  <2>4. CASE k \notin 1 .. Len(d) - lost
    <3>1. more = 1 /\ k = Len(d1) /\ k - 1 + lost = Len(d)
      BY <1>1, <2>1, <2>4
    <3> QED BY <1>1, <1>2, <2>2, <3>1
  <2> QED BY <2>3, <2>4
<1>10. Tagged(n, c, a1, d1, next1)
  BY <1>5, <1>7, <1>8, <1>9 DEF Tagged
<1> QED BY <1>3, <1>10

WriteKeeps(m) ==
  /\ aw_held[m] \in Requests \cup {NoAddr} /\ w_held[m] \in Nat \cup {NoData}
  /\ aw_pip[m] \in Writes \cup {NoWrite} /\ datas[m] \in Seq(Nat)
  /\ Len(writes[m]) = wr[m].ost + One(aw_pip[m] # NoWrite) + One(aw_held[m] # NoAddr)
  /\ Len(datas[m]) = wr[m].ost + One(aw_pip[m] # NoWrite) + One(w_held[m] # NoData)
  /\ Behind(wr[m], writes[m], aw_pip[m].addr)
  /\ aw_held[m] # NoAddr => aw_held[m] = writes[m][Len(writes[m])]
  /\ w_held[m] # NoData => w_held[m] = datas[m][Len(datas[m])]
  /\ \E b \in 0 .. env.inFlight : Tagged(env.inFlight, b, writes[m], datas[m], tag[m])
  /\ aw_pip[m] # NoWrite => aw_pip[m].data = aw_pip[m].addr.tag

LEMMA WriteStep ==
  ASSUME CrossInv, Separated, env' = env, NEW m \in Masters, NEW x, NEW y,
         NEW push, NEW pop, NEW pair, WriteMoves(m, x, y, push, pop, pair)
  PROVE  /\ WriteKeeps(m)'
         /\ Follows(Requests, writes'[m], writes[m], One(pop), One(x # NoAddr), x)
         /\ QueueMoves(wr[m], push, aw_pip[m].addr.to, pop, wr'[m])
<1> DEFINE q == wr[m]  r == wr'[m]  a == writes[m]  a1 == writes'[m]
           d == datas[m]  d1 == datas'[m]  n == env.inFlight
           p == aw_pip[m]  p1 == aw_pip'[m]
           h == aw_held[m]  h1 == aw_held'[m]  g == w_held[m]  g1 == w_held'[m]
           next == tag[m]  next1 == tag'[m]
           lost == One(pop)  new == One(x # NoAddr)  more == One(y # NoData)
           piped == One(p # NoWrite)  piped1 == One(p1 # NoWrite)
           held == One(h # NoAddr)  held1 == One(h1 # NoAddr)
           half == One(g # NoData)  half1 == One(g1 # NoData)
           pushed == One(push)  paired == One(pair)
<1>1. /\ push \in BOOLEAN /\ pop \in BOOLEAN /\ pair \in BOOLEAN /\ ~(push /\ pop)
      /\ (push => p # NoWrite /\ q.ost # MaxOutst)
      /\ (pop => q.ost # 0)
      /\ (pair => h # NoAddr /\ g # NoData /\ (p = NoWrite \/ push))
      /\ x \in Requests \cup {NoAddr} /\ y \in Nat \cup {NoData}
      /\ (x # NoAddr => h = NoAddr /\ Len(a) < n /\ x.tag = next.aw)
      /\ (y # NoData => g = NoData /\ Len(d) < n /\ y = next.w)
  BY DEF WriteMoves
<1>2. /\ r = QueueEdge(q, push, p.addr.to, pop)
      /\ a1 = Grow(a, x, NoAddr, pop) /\ d1 = Grow(d, y, NoData, pop)
      /\ p1 = (IF pair THEN [addr |-> h, data |-> g] ELSE IF push THEN NoWrite ELSE p)
      /\ h1 = (IF x # NoAddr THEN x ELSE IF pair THEN NoAddr ELSE h)
      /\ g1 = (IF y # NoData THEN y ELSE IF pair THEN NoData ELSE g)
      /\ next1.aw = (IF x = NoAddr THEN next.aw ELSE (next.aw + 1) % (n + 1))
      /\ next1.w = (IF y = NoData THEN next.w ELSE (next.w + 1) % (n + 1))
  BY DEF WriteMoves
<1>3. /\ QueueTypes(q) /\ a \in Seq(Requests) /\ d \in Seq(Nat) /\ q.ost \in Nat
      /\ p \in Writes \cup {NoWrite} /\ h \in Requests \cup {NoAddr} /\ g \in Nat \cup {NoData}
      /\ p.addr # NoAddr => a[q.ost + 1] = p.addr
      /\ Len(a) = q.ost + piped + held
      /\ Len(d) = q.ost + piped + half
      /\ h # NoAddr => h = a[Len(a)]
      /\ g # NoData => g = d[Len(d)]
      /\ p # NoWrite => p.data = p.addr.tag
      /\ n \in Nat
  BY Counts, Environs DEF CrossInv, CrossTypes, WritesHonest, Channel, Behind, PipedAddress,
       NothingLost, HeldIsLast, HalvesMeet, One
<1>4. PICK b \in 0 .. n : Tagged(n, b, a, d, next)
  BY DEF CrossInv, HalvesTagged
<1>5. (pop => Len(a) # 0 /\ Len(d) # 0) /\ (x # NoAddr => x \in Requests) /\ (y # NoData => y \in Nat)
  BY <1>1, <1>3 DEF One
<1>6. /\ NoAddr \notin Requests /\ NoWrite \notin Writes /\ NoData \notin Nat
      /\ NoWrite.addr = NoAddr /\ \A w1 \in Writes : w1.addr \in Requests /\ w1 # NoWrite
  BY NoneIsNoRequest
<1> HIDE DEF q, r, a, a1, d, d1, n, p, p1, h, h1, g, g1, next, next1
<1>7. Follows(Requests, a1, a, lost, new, x) /\ Follows(Nat, d1, d, lost, more, y)
  BY <1>1, <1>2, <1>3, <1>5, Grown
<1>8. QueueMoves(q, push, p.addr.to, pop, r)
  <2>1. push => p.addr.to \in Ports
    BY <1>1, <1>3 DEF Writes, Requests, Ports
  <2> QED BY <1>1, <1>2, <2>1 DEF QueueMoves
<1>9. r.ost = IF pop THEN q.ost - 1 ELSE IF push THEN q.ost + 1 ELSE q.ost
  BY <1>3, <1>8, QueueStep
<1>10. /\ lost \in {0, 1} /\ new \in {0, 1} /\ more \in {0, 1} /\ piped \in {0, 1}
       /\ piped1 \in {0, 1} /\ held \in {0, 1} /\ held1 \in {0, 1} /\ half \in {0, 1}
       /\ half1 \in {0, 1} /\ pushed \in {0, 1} /\ paired \in {0, 1}
       /\ lost = 1 <=> pop
       /\ new = 1 <=> x # NoAddr
       /\ more = 1 <=> y # NoData
       /\ piped = 1 <=> p # NoWrite
       /\ piped1 = 1 <=> p1 # NoWrite
       /\ held = 1 <=> h # NoAddr
       /\ held1 = 1 <=> h1 # NoAddr
       /\ half = 1 <=> g # NoData
       /\ half1 = 1 <=> g1 # NoData
       /\ pushed = 1 <=> push
       /\ paired = 1 <=> pair
  BY DEF One
<1> HIDE DEF lost, new, more, piped, piped1, held, held1, half, half1, pushed, paired
<1>11. \E c \in 0 .. n : Tagged(n, c, a1, d1, next1)
  <2>1. /\ new = 1 => Len(a) < n /\ x.tag = next.aw
        /\ more = 1 => Len(d) < n /\ y = next.w
        /\ next1.aw = (IF new = 1 THEN (next.aw + 1) % (n + 1) ELSE next.aw)
        /\ next1.w = (IF more = 1 THEN (next.w + 1) % (n + 1) ELSE next.w)
    BY <1>1, <1>2, <1>10
  <2> QED BY <1>3, <1>4, <1>7, <2>1, TagsStep
<1>12. /\ a1 \in Seq(Requests) /\ Len(a) \in Nat /\ Len(a1) \in Nat
       /\ lost <= Len(a) /\ Len(a1) = Len(a) - lost + new
       /\ \A k \in 1 .. Len(a) - lost : a1[k] = a[k + lost]
       /\ new = 1 => a1[Len(a1)] = x
       /\ d1 \in Seq(Nat) /\ Len(d) \in Nat /\ Len(d1) \in Nat
       /\ lost <= Len(d) /\ Len(d1) = Len(d) - lost + more
       /\ \A k \in 1 .. Len(d) - lost : d1[k] = d[k + lost]
       /\ more = 1 => d1[Len(d1)] = y
  BY <1>7 DEF Follows
<1>13. /\ p1 \in Writes \cup {NoWrite} /\ h1 \in Requests \cup {NoAddr} /\ g1 \in Nat \cup {NoData}
       /\ p1 # NoWrite <=> (pair \/ (~push /\ p # NoWrite))
  BY <1>1, <1>2, <1>3, <1>6 DEF Writes
<1>14. /\ h1 # NoAddr <=> (x # NoAddr \/ (~pair /\ h # NoAddr))
       /\ g1 # NoData <=> (y # NoData \/ (~pair /\ g # NoData))
  BY <1>1, <1>2, <1>6
\* In numbers: a request stays where it is or moves on.
<1>15. /\ r.ost = q.ost - lost + pushed /\ pushed + lost <= 1 /\ lost <= q.ost
       /\ piped1 = piped - pushed + paired /\ pushed <= piped
       /\ held1 = held + new - paired /\ held + new <= 1 /\ paired <= held
       /\ half1 = half + more - paired /\ half + more <= 1 /\ paired <= half
       /\ r.ost \in Nat
  <2>1. /\ pushed + lost <= 1 /\ lost <= q.ost /\ pushed <= piped
    BY <1>1, <1>3, <1>10
  <2>2. r.ost = q.ost - lost + pushed
    BY <1>1, <1>3, <1>9, <1>10
  <2>3. piped1 = piped - pushed + paired
    <3>1. paired = 1 => piped = pushed /\ piped1 = 1
      BY <1>1, <1>10, <1>13
    <3>2. paired = 0 => piped1 = piped - pushed
      BY <1>1, <1>10, <1>13
    <3> QED BY <1>10, <3>1, <3>2
  <2>4. held1 = held + new - paired /\ held + new <= 1 /\ paired <= held
    <3>1. paired = 1 => held = 1 /\ new = 0 /\ held1 = 0
      BY <1>1, <1>10, <1>14
    <3>2. new = 1 => held = 0 /\ paired = 0 /\ held1 = 1
      BY <1>1, <1>10, <1>14
    <3>3. paired = 0 /\ new = 0 => held1 = held
      BY <1>1, <1>10, <1>14
    <3> QED BY <1>10, <3>1, <3>2, <3>3
  <2>5. half1 = half + more - paired /\ half + more <= 1 /\ paired <= half
    <3>1. paired = 1 => half = 1 /\ more = 0 /\ half1 = 0
      BY <1>1, <1>10, <1>14
    <3>2. more = 1 => half = 0 /\ paired = 0 /\ half1 = 1
      BY <1>1, <1>10, <1>14
    <3>3. paired = 0 /\ more = 0 => half1 = half
      BY <1>1, <1>10, <1>14
    <3> QED BY <1>10, <3>1, <3>2, <3>3
  <2>6. r.ost \in Nat
    BY <1>3, <1>10, <2>1, <2>2
  <2> QED BY <2>1, <2>2, <2>3, <2>4, <2>5, <2>6
<1>19. /\ lost \in Nat /\ new \in Nat /\ more \in Nat /\ piped \in Nat /\ piped1 \in Nat
       /\ held \in Nat /\ held1 \in Nat /\ half \in Nat /\ half1 \in Nat
       /\ pushed \in Nat /\ paired \in Nat
  BY <1>10
<1>20. Len(a1) = r.ost + piped1 + held1 /\ Len(d1) = r.ost + piped1 + half1
  <2> DEFINE la == Len(a)  la1 == Len(a1)  ld == Len(d)  ld1 == Len(d1)
             o == q.ost  o1 == r.ost
  <2>1. /\ la = o + piped + held /\ ld = o + piped + half
        /\ la1 = la - lost + new /\ ld1 = ld - lost + more
    BY <1>3, <1>12
  <2>2. o \in Nat /\ o1 \in Nat /\ o1 = o - lost + pushed
    BY <1>3, <1>15
  <2> HIDE DEF la, la1, ld, ld1, o, o1
  <2>3. la1 = o1 + piped1 + held1
    BY <1>15, <1>19, <2>1, <2>2
  <2>4. ld1 = o1 + piped1 + half1
    BY <1>15, <1>19, <2>1, <2>2
  <2> QED BY <2>3, <2>4 DEF la1, ld1, o1
<1>16. /\ h1 # NoAddr => h1 = a1[Len(a1)]
       /\ g1 # NoData => g1 = d1[Len(d1)]
  <2>1. ASSUME h1 # NoAddr PROVE h1 = a1[Len(a1)]
    <3>1. CASE x # NoAddr
      BY <1>2, <1>10, <1>12, <3>1
    <3>2. CASE x = NoAddr
      <4>1. ~pair /\ h # NoAddr /\ h1 = h /\ new = 0
        BY <1>2, <1>10, <1>14, <2>1, <3>2
      <4>2. Len(a1) = Len(a) - lost /\ Len(a1) \in Nat /\ Len(a) \in Nat
        BY <1>12, <1>19, <4>1
      <4>3. Len(a1) >= 1
        BY <1>10, <1>15, <1>19, <1>20, <2>1
      <4>4. Len(a1) \in 1 .. Len(a) - lost /\ Len(a1) + lost = Len(a)
        BY <1>19, <4>2, <4>3
      <4> QED BY <1>3, <1>12, <4>1, <4>4
    <3> QED BY <3>1, <3>2
  <2>2. ASSUME g1 # NoData PROVE g1 = d1[Len(d1)]
    <3>1. CASE y # NoData
      BY <1>2, <1>10, <1>12, <3>1
    <3>2. CASE y = NoData
      <4>1. ~pair /\ g # NoData /\ g1 = g /\ more = 0
        BY <1>2, <1>10, <1>14, <2>2, <3>2
      <4>2. Len(d1) = Len(d) - lost /\ Len(d1) \in Nat /\ Len(d) \in Nat
        BY <1>12, <1>19, <4>1
      <4>3. Len(d1) >= 1
        BY <1>10, <1>15, <1>19, <1>20, <2>2
      <4>4. Len(d1) \in 1 .. Len(d) - lost /\ Len(d1) + lost = Len(d)
        BY <1>19, <4>2, <4>3
      <4> QED BY <1>3, <1>12, <4>1, <4>4
    <3> QED BY <3>1, <3>2
  <2> QED BY <2>1, <2>2
<1>17. p1 # NoWrite => /\ r.ost + 1 <= Len(a1) /\ a1[r.ost + 1] = p1.addr
                       /\ p1.data = p1.addr.tag
  <2>1. CASE pair
    <3>1. p1.addr = h /\ p1.data = g /\ h = a[Len(a)] /\ g = d[Len(d)] /\ new = 0 /\ more = 0
      BY <1>1, <1>2, <1>3, <1>10, <2>1
    <3>2. /\ Len(a) = Len(d) /\ Len(a) \in 1 .. Len(a) /\ Len(a1) + lost = Len(a)
          /\ r.ost + 1 = Len(a1) /\ Len(a1) \in 1 .. Len(a) - lost
      <4>1. held = 1 /\ half = 1 /\ held1 = 0 /\ piped1 = 1 /\ paired = 1 /\ piped = pushed
        BY <1>1, <1>10, <1>15, <2>1, <3>1
      <4>2. Len(a) = q.ost + piped + 1 /\ Len(d) = q.ost + piped + 1 /\ q.ost \in Nat
        BY <1>3, <4>1
      <4>3. Len(a1) = Len(a) - lost /\ Len(a1) = r.ost + 1
        BY <1>12, <1>15, <1>19, <1>20, <3>1, <4>1
      <4>4. Len(a) = Len(d) /\ Len(a) \in Nat /\ Len(a) >= 1
        BY <1>19, <4>2
      <4>5. Len(a1) + lost = Len(a)
        BY <1>19, <4>3, <4>4
      <4>6. Len(a1) >= 1 /\ Len(a1) <= Len(a) - lost /\ Len(a1) \in Nat
        <5> DEFINE la == Len(a)  la1 == Len(a1)  o1 == r.ost
        <5>1. la1 = la - lost /\ la1 = o1 + 1 /\ o1 \in Nat /\ la \in Nat
          BY <1>15, <4>3, <4>4
        <5> HIDE DEF la, la1, o1
        <5>2. la1 >= 1 /\ la1 <= la - lost /\ la1 \in Nat
          BY <1>19, <5>1
        <5> QED BY <5>2 DEF la, la1
      <4> QED BY <4>3, <4>4, <4>5, <4>6
    <3>3. a1[Len(a1)] = a[Len(a)]
      BY <1>12, <3>2
    <3>4. a[Len(a)].tag = d[Len(a)]
      BY <1>4, <3>2 DEF Tagged
    <3> QED BY <1>12, <3>1, <3>2, <3>3, <3>4
  <2>2. CASE ~pair
    <3> SUFFICES ASSUME p1 # NoWrite
                 PROVE  /\ r.ost + 1 <= Len(a1) /\ a1[r.ost + 1] = p1.addr
                        /\ p1.data = p1.addr.tag
      OBVIOUS
    <3>1. p1 = p /\ ~push /\ p # NoWrite /\ p.addr # NoAddr
      BY <1>2, <1>3, <1>6, <2>2
    <3>2. /\ r.ost + 1 \in 1 .. Len(a) - lost /\ r.ost + 1 + lost = q.ost + 1
          /\ r.ost + 1 <= Len(a1)
      <4> DEFINE la == Len(a)  la1 == Len(a1)  o == q.ost  o1 == r.ost
      <4>1. piped = 1 /\ pushed = 0
        BY <1>10, <3>1
      <4>2. /\ la = o + piped + held /\ la1 = la - lost + new /\ la \in Nat /\ la1 \in Nat
            /\ o \in Nat /\ o1 \in Nat /\ o1 = o - lost + pushed
        BY <1>3, <1>12, <1>15
      <4> HIDE DEF la, la1, o, o1
      <4>3. o1 + 1 \in 1 .. la - lost /\ o1 + 1 + lost = o + 1 /\ o1 + 1 <= la1
        BY <1>15, <1>19, <4>1, <4>2
      <4> QED BY <4>3 DEF la, la1, o, o1
    <3> QED BY <1>3, <1>12, <3>1, <3>2
  <2> QED BY <1>1, <2>1, <2>2
<1>18. Behind(r, a1, p1.addr)
  <2>1. p1.addr \in Requests \cup {NoAddr} /\ (p1.addr # NoAddr => p1 # NoWrite)
    BY <1>6, <1>13
  <2>2. r.ost <= Len(a1)
    BY <1>10, <1>15, <1>20
  <2> QED BY <1>12, <1>17, <2>1, <2>2 DEF Behind
<1> USE DEF q, r, a, a1, d, d1, n, p, p1, h, h1, g, g1, next, next1, lost, new, more, piped, piped1,
         held, held1, half, half1, pushed, paired
<1>22. WriteKeeps(m)'
  <2>1. env.inFlight' = n
    OBVIOUS
  <2> QED BY <1>11, <1>12, <1>13, <1>16, <1>17, <1>18, <1>20, <2>1 DEF WriteKeeps
<1> QED BY <1>7, <1>8, <1>22

\* A slave takes what the granted master offers it, and keeps it until the
\* master whose queue names it first takes the answer.
LEMMA ReadersStep ==
  ASSUME CrossInv, NEW i \in Inputs, NEW answering, Clock(i, answering)
  PROVE  /\ reader' \in [Slaves -> Holders]
         /\ \A m \in Masters : ar_pip_drain(m, FromSlaves) /\ ar_pip[m].to \in Slaves =>
              /\ reader[ar_pip[m].to] = Nobody
              /\ reader'[ar_pip[m].to].who = m /\ reader'[ar_pip[m].to].addr = ar_pip[m]
         /\ \A t \in Slaves : reader[t] # Nobody =>
              \/ reader'[t].who = reader[t].who /\ reader'[t].addr = reader[t].addr
              \/ \E m \in Masters : ReadDone(m, i, FromSlaves) /\ Entry(rd[m], 1) = t
<1> DEFINE taken(t) == CHOOSE m \in ReadOf(t) : TRUE
<1>1. rd_grant \subseteq {m \in Masters : rd_cand(m)} /\ \A m, n \in rd_grant : m = n
  BY FirstIsOne DEF rd_grant
<1>2. \A t \in Slaves : ReadOf(t) # {} => /\ taken(t) \in rd_grant /\ taken(t) \in Masters
                                          /\ ar_pip[taken(t)].to = t
  BY <1>1 DEF ReadOf
<1> HIDE DEF taken
<1>3. ASSUME NEW t \in Slaves
      PROVE  reader'[t] = IF reader[t] = Nobody
                          THEN IF ReadOf(t) = {} THEN Nobody
                               ELSE [who |-> taken(t), addr |-> ar_pip[taken(t)], data |-> NoData,
                                     done |-> <<t, "R">> \in answering]
                          ELSE IF reader[t].done /\ slave_rready(t, i) THEN Nobody
                          ELSE [reader[t] EXCEPT !.done = @ \/ <<t, "R">> \in answering]
  BY DEF Clock, SlavesEdge, taken
<1>4. reader \in [Slaves -> Holders] /\ ar_pip \in [Masters -> Requests \cup {NoAddr}]
  BY DEF CrossInv, CrossTypes
<1>5. Nobody \in Holders
  BY DEF Nobody, Holders
<1>6. ASSUME NEW t \in Slaves PROVE reader'[t] \in Holders
  <2>1. CASE reader[t] = Nobody /\ ReadOf(t) # {}
    <3> DEFINE answered == <<t, "R">> \in answering
    <3>1. reader'[t] = [who |-> taken(t), addr |-> ar_pip[taken(t)], data |-> NoData,
                        done |-> answered]
      BY <1>3, <2>1
    <3>2. taken(t) \in Masters /\ ar_pip[taken(t)] \in Requests \cup {NoAddr}
          /\ answered \in BOOLEAN
      BY <1>2, <1>4, <2>1
    <3> HIDE DEF answered
    <3> QED BY <3>1, <3>2 DEF Holders
  <2>2. CASE reader[t] # Nobody
    BY <1>3, <1>4, <1>5, <2>2 DEF Holders
  <2> QED BY <1>3, <1>5, <2>1, <2>2
<1>7. reader' \in [Slaves -> Holders]
  <2>1. reader' = [t \in Slaves |-> reader'[t]]
    BY DEF Clock, SlavesEdge
  <2> QED BY <1>6, <2>1
<1>8. ASSUME NEW m \in Masters, ar_pip_drain(m, FromSlaves), ar_pip[m].to \in Slaves
      PROVE  /\ reader[ar_pip[m].to] = Nobody
             /\ reader'[ar_pip[m].to].who = m /\ reader'[ar_pip[m].to].addr = ar_pip[m]
  <2> DEFINE t == ar_pip[m].to
  <2>1. m \in rd_grant /\ reader[t] = Nobody
    BY <1>8 DEF ar_pip_drain, FromSlaves, NoSlave, Slaves
  <2>2. m \in ReadOf(t)
    BY <2>1 DEF ReadOf
  <2>3. taken(t) = m
    BY <1>1, <1>2, <1>8, <2>1, <2>2
  <2> DEFINE answered == <<t, "R">> \in answering
  <2>4. reader'[t] = [who |-> m, addr |-> ar_pip[m], data |-> NoData, done |-> answered]
    BY <1>3, <1>8, <2>1, <2>2, <2>3
  <2> HIDE DEF answered
  <2> QED BY <2>1, <2>4
<1>9. ASSUME NEW t \in Slaves, reader[t] # Nobody
      PROVE  \/ reader'[t].who = reader[t].who /\ reader'[t].addr = reader[t].addr
             \/ \E m \in Masters : ReadDone(m, i, FromSlaves) /\ Entry(rd[m], 1) = t
  <2>1. CASE reader[t].done /\ slave_rready(t, i)
    <3>1. PICK m \in Masters : Owes(rd[m]) = t /\ i[m].rready
      BY <2>1 DEF slave_rready
    <3>2. rvalid(m, FromSlaves)
      BY <2>1, <3>1 DEF rvalid, FromSlaves
    <3> QED BY <3>1, <3>2, ShownIsOwed DEF ReadDone
  <2>2. CASE ~(reader[t].done /\ slave_rready(t, i))
    BY <1>3, <1>4, <1>9, <2>2 DEF Holders
  <2> QED BY <2>1, <2>2
<1> QED BY <1>7, <1>8, <1>9

LEMMA WritersStep ==
  ASSUME CrossInv, NEW i \in Inputs, NEW answering, Clock(i, answering)
  PROVE  /\ writer' \in [Slaves -> Holders]
         /\ \A m \in Masters : aw_pip_drain(m, FromSlaves) /\ aw_pip[m].addr.to \in Slaves =>
              /\ writer[aw_pip[m].addr.to] = Nobody
              /\ writer'[aw_pip[m].addr.to].who = m
              /\ writer'[aw_pip[m].addr.to].addr = aw_pip[m].addr
         /\ \A t \in Slaves : writer[t] # Nobody =>
              \/ writer'[t].who = writer[t].who /\ writer'[t].addr = writer[t].addr
              \/ \E m \in Masters : WriteDone(m, i, FromSlaves) /\ Entry(wr[m], 1) = t
         /\ \A t \in Slaves : writer'[t] # Nobody => writer'[t].data = writer'[t].addr.tag
<1> DEFINE taken(t) == CHOOSE m \in WriteOf(t) : TRUE
<1>1. wr_grant \subseteq {m \in Masters : wr_cand(m)} /\ \A m, n \in wr_grant : m = n
  BY FirstIsOne DEF wr_grant
<1>2. \A t \in Slaves : WriteOf(t) # {} => /\ taken(t) \in wr_grant /\ taken(t) \in Masters
                                           /\ aw_pip[taken(t)].addr.to = t
                                           /\ aw_pip[taken(t)] # NoWrite
  BY <1>1 DEF WriteOf, wr_cand
<1> HIDE DEF taken
<1>3. ASSUME NEW t \in Slaves
      PROVE  writer'[t] = IF writer[t] = Nobody
                          THEN IF WriteOf(t) = {} THEN Nobody
                               ELSE [who |-> taken(t), addr |-> aw_pip[taken(t)].addr,
                                     data |-> aw_pip[taken(t)].data,
                                     done |-> <<t, "B">> \in answering]
                          ELSE IF writer[t].done /\ slave_bready(t, i) THEN Nobody
                          ELSE [writer[t] EXCEPT !.done = @ \/ <<t, "B">> \in answering]
  BY DEF Clock, SlavesEdge, taken
<1>4. /\ writer \in [Slaves -> Holders] /\ aw_pip \in [Masters -> Writes \cup {NoWrite}]
      /\ \A m \in Masters : aw_pip[m] # NoWrite => aw_pip[m].data = aw_pip[m].addr.tag
      /\ \A t \in Slaves : writer[t] # Nobody => writer[t].data = writer[t].addr.tag
  BY DEF CrossInv, CrossTypes, HalvesMeet
<1>5. Nobody \in Holders
  BY DEF Nobody, Holders
<1>6. ASSUME NEW t \in Slaves
      PROVE  /\ writer'[t] \in Holders
             /\ writer'[t] # Nobody => writer'[t].data = writer'[t].addr.tag
  <2>1. CASE writer[t] = Nobody /\ WriteOf(t) # {}
    <3>1. aw_pip[taken(t)] \in Writes /\ taken(t) \in Masters
          /\ aw_pip[taken(t)].data = aw_pip[taken(t)].addr.tag
      BY <1>2, <1>4, <2>1
    <3> DEFINE answered == <<t, "B">> \in answering
    <3>2. writer'[t] = [who |-> taken(t), addr |-> aw_pip[taken(t)].addr,
                        data |-> aw_pip[taken(t)].data, done |-> answered]
      BY <1>3, <2>1
    <3>3. answered \in BOOLEAN
      OBVIOUS
    <3> HIDE DEF answered
    <3> QED BY <3>1, <3>2, <3>3 DEF Holders, Writes
  <2>2. CASE writer[t] # Nobody
    BY <1>3, <1>4, <1>5, <2>2 DEF Holders
  <2> QED BY <1>3, <1>5, <2>1, <2>2
<1>7. writer' \in [Slaves -> Holders]
  <2>1. writer' = [t \in Slaves |-> writer'[t]]
    BY DEF Clock, SlavesEdge
  <2> QED BY <1>6, <2>1
<1>8. ASSUME NEW m \in Masters, aw_pip_drain(m, FromSlaves), aw_pip[m].addr.to \in Slaves
      PROVE  /\ writer[aw_pip[m].addr.to] = Nobody
             /\ writer'[aw_pip[m].addr.to].who = m
             /\ writer'[aw_pip[m].addr.to].addr = aw_pip[m].addr
  <2> DEFINE t == aw_pip[m].addr.to
  <2>1. m \in wr_grant /\ writer[t] = Nobody
    BY <1>8 DEF aw_pip_drain, FromSlaves, NoSlave, Slaves
  <2>2. m \in WriteOf(t)
    BY <2>1 DEF WriteOf
  <2>3. taken(t) = m
    BY <1>1, <1>2, <1>8, <2>1, <2>2
  <2> DEFINE answered == <<t, "B">> \in answering
  <2>4. writer'[t] = [who |-> m, addr |-> aw_pip[m].addr, data |-> aw_pip[m].data, done |-> answered]
    BY <1>3, <1>8, <2>1, <2>2, <2>3
  <2> HIDE DEF answered
  <2> QED BY <2>1, <2>4
<1>9. ASSUME NEW t \in Slaves, writer[t] # Nobody
      PROVE  \/ writer'[t].who = writer[t].who /\ writer'[t].addr = writer[t].addr
             \/ \E m \in Masters : WriteDone(m, i, FromSlaves) /\ Entry(wr[m], 1) = t
  <2>1. CASE writer[t].done /\ slave_bready(t, i)
    <3>1. PICK m \in Masters : Owes(wr[m]) = t /\ i[m].bready
      BY <2>1 DEF slave_bready
    <3>2. bvalid(m, FromSlaves)
      BY <2>1, <3>1 DEF bvalid, FromSlaves
    <3> QED BY <3>1, <3>2, ShownIsOwed DEF WriteDone
  <2>2. CASE ~(writer[t].done /\ slave_bready(t, i))
    BY <1>3, <1>4, <1>9, <2>2 DEF Holders
  <2> QED BY <2>1, <2>2
<1> QED BY <1>6, <1>7, <1>8, <1>9

\* What a step of a sequence leaves of the one before, as a channel's step has it.
LEMMA Kept ==
  ASSUME NEW T, NEW b, NEW a, NEW pop \in BOOLEAN, NEW new, NEW x,
         Follows(T, b, a, One(pop), new, x)
  PROVE  b \in Seq(T) /\ Remains(b, a, pop)
<1>1. /\ b \in Seq(T) /\ Len(a) \in Nat /\ Len(b) \in Nat /\ new \in {0, 1}
      /\ Len(b) = Len(a) - One(pop) + new
      /\ \A k \in 1 .. Len(a) - One(pop) : b[k] = a[k + One(pop)]
  BY DEF Follows
<1>2. CASE pop
  BY <1>1, <1>2 DEF One, Remains
<1>3. CASE ~pop
  <2>1. One(pop) = 0 /\ Len(a) - 0 = Len(a) /\ \A k \in 1 .. Len(a) : k + 0 = k
    BY <1>1, <1>3 DEF One
  <2>2. Len(b) >= Len(a) /\ \A k \in 1 .. Len(a) : b[k] = a[k]
    BY <1>1, <2>1
  <2> QED BY <1>1, <1>3, <2>2 DEF Remains
<1> QED BY <1>2, <1>3

LEMMA EdgeStep ==
  ASSUME CrossInv, Separated, NEW i \in Inputs, NEW answering, Clock(i, answering)
  PROVE  CrossInv'
<1> DEFINE rpush == [m \in Masters |-> ar_pip_drain(m, FromSlaves)]
           rpop == [m \in Masters |-> ReadDone(m, i, FromSlaves)]
           wpush == [m \in Masters |-> aw_pip_drain(m, FromSlaves)]
           wpop == [m \in Masters |-> WriteDone(m, i, FromSlaves)]
<1>1. env' = env /\ env \in Environments
  BY DEF Clock, CrossInv, CrossTypes
<1>2. ASSUME NEW m \in Masters
      PROVE  /\ ReadKeeps(m)'
             /\ Follows(Requests, reads'[m], reads[m], One(rpop[m]), One(i[m].ar # NoAddr), i[m].ar)
             /\ QueueMoves(rd[m], rpush[m], ar_pip[m].to, rpop[m], rd'[m])
             /\ rpush[m] => ar_pip[m] # NoAddr
             /\ rpop[m] \in BOOLEAN
  <2>1. ReadMoves(m, i[m].ar, rpush[m], rpop[m])
    BY ReadsMove
  <2>2. (rpush[m] => ar_pip[m] # NoAddr) /\ rpop[m] \in BOOLEAN
    BY <2>1 DEF ReadMoves
  <2> HIDE DEF rpush, rpop
  <2> QED BY <1>1, <2>1, <2>2, ReadStep
<1>3. ASSUME NEW m \in Masters
      PROVE  /\ WriteKeeps(m)'
             /\ Follows(Requests, writes'[m], writes[m], One(wpop[m]), One(i[m].aw # NoAddr), i[m].aw)
             /\ QueueMoves(wr[m], wpush[m], aw_pip[m].addr.to, wpop[m], wr'[m])
             /\ wpush[m] => aw_pip[m] # NoWrite
             /\ wpop[m] \in BOOLEAN
  <2>1. WriteMoves(m, i[m].aw, i[m].w, wpush[m], wpop[m], Paired(m, FromSlaves))
    BY WritesMove
  <2>2. (wpush[m] => aw_pip[m] # NoWrite) /\ wpop[m] \in BOOLEAN
    BY <2>1 DEF WriteMoves
  <2> HIDE DEF wpush, wpop
  <2> QED BY <1>1, <2>1, <2>2, WriteStep
<1>4. \A m \in Masters : WatchdogLate(rd[m]) \/ WatchdogLate(wr[m]) => timeout_status'[m]
  BY DEF Clock, InterconnectEdge, StatusEdge
<1>5. ReadsHonest'
  <2>1. ASSUME NEW m \in Masters
        PROVE  Passes(m, rd[m], reads[m], ar_pip[m], reader, rpush[m], rpop[m],
                      rd'[m], reads'[m], ar_pip'[m], reader', timeout_status'[m])
    <3>1. /\ QueueMoves(rd[m], rpush[m], ar_pip[m].to, rpop[m], rd'[m])
          /\ rpush[m] => ar_pip[m] # NoAddr
      BY <1>2
    <3>2. rpush[m] /\ ar_pip[m].to \in Slaves =>
            /\ reader[ar_pip[m].to] = Nobody
            /\ reader'[ar_pip[m].to].who = m /\ reader'[ar_pip[m].to].addr = ar_pip[m]
      BY ReadersStep
    <3>3. reads'[m] \in Seq(Requests) /\ Remains(reads'[m], reads[m], rpop[m])
      <4>1. /\ Follows(Requests, reads'[m], reads[m], One(rpop[m]), One(i[m].ar # NoAddr), i[m].ar)
            /\ rpop[m] \in BOOLEAN
        BY <1>2
      <4> HIDE DEF rpush, rpop
      <4> QED BY <4>1, Kept
    <3>4. /\ ar_pip'[m] \in Requests \cup {NoAddr}
          /\ ar_pip'[m] # NoAddr => rd'[m].ost + 1 <= Len(reads'[m])
                                    /\ reads'[m][rd'[m].ost + 1] = ar_pip'[m]
      BY <1>2 DEF ReadKeeps, Behind
    <3> HIDE DEF rpush, rpop
    <3> QED BY <1>4, <3>1, <3>2, <3>3, <3>4 DEF Passes
  <2>2. \A t \in Slaves : reader[t] # Nobody =>
          \/ reader'[t].who = reader[t].who /\ reader'[t].addr = reader[t].addr
          \/ \E m \in Masters : rpop[m] /\ Entry(rd[m], 1) = t
    BY ReadersStep
  <2> HIDE DEF rpush, rpop
  <2>3. ChannelMoves(rd, reads, ar_pip, reader, rpush, rpop,
                     rd', reads', ar_pip', reader', timeout_status')
    BY <2>1, <2>2 DEF ChannelMoves
  <2>4. Channel(rd, reads, ar_pip, reader, timeout_status)
    BY DEF CrossInv, ReadsHonest
  <2>5. Channel(rd', reads', ar_pip', reader', timeout_status')
    BY <2>3, <2>4, ChannelStep
  <2> QED BY <2>5 DEF ReadsHonest
<1>6. WritesHonest'
  <2>0. \A m \in Masters : PipedAddress[m] = aw_pip[m].addr /\ PipedAddress'[m] = aw_pip'[m].addr
    BY DEF PipedAddress
  <2>1. ASSUME NEW m \in Masters
        PROVE  Passes(m, wr[m], writes[m], PipedAddress[m], writer, wpush[m], wpop[m],
                      wr'[m], writes'[m], PipedAddress'[m], writer', timeout_status'[m])
    <3>1. /\ QueueMoves(wr[m], wpush[m], aw_pip[m].addr.to, wpop[m], wr'[m])
          /\ wpush[m] => aw_pip[m].addr # NoAddr
      <4>1. /\ QueueMoves(wr[m], wpush[m], aw_pip[m].addr.to, wpop[m], wr'[m])
            /\ wpush[m] => aw_pip[m] # NoWrite
        BY <1>3
      <4>2. aw_pip[m] \in Writes \cup {NoWrite}
        BY DEF CrossInv, CrossTypes
      <4>3. aw_pip[m] # NoWrite => aw_pip[m].addr # NoAddr
        BY <4>2, NoneIsNoRequest
      <4> HIDE DEF wpush, wpop
      <4> QED BY <4>1, <4>3
    <3>2. wpush[m] /\ aw_pip[m].addr.to \in Slaves =>
            /\ writer[aw_pip[m].addr.to] = Nobody
            /\ writer'[aw_pip[m].addr.to].who = m
            /\ writer'[aw_pip[m].addr.to].addr = aw_pip[m].addr
      BY WritersStep
    <3>3. writes'[m] \in Seq(Requests) /\ Remains(writes'[m], writes[m], wpop[m])
      <4>1. /\ Follows(Requests, writes'[m], writes[m], One(wpop[m]), One(i[m].aw # NoAddr), i[m].aw)
            /\ wpop[m] \in BOOLEAN
        BY <1>3
      <4> HIDE DEF wpush, wpop
      <4> QED BY <4>1, Kept
    <3>4. /\ aw_pip'[m].addr \in Requests \cup {NoAddr}
          /\ aw_pip'[m].addr # NoAddr => wr'[m].ost + 1 <= Len(writes'[m])
                                         /\ writes'[m][wr'[m].ost + 1] = aw_pip'[m].addr
      BY <1>3 DEF WriteKeeps, Behind
    <3> HIDE DEF wpush, wpop
    <3> QED BY <1>4, <2>0, <3>1, <3>2, <3>3, <3>4 DEF Passes
  <2>2. \A t \in Slaves : writer[t] # Nobody =>
          \/ writer'[t].who = writer[t].who /\ writer'[t].addr = writer[t].addr
          \/ \E m \in Masters : wpop[m] /\ Entry(wr[m], 1) = t
    BY WritersStep
  <2> HIDE DEF wpush, wpop
  <2>3. ChannelMoves(wr, writes, PipedAddress, writer, wpush, wpop,
                     wr', writes', PipedAddress', writer', timeout_status')
    BY <2>1, <2>2 DEF ChannelMoves
  <2>4. Channel(wr, writes, PipedAddress, writer, timeout_status)
    BY DEF CrossInv, WritesHonest
  <2>5. Channel(wr', writes', PipedAddress', writer', timeout_status')
    BY <2>3, <2>4, ChannelStep
  <2> QED BY <2>5 DEF WritesHonest
<1> HIDE DEF rpush, rpop, wpush, wpop
<1>7. CrossTypes'
  <2>1. /\ aw_held' = [m \in Masters |-> aw_held'[m]] /\ w_held' = [m \in Masters |-> w_held'[m]]
        /\ ar_pip' = [m \in Masters |-> ar_pip'[m]] /\ aw_pip' = [m \in Masters |-> aw_pip'[m]]
        /\ datas' = [m \in Masters |-> datas'[m]]
    BY DEF Clock, InterconnectEdge, HoldEdge, PipelineEdge, Record
  <2>2. \A m \in Masters : /\ aw_held'[m] \in Requests \cup {NoAddr}
                           /\ w_held'[m] \in Nat \cup {NoData}
                           /\ aw_pip'[m] \in Writes \cup {NoWrite} /\ datas'[m] \in Seq(Nat)
    BY <1>3 DEF WriteKeeps
  <2>3. \A m \in Masters : ar_pip'[m] \in Requests \cup {NoAddr}
    BY <1>2 DEF ReadKeeps, Behind
  <2>4. reader' \in [Slaves -> Holders] /\ writer' \in [Slaves -> Holders]
    BY ReadersStep, WritersStep
  <2>5. tag' \in [Masters -> [ar : Nat, aw : Nat, w : Nat]]
    <3>1. tag \in [Masters -> [ar : Nat, aw : Nat, w : Nat]] /\ env.inFlight \in Nat
      BY Environs DEF CrossInv, CrossTypes
    <3>2. \A k \in Nat : (k + 1) % (env.inFlight + 1) \in Nat
      BY <3>1
    <3>3. tag' = [m \in Masters |->
            [ar |-> IF i[m].ar = NoAddr THEN tag[m].ar ELSE (tag[m].ar + 1) % (env.inFlight + 1),
             aw |-> IF i[m].aw = NoAddr THEN tag[m].aw ELSE (tag[m].aw + 1) % (env.inFlight + 1),
             w  |-> IF i[m].w = NoData THEN tag[m].w ELSE (tag[m].w + 1) % (env.inFlight + 1)]]
      BY DEF Clock, Record
    <3> DEFINE next(k) == (k + 1) % (env.inFlight + 1)
    <3>4. \A k \in Nat : next(k) \in Nat
      BY <3>2
    <3>5. tag' = [m \in Masters |->
            [ar |-> IF i[m].ar = NoAddr THEN tag[m].ar ELSE next(tag[m].ar),
             aw |-> IF i[m].aw = NoAddr THEN tag[m].aw ELSE next(tag[m].aw),
             w  |-> IF i[m].w = NoData THEN tag[m].w ELSE next(tag[m].w)]]
      BY <3>3
    <3> HIDE DEF next
    <3> QED BY <3>1, <3>4, <3>5
  <2> QED BY <1>1, <2>1, <2>2, <2>3, <2>4, <2>5 DEF CrossTypes
<1>8. NothingLost'
  BY <1>2, <1>3 DEF NothingLost, ReadKeeps, WriteKeeps, One
<1>9. HeldIsLast' /\ HalvesTagged'
  BY <1>3 DEF HeldIsLast, HalvesTagged, WriteKeeps
<1>10. HalvesMeet'
  BY <1>3, WritersStep DEF HalvesMeet, WriteKeeps
<1>11. DebugRead'
  BY <1>2 DEF DebugRead, ReadKeeps
<1> QED BY <1>5, <1>6, <1>7, <1>8, <1>9, <1>10, <1>11 DEF CrossInv

LEMMA CrossInit ==
  ASSUME Init
  PROVE  CrossInv
<1> DEFINE fill == [x \in Index |-> "NONE"]
<1>1. /\ env \in Environments /\ MaxOutst \in Nat \ {0}
      /\ \A m \in Masters : /\ rd[m] = EmptyQueue /\ wr[m] = EmptyQueue
                            /\ reads[m] = << >> /\ writes[m] = << >> /\ datas[m] = << >>
                            /\ ar_pip[m] = NoAddr /\ aw_pip[m] = NoWrite /\ PipedAddress[m] = NoAddr
                            /\ aw_held[m] = NoAddr /\ w_held[m] = NoData
                            /\ tag[m] = [ar |-> 0, aw |-> 0, w |-> 0]
      /\ \A t \in Slaves : reader[t] = Nobody /\ writer[t] = Nobody
  BY InterconnectAssumption DEF Init, IcInit, PipedAddress, NoWrite
<1>2. env.inFlight \in Nat
  BY <1>1, SystemAssumption
<1>3. QueueTypes(EmptyQueue)
  <2>1. 0 \in Index /\ 0 \in 0 .. MaxOutst /\ (0 + 0) % MaxOutst = 0
    <3>1. 0 \in Nat /\ 0 < MaxOutst /\ 0 + 0 = 0
      BY <1>1
    <3> QED BY <1>1, <3>1, ModSmall DEF Index
  <2>2. fill \in [Index -> Ports]
    BY DEF Ports
  <2> HIDE DEF fill
  <2>3. EmptyQueue = [fifo |-> fill, head |-> 0, tail |-> 0, ost |-> 0, wd |-> 0]
    BY DEF EmptyQueue, fill
  <2> QED BY <2>1, <2>2, <2>3 DEF QueueTypes
<1>4. EmptyQueue.ost = 0 /\ Len(<< >>) = 0
  BY DEF EmptyQueue
<1>5. Behind(EmptyQueue, << >>, NoAddr)
  BY <1>4 DEF Behind
<1>6. ReadsHonest /\ WritesHonest
  BY <1>1, <1>3, <1>4, <1>5 DEF ReadsHonest, WritesHonest, Channel, Honest
<1>7. CrossTypes
  <2>1. Nobody \in Holders
    BY DEF Nobody, Holders
  <2> QED BY <1>1, <2>1 DEF CrossTypes, Init, IcInit
<1>8. NothingLost /\ HeldIsLast
  BY <1>1, <1>4 DEF NothingLost, HeldIsLast
<1>9. HalvesTagged
  <2> DEFINE n == env.inFlight
  <2>1. 0 \in 0 .. n /\ TagAt(0, 0, n) = 0
    BY <1>2 DEF TagAt
  <2> HIDE DEF n
  <2>2. ASSUME NEW m \in Masters PROVE Tagged(n, 0, writes[m], datas[m], tag[m])
    BY <1>1, <1>4, <2>1, <1>2 DEF Tagged, n
  <2> QED BY <2>1, <2>2 DEF HalvesTagged, n
<1>10. HalvesMeet
  BY <1>1 DEF HalvesMeet
<1>11. DebugRead
  BY <1>1, <1>2, <1>4 DEF DebugRead
<1> QED BY <1>6, <1>7, <1>8, <1>9, <1>10, <1>11 DEF CrossInv

LEMMA CrossStep ==
  ASSUME CrossInv, Separated, [Next]_vars
  PROVE  CrossInv'
<1>1. CASE Next
  BY <1>1, EdgeStep DEF Next
<1>2. CASE UNCHANGED vars
  <2>1. /\ env' = env /\ aw_held' = aw_held /\ w_held' = w_held /\ ar_pip' = ar_pip
        /\ aw_pip' = aw_pip /\ rd' = rd /\ wr' = wr /\ rd_dbg_laddr' = rd_dbg_laddr
        /\ timeout_status' = timeout_status /\ tag' = tag /\ reader' = reader
        /\ writer' = writer /\ reads' = reads /\ writes' = writes /\ datas' = datas
    BY <1>2 DEF vars, icVars, envVars
  <2>2. CrossTypes' /\ NothingLost'
    BY <2>1 DEF CrossInv, CrossTypes, NothingLost
  <2>3. HeldIsLast' /\ HalvesMeet' /\ DebugRead'
    BY <2>1 DEF CrossInv, HeldIsLast, HalvesMeet, DebugRead
  <2>4. HalvesTagged'
    BY <2>1 DEF CrossInv, HalvesTagged
  <2>5. ReadsHonest'
    BY <2>1 DEF CrossInv, ReadsHonest
  <2>6. WritesHonest'
    <3>1. PipedAddress' = PipedAddress
      BY <2>1 DEF PipedAddress
    <3> QED BY <2>1, <3>1 DEF CrossInv, WritesHonest
  <2> QED BY <2>2, <2>3, <2>4, <2>5, <2>6 DEF CrossInv
<1> QED BY <1>1, <1>2

\* The crossbar gives every master the answer to its oldest request: from the port
\* that request names and, at a slave, that very request's, with the write data
\* that came with it, or the watchdog's own error when it has run out
\* (e1_axi_lite_interconnect.sv, the response routing and the queues behind it).
THEOREM AnswersAlwaysRight == Separated => (Spec => []RightAnswer)
<1> SUFFICES ASSUME Separated PROVE Spec => []RightAnswer
  OBVIOUS
<1>1. Init => CrossInv
  BY CrossInit
<1>2. CrossInv /\ [Next]_vars => CrossInv'
  BY CrossStep
<1>3. CrossInv => RightAnswer
  BY RightFromInv
<1> QED BY <1>1, <1>2, <1>3, PTL DEF Spec

\* Every request the crossbar has taken is held alone, in the pipeline stage or
\* in a queue of answers, once (the same module's skid, pipeline and FIFO).
THEOREM NothingEverLost == Separated => (Spec => []NothingLost)
<1> SUFFICES ASSUME Separated PROVE Spec => []NothingLost
  OBVIOUS
<1>1. Init => CrossInv
  BY CrossInit
<1>2. CrossInv /\ [Next]_vars => CrossInv'
  BY CrossStep
<1>3. CrossInv => NothingLost
  BY DEF CrossInv
<1> QED BY <1>1, <1>2, <1>3, PTL DEF Spec

\* ------------------------------------------------------------- the bridge: reads

\* A read burst: the registers are of the burst being read; what the fabric has
\* answered for this beat is what has been latched of it, and it holds the read
\* that is awaited.
ReadBeat == reading.addr + received
LowSeen ==
  /\ seen[1].addr = Bridge!WordOf(ReadBeat, "lo") /\ rd_data_lo = seen[1].data
ReadBurstInv ==
  /\ received \in Nat /\ (reading = Bridge!NoBurst \/ reading.addr \in Nat)
  /\ ar = Bridge!NoBurst \/ ar.addr \in Nat
  /\ rd_state \in Bridge!RdStates /\ rd_ok \in BOOLEAN
  /\ rd_state # "IDLE" =>
       /\ reading # Bridge!NoBurst /\ rd_id = reading.id /\ rd_base = reading.addr
       /\ rd_len = reading.len /\ rd_beat_cnt = received
  /\ rd_state \in {"IDLE", "LO_REQ", "LO_RSP"} => seen = <<>>
  /\ rd_state \in {"HI_REQ", "HI_RSP"} =>
       /\ seen = <<seen[1]>> /\ LowSeen /\ (rd_ok <=> seen[1].ok)
  /\ rd_state = "RETURN" =>
       /\ seen = <<seen[1], seen[2]>> /\ LowSeen /\ seen[2].addr = Bridge!WordOf(ReadBeat, "hi")
       /\ (rd_ok <=> seen[1].ok /\ seen[2].ok)
  /\ rd_state = "LO_RSP" => fr = Bridge!WordOf(ReadBeat, "lo")
  /\ rd_state = "HI_RSP" => fr = Bridge!WordOf(ReadBeat, "hi")
  /\ rd_state \notin {"LO_RSP", "HI_RSP"} => fr = Bridge!NoWord

\* A sequence of one and what is appended to it are a pair.
LEMMA AppendToOne == ASSUME NEW first, NEW second PROVE Append(<<first>>, second) = <<first, second>>
<1> DEFINE S == {first, second}  s == Append(<<first>>, second)
<1>1. <<first>> \in Seq(S) /\ second \in S
  OBVIOUS
<1>2. s \in Seq(S) /\ Len(s) = 2 /\ s[1] = first /\ s[2] = second
  BY <1>1
<1> HIDE DEF s
<1>3. s = <<first, second>>
  BY <1>2
<1> QED BY <1>3 DEF s

\* Every edge of the read side keeps it.
LEMMA BurstReadStep ==
  ASSUME ReadBurstInv, use \in Uses, NEW c, NEW f, NEW takes \in BOOLEAN, NEW answers \in BOOLEAN,
         c.arvalid \in BOOLEAN, c.rready \in BOOLEAN, c.arvalid = (ar # Bridge!NoBurst), c.ar = ar,
         f.arready = Bridge!FabricRead(takes, answers).arready,
         f.rvalid = Bridge!FabricRead(takes, answers).rvalid,
         f.rok = Bridge!FabricRead(takes, answers).rok,
         f.rdata = Bridge!FabricRead(takes, answers).rdata,
         Bridge!ReadPath(c, f), Bridge!FabricReads(f), Bridge!ReadProgress(c, f), Bridge!OffersRead
  PROVE  ReadBurstInv'
<1>1. /\ f.arready = (takes /\ fr = Bridge!NoWord) /\ f.rvalid = (answers /\ fr # Bridge!NoWord)
      /\ f.arready \in BOOLEAN /\ f.rvalid \in BOOLEAN /\ f.rok \in BOOLEAN
  BY DEF Bridge!FabricRead
<1>2. \A d \in Nat : Bridge!WordOf(d, "lo") = 2 * (d % DoubleWords) + 0
                     /\ Bridge!WordOf(d, "hi") = 2 * (d % DoubleWords) + 1
  BY DEF Bridge!WordOf
<1>3. ar' = Bridge!NoBurst \/ ar'.addr \in Nat
  <2>1. use.reads \subseteq Nat
    BY BridgeAssumptions DEF Bridge!UseAssumption, Bridge!Bases
  <2> QED BY <2>1 DEF Bridge!OffersRead, Bridge!Addresses, ReadBurstInv
<1>4. CASE Bridge!AcceptRead(c)
  <2>1. /\ rd_state = "IDLE" /\ c.arvalid /\ rd_state' = "LO_REQ" /\ rd_id' = ar.id
        /\ rd_base' = ar.addr /\ rd_len' = ar.len /\ rd_beat_cnt' = 0 /\ rd_ok' = TRUE
    BY <1>4 DEF Bridge!AcceptRead
  <2>2. reading' = ar /\ received' = 0 /\ seen' = seen /\ fr' = fr
    BY <2>1 DEF Bridge!ReadProgress, Bridge!FabricReads, Bridge!ar_ready, Bridge!m_arvalid,
       Bridge!m_rready, Bridge!r_valid
  <2>3. ar # Bridge!NoBurst /\ ar.addr \in Nat /\ seen = <<>> /\ fr = Bridge!NoWord
    BY <2>1 DEF ReadBurstInv
  <2> QED BY <1>3, <2>1, <2>2, <2>3 DEF ReadBurstInv, Bridge!RdStates
<1>5. CASE Bridge!IssueRead(f)
  <2>1. fr' = Bridge!m_araddr /\ UNCHANGED <<reading, received, seen>>
    BY <1>1, <1>5 DEF Bridge!IssueRead, Bridge!FabricReads, Bridge!ReadProgress,
       Bridge!m_arvalid, Bridge!m_rready, Bridge!r_valid, Bridge!ar_ready
  <2>2. Bridge!m_araddr = IF rd_state = "HI_REQ" THEN Bridge!WordOf(ReadBeat, "hi") ELSE Bridge!WordOf(ReadBeat, "lo")
    <3>1. ReadBeat \in Nat /\ Bridge!rd_cur_addr = ReadBeat % DoubleWords
      BY <1>5 DEF Bridge!IssueRead, Bridge!m_arvalid, ReadBurstInv, ReadBeat, Bridge!rd_cur_addr
    <3> QED BY <1>2, <3>1 DEF Bridge!m_araddr
  <2> QED BY <1>3, <1>5, <2>1, <2>2 DEF Bridge!IssueRead, ReadBurstInv, Bridge!m_arvalid,
             Bridge!RdStates, LowSeen, ReadBeat
<1>6. CASE Bridge!TakeLow(f)
  <2>1. /\ fr' = Bridge!NoWord /\ UNCHANGED <<reading, received>>
        /\ seen' = Append(seen, [addr |-> fr, ok |-> f.rok, data |-> f.rdata])
    BY <1>1, <1>6 DEF Bridge!TakeLow, Bridge!FabricReads, Bridge!ReadProgress, Bridge!m_arvalid,
       Bridge!m_rready, Bridge!r_valid, Bridge!ar_ready
  <2>2. seen' = <<[addr |-> fr, ok |-> f.rok, data |-> f.rdata]>>
    BY <1>6, <2>1 DEF Bridge!TakeLow, ReadBurstInv
  <2> QED BY <1>1, <1>3, <1>6, <2>1, <2>2 DEF Bridge!TakeLow, ReadBurstInv, Bridge!RdStates,
             LowSeen, ReadBeat
<1>7. CASE Bridge!TakeHigh(f)
  <2>1. /\ fr' = Bridge!NoWord /\ UNCHANGED <<reading, received>>
        /\ seen' = Append(seen, [addr |-> fr, ok |-> f.rok, data |-> f.rdata])
    BY <1>1, <1>7 DEF Bridge!TakeHigh, Bridge!FabricReads, Bridge!ReadProgress,
       Bridge!m_arvalid, Bridge!m_rready, Bridge!r_valid, Bridge!ar_ready
  <2>2. /\ rd_state = "HI_RSP" /\ rd_state' = "RETURN" /\ rd_ok' = (rd_ok /\ f.rok)
        /\ UNCHANGED <<rd_id, rd_base, rd_len, rd_beat_cnt, rd_data_lo>>
    BY <1>7 DEF Bridge!TakeHigh
  <2>3. seen = <<seen[1]>> /\ LowSeen /\ (rd_ok <=> seen[1].ok) /\ fr = Bridge!WordOf(ReadBeat, "hi")
    BY <2>2 DEF ReadBurstInv
  <2> DEFINE s1 == seen[1]  s2 == [addr |-> fr, ok |-> f.rok, data |-> f.rdata]
  <2>4. s2.addr = fr /\ s2.ok = f.rok
    OBVIOUS
  <2>5. seen = <<s1>> /\ seen' = Append(seen, s2)
    BY <2>1, <2>3
  <2> HIDE DEF s1, s2
  <2>6. seen' = <<s1, s2>> /\ seen'[1] = s1 /\ seen'[2] = s2
    BY <2>5, AppendToOne
  <2>7. seen'[1] = seen[1] /\ seen'[2].addr = fr /\ seen'[2].ok = f.rok
        /\ seen' = <<seen'[1], seen'[2]>>
    BY <2>4, <2>6 DEF s1
  <2>8. LowSeen' /\ seen'[2].addr = Bridge!WordOf(ReadBeat, "hi")'
    BY <2>1, <2>2, <2>3, <2>7 DEF LowSeen, ReadBeat, Bridge!WordOf
  <2>9. rd_ok' <=> seen'[1].ok /\ seen'[2].ok
    BY <2>2, <2>3, <2>7
  <2>10. rd_ok' \in BOOLEAN
    BY <1>1, <2>2 DEF ReadBurstInv
  <2> QED BY <1>3, <2>1, <2>2, <2>7, <2>8, <2>9, <2>10 DEF ReadBurstInv, Bridge!RdStates
<1>8. CASE Bridge!ReturnBeat(c)
  <2>1. rd_state = "RETURN" /\ c.rready /\ UNCHANGED <<rd_id, rd_base, rd_len, rd_data_lo>>
    BY <1>8 DEF Bridge!ReturnBeat
  <2>2. seen' = <<>> /\ fr' = fr /\ fr = Bridge!NoWord
    BY <2>1 DEF Bridge!ReadProgress, Bridge!FabricReads, Bridge!ar_ready, Bridge!m_arvalid,
       Bridge!m_rready, Bridge!r_valid, ReadBurstInv
  <2>3. CASE Bridge!r_last
    <3>1. rd_state' = "IDLE" /\ UNCHANGED <<rd_beat_cnt, rd_ok>> /\ reading' = Bridge!NoBurst /\ received' = 0
      BY <1>8, <2>1, <2>3 DEF Bridge!ReturnBeat, Bridge!ReadProgress, Bridge!ar_ready,
         Bridge!r_valid
    <3> QED BY <1>3, <2>1, <2>2, <3>1 DEF ReadBurstInv, Bridge!RdStates
  <2>4. CASE ~Bridge!r_last
    <3>1. /\ rd_state' = "LO_REQ" /\ rd_beat_cnt' = rd_beat_cnt + 1 /\ rd_ok' = TRUE
          /\ reading' = reading /\ received' = received + 1
      BY <1>8, <2>1, <2>4 DEF Bridge!ReturnBeat, Bridge!ReadProgress, Bridge!ar_ready,
         Bridge!r_valid
    <3> QED BY <1>3, <2>1, <2>2, <3>1 DEF ReadBurstInv, Bridge!RdStates
  <2> QED BY <2>3, <2>4
<1>9. CASE Bridge!AwaitRead(c, f)
  <2>1. UNCHANGED <<fr, reading, received, seen>>
    BY <1>1, <1>9 DEF Bridge!AwaitRead, Bridge!FabricReads, Bridge!ReadProgress,
       Bridge!m_arvalid, Bridge!m_rready, Bridge!r_valid, Bridge!ar_ready
  <2> QED BY <1>3, <1>9, <2>1 DEF Bridge!AwaitRead, Bridge!rdVars, ReadBurstInv, LowSeen, ReadBeat
<1> QED BY <1>4, <1>5, <1>6, <1>7, <1>8, <1>9 DEF Bridge!ReadPath

LEMMA BeatFromInv == ReadBurstInv => Bridge!BeatOfBurst
<1> SUFFICES ASSUME ReadBurstInv, Bridge!r_valid PROVE Bridge!BeatOfBurst
  BY DEF Bridge!BeatOfBurst
<1>1. /\ seen = <<seen[1], seen[2]>> /\ LowSeen /\ seen[2].addr = Bridge!WordOf(ReadBeat, "hi")
      /\ (rd_ok <=> seen[1].ok /\ seen[2].ok)
      /\ reading # Bridge!NoBurst /\ rd_id = reading.id /\ rd_len = reading.len /\ rd_beat_cnt = received
  BY DEF ReadBurstInv, Bridge!r_valid
<1>2. [i \in DOMAIN seen |-> seen[i].addr] = <<seen[1].addr, seen[2].addr>>
  BY <1>1
<1> QED BY <1>1, <1>2 DEF Bridge!BeatOfBurst, Bridge!r_last, LowSeen, ReadBeat

\* ------------------------------------------------------------- the bridge: writes

\* A write burst.  Of the beat in hand a half is to write until its answer is in;
\* what is wanted of the memory is the memory with the halves to write laid over it,
\* those for bad words excepted.  The fabric holds the half whose answer is awaited.
\* A fault the CPU must hear of is either latched or of a half still to write, and an
\* error is only ever latched for a beat with a bad half.
WriteBeat == wr_base + wr_beat_cnt
ToWrite(h) ==
  /\ h \in wr_strb
  /\ wr_state \in {"LO_REQ", "LO_RSP"} \/ (h = "hi" /\ wr_state \in {"HI_REQ", "HI_RSP"})
Owed(a, h) == a = Bridge!WordOf(WriteBeat, h) /\ a \notin BadWords /\ ToWrite(h)
Overlaid == [a \in Bridge!Words |-> IF Owed(a, "lo") THEN wr_data["lo"]
                             ELSE IF Owed(a, "hi") THEN wr_data["hi"] ELSE mem[a]]
WriteBurstTypes ==
  /\ wr_state \in Bridge!WrStates /\ wr_ok \in BOOLEAN /\ lone \in BOOLEAN
  /\ faulted \in BOOLEAN /\ nearBad \in BOOLEAN
  /\ w = Bridge!NoBeat \/ w \in Bridge!Strobed
  /\ aw = Bridge!NoBurst \/ aw.addr \in Nat
  /\ mem \in [Bridge!Words -> Nat]
  /\ aw # Bridge!NoBurst => writing = Bridge!NoBurst
  /\ writing = Bridge!NoBurst => wr_state = "IDLE"
  /\ lone => wr_state = "IDLE" /\ writing # Bridge!NoBurst
  /\ wr_state = "IDLE" => sent = 0
\* The registers of the bridge are of the burst, and count its beats.
BeatUnderWay ==
  /\ writing # Bridge!NoBurst /\ wr_id = writing.id /\ wr_base = writing.addr /\ wr_len = writing.len
  /\ sent = wr_beat_cnt + 1 /\ wr_base \in Nat /\ wr_beat_cnt \in Nat
  /\ wr_strb \subseteq Bridge!Halves /\ wr_data \in [Bridge!Halves -> Nat]
  /\ wr_need_hi <=> "hi" \in wr_strb
  /\ wr_state \in {"HI_REQ", "HI_RSP"} => "hi" \in wr_strb
  /\ wr_state = "RESP" => wr_beat_cnt = wr_len
  /\ ~wr_ok \/ (\E h \in Bridge!Halves : Bridge!WordOf(WriteBeat, h) \in BadWords) => nearBad
  /\ faulted => ~wr_ok \/ \E h \in Bridge!Halves : ToWrite(h) /\ Bridge!WordOf(WriteBeat, h) \in BadWords
\* The fabric holds half h of the beat in hand.
Sends(h) == fw = [addr |-> Bridge!WordOf(WriteBeat, h), strb |-> h \in wr_strb, data |-> wr_data[h]]
WriteBurstInv ==
  /\ WriteBurstTypes /\ (wr_state # "IDLE" => BeatUnderWay) /\ want = Overlaid
  /\ wr_state = "LO_RSP" => Sends("lo")
  /\ wr_state = "HI_RSP" => Sends("hi")
  /\ wr_state \notin {"LO_RSP", "HI_RSP"} => fw.addr = Bridge!NoWord

\* The halves of a double word are two words of the memory.
LEMMA TwoWords ==
  ASSUME NEW d \in Nat
  PROVE  /\ Bridge!WordOf(d, "lo") \in Bridge!Words /\ Bridge!WordOf(d, "hi") \in Bridge!Words
         /\ Bridge!WordOf(d, "lo") # Bridge!WordOf(d, "hi") /\ Bridge!NoWord \notin Bridge!Words
<1> DEFINE x == d % DoubleWords
<1>1. x \in 0 .. DoubleWords - 1 /\ DoubleWords \in Nat
  BY BridgeAssumptions DEF Bridge!BridgeAssumption
<1>2. Bridge!WordOf(d, "lo") = 2 * x + 0 /\ Bridge!WordOf(d, "hi") = 2 * x + 1
  BY DEF Bridge!WordOf
<1> HIDE DEF x
<1> QED BY <1>1, <1>2 DEF Bridge!Words, Bridge!NoWord

\* The memory a beat asks for is the memory with its halves laid over it.
LEMMA BeatOverlaid ==
  ASSUME WriteBurstTypes, NEW d \in Nat, w \in Bridge!Strobed, want = mem, mem' = mem,
         wr_data' = w.data, wr_strb' = w.strb,
         wr_state' = "LO_REQ", (WriteBeat)' = d,
         want' = [a \in Bridge!Words |->
               IF \E h \in w.strb : Bridge!WordOf(d, h) = a /\ Bridge!WordOf(d, h) \notin BadWords
               THEN w.data[CHOOSE h \in Bridge!Halves : Bridge!WordOf(d, h) = a]
               ELSE want[a]]
  PROVE  want' = Overlaid'
<1>2. \A a \in Bridge!Words : \A h \in Bridge!Halves :
         (a = Bridge!WordOf(d, h) /\ a \notin BadWords /\ h \in w.strb) <=> Owed(a, h)'
  BY DEF Owed, ToWrite, Bridge!WordOf, Bridge!Halves
<1>3. ASSUME NEW h \in Bridge!Halves PROVE (CHOOSE g \in Bridge!Halves : Bridge!WordOf(d, g) = Bridge!WordOf(d, h)) = h
  BY <1>3, TwoWords DEF Bridge!Halves
<1>4. w.strb \subseteq Bridge!Halves
  BY DEF Bridge!Strobed
<1> DEFINE over(a) == IF \E h \in w.strb : Bridge!WordOf(d, h) = a /\ Bridge!WordOf(d, h) \notin BadWords
               THEN w.data[CHOOSE h \in Bridge!Halves : Bridge!WordOf(d, h) = a]
               ELSE want[a]
          laid(a) == IF Owed(a, "lo") THEN wr_data["lo"]
                             ELSE IF Owed(a, "hi") THEN wr_data["hi"] ELSE mem[a]
<1>5. ASSUME NEW a \in Bridge!Words PROVE over(a) = laid(a)'
  <2>1. CASE Owed(a, "lo")'
    <3>1. a = Bridge!WordOf(d, "lo") /\ a \notin BadWords /\ "lo" \in w.strb
      BY <1>2, <2>1 DEF Bridge!Halves
    <3> QED BY <1>3, <2>1, <3>1 DEF Bridge!Halves
  <2>2. CASE ~Owed(a, "lo")' /\ Owed(a, "hi")'
    <3>1. a = Bridge!WordOf(d, "hi") /\ a \notin BadWords /\ "hi" \in w.strb
      BY <1>2, <2>2 DEF Bridge!Halves
    <3> QED BY <1>3, <2>2, <3>1 DEF Bridge!Halves
  <2>3. CASE ~Owed(a, "lo")' /\ ~Owed(a, "hi")'
    <3>1. ~\E h \in w.strb : Bridge!WordOf(d, h) = a /\ Bridge!WordOf(d, h) \notin BadWords
      BY <1>2, <1>4, <2>3 DEF Bridge!Halves
    <3> QED BY <2>3, <3>1
  <2> QED BY <2>1, <2>2, <2>3
<1>6. want' = [a \in Bridge!Words |-> over(a)] /\ Overlaid' = [a \in Bridge!Words |-> laid(a)']
  BY DEF Overlaid, Bridge!Words
<1> HIDE DEF over, laid
<1> QED BY <1>5, <1>6

\* One edge on the write side, whether the fabric takes and answers.
WriteEdge(c, f, takes, answers) ==
  /\ c.awvalid = (aw # Bridge!NoBurst) /\ c.aw = aw /\ c.wvalid = (w # Bridge!NoBeat) /\ c.w = w
  /\ c.bready \in BOOLEAN /\ takes \in BOOLEAN /\ answers \in BOOLEAN
  /\ f.awready = (takes /\ fw.addr = Bridge!NoWord) /\ f.wready = (takes /\ fw.addr = Bridge!NoWord)
  /\ f.bvalid = (answers /\ fw.addr # Bridge!NoWord) /\ f.bok = (fw.addr \notin BadWords)
  /\ use \in Uses
  /\ Bridge!WritePath(c, f) /\ Bridge!FabricWrites(f) /\ Bridge!OffersWrite(c) /\ Bridge!BeatAsked(c)

LEMMA WriteOffers ==
  ASSUME WriteBurstTypes, NEW c, NEW f, NEW takes, NEW answers, WriteEdge(c, f, takes, answers)
  PROVE  /\ w' = Bridge!NoBeat \/ w' \in Bridge!Strobed
         /\ aw' = Bridge!NoBurst \/ aw'.addr \in Nat
         /\ aw' # Bridge!NoBurst => writing' = Bridge!NoBurst
<1>1. use.beats \subseteq Bridge!Strobed /\ use.writes \subseteq Nat
  BY BridgeAssumptions DEF Bridge!UseAssumption, Bridge!Bases, WriteEdge
<1>2. w' = Bridge!NoBeat \/ w' \in Bridge!Strobed
  BY <1>1 DEF WriteEdge, Bridge!OffersWrite, WriteBurstTypes
<1>3. aw' = Bridge!NoBurst \/ aw'.addr \in Nat
  BY <1>1 DEF WriteEdge, Bridge!OffersWrite, WriteBurstTypes, Bridge!Addresses
<1>4. aw' # Bridge!NoBurst => writing' = Bridge!NoBurst
  BY DEF WriteEdge, Bridge!OffersWrite, WriteBurstTypes, Bridge!TakesAddress, Bridge!Taken
<1> QED BY <1>2, <1>3, <1>4

\* Address and first beat are taken together.
LEMMA AcceptKeeps ==
  ASSUME WriteBurstInv, NEW c, NEW f, NEW takes, NEW answers, WriteEdge(c, f, takes, answers),
         Bridge!AcceptWrite(c)
  PROVE  WriteBurstInv'
<1>1. /\ wr_state = "IDLE" /\ aw # Bridge!NoBurst /\ w # Bridge!NoBeat /\ wr_state' = "LO_REQ"
      /\ wr_id' = aw.id /\ wr_base' = aw.addr /\ wr_len' = aw.len /\ wr_beat_cnt' = 0
      /\ wr_ok' = TRUE /\ wr_data' = w.data /\ wr_strb' = w.strb /\ wr_need_hi' = ("hi" \in w.strb)
  BY DEF WriteEdge, Bridge!AcceptWrite, Bridge!LatchBeat
<1>2. w \in Bridge!Strobed /\ aw.addr \in Nat /\ sent = 0 /\ ~lone /\ writing = Bridge!NoBurst /\ fw.addr = Bridge!NoWord
  BY <1>1 DEF WriteBurstInv, WriteBurstTypes
<1>3. Bridge!TakesAddress(c) /\ Bridge!TakesBeat(c) /\ ~Bridge!Ends(c) /\ c.wvalid
  BY <1>1 DEF WriteEdge, Bridge!TakesAddress, Bridge!TakesBeat, Bridge!Ends, Bridge!aw_ready,
     Bridge!w_ready, Bridge!b_valid
<1>4. writing' = aw /\ sent' = 1 /\ lone' = lone
  <2>1. Bridge!OffersWrite(c) /\ c.aw = aw /\ lone \in BOOLEAN
    BY DEF WriteEdge, WriteBurstInv, WriteBurstTypes
  <2>2. writing' = aw /\ sent' = 1
    BY <1>2, <1>3, <2>1 DEF Bridge!OffersWrite, Bridge!Taken, Bridge!ToSend
  <2>3. lone' = lone
    BY <1>3, <2>1 DEF Bridge!OffersWrite
  <2> QED BY <2>2, <2>3
<1>5. fw' = fw /\ mem' = mem
  BY <1>1 DEF WriteEdge, Bridge!FabricWrites, Bridge!m_awvalid, Bridge!m_bready
<1>6. mem = want
  <2>1. \A a \in Bridge!Words : ~Owed(a, "lo") /\ ~Owed(a, "hi")
    BY <1>1 DEF Owed, ToWrite
  <2>2. want = [a \in Bridge!Words |-> mem[a]] /\ mem \in [Bridge!Words -> Nat]
    BY <2>1 DEF WriteBurstInv, WriteBurstTypes, Overlaid
  <2> QED BY <2>2
<1>7. /\ want' = [a \in Bridge!Words |->
               IF \E h \in w.strb : Bridge!WordOf(aw.addr, h) = a /\ Bridge!WordOf(aw.addr, h) \notin BadWords
               THEN w.data[CHOOSE h \in Bridge!Halves : Bridge!WordOf(aw.addr, h) = a]
               ELSE want[a]]
      /\ faulted' = \E h \in w.strb : Bridge!WordOf(aw.addr, h) \in BadWords
      /\ nearBad' = \E h \in Bridge!Halves : Bridge!WordOf(aw.addr, h) \in BadWords
  <2>1. Bridge!Taken(c) = aw /\ aw.addr + sent = aw.addr
    BY <1>2, <1>3 DEF Bridge!Taken
  <2>2. Bridge!BeatAsked(c)
    BY DEF WriteEdge
  <2>3. /\ want' = [a \in Bridge!Words |->
               IF \E h \in w.strb : Bridge!WordOf(aw.addr, h) = a /\ Bridge!WordOf(aw.addr, h) \notin BadWords
               THEN w.data[CHOOSE h \in Bridge!Halves : Bridge!WordOf(aw.addr, h) = a]
               ELSE want[a]]
        /\ faulted' = ((~Bridge!TakesAddress(c) /\ faulted) \/ \E h \in w.strb : Bridge!WordOf(aw.addr, h) \in BadWords)
        /\ nearBad' = ((~Bridge!TakesAddress(c) /\ nearBad) \/ \E h \in Bridge!Halves : Bridge!WordOf(aw.addr, h) \in BadWords)
    <3> DEFINE d == Bridge!Taken(c).addr + sent
    <3>1. /\ want' = [a \in Bridge!Words |->
               IF \E h \in w.strb : Bridge!WordOf(d, h) = a /\ Bridge!WordOf(d, h) \notin BadWords
               THEN w.data[CHOOSE h \in Bridge!Halves : Bridge!WordOf(d, h) = a]
               ELSE want[a]]
          /\ faulted' = ((~Bridge!TakesAddress(c) /\ faulted) \/ \E h \in w.strb : Bridge!WordOf(d, h) \in BadWords)
          /\ nearBad' = ((~Bridge!TakesAddress(c) /\ nearBad) \/ \E h \in Bridge!Halves : Bridge!WordOf(d, h) \in BadWords)
      BY <1>3, <2>2 DEF Bridge!BeatAsked
    <3>2. d = aw.addr
      BY <2>1
    <3> HIDE DEF d
    <3> QED BY <3>1, <3>2
  <2> QED BY <1>3, <2>3, Zenon
<1>8. (WriteBeat)' = aw.addr
  BY <1>1, <1>2 DEF WriteBeat
<1>9. want' = Overlaid'
  BY <1>1, <1>2, <1>5, <1>6, <1>7, <1>8, BeatOverlaid DEF WriteBurstInv
<1>10. WriteBurstTypes'
  BY <1>1, <1>2, <1>4, <1>5, <1>7, WriteOffers DEF WriteBurstInv, WriteBurstTypes, Bridge!WrStates
<1>11. w.strb \subseteq Bridge!Halves /\ w.data \in [Bridge!Halves -> Nat]
  BY <1>2 DEF Bridge!Strobed
<1>12. \A h : Bridge!WordOf(WriteBeat, h)' = Bridge!WordOf(aw.addr, h)
  BY <1>8 DEF Bridge!WordOf
<1>13. \A h \in w.strb : ToWrite(h)'
  BY <1>1 DEF ToWrite
<1>14. BeatUnderWay'
  <2>1. /\ writing' # Bridge!NoBurst /\ wr_id' = writing'.id /\ wr_base' = writing'.addr
        /\ wr_len' = writing'.len /\ sent' = wr_beat_cnt' + 1 /\ wr_base' \in Nat
        /\ wr_beat_cnt' \in Nat /\ wr_strb' \subseteq Bridge!Halves /\ wr_data' \in [Bridge!Halves -> Nat]
        /\ wr_state' \notin {"HI_REQ", "HI_RSP", "RESP"} /\ wr_ok' = TRUE
    BY <1>1, <1>2, <1>4, <1>11
  <2>4. wr_need_hi' <=> "hi" \in wr_strb'
    BY <1>1, Zenon
  <2>2. (\E h \in Bridge!Halves : Bridge!WordOf(WriteBeat, h)' \in BadWords) => nearBad'
    BY <1>7, <1>12, Zenon
  <2>3. faulted' => \E h \in Bridge!Halves : ToWrite(h)' /\ Bridge!WordOf(WriteBeat, h)' \in BadWords
    BY <1>7, <1>11, <1>12, <1>13, Zenon
  <2> QED BY <2>1, <2>2, <2>3, <2>4 DEF BeatUnderWay
<1> QED BY <1>1, <1>2, <1>5, <1>9, <1>10, <1>14 DEF WriteBurstInv

\* Where the CPU hands nothing over and takes no answer, its account of
\* the burst stays.
LEMMA NothingHanded ==
  ASSUME WriteBurstTypes, NEW c, NEW f, NEW takes, NEW answers, WriteEdge(c, f, takes, answers),
         ~Bridge!TakesBeat(c), ~Bridge!TakesAddress(c), ~Bridge!Ends(c)
  PROVE  UNCHANGED <<writing, sent, lone, want, faulted, nearBad>>
<1>1. Bridge!OffersWrite(c) /\ Bridge!BeatAsked(c) /\ lone \in BOOLEAN
  BY DEF WriteEdge, WriteBurstTypes
<1>2. UNCHANGED <<writing, sent>>
  BY <1>1 DEF Bridge!OffersWrite, Bridge!Taken, Bridge!ToSend
<1>3. lone' = lone
  BY <1>1 DEF Bridge!OffersWrite
<1>4. UNCHANGED <<want, faulted, nearBad>>
  BY <1>1 DEF Bridge!BeatAsked
<1> QED BY <1>2, <1>3, <1>4

\* What is owed to memory stays where beat, strobes, data and memory do.
LEMMA OverlaidKept ==
  ASSUME UNCHANGED <<wr_base, wr_beat_cnt, wr_strb, wr_data, mem>>,
         \A h \in Bridge!Halves : ToWrite(h)' = ToWrite(h)
  PROVE  Overlaid' = Overlaid
<1>1. \A a \in Bridge!Words, h \in Bridge!Halves : Owed(a, h)' = Owed(a, h)
  BY DEF Owed, Bridge!WordOf, WriteBeat
<1> QED BY <1>1 DEF Overlaid, Bridge!Halves, Bridge!Words

\* Nothing is owed where no half is to write.
LEMMA NothingOwed ==
  ASSUME mem \in [Bridge!Words -> Nat], \A h \in Bridge!Halves : ~ToWrite(h)
  PROVE  Overlaid = mem
<1>1. \A a \in Bridge!Words : ~Owed(a, "lo") /\ ~Owed(a, "hi")
  BY DEF Owed, Bridge!Halves
<1>2. Overlaid = [a \in Bridge!Words |-> mem[a]]
  BY <1>1 DEF Overlaid
<1> QED BY <1>2

LEMMA AwaitKeeps ==
  ASSUME WriteBurstInv, NEW c, NEW f, NEW takes, NEW answers, WriteEdge(c, f, takes, answers),
         Bridge!AwaitWrite(c, f)
  PROVE  WriteBurstInv'
<1>1. UNCHANGED <<wr_state, wr_id, wr_base, wr_len, wr_beat_cnt, wr_data, wr_strb, wr_ok, wr_need_hi>>
  BY DEF Bridge!AwaitWrite, Bridge!wrVars
<1>2. c.awvalid = (aw # Bridge!NoBurst) /\ c.aw = aw /\ c.wvalid = (w # Bridge!NoBeat)
  BY DEF WriteEdge
<1>3. ~Bridge!TakesBeat(c) /\ ~Bridge!Ends(c)
  BY <1>2 DEF Bridge!AwaitWrite, Bridge!TakesBeat, Bridge!w_ready, Bridge!Ends, Bridge!b_valid,
     Bridge!m_awvalid, Bridge!m_bready
<1>4. fw' = fw /\ mem' = mem
  BY DEF WriteEdge, Bridge!FabricWrites, Bridge!AwaitWrite, Bridge!m_awvalid, Bridge!m_bready
<1>5. (\A h \in Bridge!Halves : ToWrite(h)' = ToWrite(h)) /\ Overlaid' = Overlaid
  <2>1. \A h \in Bridge!Halves : ToWrite(h)' = ToWrite(h)
    BY <1>1 DEF ToWrite
  <2> QED BY <1>1, <1>4, <2>1, OverlaidKept
<1>6. UNCHANGED <<want, faulted, nearBad, sent>>
  BY <1>3 DEF WriteEdge, Bridge!BeatAsked, Bridge!OffersWrite, Bridge!ToSend
<1>7. \A h : Bridge!WordOf(WriteBeat, h)' = Bridge!WordOf(WriteBeat, h) /\ (h \in wr_strb)' = (h \in wr_strb)
  BY <1>1 DEF WriteBeat, Bridge!WordOf
<1>8. CASE Bridge!TakesAddress(c)
  <2>1. wr_state = "IDLE" /\ aw # Bridge!NoBurst /\ w = Bridge!NoBeat /\ writing' = aw /\ lone' = TRUE
    <3>1. wr_state = "IDLE" /\ aw # Bridge!NoBurst /\ w = Bridge!NoBeat
      BY <1>2, <1>3, <1>8 DEF Bridge!TakesAddress, Bridge!aw_ready, Bridge!TakesBeat, Bridge!w_ready
    <3>2. writing' = aw
      BY <1>2, <1>3, <1>8 DEF WriteEdge, Bridge!OffersWrite, Bridge!Taken
    <3>3. lone' = TRUE
      BY <1>2, <1>8, <3>1 DEF WriteEdge, Bridge!OffersWrite
    <3> QED BY <3>1, <3>2, <3>3
  <2>2. WriteBurstTypes'
    BY <1>1, <1>4, <1>6, <2>1, WriteOffers DEF WriteBurstInv, WriteBurstTypes
  <2> QED BY <1>1, <1>4, <1>5, <1>6, <2>1, <2>2 DEF WriteBurstInv
<1>9. CASE ~Bridge!TakesAddress(c)
  <2>1. UNCHANGED <<writing, sent, lone, want, faulted, nearBad>>
    BY <1>3, <1>9, NothingHanded DEF WriteBurstInv
  <2>2. WriteBurstTypes'
    BY <1>1, <1>4, <2>1, WriteOffers DEF WriteBurstInv, WriteBurstTypes
  <2>3. BeatUnderWay => BeatUnderWay'
    BY <1>1, <1>5, <1>7, <2>1 DEF BeatUnderWay
  <2>4. \A h \in Bridge!Halves : Sends(h) => Sends(h)'
    BY <1>1, <1>4, <1>7 DEF Sends
  <2> QED BY <1>1, <1>4, <1>5, <2>1, <2>2, <2>3, <2>4 DEF WriteBurstInv, Bridge!Halves
<1> QED BY <1>8, <1>9

LEMMA IssueKeeps ==
  ASSUME WriteBurstInv, NEW c, NEW f, NEW takes, NEW answers, WriteEdge(c, f, takes, answers),
         Bridge!IssueWrite(f)
  PROVE  WriteBurstInv'
<1>1. /\ \/ wr_state = "LO_REQ" /\ wr_state' = "LO_RSP"
         \/ wr_state = "HI_REQ" /\ wr_state' = "HI_RSP"
      /\ UNCHANGED <<wr_id, wr_base, wr_len, wr_beat_cnt, wr_data, wr_strb, wr_ok, wr_need_hi>>
  BY DEF Bridge!IssueWrite, Bridge!m_awvalid
<1>2. ~Bridge!TakesBeat(c) /\ ~Bridge!Ends(c) /\ ~Bridge!TakesAddress(c)
  BY <1>1 DEF Bridge!TakesBeat, Bridge!w_ready, Bridge!Ends, Bridge!b_valid,
     Bridge!TakesAddress, Bridge!aw_ready
<1>3. UNCHANGED <<writing, sent, lone, want, faulted, nearBad>>
  BY <1>2, NothingHanded DEF WriteBurstInv
<1>4. fw' = [addr |-> Bridge!m_awaddr, strb |-> Bridge!m_wstrb, data |-> Bridge!m_wdata] /\ mem' = mem
  BY <1>1 DEF WriteEdge, Bridge!FabricWrites, Bridge!IssueWrite, Bridge!m_awvalid, Bridge!m_bready
<1>5. \A h \in Bridge!Halves : ToWrite(h)' = ToWrite(h)
  BY <1>1 DEF ToWrite, Bridge!Halves
<1>6. \A h : Bridge!WordOf(WriteBeat, h)' = Bridge!WordOf(WriteBeat, h)
  BY <1>1 DEF WriteBeat, Bridge!WordOf
<1>7. Overlaid' = Overlaid
  BY <1>1, <1>4, <1>5, OverlaidKept
<1>8. BeatUnderWay'
  BY <1>1, <1>3, <1>5, <1>6 DEF WriteBurstInv, BeatUnderWay
<1>9. WriteBurstTypes'
  BY <1>1, <1>3, <1>4, WriteOffers DEF WriteBurstInv, WriteBurstTypes, Bridge!WrStates
<1>10. wr_state = "LO_REQ" => Sends("lo")'
  BY <1>1, <1>4, <1>6 DEF Sends, Bridge!m_awaddr, Bridge!m_wstrb, Bridge!m_wdata, Bridge!WordOf,
     WriteBeat, Bridge!wr_cur_addr
<1>11. wr_state = "HI_REQ" => Sends("hi")'
  BY <1>1, <1>4, <1>6 DEF Sends, Bridge!m_awaddr, Bridge!m_wstrb, Bridge!m_wdata, Bridge!WordOf,
     WriteBeat, Bridge!wr_cur_addr
<1> QED BY <1>1, <1>3, <1>7, <1>8, <1>9, <1>10, <1>11 DEF WriteBurstInv

LEMMA EndKeeps ==
  ASSUME WriteBurstInv, NEW c, NEW f, NEW takes, NEW answers, WriteEdge(c, f, takes, answers),
         Bridge!EndBurst
  PROVE  WriteBurstInv'
<1>1. /\ wr_state = "NEXT" /\ wr_state' = "RESP" /\ wr_beat_cnt = wr_len
      /\ UNCHANGED <<wr_id, wr_base, wr_len, wr_beat_cnt, wr_data, wr_strb, wr_ok, wr_need_hi>>
  BY DEF Bridge!EndBurst
<1>2. ~Bridge!TakesBeat(c) /\ ~Bridge!Ends(c) /\ ~Bridge!TakesAddress(c)
  BY <1>1 DEF Bridge!TakesBeat, Bridge!w_ready, Bridge!Ends, Bridge!b_valid,
     Bridge!TakesAddress, Bridge!aw_ready
<1>3. UNCHANGED <<writing, sent, lone, want, faulted, nearBad>>
  BY <1>2, NothingHanded DEF WriteBurstInv
<1>4. fw' = fw /\ mem' = mem
  BY <1>1 DEF WriteEdge, Bridge!FabricWrites, Bridge!m_awvalid, Bridge!m_bready
<1>5. \A h \in Bridge!Halves : ToWrite(h)' = ToWrite(h)
  BY <1>1 DEF ToWrite
<1>6. \A h : Bridge!WordOf(WriteBeat, h)' = Bridge!WordOf(WriteBeat, h)
  BY <1>1 DEF WriteBeat, Bridge!WordOf
<1>7. Overlaid' = Overlaid
  BY <1>1, <1>4, <1>5, OverlaidKept
<1>8. BeatUnderWay'
  BY <1>1, <1>3, <1>5, <1>6 DEF WriteBurstInv, BeatUnderWay
<1>9. WriteBurstTypes'
  BY <1>1, <1>3, <1>4, WriteOffers DEF WriteBurstInv, WriteBurstTypes, Bridge!WrStates
<1> QED BY <1>1, <1>3, <1>4, <1>7, <1>8, <1>9 DEF WriteBurstInv

LEMMA RespondKeeps ==
  ASSUME WriteBurstInv, NEW c, NEW f, NEW takes, NEW answers, WriteEdge(c, f, takes, answers),
         Bridge!Respond(c)
  PROVE  WriteBurstInv'
<1>1. /\ wr_state = "RESP" /\ wr_state' = "IDLE" /\ c.bready
      /\ UNCHANGED <<wr_id, wr_base, wr_len, wr_beat_cnt, wr_data, wr_strb, wr_ok, wr_need_hi>>
  BY DEF Bridge!Respond
<1>2. ~Bridge!TakesBeat(c) /\ Bridge!Ends(c) /\ ~Bridge!TakesAddress(c)
  BY <1>1 DEF Bridge!TakesBeat, Bridge!w_ready, Bridge!Ends, Bridge!b_valid,
     Bridge!TakesAddress, Bridge!aw_ready
<1>3. /\ writing' = Bridge!NoBurst /\ sent' = 0 /\ ~lone /\ lone' = lone
      /\ UNCHANGED <<want, faulted, nearBad>>
  <2>1. Bridge!OffersWrite(c) /\ Bridge!BeatAsked(c) /\ ~lone /\ lone \in BOOLEAN
    BY <1>1 DEF WriteEdge, WriteBurstInv, WriteBurstTypes
  <2>2. writing' = Bridge!NoBurst /\ sent' = 0
    BY <1>2, <2>1 DEF Bridge!OffersWrite
  <2>3. lone' = lone
    BY <1>2, <2>1 DEF Bridge!OffersWrite
  <2>4. UNCHANGED <<want, faulted, nearBad>>
    BY <1>2, <2>1 DEF Bridge!BeatAsked
  <2> QED BY <2>1, <2>2, <2>3, <2>4
<1>4. fw' = fw /\ mem' = mem
  BY <1>1 DEF WriteEdge, Bridge!FabricWrites, Bridge!m_awvalid, Bridge!m_bready
<1>5. \A h \in Bridge!Halves : ToWrite(h)' = ToWrite(h)
  BY <1>1 DEF ToWrite
<1>6. Overlaid' = Overlaid
  BY <1>1, <1>4, <1>5, OverlaidKept
<1>7. WriteBurstTypes'
  BY <1>1, <1>3, <1>4, WriteOffers DEF WriteBurstInv, WriteBurstTypes, Bridge!WrStates
<1> QED BY <1>1, <1>3, <1>4, <1>6, <1>7 DEF WriteBurstInv

LEMMA NextKeeps ==
  ASSUME WriteBurstInv, NEW c, NEW f, NEW takes, NEW answers, WriteEdge(c, f, takes, answers),
         Bridge!NextBeat(c)
  PROVE  WriteBurstInv'
<1>1. /\ wr_state = "NEXT" /\ wr_state' = "LO_REQ" /\ wr_beat_cnt # wr_len
      /\ wr_beat_cnt' = wr_beat_cnt + 1 /\ wr_data' = w.data /\ wr_strb' = w.strb
      /\ wr_need_hi' = ("hi" \in w.strb)
      /\ UNCHANGED <<wr_id, wr_base, wr_len, wr_ok>> /\ w # Bridge!NoBeat /\ c.w = w /\ c.wvalid
  BY DEF Bridge!NextBeat, Bridge!LatchBeat, WriteEdge
<1>2. Bridge!TakesBeat(c) /\ ~Bridge!Ends(c) /\ ~Bridge!TakesAddress(c)
  BY <1>1 DEF Bridge!TakesBeat, Bridge!w_ready, Bridge!Ends, Bridge!b_valid,
     Bridge!TakesAddress, Bridge!aw_ready
<1>3. BeatUnderWay /\ w \in Bridge!Strobed /\ fw.addr = Bridge!NoWord /\ ~lone /\ lone \in BOOLEAN
      /\ (\A h \in Bridge!Halves : ~ToWrite(h))
  BY <1>1 DEF WriteBurstInv, WriteBurstTypes, ToWrite
<1>4. writing' = writing /\ sent' = sent + 1 /\ lone' = lone
  <2>1. Bridge!OffersWrite(c)
    BY DEF WriteEdge
  <2>2. writing' = writing /\ sent' = sent + 1
    BY <1>2, <2>1 DEF Bridge!OffersWrite, Bridge!Taken, Bridge!ToSend
  <2>3. lone' = lone
    BY <1>2, <1>3, <2>1 DEF Bridge!OffersWrite
  <2> QED BY <2>2, <2>3
<1>5. fw' = fw /\ mem' = mem
  BY <1>1 DEF WriteEdge, Bridge!FabricWrites, Bridge!m_awvalid, Bridge!m_bready
<1>6. mem = want
  BY <1>3, NothingOwed DEF WriteBurstInv, WriteBurstTypes
<1> DEFINE d == writing.addr + sent
<1>7. (WriteBeat)' = d /\ d \in Nat
  BY <1>1, <1>3 DEF WriteBeat, BeatUnderWay
<1>8. /\ want' = [a \in Bridge!Words |->
               IF \E h \in w.strb : Bridge!WordOf(d, h) = a /\ Bridge!WordOf(d, h) \notin BadWords
               THEN w.data[CHOOSE h \in Bridge!Halves : Bridge!WordOf(d, h) = a]
               ELSE want[a]]
      /\ faulted' = (faulted \/ \E h \in w.strb : Bridge!WordOf(d, h) \in BadWords)
      /\ nearBad' = (nearBad \/ \E h \in Bridge!Halves : Bridge!WordOf(d, h) \in BadWords)
  <2>1. Bridge!BeatAsked(c) /\ Bridge!Taken(c) = writing
    BY <1>2 DEF WriteEdge, Bridge!Taken
  <2>2. /\ want' = [a \in Bridge!Words |->
               IF \E h \in w.strb : Bridge!WordOf(Bridge!Taken(c).addr + sent, h) = a
                                    /\ Bridge!WordOf(Bridge!Taken(c).addr + sent, h) \notin BadWords
               THEN w.data[CHOOSE h \in Bridge!Halves : Bridge!WordOf(Bridge!Taken(c).addr + sent, h) = a]
               ELSE want[a]]
        /\ faulted' = ((~Bridge!TakesAddress(c) /\ faulted)
                         \/ \E h \in w.strb : Bridge!WordOf(Bridge!Taken(c).addr + sent, h) \in BadWords)
        /\ nearBad' = ((~Bridge!TakesAddress(c) /\ nearBad)
                         \/ \E h \in Bridge!Halves : Bridge!WordOf(Bridge!Taken(c).addr + sent, h) \in BadWords)
    BY <1>2, <2>1 DEF Bridge!BeatAsked
  <2> QED BY <1>2, <2>1, <2>2
<1> HIDE DEF d
<1>9. want' = Overlaid'
  BY <1>1, <1>3, <1>5, <1>6, <1>7, <1>8, BeatOverlaid DEF WriteBurstInv
<1>10. WriteBurstTypes'
  <2>1. faulted' \in BOOLEAN /\ nearBad' \in BOOLEAN
    BY <1>8
  <2> QED BY <1>1, <1>3, <1>4, <1>5, <2>1, WriteOffers DEF WriteBurstInv, WriteBurstTypes,
             Bridge!WrStates, BeatUnderWay
<1>11. w.strb \subseteq Bridge!Halves /\ w.data \in [Bridge!Halves -> Nat]
  BY <1>3 DEF Bridge!Strobed
<1>12. \A h : Bridge!WordOf(WriteBeat, h)' = Bridge!WordOf(d, h)
  BY <1>7 DEF Bridge!WordOf
<1>13. \A h \in w.strb : ToWrite(h)'
  BY <1>1 DEF ToWrite
<1>14. BeatUnderWay'
  <2>1. /\ writing' # Bridge!NoBurst /\ wr_id' = writing'.id /\ wr_base' = writing'.addr
        /\ wr_len' = writing'.len /\ sent' = wr_beat_cnt' + 1 /\ wr_base' \in Nat
        /\ wr_beat_cnt' \in Nat /\ wr_strb' \subseteq Bridge!Halves /\ wr_data' \in [Bridge!Halves -> Nat]
        /\ wr_state' \notin {"HI_REQ", "HI_RSP", "RESP"} /\ wr_ok' = wr_ok
    BY <1>1, <1>3, <1>4, <1>11 DEF BeatUnderWay
  <2>2. wr_need_hi' <=> "hi" \in wr_strb'
    BY <1>1, Zenon
  <2>3. ~wr_ok' \/ (\E h \in Bridge!Halves : Bridge!WordOf(WriteBeat, h)' \in BadWords) => nearBad'
    BY <1>3, <1>8, <1>12, <2>1, Zenon DEF BeatUnderWay
  <2>4. faulted' => ~wr_ok' \/ \E h \in Bridge!Halves : ToWrite(h)' /\ Bridge!WordOf(WriteBeat, h)' \in BadWords
    BY <1>3, <1>8, <1>11, <1>12, <1>13, <2>1, Zenon DEF BeatUnderWay
  <2> QED BY <2>1, <2>2, <2>3, <2>4 DEF BeatUnderWay
<1> QED BY <1>1, <1>3, <1>5, <1>9, <1>10, <1>14 DEF WriteBurstInv

\* The answer to a half that was written: the half is in memory, or its
\* fault is kept.
LEMMA ResponseKeeps ==
  ASSUME WriteBurstInv, NEW c, NEW f, NEW takes, NEW answers, WriteEdge(c, f, takes, answers),
         Bridge!TakeResponse(f)
  PROVE  WriteBurstInv'
<1> DEFINE h == IF wr_state = "LO_RSP" THEN "lo" ELSE "hi"
           word == Bridge!WordOf(WriteBeat, h)
           other == Bridge!WordOf(WriteBeat, "hi")
<1>1. /\ wr_state \in {"LO_RSP", "HI_RSP"} /\ f.bvalid
      /\ wr_state' = (IF wr_state = "LO_RSP" /\ wr_need_hi THEN "HI_REQ" ELSE "NEXT")
      /\ wr_ok' = (wr_ok /\ f.bok)
      /\ UNCHANGED <<wr_id, wr_base, wr_len, wr_beat_cnt, wr_data, wr_strb, wr_need_hi>>
  BY DEF Bridge!TakeResponse, Bridge!m_bready
<1>2. BeatUnderWay /\ WriteBurstTypes /\ want = Overlaid /\ Sends(h) /\ h \in Bridge!Halves
  BY <1>1 DEF WriteBurstInv, Bridge!Halves
<1>3. ~Bridge!TakesBeat(c) /\ ~Bridge!Ends(c) /\ ~Bridge!TakesAddress(c)
  BY <1>1 DEF Bridge!TakesBeat, Bridge!w_ready, Bridge!Ends, Bridge!b_valid,
     Bridge!TakesAddress, Bridge!aw_ready
<1>4. UNCHANGED <<writing, sent, lone, want, faulted, nearBad>>
  BY <1>2, <1>3, NothingHanded
<1>5. fw.addr = word /\ fw.strb = (h \in wr_strb) /\ fw.data = wr_data[h]
  BY <1>2 DEF Sends
<1>6. wr_ok' = (wr_ok /\ word \notin BadWords)
  BY <1>1, <1>5 DEF WriteEdge
<1>7. /\ fw' = [fw EXCEPT !.addr = Bridge!NoWord]
      /\ mem' = IF word \notin BadWords /\ h \in wr_strb THEN [mem EXCEPT ![word] = wr_data[h]] ELSE mem
  <2>1. Bridge!m_bready /\ ~Bridge!m_awvalid /\ Bridge!FabricWrites(f) /\ f.bok = (fw.addr \notin BadWords)
    BY <1>1 DEF Bridge!m_bready, Bridge!m_awvalid, WriteEdge
  <2>2. fw' = [fw EXCEPT !.addr = Bridge!NoWord]
    BY <1>1, <2>1 DEF Bridge!FabricWrites
  <2>3. mem' = IF f.bok /\ fw.strb THEN [mem EXCEPT ![fw.addr] = fw.data] ELSE mem
    BY <1>1, <2>1 DEF Bridge!FabricWrites
  <2> QED BY <1>5, <2>1, <2>2, <2>3, Zenon
<1>8. fw'.addr = Bridge!NoWord
  BY <1>2, <1>7 DEF Sends
<1>9. WriteBeat \in Nat /\ word \in Bridge!Words /\ other \in Bridge!Words
      /\ Bridge!WordOf(WriteBeat, "lo") # Bridge!WordOf(WriteBeat, "hi")
  <2>1. WriteBeat \in Nat
    BY <1>2 DEF BeatUnderWay, WriteBeat
  <2> QED BY <2>1, TwoWords
<1>10. wr_data[h] \in Nat /\ mem \in [Bridge!Words -> Nat]
  BY <1>2 DEF BeatUnderWay, WriteBurstTypes
<1>11. mem' \in [Bridge!Words -> Nat]
  <2> HIDE DEF h, word
  <2> QED BY <1>7, <1>9, <1>10
<1>12. \A g : Bridge!WordOf(WriteBeat, g)' = Bridge!WordOf(WriteBeat, g)
  BY <1>1 DEF WriteBeat, Bridge!WordOf
<1>13. /\ ~ToWrite("lo")'
       /\ ToWrite("hi")' <=> wr_state = "LO_RSP" /\ "hi" \in wr_strb
       /\ ToWrite("lo") <=> wr_state = "LO_RSP" /\ "lo" \in wr_strb
       /\ ToWrite("hi") <=> "hi" \in wr_strb
  <2>1. wr_need_hi <=> "hi" \in wr_strb
    BY <1>2 DEF BeatUnderWay
  <2> QED BY <1>1, <2>1 DEF ToWrite
<1>14. Overlaid' = Overlaid
  <2> DEFINE laid(a) == IF Owed(a, "lo") THEN wr_data["lo"]
                        ELSE IF Owed(a, "hi") THEN wr_data["hi"] ELSE mem[a]
  <2>1. ASSUME NEW a \in Bridge!Words PROVE laid(a)' = laid(a)
    <3>1. ~Owed(a, "lo")'
      BY <1>13 DEF Owed
    <3>2. Owed(a, "hi")' <=> a = other /\ a \notin BadWords /\ wr_state = "LO_RSP" /\ "hi" \in wr_strb
      BY <1>12, <1>13 DEF Owed
    <3>3. Owed(a, "hi") <=> a = other /\ a \notin BadWords /\ "hi" \in wr_strb
      BY <1>13 DEF Owed
    <3>4. Owed(a, "lo") <=> a = Bridge!WordOf(WriteBeat, "lo") /\ a \notin BadWords
                             /\ wr_state = "LO_RSP" /\ "lo" \in wr_strb
      BY <1>13 DEF Owed
    <3>5. mem'[a] = IF a = word /\ a \notin BadWords /\ h \in wr_strb THEN wr_data[h] ELSE mem[a]
      <4> HIDE DEF h, word
      <4> QED BY <1>7, <1>9, <1>10
    <3>6. CASE wr_state = "LO_RSP"
      BY <1>1, <1>9, <3>1, <3>2, <3>3, <3>4, <3>5, <3>6
    <3>7. CASE wr_state = "HI_RSP"
      BY <1>1, <1>9, <3>1, <3>2, <3>3, <3>4, <3>5, <3>7
    <3> QED BY <1>1, <3>6, <3>7
  <2>2. Overlaid = [a \in Bridge!Words |-> laid(a)] /\ Overlaid' = [a \in Bridge!Words |-> laid(a)']
    BY DEF Overlaid, Bridge!Words
  <2> HIDE DEF laid
  <2> QED BY <2>1, <2>2
<1>15. WriteBurstTypes'
  <2>1. wr_state' \in Bridge!WrStates /\ wr_ok' \in BOOLEAN /\ wr_state' # "IDLE" /\ ~lone
    BY <1>1, <1>2, <1>6 DEF WriteBurstTypes, Bridge!WrStates
  <2> QED BY <1>2, <1>4, <1>11, <2>1, WriteOffers DEF WriteBurstTypes, BeatUnderWay
<1>16. BeatUnderWay'
  <2>1. /\ wr_state' \notin {"HI_RSP", "RESP"} /\ (wr_state' = "HI_REQ" => "hi" \in wr_strb)
    BY <1>1, <1>2 DEF BeatUnderWay
  <2>2. ~wr_ok' \/ (\E g \in Bridge!Halves : Bridge!WordOf(WriteBeat, g) \in BadWords) => nearBad
    BY <1>2, <1>6 DEF BeatUnderWay
  <2>3. faulted => ~wr_ok' \/ \E g \in Bridge!Halves : ToWrite(g)' /\ Bridge!WordOf(WriteBeat, g) \in BadWords
    <3>1. CASE ~wr_ok
      BY <1>6, <3>1
    <3>2. ASSUME NEW g \in Bridge!Halves, ToWrite(g), Bridge!WordOf(WriteBeat, g) \in BadWords
          PROVE  ~wr_ok' \/ \E k \in Bridge!Halves : ToWrite(k)' /\ Bridge!WordOf(WriteBeat, k) \in BadWords
      <4>1. g = h \/ ToWrite(g)'
        BY <1>1, <1>13, <3>2 DEF Bridge!Halves
      <4> QED BY <1>6, <3>2, <4>1
    <3> QED BY <1>2, <3>1, <3>2 DEF BeatUnderWay
  <2> QED BY <1>1, <1>2, <1>4, <1>12, <2>1, <2>2, <2>3 DEF BeatUnderWay
<1> QED BY <1>1, <1>2, <1>4, <1>8, <1>14, <1>15, <1>16 DEF WriteBurstInv

LEMMA BurstWriteStep ==
  ASSUME WriteBurstInv, NEW c, NEW f, NEW takes, NEW answers, WriteEdge(c, f, takes, answers)
  PROVE  WriteBurstInv'
<1>1. Bridge!WritePath(c, f)
  BY DEF WriteEdge
<1> QED BY <1>1, AcceptKeeps, IssueKeeps, ResponseKeeps, EndKeeps, NextKeeps, RespondKeeps,
           AwaitKeeps DEF Bridge!WritePath

LEMMA WrittenFromInv == WriteBurstInv => Bridge!BurstWritten /\ Bridge!LoneForgotten
<1> SUFFICES ASSUME WriteBurstInv PROVE Bridge!BurstWritten /\ Bridge!LoneForgotten
  OBVIOUS
<1>1. wr_state \in {"IDLE", "NEXT", "RESP"} => mem = want
  <2> SUFFICES ASSUME wr_state \in {"IDLE", "NEXT", "RESP"} PROVE mem = want
    OBVIOUS
  <2>1. \A h \in Bridge!Halves : ~ToWrite(h)
    BY DEF ToWrite
  <2> QED BY <2>1, NothingOwed DEF WriteBurstInv, WriteBurstTypes
<1>2. Bridge!BurstWritten
  <2> SUFFICES ASSUME wr_state = "RESP" PROVE Bridge!BurstWritten
    BY DEF Bridge!BurstWritten, Bridge!b_valid
  <2>1. BeatUnderWay /\ \A h \in Bridge!Halves : ~ToWrite(h)
    BY DEF WriteBurstInv, ToWrite
  <2> QED BY <1>1, <2>1 DEF Bridge!BurstWritten, BeatUnderWay
<1>3. Bridge!LoneForgotten
  BY <1>1 DEF Bridge!LoneForgotten, WriteBurstInv, WriteBurstTypes
<1> QED BY <1>2, <1>3

LEMMA BridgeStarts == Bridge!Init => ReadBurstInv /\ WriteBurstInv
<1> SUFFICES ASSUME Bridge!Init PROVE ReadBurstInv /\ WriteBurstInv
  OBVIOUS
<1>1. ReadBurstInv
  BY DEF Bridge!Init, Bridge!BridgeInit, ReadBurstInv, Bridge!RdStates, Bridge!NoWord,
     Bridge!NoBurst
<1>2. WriteBurstTypes /\ fw.addr = Bridge!NoWord
  BY BridgeAssumptions DEF Bridge!Init, Bridge!BridgeInit, WriteBurstTypes, Bridge!WrStates,
     Bridge!UseAssumption
<1>3. Overlaid = mem
  <2>1. \A h \in Bridge!Halves : ~ToWrite(h)
    BY DEF Bridge!Init, Bridge!BridgeInit, ToWrite
  <2> QED BY <1>2, <2>1, NothingOwed DEF WriteBurstTypes
<1>4. WriteBurstInv
  BY <1>2, <1>3 DEF Bridge!Init, Bridge!BridgeInit, WriteBurstInv
<1> QED BY <1>1, <1>4

LEMMA BridgeSteps ==
  ASSUME ReadBurstInv, WriteBurstInv, use \in Uses, Bridge!Edge
  PROVE  ReadBurstInv' /\ WriteBurstInv' /\ use' \in Uses
<1>1. PICK rready \in BOOLEAN, bready \in BOOLEAN, takesR \in BOOLEAN, answersR \in BOOLEAN,
        takesW \in BOOLEAN, answersW \in BOOLEAN :
        Bridge!Side(Bridge!Port(rready, bready),
                         Bridge!Fabric(Bridge!FabricRead(takesR, answersR), Bridge!FabricWrite(takesW, answersW)))
  <2>1. \A asked : Bridge!Whether(asked) \subseteq BOOLEAN
    BY DEF Bridge!Whether
  <2>2. PICK rready \in Bridge!Whether(Bridge!r_valid), bready \in Bridge!Whether(Bridge!b_valid),
          takesR \in Bridge!Whether(Bridge!m_arvalid), answersR \in Bridge!Whether(fr # Bridge!NoWord),
          takesW \in Bridge!Whether(Bridge!m_awvalid), answersW \in Bridge!Whether(fw.addr # Bridge!NoWord) :
          /\ Bridge!Side(Bridge!Port(rready, bready),
                         Bridge!Fabric(Bridge!FabricRead(takesR, answersR), Bridge!FabricWrite(takesW, answersW)))
          /\ Bridge!Paced(rready, bready, takesR, answersR, takesW, answersW)
    BY DEF Bridge!Edge
  <2>3. /\ rready \in BOOLEAN /\ bready \in BOOLEAN /\ takesR \in BOOLEAN
        /\ answersR \in BOOLEAN /\ takesW \in BOOLEAN /\ answersW \in BOOLEAN
    BY <2>1, Zenon
  <2> QED BY <2>2, <2>3, Zenon
<1> DEFINE c == Bridge!Port(rready, bready)
           r == Bridge!FabricRead(takesR, answersR)
           b == Bridge!FabricWrite(takesW, answersW)
           f == Bridge!Fabric(r, b)
<1>2. /\ Bridge!ReadPath(c, f) /\ Bridge!WritePath(c, f) /\ Bridge!FabricReads(f) /\ Bridge!FabricWrites(f) /\ Bridge!OffersRead
      /\ Bridge!ReadProgress(c, f) /\ Bridge!OffersWrite(c) /\ Bridge!BeatAsked(c) /\ use' = use
  BY <1>1 DEF Bridge!Side, Bridge!BridgeEdge
<1>3. /\ c.arvalid = (ar # Bridge!NoBurst) /\ c.ar = ar /\ c.rready = rready
      /\ c.awvalid = (aw # Bridge!NoBurst) /\ c.aw = aw /\ c.wvalid = (w # Bridge!NoBeat) /\ c.w = w
      /\ c.bready = bready
  BY DEF Bridge!Port
<1>4. /\ f.arready = r.arready /\ f.rvalid = r.rvalid /\ f.rok = r.rok /\ f.rdata = r.rdata
      /\ f.awready = b.awready /\ f.wready = b.wready /\ f.bvalid = b.bvalid /\ f.bok = b.bok
  BY DEF Bridge!Fabric
<1>5. /\ b.awready = (takesW /\ fw.addr = Bridge!NoWord) /\ b.wready = (takesW /\ fw.addr = Bridge!NoWord)
      /\ b.bvalid = (answersW /\ fw.addr # Bridge!NoWord) /\ b.bok = (fw.addr \notin BadWords)
  BY DEF Bridge!FabricWrite
<1> HIDE DEF c, f, b
<1>6. ReadBurstInv'
  BY <1>2, <1>3, <1>4, BurstReadStep
<1>7. WriteEdge(c, f, takesW, answersW)
  BY <1>2, <1>3, <1>4, <1>5 DEF WriteEdge
<1> QED BY <1>2, <1>6, <1>7, BurstWriteStep

LEMMA BridgeInvStep ==
  ASSUME use \in Uses /\ ReadBurstInv /\ WriteBurstInv, [MCNext]_<<block, vars, bridge>>
  PROVE  (use \in Uses /\ ReadBurstInv /\ WriteBurstInv)'
<1>1. CASE Bridge!Edge
  BY <1>1, BridgeSteps
<1>2. CASE bridge' = bridge
  <2>1. UNCHANGED <<use, rd_state, rd_id, rd_base, rd_len, rd_beat_cnt, rd_data_lo, rd_ok,
                    ar, reading, received, fr, seen>>
    BY <1>2 DEF bridge
  <2>2. UNCHANGED <<wr_state, wr_id, wr_base, wr_len, wr_beat_cnt, wr_data, wr_strb, wr_ok,
                    wr_need_hi, aw, w, writing, sent, fw, mem, want, faulted, nearBad, lone>>
    BY <1>2 DEF bridge
  <2>3. use' \in Uses /\ ReadBurstInv'
    BY <2>1 DEF ReadBurstInv, LowSeen, ReadBeat, Bridge!WordOf
  <2>4. \A h \in Bridge!Halves : /\ ToWrite(h)' = ToWrite(h) /\ (Sends(h) => Sends(h)')
                                 /\ Bridge!WordOf(WriteBeat, h)' = Bridge!WordOf(WriteBeat, h)
    BY <2>2 DEF ToWrite, Sends, WriteBeat, Bridge!WordOf
  <2>5. Overlaid' = Overlaid
    BY <2>2, <2>4, OverlaidKept
  <2>6. BeatUnderWay => BeatUnderWay'
    BY <2>2, <2>4 DEF BeatUnderWay
  <2>7. WriteBurstTypes => WriteBurstTypes'
    BY <2>2 DEF WriteBurstTypes
  <2>8. WriteBurstInv'
    BY <2>2, <2>4, <2>5, <2>6, <2>7 DEF WriteBurstInv, Bridge!Halves
  <2> QED BY <2>3, <2>8
<1> QED BY <1>1, <1>2 DEF MCNext, CrossbarNext, BridgeNext, Bridge!Next

\* Bursts through the bridge are whole: a beat that is given to the CPU is of its
\* burst, comes of its own two words, each read once, holds the low one as it was
\* read, and reports an error exactly when one of them failed; a write burst that is
\* answered is in memory, all of it and nothing else, with an error if a strobed byte
\* was for a word that fails, and only if a beat had such a word; and an address that
\* was taken alone leaves no trace (e1_cpu_axi_bridge.sv:181-417).
THEOREM BurstsAlwaysWhole == MCSpec => []BurstsWhole
<1> DEFINE Inv == use \in Uses /\ ReadBurstInv /\ WriteBurstInv
<1>1. MCInit => Inv
  <2>1. MCInit => Bridge!Init /\ use \in Uses
    BY DEF MCInit, Bridge!Init
  <2> QED BY <2>1, BridgeStarts
<1>2. Inv /\ [MCNext]_<<block, vars, bridge>> => Inv'
  BY BridgeInvStep
<1>3. Inv => BurstsWhole
  BY BeatFromInv, WrittenFromInv DEF BurstsWhole, BeatOfBurst, BurstWritten, LoneForgotten
<1> QED BY <1>1, <1>2, <1>3, PTL DEF MCSpec

-----------------------------------------------------------------------------
\* ------------------------------------------------------- the short watchdog

\* Where these environments are, a timeout is only late: all slaves answer in a
\* known time, or a master with a slave that does not has one request under way.
Timed == \A e \in Environments : TimesKnown(e)

\* One request of a channel, taken or not (n), with its age (g), and the queue it
\* may have entered: its watchdog has not run for longer than it has waited.
Waiting(q, n, g) ==
  /\ q.ost \in {0, 1} /\ q.wd \in Nat /\ n \in {0, 1} /\ (q.ost = 1 => n = 1)
  /\ n = 0 => g = << >>
  /\ n = 1 => \E v \in Nat : g = <<v>> /\ (q.ost = 1 => v >= q.wd \/ v >= ShortLimit)

\* An edge of that queue: the request ages as long as the watchdog counts, and a
\* watchdog that runs out has counted the limit.
LEMMA WaitingStep ==
  ASSUME NEW q, NEW n, NEW g, NEW push \in BOOLEAN, NEW to, NEW pop \in BOOLEAN,
         NEW n1 \in {0, 1}, Waiting(q, n, g),
         push => q.ost = 0 /\ n = 1, pop => q.ost = 1 /\ n1 = 0, ~pop => n1 >= n,
         NEW r, r = Short!QueueEdge(q, push, to, pop), NEW h, h = Short!Aged(g, pop, n1)
  PROVE  Waiting(r, n1, h) /\ (Short!WatchdogLate(q) => Short!Old(g))
<1> DEFINE late == q.ost > 0 /\ q.wd >= ShortLimit
<1>1. /\ r.ost = (IF pop THEN q.ost - 1 ELSE IF push THEN q.ost + 1 ELSE q.ost)
      /\ r.wd = (IF q.ost = 0 THEN 0 ELSE IF ~late THEN q.wd + 1 ELSE IF pop THEN 0 ELSE q.wd)
      /\ late = Short!WatchdogLate(q)
  BY DEF Short!QueueEdge, Short!WatchdogLate
<1>2. /\ q.ost \in {0, 1} /\ q.wd \in Nat /\ n \in {0, 1} /\ (q.ost = 1 => n = 1)
      /\ n = 0 => g = << >>
  BY DEF Waiting
<1>3. ShortLimit \in Nat
  BY ShortAssumption
<1>4. n1 = 0 => h = << >>
  BY DEF Short!Aged
<1>5. n = 0 /\ n1 = 1 => h = <<0>>
  BY <1>2 DEF Short!Aged
<1>6. ASSUME NEW v \in Nat, g = <<v>>, n1 = 1, ~pop
      PROVE  h = <<IF v < ShortLimit THEN v + 1 ELSE v>>
  BY <1>6 DEF Short!Aged, Short!Later
<1>7. r.ost \in {0, 1} /\ r.wd \in Nat /\ (r.ost = 1 => n1 = 1)
  BY <1>1, <1>2
<1>8. ASSUME n1 = 1
      PROVE  \E v \in Nat : h = <<v>> /\ (r.ost = 1 => v >= r.wd \/ v >= ShortLimit)
  <2>1. ~pop
    BY <1>8
  <2>2. CASE n = 0
    BY <1>1, <1>2, <1>5, <1>8, <2>1, <2>2
  <2>3. CASE n = 1
    <3>1. PICK v \in Nat : g = <<v>> /\ (q.ost = 1 => v >= q.wd \/ v >= ShortLimit)
      BY <2>3 DEF Waiting
    <3> DEFINE u == IF v < ShortLimit THEN v + 1 ELSE v
    <3>2. h = <<u>> /\ u \in Nat
      BY <1>3, <1>6, <1>8, <2>1, <3>1
    <3>3. r.ost = 1 => u >= r.wd \/ u >= ShortLimit
      BY <1>1, <1>2, <1>3, <2>1, <3>1
    <3> QED BY <3>2, <3>3
  <2> QED BY <1>2, <2>2, <2>3
<1>9. late => Short!Old(g)
  <2> SUFFICES ASSUME late PROVE Short!Old(g)
    OBVIOUS
  <2>1. q.ost = 1 /\ q.wd >= ShortLimit /\ n = 1
    BY <1>2
  <2>2. PICK v \in Nat : g = <<v>> /\ (v >= q.wd \/ v >= ShortLimit)
    BY <2>1 DEF Waiting
  <2>3. 1 \in DOMAIN g /\ g[1] >= ShortLimit
    BY <1>2, <1>3, <2>1, <2>2
  <2> QED BY <2>3 DEF Short!Old
<1> QED BY <1>1, <1>4, <1>7, <1>8, <1>9 DEF Waiting

\* A master that has one request under way at most on each channel: its age is that
\* of the queue, and what is still on the way to the queue has not entered it.
AtMostOne(s) == s = << >> \/ \E x : s = <<x>>
LoneReads(m) ==
  /\ AtMostOne(reads[m]) /\ Waiting(rd[m], Len(reads[m]), ages[m].r)
  /\ ar_pip[m] # NoAddr => reads[m] # << >> /\ rd[m].ost = 0
LoneWrites(m) ==
  /\ AtMostOne(writes[m]) /\ AtMostOne(datas[m])
  /\ Waiting(wr[m], Fewer(Len(writes[m]), Len(datas[m])), ages[m].w)
  /\ aw_held[m] # NoAddr => writes[m] # << >> /\ wr[m].ost = 0 /\ aw_pip[m] = NoWrite
  /\ w_held[m] # NoData => datas[m] # << >> /\ wr[m].ost = 0 /\ aw_pip[m] = NoWrite
  /\ aw_pip[m] # NoWrite => writes[m] # << >> /\ datas[m] # << >> /\ wr[m].ost = 0
\* No watchdog runs out where all slaves answer; elsewhere each request is alone.
LateInv ==
  /\ env \in Environments
  /\ env.dead = {} => \A m \in Masters : /\ rd[m].ost \in Int /\ rd[m].wd \in Nat
                                         /\ wr[m].ost \in Int /\ wr[m].wd \in Nat
                                         /\ ~WatchdogLate(rd[m]) /\ ~WatchdogLate(wr[m])
  /\ env.dead # {} => \A m \in Masters : LoneReads(m) /\ LoneWrites(m)

\* The limit apart, the two crossbars are one.
LEMMA ShortAlike ==
  /\ Short!FromSlaves = FromSlaves /\ Short!Masters = Masters
  /\ Short!NoAddr = NoAddr /\ Short!NoData = NoData /\ Short!NoWrite = NoWrite
  /\ \A m, s : /\ Short!ar_pip_drain(m, s) = ar_pip_drain(m, s)
               /\ Short!aw_pip_drain(m, s) = aw_pip_drain(m, s)
               /\ Short!Paired(m, s) = Paired(m, s)
  /\ \A m, i, s : /\ Short!ReadDone(m, i, s) = ReadDone(m, i, s)
                  /\ Short!WriteDone(m, i, s) = WriteDone(m, i, s)
                  /\ Short!TakesRead(m, i, s) = TakesRead(m, i, s)
  /\ \A i \in Short!Inputs, m \in Masters :
       i[m].ar \in MayAsk(m, FromSlaves) /\ i[m].aw \in MayAddress(m) /\ i[m].w \in MaySend(m)
<1>1. /\ Short!NoAddr = NoAddr /\ Short!NoData = NoData /\ Short!Masters = Masters
      /\ Short!Slaves = Slaves /\ Short!NoSlave = NoSlave
  BY DEF Short!NoAddr, NoAddr, Short!NoData, NoData, Short!Masters, Masters, Short!Slaves, Slaves, Short!NoSlave, NoSlave
<1>2. Short!NoWrite = NoWrite /\ Short!Nobody = Nobody
  BY <1>1 DEF Short!NoWrite, NoWrite, Short!Nobody, Nobody
<1>3. Short!FromSlaves = FromSlaves
  BY <1>1, <1>2 DEF Short!FromSlaves, FromSlaves
<1>4. \A q : Short!Owes(q) = Owes(q) /\ Short!Full(q) = Full(q)
  BY DEF Short!Owes, Owes, Short!Full, Full
<1>5. \A C : Short!First(C) = First(C)
  BY DEF Short!First, First
<1>6. Short!rd_grant = rd_grant /\ Short!wr_grant = wr_grant
  BY <1>1, <1>2, <1>4, <1>5 DEF Short!rd_grant, rd_grant, Short!wr_grant, wr_grant, Short!rd_cand, rd_cand, Short!wr_cand, wr_cand
<1>7. \A m, s : /\ Short!ar_pip_drain(m, s) = ar_pip_drain(m, s)
               /\ Short!aw_pip_drain(m, s) = aw_pip_drain(m, s)
  BY <1>1, <1>6 DEF Short!ar_pip_drain, ar_pip_drain, Short!aw_pip_drain, aw_pip_drain
<1>8. \A m, s : /\ Short!rvalid(m, s) = rvalid(m, s) /\ Short!bvalid(m, s) = bvalid(m, s)
               /\ Short!arready(m, s) = arready(m, s) /\ Short!Paired(m, s) = Paired(m, s)
               /\ Short!awready(m) = awready(m) /\ Short!wready(m) = wready(m)
  BY <1>1, <1>2, <1>4, <1>7 DEF Short!rvalid, rvalid, Short!bvalid, bvalid, Short!arready, arready, Short!Paired, Paired, Short!awready, awready, Short!wready, wready
<1>9. \A m, i, s : /\ Short!ReadDone(m, i, s) = ReadDone(m, i, s)
                  /\ Short!WriteDone(m, i, s) = WriteDone(m, i, s)
                  /\ Short!TakesRead(m, i, s) = TakesRead(m, i, s)
  BY <1>1, <1>8 DEF Short!ReadDone, ReadDone, Short!WriteDone, WriteDone, Short!TakesRead, TakesRead
<1>10. \A m, s : /\ Short!MayAsk(m, s) = MayAsk(m, s) /\ Short!MayAddress(m) = MayAddress(m)
                /\ Short!MaySend(m) = MaySend(m)
  BY <1>1, <1>8 DEF Short!MayAsk, MayAsk, Short!MayAddress, MayAddress, Short!MaySend, MaySend, Short!Room, Room
<1>11. ASSUME NEW i \in Short!Inputs, NEW m \in Masters
       PROVE  i[m].ar \in MayAsk(m, FromSlaves) /\ i[m].aw \in MayAddress(m) /\ i[m].w \in MaySend(m)
  <2> DEFINE ask == [n \in Masters |-> MayAsk(n, FromSlaves)]
             address == [n \in Masters |-> MayAddress(n)]
             send == [n \in Masters |-> MaySend(n)]
  <2>1. /\ [n \in Short!Masters |-> Short!MayAsk(n, Short!FromSlaves)] = ask
        /\ [n \in Short!Masters |-> Short!MayAddress(n)] = address
        /\ [n \in Short!Masters |-> Short!MaySend(n)] = send
    BY <1>1, <1>3, <1>10
  <2> DEFINE take == [n \in Short!Masters |-> {FALSE, Short!rvalid(n, Short!FromSlaves)}]
             done == [n \in Short!Masters |-> {FALSE, Short!bvalid(n, Short!FromSlaves)}]
  <2> HIDE DEF ask, address, send
  <2>2. PICK c \in Short!Choices(ask) \X Short!Choices(address) \X Short!Choices(send)
                 \X Short!Choices(take) \X Short!Choices(done) :
          i = [n \in Short!Masters |-> [ar |-> c[1][n], aw |-> c[2][n], w |-> c[3][n],
                                        rready |-> c[4][n], bready |-> c[5][n]]]
    BY <1>11, <2>1 DEF Short!Inputs
  <2>3. /\ c[1] \in Short!Choices(ask) /\ c[2] \in Short!Choices(address)
        /\ c[3] \in Short!Choices(send)
    BY <2>2
  <2>4. i[m].ar = c[1][m] /\ i[m].aw = c[2][m] /\ i[m].w = c[3][m]
    BY <1>1, <2>2
  <2>5. c[1][m] \in ask[m] /\ c[2][m] \in address[m] /\ c[3][m] \in send[m]
    BY <1>1, <2>3 DEF Short!Choices
  <2> QED  BY <2>4, <2>5 DEF ask, address, send
<1> QED  BY <1>1, <1>2, <1>3, <1>7, <1>8, <1>9, <1>11

\* How many that is.
LEMMA LengthOfOne ==
  ASSUME NEW s, AtMostOne(s)  PROVE Len(s) \in {0, 1} /\ (Len(s) = 1 <=> s # << >>)
BY DEF AtMostOne

\* What comes and goes when one at most is under way: nothing comes while one is.
LEMMA Grows ==
  ASSUME NEW a, NEW x, NEW none, NEW pop \in BOOLEAN, AtMostOne(a), x = none \/ a = << >>,
         pop => a # << >>, NEW b, b = Short!Grow(a, x, none, pop)
  PROVE  /\ Len(a) \in {0, 1} /\ Len(b) \in {0, 1} /\ AtMostOne(b)
         /\ Len(a) = 1 <=> a # << >>
         /\ Len(b) = 1 <=> b # << >>
         /\ b # << >> <=> x # none \/ (a # << >> /\ ~pop)
<1>1. Len(a) \in {0, 1} /\ (Len(a) = 1 <=> a # << >>)
  BY DEF AtMostOne
<1>2. CASE a = << >>
  <2>1. b = IF x = none THEN << >> ELSE <<x>>
    BY <1>2 DEF Short!Grow
  <2>2. ~pop /\ Len(<<x>>) = 1 /\ <<x>> # << >>
    BY <1>2
  <2> QED  BY <1>1, <1>2, <2>1, <2>2 DEF AtMostOne
<1>3. CASE a # << >>
  <2>1. PICK y : a = <<y>>
    BY <1>3 DEF AtMostOne
  <2>2. x = none /\ Tail(a) = << >>
    BY <1>3, <2>1
  <2>3. b = IF pop THEN << >> ELSE a
    BY <1>3, <2>2 DEF Short!Grow
  <2> QED  BY <1>1, <1>3, <2>1, <2>2, <2>3 DEF AtMostOne
<1> QED  BY <1>2, <1>3

\* The reads of such a master, across an edge of the crossbar with the short limit.
LEMMA LoneReadsStep ==
  ASSUME LateInv, env.dead # {}, Timed, NEW i \in Short!Inputs, NEW answering,
         Short!Clock(i, answering), NEW m \in Masters
  PROVE  /\ LoneReads(m)'
         /\ Short!WatchdogLate(rd[m]) => Short!Old(ages[m].r)
<1> DEFINE push == ar_pip_drain(m, FromSlaves)
           pop == ReadDone(m, i, FromSlaves)
           x == i[m].ar
<1>0. /\ LoneReads(m) /\ env.inFlight <= 1 /\ env.inFlight \in Nat
  BY SystemAssumption DEF LateInv, Timed, TimesKnown
<1>a. push \in BOOLEAN /\ pop \in BOOLEAN
  BY DEF ar_pip_drain, ReadDone
<1>b. /\ AtMostOne(reads[m]) /\ Waiting(rd[m], Len(reads[m]), ages[m].r)
      /\ rd[m].ost \in {0, 1} /\ (rd[m].ost = 1 => Len(reads[m]) = 1)
      /\ ar_pip[m] # NoAddr => reads[m] # << >> /\ rd[m].ost = 0
  BY <1>0 DEF LoneReads, Waiting
<1>c. /\ Len(reads[m]) \in {0, 1} /\ (Len(reads[m]) = 1 <=> reads[m] # << >>)
  BY <1>b, LengthOfOne
<1>1. /\ rd'[m] = Short!QueueEdge(rd[m], push, ar_pip[m].to, pop)
      /\ reads'[m] = Short!Grow(reads[m], x, NoAddr, pop)
      /\ ages'[m].r = Short!Aged(ages[m].r, pop, Len(reads'[m]))
      /\ \/ ar_pip'[m] = x
         \/ ar_pip'[m] = IF push THEN NoAddr ELSE ar_pip[m]
  BY ShortAlike DEF Short!Clock, Short!InterconnectEdge, Short!QueuesEdge,
     Short!PipelineEdge, Short!Record
<1>2. push => ar_pip[m] # NoAddr
  <2>1. rd_grant \subseteq {n \in Masters : rd_cand(n)}
    BY FirstIsOne DEF rd_grant
  <2> QED BY <2>1 DEF ar_pip_drain, rd_cand
<1>3. pop => rd[m].ost = 1
  BY <1>0 DEF ReadDone, rvalid, Owes, NoSlave, Slaves, LoneReads, Waiting
<1>4. x = NoAddr \/ reads[m] = << >>
  <2>1. x # NoAddr => Len(reads[m]) < env.inFlight
    BY ShortAlike DEF MayAsk, Room
  <2> QED  BY <1>0, <1>c, <2>1
<1> HIDE DEF push, pop, x
<1>5. /\ Len(reads[m]) \in {0, 1} /\ Len(reads'[m]) \in {0, 1} /\ AtMostOne(reads'[m])
      /\ Len(reads[m]) = 1 <=> reads[m] # << >>
      /\ Len(reads'[m]) = 1 <=> reads'[m] # << >>
      /\ reads'[m] # << >> <=> x # NoAddr \/ (reads[m] # << >> /\ ~pop)
  <2>1. pop => reads[m] # << >>
    BY <1>3, <1>b, <1>c
  <2> QED  BY <1>1, <1>4, <1>a, <1>b, <2>1, Grows
<1>6. /\ Waiting(rd'[m], Len(reads'[m]), ages'[m].r)
      /\ Short!WatchdogLate(rd[m]) => Short!Old(ages[m].r)
  <2>1. push => rd[m].ost = 0 /\ Len(reads[m]) = 1
    BY <1>2, <1>b, <1>c
  <2>2. pop => Len(reads'[m]) = 0
    BY <1>3, <1>4, <1>5, <1>b, <1>c
  <2>3. ~pop => Len(reads'[m]) >= Len(reads[m])
    BY <1>5
  <2> DEFINE q == rd[m]  r == rd'[m]  n == Len(reads[m])  n1 == Len(reads'[m])
             g == ages[m].r  h == ages'[m].r  to == ar_pip[m].to
  <2>4. /\ Waiting(q, n, g) /\ n1 \in {0, 1} /\ (push => q.ost = 0 /\ n = 1)
        /\ (pop => q.ost = 1 /\ n1 = 0) /\ (~pop => n1 >= n)
        /\ r = Short!QueueEdge(q, push, to, pop) /\ h = Short!Aged(g, pop, n1)
    BY <1>1, <1>3, <1>5, <1>b, <2>1, <2>2, <2>3
  <2> HIDE DEF q, r, n, n1, g, h, to
  <2>5. Waiting(r, n1, h) /\ (Short!WatchdogLate(q) => Short!Old(g))
    BY <1>a, <2>4, WaitingStep
  <2> QED  BY <2>5 DEF q, r, n1, g, h
<1>7. ar_pip'[m] # NoAddr => reads'[m] # << >> /\ rd'[m].ost = 0
  <2> SUFFICES ASSUME ar_pip'[m] # NoAddr PROVE reads'[m] # << >> /\ rd'[m].ost = 0
    OBVIOUS
  <2>1. rd'[m].ost = IF pop THEN rd[m].ost - 1 ELSE IF push THEN rd[m].ost + 1 ELSE rd[m].ost
    BY <1>1 DEF Short!QueueEdge
  <2>2. CASE x # NoAddr
    <3>1. reads[m] = << >> /\ reads'[m] # << >>
      BY <1>4, <1>5, <2>2
    <3>2. rd[m].ost = 0 /\ ~push /\ ~pop
      BY <1>2, <1>3, <1>b, <1>c, <3>1
    <3> QED  BY <2>1, <3>1, <3>2
  <2>3. CASE x = NoAddr
    <3>1. ar_pip'[m] = ar_pip[m] /\ ar_pip[m] # NoAddr /\ ~push
      BY <1>1, <2>3
    <3>2. rd[m].ost = 0 /\ reads[m] # << >> /\ ~pop
      BY <1>3, <1>b, <3>1
    <3> QED  BY <1>5, <2>1, <3>1, <3>2
  <2> QED  BY <2>2, <2>3
<1> QED  BY <1>5, <1>6, <1>7 DEF LoneReads

\* And its writes, whose age counts from the later half.
LEMMA LoneWritesStep ==
  ASSUME LateInv, env.dead # {}, Timed, NEW i \in Short!Inputs, NEW answering,
         Short!Clock(i, answering), NEW m \in Masters
  PROVE  /\ LoneWrites(m)'
         /\ Short!WatchdogLate(wr[m]) => Short!Old(ages[m].w)
<1> DEFINE push == aw_pip_drain(m, FromSlaves)
           pop == WriteDone(m, i, FromSlaves)
           pair == Paired(m, FromSlaves)
           x == i[m].aw
           y == i[m].w
           n == Fewer(Len(writes[m]), Len(datas[m]))
           n1 == Fewer(Len(writes'[m]), Len(datas'[m]))
<1>0. LoneWrites(m) /\ env.inFlight <= 1 /\ env.inFlight \in Nat
  BY SystemAssumption DEF LateInv, Timed, TimesKnown
<1>a. push \in BOOLEAN /\ pop \in BOOLEAN /\ pair \in BOOLEAN
  BY DEF aw_pip_drain, WriteDone, Paired
<1>b. /\ AtMostOne(writes[m]) /\ AtMostOne(datas[m]) /\ Waiting(wr[m], n, ages[m].w)
      /\ wr[m].ost \in {0, 1} /\ (wr[m].ost = 1 => n = 1)
      /\ aw_held[m] # NoAddr => writes[m] # << >> /\ wr[m].ost = 0 /\ aw_pip[m] = NoWrite
      /\ w_held[m] # NoData => datas[m] # << >> /\ wr[m].ost = 0 /\ aw_pip[m] = NoWrite
      /\ aw_pip[m] # NoWrite => writes[m] # << >> /\ datas[m] # << >> /\ wr[m].ost = 0
  BY <1>0 DEF LoneWrites, Waiting
<1>c. /\ Len(writes[m]) \in {0, 1} /\ (Len(writes[m]) = 1 <=> writes[m] # << >>)
      /\ Len(datas[m]) \in {0, 1} /\ (Len(datas[m]) = 1 <=> datas[m] # << >>)
  BY <1>b, LengthOfOne
<1>d. n \in {0, 1} /\ (n = 1 <=> writes[m] # << >> /\ datas[m] # << >>)
  BY <1>c DEF Fewer
<1>1. /\ wr'[m] = Short!QueueEdge(wr[m], push, aw_pip[m].addr.to, pop)
      /\ writes'[m] = Short!Grow(writes[m], x, NoAddr, pop)
      /\ datas'[m] = Short!Grow(datas[m], y, NoData, pop)
      /\ aw_pip'[m] = IF pair THEN [addr |-> aw_held[m], data |-> w_held[m]]
                      ELSE IF push THEN NoWrite ELSE aw_pip[m]
      /\ \/ aw_held'[m] = x
         \/ aw_held'[m] = IF pair THEN NoAddr ELSE aw_held[m]
      /\ \/ w_held'[m] = y
         \/ w_held'[m] = IF pair THEN NoData ELSE w_held[m]
  BY ShortAlike DEF Short!Clock, Short!InterconnectEdge, Short!QueuesEdge,
     Short!PipelineEdge, Short!HoldEdge, Short!Record
<1>e. ages'[m].w = Short!Aged(ages[m].w, pop, n1)
  BY ShortAlike DEF Short!Clock, Short!Record, Short!Fewer, Fewer
<1>2. push => aw_pip[m] # NoWrite
  <2>1. wr_grant \subseteq {k \in Masters : wr_cand(k)}
    BY FirstIsOne DEF wr_grant
  <2> QED BY <2>1 DEF aw_pip_drain, wr_cand
<1>3. /\ pop => wr[m].ost = 1
      /\ pair => aw_held[m] # NoAddr /\ w_held[m] # NoData
  <2>1. pop => Owes(wr[m]) # "NONE"
    BY DEF WriteDone, bvalid, NoSlave, Slaves
  <2>2. Owes(wr[m]) # "NONE" => wr[m].ost = 1
    BY <1>b DEF Owes
  <2> QED  BY <2>1, <2>2 DEF Paired
<1>4. (x = NoAddr \/ writes[m] = << >>) /\ (y = NoData \/ datas[m] = << >>)
  <2>1. /\ x # NoAddr => Len(writes[m]) < env.inFlight
        /\ y # NoData => Len(datas[m]) < env.inFlight
    BY ShortAlike DEF MayAddress, MaySend, Room
  <2> QED  BY <1>0, <1>c, <2>1
<1> HIDE DEF push, pop, pair, x, y, n, n1
<1>f. pop => writes[m] # << >> /\ datas[m] # << >>
  BY <1>3, <1>b, <1>d
<1>5. /\ AtMostOne(writes'[m]) /\ Len(writes'[m]) \in {0, 1}
      /\ Len(writes'[m]) = 1 <=> writes'[m] # << >>
      /\ writes'[m] # << >> <=> x # NoAddr \/ (writes[m] # << >> /\ ~pop)
  BY <1>1, <1>4, <1>a, <1>b, <1>f, Grows
<1>6. /\ AtMostOne(datas'[m]) /\ Len(datas'[m]) \in {0, 1}
      /\ Len(datas'[m]) = 1 <=> datas'[m] # << >>
      /\ datas'[m] # << >> <=> y # NoData \/ (datas[m] # << >> /\ ~pop)
  BY <1>1, <1>4, <1>a, <1>b, <1>f, Grows
<1>7. n1 \in {0, 1} /\ (n1 = 1 <=> writes'[m] # << >> /\ datas'[m] # << >>)
  BY <1>5, <1>6 DEF Fewer, n1
<1>8. Waiting(wr'[m], n1, ages'[m].w) /\ (Short!WatchdogLate(wr[m]) => Short!Old(ages[m].w))
  <2> DEFINE q == wr[m]  r == wr'[m]  g == ages[m].w  h == ages'[m].w  to == aw_pip[m].addr.to
  <2>1. push => q.ost = 0 /\ n = 1
    BY <1>2, <1>b, <1>d
  <2>2. (pop => q.ost = 1 /\ n1 = 0) /\ (~pop => n1 >= n)
    BY <1>3, <1>4, <1>5, <1>6, <1>7, <1>d, <1>f
  <2>3. /\ Waiting(q, n, g)
        /\ r = Short!QueueEdge(q, push, to, pop) /\ h = Short!Aged(g, pop, n1)
    BY <1>1, <1>b, <1>e
  <2> HIDE DEF q, r, g, h, to
  <2>4. Waiting(r, n1, h) /\ (Short!WatchdogLate(q) => Short!Old(g))
    BY <1>7, <1>a, <2>1, <2>2, <2>3, WaitingStep
  <2> QED  BY <2>4 DEF q, r, g, h
<1>9. wr'[m].ost = IF pop THEN wr[m].ost - 1 ELSE IF push THEN wr[m].ost + 1 ELSE wr[m].ost
  BY <1>1 DEF Short!QueueEdge
<1>10. aw_held'[m] # NoAddr => writes'[m] # << >> /\ wr'[m].ost = 0 /\ aw_pip'[m] = NoWrite
  <2> SUFFICES ASSUME aw_held'[m] # NoAddr
               PROVE  writes'[m] # << >> /\ wr'[m].ost = 0 /\ aw_pip'[m] = NoWrite
    OBVIOUS
  <2>1. (x # NoAddr /\ writes[m] = << >>) \/ (aw_held[m] # NoAddr /\ ~pair)
    BY <1>1, <1>4
  <2>2. ~pair /\ ~push /\ ~pop /\ wr[m].ost = 0 /\ aw_pip[m] = NoWrite
    BY <1>2, <1>3, <1>b, <1>d, <1>f, <2>1
  <2> QED  BY <1>1, <1>5, <1>9, <1>b, <2>1, <2>2
<1>11. w_held'[m] # NoData => datas'[m] # << >> /\ wr'[m].ost = 0 /\ aw_pip'[m] = NoWrite
  <2> SUFFICES ASSUME w_held'[m] # NoData
               PROVE  datas'[m] # << >> /\ wr'[m].ost = 0 /\ aw_pip'[m] = NoWrite
    OBVIOUS
  <2>1. (y # NoData /\ datas[m] = << >>) \/ (w_held[m] # NoData /\ ~pair)
    BY <1>1, <1>4
  <2>2. ~pair /\ ~push /\ ~pop /\ wr[m].ost = 0 /\ aw_pip[m] = NoWrite
    BY <1>2, <1>3, <1>b, <1>d, <1>f, <2>1
  <2> QED  BY <1>1, <1>6, <1>9, <1>b, <2>1, <2>2
<1>12. aw_pip'[m] # NoWrite => writes'[m] # << >> /\ datas'[m] # << >> /\ wr'[m].ost = 0
  <2> SUFFICES ASSUME aw_pip'[m] # NoWrite
               PROVE  writes'[m] # << >> /\ datas'[m] # << >> /\ wr'[m].ost = 0
    OBVIOUS
  <2>1. pair \/ (aw_pip[m] # NoWrite /\ ~push)
    BY <1>1
  <2>2. writes[m] # << >> /\ datas[m] # << >> /\ wr[m].ost = 0 /\ ~push /\ ~pop
    BY <1>2, <1>3, <1>b, <2>1
  <2> QED  BY <1>5, <1>6, <1>9, <2>2
<1> QED  BY <1>5, <1>6, <1>8, <1>10, <1>11, <1>12 DEF LoneWrites, n1, Fewer

\* A queue's count and watchdog are numbers under either limit.
LEMMA NumbersStay ==
  ASSUME NEW q, q.ost \in Int, q.wd \in Nat, NEW push, NEW to, NEW pop,
         NEW r, r = QueueEdge(q, push, to, pop)
  PROVE  r.ost \in Int /\ r.wd \in Nat
<1>1. /\ r.ost = (IF pop THEN q.ost - 1 ELSE IF push THEN q.ost + 1 ELSE q.ost)
      /\ r.wd = (IF q.ost = 0 THEN 0 ELSE IF ~WatchdogLate(q) THEN q.wd + 1
                 ELSE IF pop THEN 0 ELSE q.wd)
  BY DEF QueueEdge
<1> QED  BY <1>1

\* Slaves that answer in a known time answer before the watchdog runs out.
LEMMA AnsweredInTime ==
  ASSUME NEW e \in Environments, e.within # AnyTime, NEW q, q.ost \in Int, q.wd \in Nat,
         NEW t \in {0, 1}, NEW p \in {0, 4},
         q.ost > 0 => q.wd + 2 * (q.ost - 1) + p < e.within - t
  PROVE  ~WatchdogLate(q)
<1>1. e.within \in 1 .. WdLimit /\ WdLimit \in Nat
  BY SystemAssumption, InterconnectAssumption DEF AnyTime
<1> QED  BY <1>1 DEF WatchdogLate

\* Every edge of the crossbar keeps this, and pulses timeout_irq for what is old only.
LEMMA LateInvStep ==
  ASSUME LateInv, Timed, CrossbarNext
  PROVE  /\ LateInv'
         /\ \A m \in Masters : timeout_irq'[m] => Short!Old(ages[m].r) \/ Short!Old(ages[m].w)
<1>1. CASE env.dead = {}
  <2>1. PICK i \in Inputs, answering \in SUBSET Asked : Clock(i, answering)
    BY <1>1 DEF CrossbarNext, Next
  <2>2. env.within # AnyTime /\ env \in Environments
    BY <1>1 DEF LateInv, Timed, TimesKnown
  <2>3. env' = env
    BY <2>1 DEF Clock
  <2>4. ASSUME NEW m \in Masters
        PROVE  /\ rd'[m].ost \in Int /\ rd'[m].wd \in Nat /\ wr'[m].ost \in Int /\ wr'[m].wd \in Nat
               /\ ~WatchdogLate(rd'[m]) /\ ~WatchdogLate(wr'[m])
    <3>1. /\ rd'[m] = QueueEdge(rd[m], ar_pip_drain(m, FromSlaves), ar_pip[m].to,
                                ReadDone(m, i, FromSlaves))
          /\ wr'[m] = QueueEdge(wr[m], aw_pip_drain(m, FromSlaves), aw_pip[m].addr.to,
                                WriteDone(m, i, FromSlaves))
      BY <2>1 DEF Clock, InterconnectEdge, QueuesEdge
    <3>2. /\ rd[m].ost \in Int /\ rd[m].wd \in Nat /\ wr[m].ost \in Int /\ wr[m].wd \in Nat
      BY <1>1 DEF LateInv
    <3>3. /\ rd'[m].ost \in Int /\ rd'[m].wd \in Nat /\ wr'[m].ost \in Int /\ wr'[m].wd \in Nat
      BY <3>1, <3>2, NumbersStay
    <3>4. /\ InTime(rd'[m], reader', ar_pip'[m] # NoAddr)
          /\ InTime(wr'[m], writer', aw_pip'[m] # NoWrite)
      BY <2>1, <2>2 DEF Clock
    <3>5. /\ \E t \in {0, 1}, p \in {0, 4} :
               rd'[m].ost > 0 => rd'[m].wd + 2 * (rd'[m].ost - 1) + p < env.within - t
          /\ \E t \in {0, 1}, p \in {0, 4} :
               wr'[m].ost > 0 => wr'[m].wd + 2 * (wr'[m].ost - 1) + p < env.within - t
      BY <3>4 DEF InTime
    <3> QED  BY <2>2, <3>3, <3>5, AnsweredInTime
  <2>5. \A m \in Masters : ~timeout_irq'[m]
    BY <1>1, <2>1 DEF Clock, InterconnectEdge, StatusEdge, LateInv
  <2> QED  BY <1>1, <2>2, <2>3, <2>4, <2>5 DEF LateInv, WatchdogLate
<1>2. CASE env.dead # {}
  <2>1. PICK i \in Short!Inputs, answering \in SUBSET Short!Asked : Short!Clock(i, answering)
    BY <1>2 DEF CrossbarNext, Short!Next
  <2>2. env' = env /\ env \in Environments
    BY <2>1 DEF Short!Clock, LateInv
  <2>3. \A m \in Masters : LoneReads(m)' /\ LoneWrites(m)'
    BY <1>2, <2>1, LoneReadsStep, LoneWritesStep
  <2>4. ASSUME NEW m \in Masters, timeout_irq'[m]
        PROVE  Short!Old(ages[m].r) \/ Short!Old(ages[m].w)
    <3>1. Short!WatchdogLate(rd[m]) \/ Short!WatchdogLate(wr[m])
      BY <2>1, <2>4, ShortAlike DEF Short!Clock, Short!InterconnectEdge, Short!StatusEdge
    <3> QED  BY <1>2, <2>1, <3>1, LoneReadsStep, LoneWritesStep
  <2> QED  BY <1>2, <2>2, <2>3, <2>4 DEF LateInv
<1> QED  BY <1>1, <1>2

\* For every limit of the watchdog timeout_irq is pulsed for a request older than
\* the limit only, where a slave may never answer and a master has one request
\* under way; where every slave answers within the limit, it is never pulsed
\* (e1_axi_lite_interconnect.sv, the watchdogs and timeout_irq).
THEOREM TimeoutsAlwaysLate == Timed => (MCSpec => ShortTimeoutOnlyLate)
<1> SUFFICES ASSUME Timed PROVE MCSpec => ShortTimeoutOnlyLate
  OBVIOUS
<1>1. MCInit => LateInv
  <2> SUFFICES ASSUME MCInit PROVE LateInv
    OBVIOUS
  <2>1. /\ env \in Environments
        /\ \A m \in Masters :
             /\ reads[m] = << >> /\ writes[m] = << >> /\ datas[m] = << >>
             /\ ages[m].r = << >> /\ ages[m].w = << >>
             /\ aw_held[m] = NoAddr /\ w_held[m] = NoData
             /\ ar_pip[m] = NoAddr /\ aw_pip[m] = NoWrite
             /\ rd[m].ost = 0 /\ rd[m].wd = 0 /\ wr[m].ost = 0 /\ wr[m].wd = 0
    BY DEF MCInit, Init, IcInit, EmptyQueue
  <2>2. \A m \in Masters : LoneReads(m) /\ LoneWrites(m)
    BY <2>1 DEF LoneReads, LoneWrites, AtMostOne, Waiting, Fewer
  <2>3. \A m \in Masters : ~WatchdogLate(rd[m]) /\ ~WatchdogLate(wr[m])
    BY <2>1 DEF WatchdogLate
  <2> QED  BY <2>1, <2>2, <2>3 DEF LateInv
<1>2. LateInv /\ [MCNext]_<<block, vars, bridge>> =>
        /\ LateInv'
        /\ [\A m \in Short!Masters : timeout_irq'[m] =>
              Short!Old(ages[m].r) \/ Short!Old(ages[m].w)]_Short!vars
  <2> SUFFICES ASSUME LateInv, [MCNext]_<<block, vars, bridge>>
               PROVE  /\ LateInv'
                      /\ [\A m \in Short!Masters : timeout_irq'[m] =>
                            Short!Old(ages[m].r) \/ Short!Old(ages[m].w)]_Short!vars
    OBVIOUS
  <2>1. CASE CrossbarNext
    BY <2>1, LateInvStep, ShortAlike
  <2>2. CASE UNCHANGED vars
    <3>1. /\ env' = env /\ rd' = rd /\ wr' = wr /\ reads' = reads /\ writes' = writes
          /\ datas' = datas /\ ages' = ages /\ ar_pip' = ar_pip /\ aw_pip' = aw_pip
          /\ aw_held' = aw_held /\ w_held' = w_held
      BY <2>2 DEF vars, icVars, envVars
    <3>2. LateInv'
      BY <3>1 DEF LateInv, LoneReads, LoneWrites, WatchdogLate
    <3>3. UNCHANGED Short!vars
      BY <2>2 DEF vars, icVars, envVars, Short!vars, Short!icVars, Short!envVars
    <3> QED  BY <3>2, <3>3
  <2> QED  BY <2>1, <2>2 DEF MCNext, BridgeNext
<1> QED  BY <1>1, <1>2, PTL DEF MCSpec, ShortTimeoutOnlyLate, Short!TimeoutOnlyLate
=============================================================================
