------------------------------- MODULE CopyJob -------------------------------
(***************************************************************************)
(* What the DMA engine promises to software.  A job, once accepted, is a   *)
(* snapshot of the request: up to four bytes at a time, in ascending       *)
(* order, move from job.src to job.dst, and "copied" says how many have    *)
(* landed.  A job that ends always says so: done, with error when only the *)
(* first "copied" bytes were moved.  Whatever else software writes while   *)
(* the job runs has no part in it.                                         *)
(***************************************************************************)
EXTENDS Integers

CONSTANTS AddrSpace, MemBytes, Addresses, Lengths

VARIABLES mem, job, copied, busy, done, error

jobVars == <<mem, job, copied, busy, done, error>>

At(base, i) == IF base + i < AddrSpace THEN base + i ELSE base + i - AddrSpace
Misaligned(j) == j.src % 4 # 0 \/ j.dst % 4 # 0

Init ==
  /\ mem = [a \in 0 .. MemBytes - 1 |-> a]
  /\ job = [src |-> 0, dst |-> 0, len |-> 0]
  /\ copied = 0
  /\ busy = FALSE /\ done = FALSE /\ error = FALSE

Submit(j) ==
  /\ ~busy
  /\ job' = j /\ copied' = 0
  /\ error' = Misaligned(j)
  /\ done' = (Misaligned(j) \/ j.len = 0)
  /\ busy' = ~done'
  /\ UNCHANGED mem

CopyBeat ==
  LET n    == IF job.len - copied >= 4 THEN 4 ELSE job.len - copied
      from == At(job.src, copied)
      to   == At(job.dst, copied)
  IN
  /\ busy /\ copied < job.len
  /\ from + n <= MemBytes /\ to + n <= MemBytes
  /\ mem' = [a \in 0 .. MemBytes - 1 |->
               IF a \in to .. to + n - 1 THEN mem[from + (a - to)] ELSE mem[a]]
  /\ copied' = copied + n
  /\ UNCHANGED <<job, busy, done, error>>

Succeed ==
  /\ busy /\ copied = job.len
  /\ busy' = FALSE /\ done' = TRUE
  /\ UNCHANGED <<mem, job, copied, error>>

(* Only an address that does not decode makes a job fail.                  *)
Fail ==
  /\ busy /\ copied < job.len
  /\ At(job.src, copied) >= MemBytes \/ At(job.dst, copied) >= MemBytes
  /\ busy' = FALSE /\ done' = TRUE /\ error' = TRUE
  /\ UNCHANGED <<mem, job, copied>>

Acknowledge ==
  /\ ~busy
  /\ done' = FALSE /\ error' = FALSE
  /\ UNCHANGED <<mem, job, copied, busy>>

Next ==
  \/ \E j \in [src : Addresses, dst : Addresses, len : Lengths] : Submit(j)
  \/ CopyBeat
  \/ Succeed
  \/ Fail
  \/ Acknowledge

Spec == Init /\ [][Next]_jobVars
=============================================================================
