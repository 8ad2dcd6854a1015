----------------------------- MODULE NpuDriver -----------------------------
(***************************************************************************)
(* The Linux driver of the NPU, sw/linux/drivers/e1/e1-npu.c: the ioctls   *)
(* that run a scalar command or a GEMM and the one that submits a ring of  *)
(* descriptors, by several callers at the same time, on the NPU that       *)
(* NpuRuntime describes.  The first two hold the driver's mutex from their *)
(* first register write to their last read; the third takes no lock.  An   *)
(* ioctl polls CTRL_STATUS a bounded number of times, and reads its        *)
(* results back whatever the polls have found.                             *)
(*                                                                         *)
(* Ioctls that only read registers are left out: they change nothing.      *)
(***************************************************************************)
EXTENDS NpuRuntime, FiniteSets

CONSTANTS
    Callers,      \* threads that have the device open: numbers, the first free one enters
    PollLimit,    \* E1_NPU_DEFAULT_POLL_LIMIT
    MaxIoctls     \* bound: ioctls made

ASSUME DriverAssumption == Callers \subseteq Nat /\ PollLimit \in Nat \ {0} /\ MaxIoctls \in Nat

VARIABLES
    holder,    \* the caller that holds npu->lock, a set of at most one
    ioctl,     \* per caller, the ioctl it is in
    returned,  \* how one ended in the step before, or NoIoctl
    made       \* ioctls made
driverVars == <<regs, engine, status, holder, ioctl, returned, made>>
-----------------------------------------------------------------------------
IoctlStepsUnlocked ==
    [scalar |-> <<"param", "operands", "opcode", "clear", "start", "poll", "read">>,
     gemm   |-> <<"lock", "clear", "scratch", "config", "opcode", "clear", "start",
                  "poll", "read", "unlock">>,
     ring   |-> <<"param", "base", "head", "tail", "clear", "start", "poll", "read">>]

\* The accesses of each ioctl, in order: e1_npu_run_cmd, e1_npu_run_gemm_s8,
\* e1_npu_submit_descriptors.
IoctlSteps ==
    [scalar |-> <<"lock", "param", "operands", "opcode", "clear", "start", "poll", "read",
                  "unlock">>,
     gemm   |-> <<"lock", "clear", "scratch", "config", "opcode", "clear", "start", "poll",
                  "read", "unlock">>,
     ring   |-> <<"param", "base", "head", "tail", "clear", "start", "poll", "read">>]

\* met: another caller was in the driver at the same time, and one of the two
\* submits a ring.
NoIoctl == [kind |-> "none", op |-> "none", id |-> 0, at |-> 1, polls |-> 0, ret |-> "none",
            got |-> 0, late |-> FALSE, met |-> FALSE, again |-> FALSE]
Inside(c) == ioctl[c].kind # "none"

DriverInit ==
    /\ RuntimeInit
    /\ holder = {}
    /\ ioctl = [c \in Callers |-> NoIoctl]
    /\ returned = NoIoctl
    /\ made = 0

\* An ioctl whose arguments pass its checks.
Enter(c, kind) ==
    /\ ~Inside(c) /\ (\A k \in Callers : ~Inside(k) => c <= k) /\ made < MaxIoctls
    /\ LET Meets(k) == k # c /\ Inside(k) /\ "ring" \in {kind, ioctl[k].kind}
       IN  ioctl' = [k \in Callers |->
             IF k = c THEN [NoIoctl EXCEPT !.kind = kind, !.id = made + 1,
                              !.late = kind = "ring" /\ engine # Resting,
                              !.met = \E o \in Callers : Meets(o)]
             ELSE [ioctl[k] EXCEPT !.met = @ \/ Meets(k)]]
    /\ made' = made + 1 /\ returned' = NoIoctl
    /\ UNCHANGED <<regs, engine, status, holder>>

StepIs(c, step) == Inside(c) /\ IoctlSteps[ioctl[c].kind][ioctl[c].at] = step

\* The last access ends the ioctl.
Goes(c, new) ==
    IF new.at < Len(IoctlSteps[new.kind])
    THEN ioctl' = [ioctl EXCEPT ![c] = [new EXCEPT !.at = @ + 1]] /\ returned' = NoIoctl
    ELSE ioctl' = [ioctl EXCEPT ![c] = NoIoctl] /\ returned' = new

\* mutex_lock: whose command still runs by then was given up.
Lock(c) ==
    /\ StepIs(c, "lock") /\ holder = {}
    /\ holder' = {c}
    /\ Goes(c, [ioctl[c] EXCEPT !.late = engine # Resting])
    /\ UNCHANGED <<regs, engine, status, made>>

Unlock(c) ==
    /\ StepIs(c, "unlock")
    /\ holder' = {} /\ Goes(c, ioctl[c])
    /\ UNCHANGED <<regs, engine, status, made>>

\* writel: a register of the command, or one of the ring's.  A ring in which
\* registers of several submissions meet may be empty or not.
WriteRing(c) ==
    \E r \in RingRegs :
        /\ StepIs(c, r)
        /\ LET ring == [regs.ring EXCEPT ![r] = ioctl[c].id]
           IN \E q \in IF ring["head"] = ring["tail"] THEN {TRUE} ELSE BOOLEAN :
                regs' = [regs EXCEPT !.ring = ring, !.queued = IF r = "base" THEN @ ELSE q]
        /\ engine' = Mixed("ring") /\ UNCHANGED status

WriteRegister(c) ==
    /\ \/ /\ \E step \in {"param", "operands", "scratch", "config"} :
               StepIs(c, step) /\ Written(step, ioctl[c].kind, ioctl[c].id)
          /\ UNCHANGED status
       \/ WriteRing(c)
       \/ /\ StepIs(c, "clear")
          /\ status' = [done |-> FALSE, error |-> FALSE] /\ UNCHANGED <<regs, engine>>
       \/ StepIs(c, "start") /\ StartEngine /\ UNCHANGED regs
    /\ Goes(c, ioctl[c])
    /\ UNCHANGED <<holder, made>>

\* The scalar ioctl lets every opcode of four bits through, that of the GEMM and
\* those the NPU does not know included.
WriteOpcode(c) ==
    /\ StepIs(c, "opcode")
    /\ \E op \in IF ioctl[c].kind = "scalar" THEN {"scalar", GemmOp, "unknown"} ELSE {GemmOp} :
         Written("opcode", op, ioctl[c].id) /\ Goes(c, [ioctl[c] EXCEPT !.op = op])
    /\ UNCHANGED <<status, holder, made>>

\* e1_npu_wait_done
WaitDone(c) ==
    /\ StepIs(c, "poll")
    /\ LET Ends(ret) == Goes(c, [ioctl[c] EXCEPT !.ret = ret])
       IN  IF status.error THEN Ends("EIO")
           ELSE IF status.done THEN Ends("ok")
           ELSE IF ioctl[c].polls + 1 >= PollLimit THEN Ends("ETIMEDOUT")
           ELSE ioctl' = [ioctl EXCEPT ![c].polls = @ + 1] /\ returned' = NoIoctl
    /\ UNCHANGED <<regs, engine, status, holder, made>>

\* RESULT, the scratchpad, or what the ring left in it.
ReadResult(c) ==
    /\ StepIs(c, "read")
    /\ Goes(c, [ioctl[c] EXCEPT !.got = IF ioctl[c].kind = "scalar" THEN regs.result ELSE regs.scratch,
                  !.again = ioctl[c].kind = "gemm" /\ regs.param = 1])
    /\ UNCHANGED <<regs, engine, status, holder, made>>

NpuEnds == FinishCommand /\ returned' = NoIoctl /\ UNCHANGED <<holder, ioctl, made>>

DriverNext ==
    \/ \E c \in Callers :
         \/ \E kind \in DOMAIN IoctlSteps : Enter(c, kind)
         \/ Lock(c) \/ Unlock(c) \/ WriteRegister(c) \/ WriteOpcode(c) \/ WaitDone(c) \/ ReadResult(c)
    \/ NpuEnds

DriverSpec == DriverInit /\ [][DriverNext]_driverVars
-----------------------------------------------------------------------------
\* An ioctl that returns 0 returns what its own command computed, however many
\* callers there are, and only a ring or a command the NPU does not know is rejected:
\* unless a submission, which takes no lock, was in the driver at the same time, a
\* command that was given up still ran, or a GEMM started the ring of an earlier
\* submission again.  A scalar ioctl with the GEMM's opcode, which starts the last
\* GEMM again or is rejected when there was none, returns the result of another.  Nobody
\* but the ioctls that are inside holds the mutex.
OwnIoctl ==
    LET excused == returned.late \/ returned.met \/ returned.again
        raw == returned.kind = "scalar" /\ returned.op = GemmOp
    IN  /\ returned.ret = "ok" =>
             \/ excused
             \/ IF raw THEN returned.got # returned.id ELSE returned.got = returned.id
        /\ returned.ret = "EIO" => returned.kind = "ring" \/ returned.op = "unknown" \/ raw \/ excused
        /\ returned.op = "unknown" => returned.ret # "ok" \/ excused
        /\ \A c \in holder : Inside(c)
=============================================================================
