---------------------------- MODULE MvpSimulator ----------------------------
(***************************************************************************)
(* scripts/run_mvp_simulator.py: one run of the aggregate goes through a   *)
(* table of thirteen commands, classifies how each one ended, reads the    *)
(* simulator's log once more for the markers of the NPU workload, and      *)
(* publishes build/reports/mvp_simulator.json through a temporary file.    *)
(* check_mvp_simulator.py and check_aosp_simulator_completion_gate.py read *)
(* the report.  Nothing keeps two runs apart: they share the log, the      *)
(* temporary file and the report.                                          *)
(*                                                                         *)
(* A transcript (the log of the generated system's simulator) is a record  *)
(* of what can be found in it: the firmware's and kernel's banners, all    *)
(* that the smoke check asks for, the markers of the NPU workload.         *)
(***************************************************************************)
EXTENDS Naturals, Sequences, FiniteSets, FiniteSetsExt

CONSTANTS Aggregates,        \* runs of the aggregate
          Logs,        \* what an attempt may write into the log
          Outcomes,    \* how each of the other commands may end
          Skips,       \* steps the caller may have told the run to skip
          Ladders,     \* how the rungs of the simulation ladder may end
          NpuInputs,   \* what the local NPU smoke may compute and find
          GateInputs,  \* what else the completion gate may read
          TargetInputs,  \* what else the minimum target's check may read
          MaxLogs      \* bound: logs written

VARIABLES log,         \* the simulator's log, with an identity for its digest
          sim,         \* what each run has gathered so far
          tmp,         \* mvp_simulator.json.tmp
          report       \* mvp_simulator.json
simVars == <<log, sim, tmp, report>>

ASSUME SimulatorAssumption ==
    /\ 0 \notin Aggregates /\ Cardinality(Aggregates) <= 2
    /\ \A t \in Logs : t.boot => t.banner
-----------------------------------------------------------------------------
\* The table of steps, in the order in which they run.
Step(n, t, s) == [name |-> n, tier |-> t, scope |-> s]

Steps == <<
    Step("android_sim_boot",               "os_boot",        "android_reference"),
    Step("android_sim_report_check",       "os_boot",        "android_reference"),
    Step("qemu_os_boot",                   "os_boot",        "qemu_virt_reference"),
    Step("cpu_ap_linux_evidence",          "os_prereq",      "our_chip_prereq"),
    Step("chipyard_verilator_preflight",   "os_prereq",      "our_chip_prereq"),
    Step("chipyard_generated_ap",          "os_prereq",      "our_chip_prereq"),
    Step("chipyard_payload_path",          "os_prereq",      "our_chip_prereq"),
    Step("chipyard_verilator_linux_attempt", "os_boot",      "our_chip_os_boot"),
    Step("chipyard_verilator_linux_smoke", "os_boot",        "our_chip_os_boot"),
    Step("npu_ml_smoke",                   "npu_ml",         "our_chip_npu_ml_local"),
    Step("qemu_firmware_smoke",            "firmware_smoke", "qemu_virt_reference"),
    Step("renode_firmware_smoke",          "firmware_smoke", "renode_reference"),
    Step("local_rtl_sim_ladder",           "rtl_sim",        "our_chip_rtl_sim") >>

Names == {Steps[i].name : i \in DOMAIN Steps}
StepOf(n) == CHOOSE s \in {Steps[i] : i \in DOMAIN Steps} : s.name = n
TierRank == [os_boot |-> 4, os_prereq |-> 3, npu_ml |-> 3, firmware_smoke |-> 2, rtl_sim |-> 1]
ChipScopes == {"our_chip_prereq", "our_chip_os_boot"}
OwnScopes == ChipScopes \cup {"our_chip_npu_ml_local", "our_chip_rtl_sim"}
ReferenceScopes == {"qemu_virt_reference", "renode_reference", "android_reference"}

\* How a command ended: exit code, whether its output has every pass marker, a
\* block marker, the timeout wrapper's line.
Ended(rc, passes, blocks, timeout) ==
    [rc |-> rc, passes |-> passes, blocks |-> blocks, timeout |-> timeout]
Passed  == Ended(0, TRUE, FALSE, FALSE)
Blocked == Ended(2, FALSE, TRUE, FALSE)
Failed  == Ended(1, FALSE, FALSE, FALSE)

Classify(o) ==
    IF o.rc = 0 /\ o.passes THEN "pass"
    ELSE IF o.rc = 2 \/ o.blocks \/ (o.rc = 124 /\ o.timeout) THEN "blocked"
    ELSE "fail"
-----------------------------------------------------------------------------
\* run_sim_ladder.py: the rungs run until one does not pass; only a rung that
\* failed (not one that lacked its tools) makes the ladder fail.
RungStatus(g) == IF g.rc = 0 /\ ~g.missing THEN "pass" ELSE IF g.blocks THEN "blocked" ELSE "fail"

LadderOutcome(rungs) ==
    LET bad == {i \in DOMAIN rungs : RungStatus(rungs[i]) # "pass"}
    IN  IF bad = {} THEN Passed
        ELSE IF RungStatus(rungs[Min(bad)]) = "fail" THEN Failed ELSE Blocked

\* check_mvp_npu_ml_evidence.py --run: what the run computed becomes the
\* report's status, and the validation reads report and files back.
NpuErrors(in) == ~in.gemm \/ ~in.perf \/ in.scaleCode # 0 \/ ~in.scaleFile
NpuInvalid(in) ==
    \/ NpuErrors(in)                 \* the transcript then says FAIL
    \/ ~in.gemm \/ ~in.scaleFile \/ ~in.model
    \/ in.scaleFile /\ ~in.scalePass
NpuOutcome(in) == IF NpuInvalid(in) THEN Failed ELSE Passed

\* check_chipyard_verilator_linux_smoke.py on the log there is now.
SmokeOutcome == IF log.id # 0 /\ log.t.boot THEN Passed ELSE Blocked

StepOutcomes(n) ==
    CASE n = "chipyard_verilator_linux_smoke" -> {SmokeOutcome}
      [] n = "npu_ml_smoke"                   -> {NpuOutcome(in) : in \in NpuInputs}
      [] n = "local_rtl_sim_ladder"           -> {LadderOutcome(g) : g \in Ladders}
      [] OTHER                                -> Outcomes[n]
-----------------------------------------------------------------------------
\* What the report says of the results (name -> status) and of the log.
Passing(res, scopes) == {s \in {Steps[i] : i \in DOMAIN Steps} :
                            s.scope \in scopes /\ res[s.name] = "pass"}
BestTier(res, scopes) ==
    LET p == Passing(res, scopes)
    IN  IF p = {} THEN "none" ELSE (CHOOSE s \in p : \A o \in p : TierRank[s.tier] >= TierRank[o.tier]).tier

BlockedItems(res) == {n \in Names : res[n] = "blocked"}
Overall(res) ==
    IF \E n \in Names : res[n] = "fail" THEN "fail"
    ELSE IF BlockedItems(res) # {} THEN "blocked" ELSE "pass"
RunnerCode(res) == [pass |-> 0, fail |-> 1, blocked |-> 2][Overall(res)]

OnChipClaim(res) == res["chipyard_verilator_linux_smoke"] = "pass"
NpuClaim(res) == res["npu_ml_smoke"] = "pass"
AndroidClaim(res) == Passing(res, {"android_reference"}) # {}
MinimumClaim(rep) == OnChipClaim(rep.results) /\ NpuClaim(rep.results) /\ rep.integrated
OnChipBlockersOfBoot(res) == {n \in BlockedItems(res) : StepOf(n).scope = "our_chip_os_boot"}

OnChipBlockers(res) == {n \in BlockedItems(res) : StepOf(n).scope \in ChipScopes}
MinimumBlockers(rep) ==
    OnChipBlockers(rep.results)
        \cup (BlockedItems(rep.results) \cap {"npu_ml_smoke"})
        \cup (IF rep.integrated THEN {} ELSE {"integrated_linux_npu_ml_transcript"})

IntegratedMarkers == log.id # 0 /\ log.t.npu
-----------------------------------------------------------------------------
NoLog == [id |-> 0, by |-> 0, t |-> [banner |-> FALSE, boot |-> FALSE, npu |-> FALSE]]
NoResults == [n \in Names |-> "none"]
NoReport == [by |-> 0, whole |-> FALSE, results |-> NoResults, integrated |-> FALSE,
             judged |-> 0, read |-> NoLog]
Idle == [pc |-> 1, results |-> NoResults, integrated |-> FALSE, judged |-> 0, read |-> NoLog]

SimInit ==
    /\ log \in {NoLog} \cup {[id |-> 1, by |-> 0, t |-> t] : t \in Logs}
    /\ sim = [r \in Aggregates |-> Idle]
    /\ tmp = NoReport
    /\ report = NoReport

Goto(r, pc) == [sim EXCEPT ![r].pc = pc]
Record(r, n, o) ==
    sim' = [sim EXCEPT ![r].results[n] = Classify(o), ![r].pc = @ + 1,
                       ![r].judged = IF n = "chipyard_verilator_linux_smoke" THEN log.id ELSE @]

Current(r) == Steps[sim[r].pc].name
InSteps(r) == sim[r].pc \in DOMAIN Steps

\* A step that writes nothing another run reads.
RunStep(r) ==
    /\ InSteps(r)
    /\ Current(r) # "chipyard_verilator_linux_attempt"
    /\ \E o \in StepOutcomes(Current(r)) : Record(r, Current(r), o)
    /\ UNCHANGED <<log, tmp, report>>

\* The attempt leaves a new log, and passes when the smoke check passes on it;
\* or it ends before the simulator starts and leaves the log as it was.
RunAttempt(r) ==
    /\ InSteps(r)
    /\ Current(r) = "chipyard_verilator_linux_attempt"
    /\ \/ \E t \in Logs :
            /\ log.id < MaxLogs
            /\ log' = [id |-> log.id + 1, by |-> r, t |-> t]
            /\ Record(r, Current(r), IF t.boot THEN Passed ELSE Blocked)
       \/ \E o \in Outcomes[Current(r)] : Record(r, Current(r), o) /\ UNCHANGED log
    /\ UNCHANGED <<tmp, report>>

\* A skipped step counts as blocked; its command does not run.
SkipStep(r) ==
    /\ InSteps(r)
    /\ Current(r) \in Skips
    /\ Record(r, Current(r), Blocked)
    /\ UNCHANGED <<log, tmp, report>>

\* After the last step: look for the NPU workload's markers in the log.
ReadClaims(r) ==
    /\ sim[r].pc = Len(Steps) + 1
    /\ sim' = [sim EXCEPT ![r].pc = @ + 1, ![r].integrated = IntegratedMarkers, ![r].read = log]
    /\ UNCHANGED <<log, tmp, report>>

Content(r, whole) ==
    [by |-> r, whole |-> whole, results |-> sim[r].results, integrated |-> sim[r].integrated,
     judged |-> sim[r].judged, read |-> sim[r].read]

\* write_text opens (and empties) the temporary file, then writes it.
OpenReport(r) ==
    /\ sim[r].pc = Len(Steps) + 2
    /\ tmp' = Content(r, FALSE)
    /\ sim' = Goto(r, sim[r].pc + 1)
    /\ UNCHANGED <<log, report>>

\* The bytes go to the file that was opened, from its start: by now the other
\* run may have written it (a longer text leaves its tail behind the new one) or
\* may have renamed it to the report.
WriteAggregate(r) ==
    /\ sim[r].pc = Len(Steps) + 3
    /\ LET to == IF tmp.by # 0 THEN tmp ELSE report
       IN  \E whole \in {TRUE, ~to.whole} :
             /\ tmp'    = IF tmp.by # 0 THEN Content(r, whole) ELSE tmp
             /\ report' = IF tmp.by = 0 THEN Content(r, whole) ELSE report
    /\ sim' = Goto(r, sim[r].pc + 1)
    /\ UNCHANGED log

\* replace() moves the temporary file over the report, whoever wrote it last; it
\* fails when another run has moved it already, and so does the run.
Publish(r) ==
    /\ sim[r].pc = Len(Steps) + 4
    /\ IF tmp.by # 0 THEN report' = tmp /\ tmp' = NoReport
                     ELSE UNCHANGED <<tmp, report>>
    /\ sim' = [sim EXCEPT ![r] = [Idle EXCEPT !.pc = sim[r].pc + 1]]
    /\ UNCHANGED log

SimNext ==
    \E r \in Aggregates : RunStep(r) \/ RunAttempt(r) \/ SkipStep(r) \/ ReadClaims(r)
                        \/ OpenReport(r) \/ WriteAggregate(r) \/ Publish(r)

SimSpec == SimInit /\ [][SimNext]_simVars
-----------------------------------------------------------------------------
\* check_mvp_simulator.py: its exit code on the report.
Prerequisites == {"cpu_ap_linux_evidence", "chipyard_payload_path", "chipyard_verilator_linux_smoke"}

CheckErrors(rep) ==
    LET res == rep.results
    IN  \/ \E n \in Names : res[n] \notin {"pass", "blocked", "fail"}
        \/ BestTier(res, ReferenceScopes) \notin {"os_boot", "firmware_smoke", "none"}
        \/ OnChipClaim(res) /\ Passing(res, {"our_chip_os_boot"}) = {}
        \/ ~OnChipClaim(res) /\ ~(Prerequisites \subseteq OnChipBlockers(res))
        \/ ~MinimumClaim(rep) /\ ~rep.integrated
              /\ "integrated_linux_npu_ml_transcript" \notin MinimumBlockers(rep)

CheckCode(rep) ==
    IF rep.by = 0 THEN 2
    ELSE IF ~rep.whole \/ CheckErrors(rep) THEN 1
    ELSE RunnerCode(rep.results)

\* check_aosp_simulator_completion_gate.py: what it asks of the report, and its
\* exit code; the rest of what it reads is in.
MvpAccepted(rep) ==
    /\ rep.by # 0 /\ rep.whole
    /\ OnChipClaim(rep.results) /\ AndroidClaim(rep.results) /\ NpuClaim(rep.results)
    /\ rep.integrated /\ MinimumClaim(rep)
    /\ Overall(rep.results) = "pass"

EvidenceAccepted(e) == e.found /\ e.result /\ e.status /\ e.markers

CompletionCode(rep, in) ==
    IF ~in.spec THEN 1
    ELSE IF /\ MvpAccepted(rep)
            /\ in.android = "pass"
            /\ \A e \in in.evidence \cup in.peripherals \cup in.tasks : EvidenceAccepted(e)
            /\ in.required /\ in.reports = "pass"
         THEN 0 ELSE 2

\* check_minimum_linux_npu_target.py: its gates, on the log there is.  The
\* benchmark on the target is blocked by a constant.
PassedIf(b) == IF b THEN "passed" ELSE "blocked"
CocotbGate(c) == IF ~c.found THEN "blocked"
                 ELSE IF c.parses /\ c.cases > 0 /\ c.failures + c.errors = 0
                 THEN "passed" ELSE "failed"
TargetGates(l, in) ==
    [minimum_linux_kernel_target |-> PassedIf(in.linux = "pass"),
     target_side_npu_ml_smoke    |-> PassedIf(in.source = "pass"),
     runtime_abi                 |-> PassedIf(in.contract),
     linux_device_path           |-> PassedIf(in.device),
     rtl_cocotb_proof            |-> CocotbGate(in.cocotb),
     benchmark_command           |-> "blocked",
     generated_ap_linux_boot     |-> PassedIf(l.t.banner),
     local_npu_ml_smoke          |-> PassedIf(in.npuReport = "pass" \/ in.npuCode = 0),
     doc_required_terms          |-> PassedIf(in.terms)]
TargetStatus(l, in) ==
    LET g == TargetGates(l, in) IN
    IF \E n \in DOMAIN g : g[n] = "failed" THEN "fail"
    ELSE IF \E n \in DOMAIN g : g[n] = "blocked" THEN "blocked" ELSE "pass"
TargetCode(l, in, strict) ==
    CASE TargetStatus(l, in) = "fail" -> 1
      [] TargetStatus(l, in) = "blocked" /\ strict -> 2
      [] OTHER -> 0
-----------------------------------------------------------------------------
\* The claim of Linux and the NPU workload together rests on one transcript: what
\* the smoke check passed on is what the markers were found in, unless the other
\* run wrote the log between the two.
OneTranscript ==
    report.whole /\ MinimumClaim(report)
        => \/ report.judged = report.read.id
           \/ report.read.by \notin {0, report.by}

\* The reader of the report ends as the run that wrote it did; it refuses a whole
\* report only where a prerequisite of a boot that was not shown did not come out
\* blocked.  What the completion gate lets pass, the reader passes too.  Where one
\* transcript carries the claim of Linux and the NPU together, the boot is there
\* for the target's check as well, which nevertheless never agrees.
ReadersAgree ==
    report.by # 0 /\ report.whole =>
        LET refused == ~OnChipClaim(report.results)
                       /\ \E n \in Prerequisites : report.results[n] # "blocked"
        IN  /\ CheckCode(report) = IF refused THEN 1 ELSE RunnerCode(report.results)
            /\ \A in \in GateInputs :
                  CompletionCode(report, in) = 0 => CheckCode(report) = 0
            /\ MinimumClaim(report) /\ report.judged = report.read.id =>
                  \A in \in TargetInputs :
                     /\ TargetGates(report.read, in).generated_ap_linux_boot = "passed"
                     /\ TargetCode(report.read, in, TRUE) # 0
=============================================================================
