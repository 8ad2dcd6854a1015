----------------------------- MODULE MCEvidence -----------------------------
(***************************************************************************)
(* The tools that judge evidence, one chain at a time: a behaviour is of   *)
(* one unit, and what the others keep stays as it was.                     *)
(***************************************************************************)
EXTENDS CpuApEvidence, PdSignoff, OpenLaneLaunch, ReleaseEvidence,
        MvpSimulator, MvpStatus, BspEvidence, NpuDriver

VARIABLE unit         \* the one this behaviour is of

\* ------------------------------------------------------------ CpuApEvidence
\* The evidence manifest that is checked in, and one with a transcript left out;
\* one generation in two has no MMU in its device tree.  A write that is cut leaves too
\* short a manifest or device tree, no tree, or Verilog without the AP's module.
RealManifest ==
    [boundary |-> "generated_chipyard_artifacts_and_external_transcripts_only",
     gates |-> [g \in LinuxGates |-> "blocked"], qemu |-> {"BLOCKED", "FAIL", "PASS"},
     phone |-> PhoneItems, artifacts |-> Artifacts, transcripts |-> Transcripts]
MCManifests ==
    {RealManifest,
     [RealManifest EXCEPT !.transcripts = Transcripts \ {CHOOSE t \in Transcripts : TRUE}]}
MCUpsets == {<<"nested", "conflict">>, <<"others", "conflict">>}
MCRemains == [f \in Artifacts \cup {"manifest"} |->
    CASE f \in {"manifest", "dts"} -> {"small"}
      [] f = "generated_src"       -> {"empty"}
      [] OTHER                     -> {"cut"}]
MCCheckouts == [subs : {[c \in Scopes |-> "clean"]}, rest : {"ok", "error", "absent", "notools"}]
MCDtsTokens == [g \in 1 .. MaxClock |->
    IF g = 2 THEN LinuxDtsTokens \ {"mmu"} ELSE LinuxDtsTokens]

\* ---------------------------------------------------------------- PdSignoff
\* Two runs, two classes of evidence; what the runs may be at first.
MCOrder == <<"run_manifest", "sta_report">>
Finished == [stage |-> "final", hole |-> FALSE,
             top |-> [c \in Classes |-> "clean"], fall |-> [c \in Classes |-> "silent"],
             man |-> "clean", at |-> "top", metrics |-> "zero", wv |-> "none"]
Waived == [Finished EXCEPT !.top = [c \in Classes |-> "dirty"], !.man = "waived", !.hole = TRUE]
Flowing == [NoRun EXCEPT !.stage = "steps", !.fall = [c \in Classes |-> "clean"]]
MCSnapshots ==
    {<<Finished, NoRun>>, <<Waived, Finished>>, <<Flowing, Finished>>, <<Flowing, Flowing>>,
     <<[Finished EXCEPT !.at = "reports"], Waived>>}
Released == [shape |-> TRUE, gates |-> [g \in ReleaseGates |-> "approved"],
             readiness |-> "blocked", failclosed |-> TRUE, strict |-> TRUE, waiver |-> FALSE]
MCPdManifests ==
    {Released, [Released EXCEPT !.gates = [g \in ReleaseGates |-> "blocked"]],
     [Released EXCEPT !.gates = [g \in ReleaseGates |-> "bare"]],
     [Released EXCEPT !.strict = FALSE]}

\* ---------------------------------------------------------- ReleaseEvidence
\* Two files, which the expressions of the board's item and of a listing of another
\* manifest find both.
GoodHead == [status |-> "release_blocked", contracts |-> TRUE, pins |-> TRUE,
             template |-> "template_not_release_evidence", scaling |-> "blocked",
             policy |-> TRUE, placeholders |-> TRUE, groups |-> "complete", blocked |-> FALSE,
             listed |-> RequiredItems, unlisted |-> {}]
MCHeaders == {GoodHead}
MCGlobs == [i \in Items \cup Listings |-> Files]
MCNameable == [i \in Items |-> Files]

\* ------------------------------------------------------------- MvpSimulator
\* The two prerequisites may be skipped, the attempt may time out, everything else
\* passes.
Tr(banner, boot, npu) == [banner |-> banner, boot |-> boot, npu |-> npu]
MCLogs == {Tr(TRUE, TRUE, TRUE), Tr(TRUE, FALSE, TRUE), Tr(TRUE, TRUE, FALSE)}
MCOutcomes == [n \in Names |->
    IF n = "chipyard_verilator_linux_attempt" THEN {Ended(124, FALSE, FALSE, TRUE)} ELSE {Passed}]
Rung(rc, missing, blocks) == [rc |-> rc, missing |-> missing, blocks |-> blocks]
MCLadders == {<<Rung(0, FALSE, FALSE), Rung(0, FALSE, FALSE)>>}
NpuInput == [gemm |-> TRUE, perf |-> TRUE, scaleCode |-> 0, scaleFile |-> TRUE,
             scalePass |-> TRUE, model |-> TRUE]
MCNpuInputs == {NpuInput, [NpuInput EXCEPT !.gemm = FALSE]}
Proof == [found |-> TRUE, result |-> TRUE, status |-> TRUE, markers |-> TRUE]
GateInput == [spec |-> TRUE, android |-> "pass", evidence |-> {Proof}, peripherals |-> {Proof},
              tasks |-> {Proof}, required |-> TRUE, reports |-> "pass"]
MCGateInputs == {GateInput, [GateInput EXCEPT !.spec = FALSE],
                 [GateInput EXCEPT !.evidence = {[Proof EXCEPT !.status = FALSE]}]}
Cocotb(cases, failures) == [found |-> TRUE, parses |-> TRUE, cases |-> cases,
                            failures |-> failures, errors |-> 0]
TargetInput == [linux |-> "pass", source |-> "pass", contract |-> TRUE, device |-> TRUE,
                cocotb |-> Cocotb(1, 0), npuReport |-> "pass", npuCode |-> 0, terms |-> TRUE]
MCTargetInputs == {TargetInput, [TargetInput EXCEPT !.cocotb = Cocotb(2, 1)],
                   [TargetInput EXCEPT !.npuReport = "fail", !.npuCode = 1]}

\* ---------------------------------------------------------------- MvpStatus
\* A repository in which everything is as good as it can be, and what the
\* evidence of one component may become.
Out(rc, says) == [rc |-> rc, says |-> says]
Commanded(rc, release, blocked) == [rc |-> rc, release |-> release, blocked |-> blocked]
Tool(present, tool) == [present |-> present, tool |-> tool]
Every(v) == [t \in FormalTargets |-> v]
Entry(s, c, h) == [status |-> s, class |-> c, sha |-> h]
Manifest(e, mode) ==
    [exists |-> TRUE, entries |-> e, mode |-> mode, boundary |-> TRUE, sources |-> TRUE]
Formal(sby, logs, m) == [sby |-> sby, logs |-> logs, tools |-> TRUE, manifest |-> m]
Proved == Formal(Every("PASS"), FALSE, Manifest(Every(Entry("pass", "sby_bmc", "PASS")), "sby-deep-top"))
Fallback == Every(Entry("fallback_pass", "yosys", "no path"))
Xml(manifest, result, sha, stats) ==
    [manifest |-> manifest, result |-> result, sha |-> sha, stats |-> stats]
Benched(exists, dry, statuses) ==
    [exists |-> exists, valid |-> exists, dry |-> dry, statuses |-> statuses,
     metrics |-> TRUE, complete |-> TRUE, assets |-> TRUE, deps |-> TRUE]
NoneBenched == Benched(FALSE, FALSE, {})
Bench(host, pipeline) == [host |-> host, pipeline |-> pipeline, plan |-> {"blocked", "planned"}]
Product == [required |-> TRUE, checks |-> TRUE, pinout |-> TRUE, drafts |-> FALSE, kicad |-> TRUE,
            fpga |-> TRUE, pins |-> TRUE, pd |-> TRUE, manufacturing |-> TRUE, release_checks |-> TRUE]
Renode(f, t, o) ==
    [file |-> f, transcript |-> t, boundary |-> TRUE, run |-> o]

Evidences == [c \in Rows \cup {"sources", "netlist"} |->
    CASE c \in CommandRows  -> Commanded(0, FALSE, FALSE)
      [] c \in ArtifactRows -> Tool(TRUE, TRUE)
      [] c = "toolchain"    -> [required |-> TRUE, optional |-> FALSE, gcc |-> TRUE, clang |-> FALSE]
      [] c = "bsp"          -> Commanded(0, FALSE, TRUE)
      [] c \in {"rtl", "sources"} -> TRUE
      [] c = "netlist"      -> [complete |-> TRUE, top |-> TRUE]
      [] c = "cocotb"       -> Xml("whole", "passing", "passing", "passing")
      [] c = "formal"       -> Proved
      [] c = "qemu"         -> [run |-> Out(2, {"BLOCKED"}), banner |-> TRUE]
      [] c = "renode"       -> Renode("BLOCKED", FALSE, Out(2, {"BLOCKED"}))
      [] c = "npu"          -> Out(0, {"PASS"})
      [] c = "target"       -> Out(0, {"BLOCKED"})
      [] c = "product"      -> Product
      [] OTHER              -> Bench(NoneBenched, Benched(TRUE, TRUE, {"planned"}))]
With(c, v) == [Evidences EXCEPT ![c] = v]
Dashboard(f) == [terms |-> TRUE, rows |-> Collect(f)]
MCBase == [c \in DOMAIN Evidences \cup {"dashboard"} |->
    IF c = "dashboard" THEN Dashboard(Evidences) ELSE Evidences[c]]

Failing == [Proved EXCEPT !.sby = Every("FAIL")]
QemuPass == [run |-> Out(0, {"PASS"}), banner |-> TRUE]
Drafted == [Product EXCEPT !.drafts = TRUE]
MCValues == [c \in {"cocotb", "formal", "qemu", "renode", "npu", "product", "benchmarks",
                    "dashboard", "gates", "verilator"} |->
    CASE c = "cocotb" ->
           {Evidences[c], Xml("whole", "failing", "passing", "passing"),
            Xml("whole", "failing", "unrecorded", "passing"),
            Xml("partial", "passing", "passing", "passing"),
            Xml("partial", "failing", "passing", "passing"), Xml("none", "passing", "passing", "passing")}
      [] c = "formal" ->
           {Proved, Failing,
            Formal(Every("none"), TRUE, Manifest(Every(Entry("missing", "blocked_requires_sby", "no path")),
                                                 "fallback")),
            [Proved EXCEPT !.manifest.entries = Fallback],
            [Failing EXCEPT !.logs = TRUE, !.manifest.entries = Fallback]}
      [] c = "qemu" ->
           {[run |-> o, banner |-> b] : o \in {Out(0, {"PASS"}), Out(1, {}), Out(2, {"BLOCKED"})},
                                        b \in BOOLEAN}
      [] c = "renode" ->
           {Renode(f, t, Out(0, {"PASS"})) : f \in {"none", "PASS", "FAIL", "BLOCKED"}, t \in BOOLEAN}
             \cup {Renode("none", FALSE, Out(0, {}))}
      [] c = "npu" -> {Out(0, {"PASS"}), Out(1, {"FAIL"}), Out(2, {"BLOCKED"})}
      [] c = "product" -> {Product, Drafted, [Product EXCEPT !.checks = FALSE]}
      [] c = "benchmarks" ->
           {Bench(h, p) : h \in {NoneBenched, Benched(TRUE, FALSE, {"passed"})},
                          p \in {NoneBenched, Benched(TRUE, FALSE, {"passed"}),
                                 Benched(TRUE, TRUE, {"planned"})}}
      [] c = "dashboard" ->
           {Dashboard(f) : f \in {Evidences, With("qemu", QemuPass), With("product", Drafted),
                                  With("formal", Failing)}}
      [] c = "gates" -> {Commanded(0, FALSE, FALSE), Commanded(1, FALSE, FALSE), Commanded(0, TRUE, FALSE)}
      [] OTHER -> {Tool(TRUE, TRUE), Tool(FALSE, TRUE)}]

\* -------------------------------------------------------------- BspEvidence
\* Linux asks for one log, Android for two; what a log may be like.
MCBspLogs == [t \in {"linux", "aosp"} |-> IF t = "linux" THEN {"kernel"} ELSE {"lunch", "smoke"}]
MCAospOrder == <<"lunch", "smoke">>
Whole == LogTests \cup ItemTests
MCContents == {Whole, Whole \ {"all"}, Whole \ {"required"}, Whole \ {"status", "no_failure"}}
From(lunch, smoke) == [p \in {"lunch", "smoke"} |-> IF p = "lunch" THEN lunch ELSE smoke]
MCSources == {From(Whole, Whole), From(Whole \ {"all"}, Whole), From(Whole \ {"required"}, Whole),
              From(Whole, NoEvidence)}

\* --------------------------------------------------------------- NpuRuntime
MCDims == [m : 1 .. 3, n : 1 .. 3, k : 1 .. 7]
MCStreams == [offset : 0 .. 64, bytes : 0 .. 64]
-----------------------------------------------------------------------------
\* What a unit that does not run has for its variables.
None == "none"
NoCpu ==
    /\ clock = None /\ co = None /\ cgen = None /\ csim = None /\ art = None /\ size = None
    /\ man = NoManifest
    /\ gen = None /\ em = None /\ tr = None /\ intk = None /\ claim = None /\ gate = None
NoPd == run = None /\ newest = None /\ arc = None /\ box = None /\ rep = None /\ edits = None
NoLaunch == /\ lock = None /\ launch = None /\ flows = None
            /\ native = None /\ overlap = None /\ trapped = None
NoRelease ==
    /\ stamp = None /\ file = None /\ entry = None /\ records = None /\ head = None
    /\ audit = None /\ inventory = None
NoAggregate == log = None /\ sim = None /\ tmp = None /\ report = None
NoTable == files = None /\ tableEdits = None /\ pipe = None
NoBsp ==
    /\ installed = None /\ source = None /\ scaffold = None /\ intake = None
    /\ capture = None /\ bootReport = None /\ stands = None /\ bspEdits = None
NoNpu == regs = None /\ engine = None /\ status = None /\ call = None /\ answer = None
NoDriver == holder = None /\ ioctl = None /\ returned = None /\ made = None

MCInit ==
    /\ unit \in {"cpu", "pd", "launch", "release", "aggregate", "table", "bsp", "runtime", "driver"}
    /\ IF unit = "cpu" THEN CpuApInit ELSE NoCpu
    /\ IF unit = "pd" THEN PdInit ELSE NoPd
    /\ IF unit = "launch" THEN LaunchInit ELSE NoLaunch
    /\ IF unit = "release" THEN ReleaseInit ELSE NoRelease
    /\ IF unit = "aggregate" THEN SimInit ELSE NoAggregate
    /\ IF unit = "table" THEN StatusInit ELSE NoTable
    /\ IF unit = "bsp" THEN BspInit ELSE NoBsp
    /\ CASE unit = "runtime" -> RuntimeInit /\ NoDriver
         [] unit = "driver"  -> DriverInit
         [] OTHER            -> NoNpu /\ NoDriver

ioctlVars == <<holder, ioctl, returned, made>>
npuVars == <<runtimeVars, ioctlVars>>

CpuApUnit == unit = "cpu" /\ CpuApNext /\ UNCHANGED <<pdVars, launchVars, releaseVars, simVars,
                                                      statusVars, bspVars, npuVars>>
PdUnit == unit = "pd" /\ PdNext /\ UNCHANGED <<vars, launchVars, releaseVars, simVars,
                                               statusVars, bspVars, npuVars>>
LaunchUnit == unit = "launch" /\ LaunchNext /\ UNCHANGED <<vars, pdVars, releaseVars, simVars,
                                                           statusVars, bspVars, npuVars>>
ReleaseUnit == unit = "release" /\ ReleaseNext /\ UNCHANGED <<vars, pdVars, launchVars, simVars,
                                                              statusVars, bspVars, npuVars>>
AggregateUnit == unit = "aggregate" /\ SimNext /\ UNCHANGED <<vars, pdVars, launchVars, releaseVars,
                                                              statusVars, bspVars, npuVars>>
TableUnit == unit = "table" /\ StatusNext /\ UNCHANGED <<vars, pdVars, launchVars, releaseVars,
                                                         simVars, bspVars, npuVars>>
BspUnit == unit = "bsp" /\ BspNext /\ UNCHANGED <<vars, pdVars, launchVars, releaseVars, simVars,
                                                  statusVars, npuVars>>
OthersRest == UNCHANGED <<vars, pdVars, launchVars, releaseVars, simVars, statusVars, bspVars>>
RuntimeUnit == unit = "runtime" /\ RuntimeNext /\ OthersRest /\ UNCHANGED ioctlVars
DriverUnit == unit = "driver" /\ DriverNext /\ OthersRest /\ UNCHANGED <<call, answer>>
MCNext ==
    /\ UNCHANGED unit
    /\ \/ CpuApUnit \/ PdUnit \/ LaunchUnit \/ ReleaseUnit
       \/ AggregateUnit \/ TableUnit \/ BspUnit \/ RuntimeUnit \/ DriverUnit

MCSpec == MCInit /\ [][MCNext]_<<unit, vars, pdVars, launchVars, releaseVars, simVars,
                                 statusVars, bspVars, npuVars>>
-----------------------------------------------------------------------------
\* What the modules say, each of its own unit.  CpuApEvidence: files of one
\* generation, gates that agree, a pass of the completion gate that is always a
\* race, and hashes whose recording unbinds the transcripts.
CpuGatesAgree == unit = "cpu" => OneGeneration /\ GatesAgree
CpuPassIsRaced == [][unit = "cpu" => RacedIfPassed /\ RecordingUnbinds]_<<unit, vars>>
\* PdSignoff: an archive that verifies, gates that do not contradict each
\* other, and a verdict that later runs do not change.
PdEvidenceAgrees == unit = "pd" => VerifiedArchiveIsReady /\ PdGatesAgree
PdVerdictKept == [][unit = "pd" => VerdictKept]_<<unit, pdVars>>
\* OpenLaneLaunch: one flow where none is signalled, or in containers none killed,
\* and no lock without a kill.
LaunchersExclude == unit = "launch" => OneFlowAtATime
\* ReleaseEvidence: acceptance is of the contents that were judged.
AcceptanceIsCurrent == [][unit = "release" => TakenBack /\ ListsAccepted /\ NeverOlder']_<<unit, releaseVars>>
\* MvpSimulator: one transcript behind the claim, readers that agree.
AggregateHonest == unit = "aggregate" => OneTranscript /\ ReadersAgree
\* MvpStatus: evidence behind every pass of the pipeline.
TableHonest == unit = "table" => EvidenceBehindPass
\* BspEvidence: a success stands, and the ways to ask agree.
BspHonest == unit = "bsp" => SuccessStands /\ BspGatesAgree
\* NpuRuntime and NpuDriver: a call, and an ioctl, returns its own result, and the
\* checks of the runtime are enough.
RuntimeHonest ==
    /\ unit = "runtime" => OwnResult /\ ChecksSuffice
    /\ unit = "driver" => OwnIoctl
=============================================================================
