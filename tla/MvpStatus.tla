------------------------------ MODULE MvpStatus -----------------------------
(***************************************************************************)
(* scripts/check_mvp_status.py, the table of subsystem rows, and the two   *)
(* programs around it: scripts/product_check.py, which one row runs, and   *)
(* scripts/pipeline_check.py, which reads the same evidence through its    *)
(* manifests, runs the table twice and then judges its rows.  The evidence *)
(* is regenerated by other commands at any moment: a pipeline run is a     *)
(* sequence of readings, each of the files as they are then.               *)
(*                                                                         *)
(* The tree is a function from a component to what its rows find; Values   *)
(* lists what regeneration may leave there.                                *)
(***************************************************************************)
EXTENDS Naturals, Sequences, FiniteSets

CONSTANTS Base,          \* component -> what is found there at first
          Values,        \* component -> what regeneration may leave there
          FormalTargets, \* blocks with formal evidence
          MaxTableEdits       \* bound: regenerations of a component

CocotbResults == {"none", "failing", "passing"}
ASSUME StatusAssumption ==
    /\ Base = [c \in DOMAIN Base |-> Base[c]]
    /\ {"cocotb", "formal", "qemu", "renode", "npu", "product", "benchmarks", "dashboard",
        "synthesis", "verilator", "tools", "rtl", "sources", "netlist", "gates", "bsp"} \subseteq DOMAIN Base
    /\ Base["cocotb"].result \in CocotbResults
    /\ "cocotb" \in DOMAIN Values => \A v \in Values["cocotb"] : v.result \in CocotbResults
    /\ MaxTableEdits \in Nat

VARIABLES files,         \* component -> what is found there
          tableEdits,         \* regenerations so far
          pipe           \* the pipeline run
statusVars == <<files, tableEdits, pipe>>
-----------------------------------------------------------------------------
\* A row: its verdict and the class of its evidence.
Row(status, class) == [status |-> status, class |-> class]

\* What a command printed, as far as a row looks: a phrase of a release check that
\* is blocked, BLOCKED:, lines STATUS: PASS / BLOCKED / FAIL; and its exit code.
CommandStatus(o) ==
    CASE o.release -> Row("BLOCK", "release_blocker")
      [] ~o.release /\ o.blocked -> Row("BLOCK", "tool_blocker")
      [] ~o.release /\ ~o.blocked /\ o.rc = 0 -> Row("PASS", "command_pass")
      [] OTHER -> Row("FAIL", "command_fail")

SoftwareBspStatus(o) ==
    CASE o.rc # 0 -> Row("FAIL", "command_fail")
      [] o.rc = 0 /\ o.blocked -> Row("BLOCK", "scaffold_only")
      [] OTHER -> Row("PASS", "command_pass")

StatusCheck(o) ==
    IF "FAIL" \in o.says \/ o.rc = 1 THEN Row("FAIL", "test_fail")
    ELSE IF "PASS" \in o.says THEN Row("PASS", "generated_artifact")
    ELSE IF "BLOCKED" \in o.says \/ o.rc = 2 THEN Row("BLOCK", "tool_blocker")
    ELSE IF o.rc = 0 THEN Row("BLOCK", "scaffold_only")
    ELSE Row("FAIL", "command_fail")

FilesStatus(present) ==
    IF present THEN Row("PASS", "source_present") ELSE Row("BLOCK", "missing_source")

ArtifactRow(a) ==
    IF a.present THEN Row("PASS", "generated_artifact")
    ELSE Row("BLOCK", IF a.tool THEN "regen_required" ELSE "tool_blocker")

\* A RISC-V toolchain is a cross gcc, or a clang that assembles for the target.
RiscvToolchain(t) == t.gcc \/ t.clang

ToolchainStatus(t) ==
    IF ~t.required THEN Row("FAIL", "tool_blocker")
    ELSE IF t.optional /\ RiscvToolchain(t) THEN Row("PASS", "tool_available")
    ELSE Row("BLOCK", "tool_blocker")

\* The manifest is only looked at for the names of its targets; what passes is the
\* result files.
CocotbRow(c) ==
    CASE c.manifest = "invalid" -> Row("FAIL", "schema_fail")
      [] c.manifest = "partial" -> Row("BLOCK", "regen_required")
      [] OTHER -> IF c.result = "none" THEN Row("BLOCK", "regen_required")
                  ELSE IF c.result = "failing" THEN Row("FAIL", "test_fail")
                  ELSE Row("PASS", "generated_artifact")
FormalStatusHopeful(f) ==
    IF \A t \in FormalTargets : f.sby[t] = "PASS" THEN Row("PASS", "generated_artifact")
    ELSE IF f.logs THEN Row("BLOCK", "formal_fallback")
    ELSE Row("BLOCK", IF f.tools THEN "regen_required" ELSE "tool_blocker")

FormalStatus(f) ==
    IF \A t \in FormalTargets : f.sby[t] = "PASS" THEN Row("PASS", "generated_artifact")
    ELSE IF \E t \in FormalTargets : f.sby[t] = "FAIL" THEN Row("FAIL", "test_fail")
    ELSE IF f.logs THEN Row("BLOCK", "formal_fallback")
    ELSE Row("BLOCK", IF f.tools THEN "regen_required" ELSE "tool_blocker")

QemuStatus(q) ==
    IF StatusCheck(q.run).status = "PASS" /\ ~q.banner
    THEN Row("BLOCK", "regen_required") ELSE StatusCheck(q.run)

\* The status file of an earlier run is believed, and the emulator is only run
\* when that file does not settle the row.
RenodeStatus(n) ==
    IF n.file = "invalid" THEN Row("FAIL", "schema_fail")
    ELSE IF n.file = "PASS" /\ n.transcript /\ n.boundary THEN Row("PASS", "generated_artifact")
    ELSE IF n.file = "BLOCKED" THEN Row("BLOCK", "tool_blocker")
    ELSE IF n.file = "FAIL" THEN Row("FAIL", "test_fail")
    ELSE StatusCheck(n.run)

\* A report of the benchmarks: whether its validator takes it, whether it was a dry
\* run, the statuses of its results, whether each result has metrics.
BenchmarkReport(b) == IF b.host.exists THEN b.host ELSE b.pipeline

BenchmarkStatus(b) ==
    LET r == BenchmarkReport(b)
    IN  IF ~r.exists THEN Row("BLOCK", "regen_required")
        ELSE IF ~r.valid THEN Row("FAIL", "schema_fail")
        ELSE IF r.statuses \cap {"failed", "error", "timeout"} # {} THEN Row("FAIL", "test_fail")
        ELSE IF r.dry THEN Row("BLOCK", "scaffold_only")
        ELSE IF r.statuses \cap {"blocked", "planned_missing_deps", "missing_dependencies"} # {}
             THEN Row("BLOCK", "tool_blocker")
        ELSE IF r.statuses \subseteq {"passed"} /\ r.metrics THEN Row("PASS", "generated_artifact")
        ELSE Row("BLOCK", "evidence_gap")

MinimumTargetStatus(o) ==
    IF StatusCheck(o) = Row("BLOCK", "scaffold_only")
    THEN Row("BLOCK", "target_blocker") ELSE StatusCheck(o)
-----------------------------------------------------------------------------
\* product_check.py: the checks it runs for its scaffold stop it; what only
\* blocks a release is counted, and forgiven unless a release was asked for.
ReleaseBlockers(p) ==
    {b \in {"pinout", "drafts", "kicad", "fpga", "pins", "pd", "manufacturing", "release_checks"} :
        ~p[b]}

ProductCheck(p, release) ==
    IF ~p.required \/ ~p.checks THEN [rc |-> 1, says |-> "error"]
    ELSE IF ReleaseBlockers(p) = {} THEN [rc |-> 0, says |-> "ok"]
    ELSE IF release THEN [rc |-> 1, says |-> "release check failed"]
    ELSE [rc |-> 0, says |-> "release blockers remain"]

ProductStatus(p) ==
    LET o == ProductCheck(p, FALSE)
    IN  IF o.says \in {"release check failed", "release blockers remain"}
        THEN Row("BLOCK", "release_blocker")
        ELSE IF o.rc = 0 THEN Row("PASS", "command_pass") ELSE Row("FAIL", "command_fail")

\* collect_statuses: the rows of the table.
CommandRows == {"plan", "docs", "platform", "linux", "gates", "pdpreflight"}
ArtifactRows == {"synthesis", "verilator", "tools"}
Rows == CommandRows \cup ArtifactRows \cup
        {"toolchain", "bsp", "rtl", "cocotb", "formal", "qemu", "renode", "npu", "target",
         "product", "benchmarks"}

Collect(f) == [r \in Rows |->
    CASE r \in CommandRows  -> CommandStatus(f[r])
      [] r \in ArtifactRows -> ArtifactRow(f[r])
      [] r = "toolchain"    -> ToolchainStatus(f[r])
      [] r = "bsp"          -> SoftwareBspStatus(f[r])
      [] r = "rtl"          -> FilesStatus(f[r])
      [] r = "cocotb"       -> CocotbRow(f[r])
      [] r = "formal"       -> FormalStatus(f[r])
      [] r = "qemu"         -> QemuStatus(f[r])
      [] r = "renode"       -> RenodeStatus(f[r])
      [] r = "npu"          -> StatusCheck(f[r])
      [] r = "target"       -> MinimumTargetStatus(f[r])
      [] r = "product"      -> ProductStatus(f[r])
      [] OTHER              -> BenchmarkStatus(f[r])]

StatusCode(f, strict) ==
    IF \E r \in Rows : Collect(f)[r].status = "FAIL" THEN 1
    ELSE IF strict /\ \E r \in Rows : Collect(f)[r].status = "BLOCK" THEN 2 ELSE 0
-----------------------------------------------------------------------------
\* pipeline_check.py: what its readings accept.
ArtifactsOk(f) ==
    /\ \A a \in ArtifactRows : f[a].present
    /\ f["cocotb"].manifest # "none" /\ f["formal"].manifest.exists
    /\ f["sources"] /\ f["rtl"]
    /\ f["netlist"].complete /\ f["netlist"].top

\* A result's digest is compared only when one is recorded.
CocotbManifestOk(c) ==
    /\ c.manifest = "whole"
    /\ c.result # "none"
    /\ c.sha \in {"unrecorded", c.result}
    /\ c.stats = "passing"

FormalManifestOk(f, strict) ==
    LET m == f.manifest
    IN  /\ FormalTargets \subseteq DOMAIN m.entries
        /\ \A t \in DOMAIN m.entries :
             LET e == m.entries[t]
             IN  /\ \/ e.status \in {"pass", "fallback_pass"}
                    \/ ~strict /\ e.class = "blocked_requires_sby" /\ e.status = "missing"
                 /\ strict => e.class \in {"sby_bmc", "sby_prove"}
                 /\ e.sha # "no path" => f.sby[t] # "none" /\ e.sha = f.sby[t]
        /\ strict => m.mode = "sby-deep-top"
        /\ ~strict => m.boundary
        /\ m.sources

BenchmarkReportOk(b) ==
    /\ b.pipeline.exists /\ b.pipeline.complete
    /\ "passed" \notin b.pipeline.statuses
    /\ "blocked" \in b.pipeline.statuses => b.pipeline.assets
    /\ "planned_missing_deps" \in b.pipeline.statuses => b.pipeline.deps

\* The rows the pipeline insists on, and the classes a row that does not pass may have.
Expected == [qemu       |-> {"regen_required", "tool_blocker"},
             renode     |-> {"regen_required", "tool_blocker"},
             benchmarks |-> {"scaffold_only", "tool_blocker"}]

StatusSemanticsOk(f) ==
    /\ StatusCode(f, FALSE) = 0
    /\ \A r \in DOMAIN Expected :
         LET row == Collect(f)[r]
         IN  IF row.status = "PASS"
             THEN row.class \notin {"scaffold_only", "source_present", "tool_available"}
             ELSE row.class \in Expected[r]
-----------------------------------------------------------------------------
\* A run of the pipeline: its readings in order.  The dry run of the benchmarks
\* replaces the report the two readings after it are of.
Readings == <<"artifacts", "manifests", "signoff", "checks", "dry run", "validate", "table",
              "dashboard", "benchmarks", "semantics", "done">>

\* check_prototype_status_dashboard.py runs the table too: the published rows must be
\* those of this moment, verdict and class.
DashboardOk(f) == f["dashboard"].terms /\ f["dashboard"].rows = Collect(f)

\* The report a dry run leaves: nothing ran, each result is planned or blocked.
DryRun(b) ==
    [b EXCEPT !.pipeline = [exists |-> TRUE, valid |-> TRUE, dry |-> TRUE, statuses |-> b.plan,
                            metrics |-> FALSE, complete |-> TRUE, assets |-> TRUE, deps |-> TRUE]]

Accepted(reading, f, opt) ==
    CASE reading = "artifacts"  -> ArtifactsOk(f)
      [] reading = "manifests"  -> CocotbManifestOk(f["cocotb"]) /\ FormalManifestOk(f["formal"], opt.strict)
      [] reading = "signoff"    -> opt.signoff => f["product"].pd
      [] reading = "checks"     -> f["gates"].rc = 0 /\ f["bsp"].rc = 0
      [] reading = "validate"   -> f["benchmarks"].pipeline.valid
      [] reading = "table"      -> StatusCode(f, FALSE) = 0
      [] reading = "dashboard"  -> DashboardOk(f)
      [] reading = "benchmarks" -> BenchmarkReportOk(f["benchmarks"])
      [] reading = "semantics"  -> StatusSemanticsOk(f)
      [] OTHER                  -> TRUE

StatusInit ==
    /\ files = Base
    /\ tableEdits = 0
    /\ pipe \in [pc : {1}, verdict : {"none"}, last : {0},
                 opt : [strict : BOOLEAN, signoff : BOOLEAN]]

\* Another command regenerates (or removes) the evidence of one component.
Regenerate ==
    /\ tableEdits < MaxTableEdits
    /\ \E c \in DOMAIN Values : \E v \in Values[c] :
         files[c] # v /\ files' = [files EXCEPT ![c] = v]
    /\ tableEdits' = tableEdits + 1
    /\ pipe' = [pipe EXCEPT !.last = pipe.pc]

\* One reading of the pipeline: the first that refuses ends it.
Read ==
    /\ pipe.verdict = "none"
    /\ Readings[pipe.pc] # "done"
    /\ pipe' = IF Accepted(Readings[pipe.pc], files, pipe.opt)
               THEN [pipe EXCEPT !.pc = @ + 1] ELSE [pipe EXCEPT !.verdict = "fail"]
    /\ files' = IF Readings[pipe.pc] = "dry run"
                THEN [files EXCEPT !["benchmarks"] = DryRun(@)] ELSE files
    /\ UNCHANGED tableEdits

Conclude ==
    /\ pipe.verdict = "none"
    /\ Readings[pipe.pc] = "done"
    /\ pipe' = [pipe EXCEPT !.verdict = "pass"]
    /\ UNCHANGED <<files, tableEdits>>

StatusNext == Regenerate \/ Read \/ Conclude
StatusSpec == StatusInit /\ [][StatusNext]_statusVars
-----------------------------------------------------------------------------
\* Every reading from this one on saw the files as they are now.
SeenFrom(reading) ==
    pipe.verdict = "pass" /\ \A i \in DOMAIN Readings : Readings[i] = reading => pipe.last <= i

\* What a pipeline that passes rests on, in the evidence itself and not in the rows:
\* no result of a simulation or a proof that failed, whichever of the readers
\* (manifest, table, dashboard) looks at it (the table does not look at the results
\* of a simulation whose manifest lacks a target); a report of the benchmarks that claims
\* nothing; a status of the emulators that is a pass with its transcript or is
\* blocked; and a dashboard that says so.
EvidenceBehindPass ==
    /\ SeenFrom("manifests") =>
         /\ files["cocotb"].result = "passing"
         /\ pipe.opt.strict => \A t \in FormalTargets :
                               files["formal"].manifest.entries[t].class # "blocked_requires_sby"
    /\ SeenFrom("dry run") =>
         "passed" \notin files["benchmarks"].pipeline.statuses
    /\ SeenFrom("table") =>
         /\ \A t \in FormalTargets : files["formal"].sby[t] # "FAIL"
         /\ files["cocotb"].result = "failing" => files["cocotb"].manifest = "partial"
         /\ files["renode"].file \notin {"FAIL", "invalid"}
         /\ files["qemu"].run.rc # 1 /\ files["npu"].rc # 1
         /\ files["product"].required /\ files["product"].checks
         /\ files["dashboard"].rows["product"].status = "PASS" => ReleaseBlockers(files["product"]) = {}
    /\ SeenFrom("dashboard") =>
         \A r \in Rows : files["dashboard"].rows[r].status # "FAIL"

=============================================================================
