------------------------------ MODULE PdSignoff ------------------------------
(***************************************************************************)
(* Signoff of the physical design: the OpenLane run directories, the       *)
(* archiver that copies one of them, and the gates that judge them         *)
(* (scripts/check_pd_signoff.py, archive_pd_signoff_run.py,                *)
(* check_pd_closure.py, check_openlane_run_preflight.py,                   *)
(* diagnose_openlane_run.py, check_pd_preflight.py).                       *)
(*                                                                         *)
(* Each tool selects a run in its own way and reads it while the flow, or  *)
(* an engineer, may still be writing there.  The archiver may be killed    *)
(* between any two of its steps.                                           *)
(*                                                                         *)
(* A file is what the gates can tell of it: "none", "small" (shorter than  *)
(* min_bytes), "clean", and for reports "dirty" (the failure expression    *)
(* matches), "silent" (no clean marker) or "bad" (both).                   *)
(***************************************************************************)
EXTENDS Naturals, Sequences

CONSTANTS
    Runs,         \* run directories: numbers in the order of their names
    ClassOrder,   \* artifact classes in the order of the signoff manifest
    ReportClasses,\* those whose name ends in _report
    ReleaseGates, \* pd_release, tapeout_release, board_fabrication_release
    Snapshots,    \* what the run directories may hold at first
    Verdicts,     \* what a flow writes into a file
    PdManifests,  \* signoff manifests, with their OpenLane configurations
    ArchivedRuns, \* those somebody archives
    Launching,    \* the launcher's lock or a labeled container is there
    RunnerReady,  \* OpenLane is installed, or its pinned image is
    PdkReady,     \* PDK_ROOT holds the PDKs of the configurations
    MaxEdits      \* bound: changes of files in a behaviour

Classes == {ClassOrder[i] : i \in DOMAIN ClassOrder}
Kinds == {"none", "small", "clean", "dirty", "silent", "bad"}

\* hole: a step left its directory without a state.  top, fall: the files at the
\* manifest's places and at the fallback's.  man, at: signoff-run.yaml, and whether
\* it lies at the top.  metrics, wv: final/metrics.json and a waiver of timing.
RunStates ==
    [stage : {"none", "empty", "open", "steps", "klayout", "final"}, hole : BOOLEAN,
     top : [Classes -> Kinds], fall : [Classes -> Kinds],
     man : {"none", "incomplete", "clean", "waived", "sta"}, at : {"top", "reports"},
     metrics : {"none", "bad", "zero"}, wv : {"none", "open", "closed"}]

ASSUME PdAssumption ==
    /\ Runs \subseteq Nat /\ Runs # {} /\ MaxEdits \in Nat
    /\ ClassOrder \in Seq(Classes) /\ Verdicts \subseteq Kinds /\ Snapshots \subseteq [Runs -> RunStates]
    /\ \A m \in PdManifests : \A g \in DOMAIN m.gates : m.gates[g] \in {"blocked", "approved", "bare"}
    /\ "run_manifest" \in Classes \ ReportClasses /\ ReportClasses \subseteq Classes
    /\ {Launching, RunnerReady, PdkReady} \subseteq BOOLEAN

VARIABLES
    run,       \* the run directories
    newest,    \* the one whose modification time is the last
    arc,       \* the archiver
    box,       \* per run, its archive directory
    rep,       \* per run, the archive report in pd/signoff/reports
    edits      \* changes made so far

pdVars == <<run, newest, arc, box, rep, edits>>

\* --------------------------------------------------------------- one run

Dirty == {"dirty", "bad"}
Unmarked == {"silent", "bad"}

Exists(r) == run[r].stage # "none"

\* files_for_run: the files of a class at the places the manifest names.
FileAt(r, c) ==
    IF c = "run_manifest" THEN (IF run[r].man = "none" THEN "none" ELSE "clean")
    ELSE run[r].top[c]

\* files_for_fallbacks: the file a numbered step of the flow left.
FallbackAt(r, c) == IF c = "run_manifest" THEN FileAt(r, c) ELSE run[r].fall[c]

Missing(r) == {c \in Classes : FileAt(r, c) = "none"}

\* check_reports, for the reports of a class.
DirtyReports(r) == {c \in ReportClasses : FileAt(r, c) \in Dirty}
MissingCleanMarkers(r) == {c \in ReportClasses : FileAt(r, c) \in Unmarked}
TooSmall(r) == {c \in Classes : FileAt(r, c) = "small"}

\* validate_run_manifest: complete, and every check clean or waived.
RunManifestOk(r) == run[r].man \in {"clean", "waived", "sta"}

\* ---------------------------------------------------------------- closure

\* check_metrics: the counts of final/metrics.json are zero, the slacks not
\* negative.
MetricsOk(r) == run[r].metrics = "zero"

\* check_run_manifest, of the manifest at the top of the run only: antenna
\* and timing are clean, not waived.  It asks for nothing else.
ClosureManifestOk(r) == run[r].at = "top" /\ run[r].man \in {"incomplete", "clean", "waived"}

\* check_waivers: no waiver of antenna or timing is still open.
ClosureWaiversOk(r) == run[r].wv # "open"

ClosureOk(r) == MetricsOk(r) /\ ClosureManifestOk(r) /\ ClosureWaiversOk(r)

\* ---------------------------------------------------------------- signoff
\* validate_blocked_gates: all are there, and an unblocked one is approved.
BlockedGatesOk(m) ==
    DOMAIN m.gates = ReleaseGates /\ \A g \in ReleaseGates : m.gates[g] # "bare"

\* validate_readiness_sections: a status that is still open, and blockers
\* for a section that blocks the release.
ReadinessOk(m) == m.readiness \in {"blocked", "explained"}

\* validate_openlane_configs: release configurations stop at a violation.
ConfigsOk(m) == m.failclosed

\* validate_manifest
ManifestOk(m) == m.shape /\ BlockedGatesOk(m) /\ ReadinessOk(m) /\ ConfigsOk(m)

\* choose_complete_run: the first of the runs that miss nothing.
CompleteRuns == {r \in Runs : Exists(r) /\ Missing(r) = {}}
ChosenNewest == newest

Chosen == CHOOSE r \in CompleteRuns : \A q \in CompleteRuns : r <= q

\* The waiver files the manifest's expressions match, of whatever run.
Waivers(m) == m.waiver \/ \E r \in Runs : run[r].wv # "none"

StillBlocked(m) == {g \in DOMAIN m.gates : m.gates[g] = "blocked"}

\* The failures found in the chosen run.
RunFailures(m, r) ==
    (IF TooSmall(r) # {} THEN {"small"} ELSE {})
    \cup (IF MissingCleanMarkers(r) # {} THEN {"no marker"} ELSE {})
    \cup (IF RunManifestOk(r) THEN {} ELSE {"run manifest"})
    \cup (IF ClosureOk(r) THEN {} ELSE {"closure"})
    \cup (IF DirtyReports(r) # {} /\ m.strict /\ ~Waivers(m) THEN {"dirty"} ELSE {})

\* check_pd_signoff.py exits 0.
SignoffPasses(m) ==
    /\ ManifestOk(m) /\ StillBlocked(m) = {}
    /\ CompleteRuns # {} /\ RunFailures(m, Chosen) = {}

\* -------------------------------------------------------------- preflight

\* latest_run_blockers: without final/ there is always one, with it none,
\* whatever steps are incomplete.
LatestRunOk == run[newest].stage = "final"

\* release_artifact_blockers: files of all runs together.  One clean marker
\* of any of them is enough, one dirty report of any of them too much.
ReleaseFiles(c) == {FileAt(r, c) : r \in {q \in Runs : Exists(q)}} \ {"none", "small"}
ReleaseArtifactsOk(m) ==
    /\ StillBlocked(m) = {}
    /\ \A c \in Classes : ReleaseFiles(c) # {}
    /\ \A c \in ReportClasses :
         ReleaseFiles(c) \cap Dirty = {} /\ \E f \in ReleaseFiles(c) : f \notin Unmarked

\* run_orchestration_blockers, and the check of the image's digest.
OrchestrationOk == ~Launching
ImageOk == RunnerReady

\* check_openlane_run_preflight.py --release exits 0.
PreflightPasses(m) ==
    /\ m.shape /\ ConfigsOk(m)
    /\ \E r \in Runs : Exists(r)
    /\ LatestRunOk /\ ReleaseArtifactsOk(m) /\ OrchestrationOk /\ ImageOk

\* check_pd_preflight.py: bad inputs fail, a missing PDK only blocks, and a
\* blocked preflight exits 0.
InputPreflight(m) ==
    IF ~m.shape THEN "fail" ELSE IF ~PdkReady THEN "blocked" ELSE "pass"

\* --------------------------------------------------------------- diagnosis

IncompleteSteps(r) == run[r].stage \in {"open", "klayout"} \/ run[r].hole

\* klayout_drc_steps: it blocks even while the launcher is alive.
KlayoutBlocked(r) == run[r].stage = "klayout"

\* diagnose: the status printed, and exit code 0 only for a finished run.
Diagnosis(r) ==
    IF run[r].stage = "empty" \/ KlayoutBlocked(r) THEN "blocked"
    ELSE IF Launching /\ run[r].stage \in {"open", "steps"} THEN "in_progress"
    ELSE IF IncompleteSteps(r) \/ run[r].stage # "final" THEN "blocked"
    ELSE "complete_by_state_out"

\* --------------------------------------------------------------- initial

NoFiles == [c \in Classes |-> "none"]
NoRun == [stage |-> "none", hole |-> FALSE, top |-> NoFiles, fall |-> NoFiles,
          man |-> "none", at |-> "top", metrics |-> "none", wv |-> "none"]
NoBox == [copy |-> NoFiles, summary |-> "none", raced |-> FALSE,
          sums |-> [there |-> FALSE, copy |-> NoFiles, summary |-> "none"]]
NoArchiver == [pc |-> "idle", run |-> 0, i |-> 1, status |-> NoFiles, from |-> "none"]

PdInit ==
    /\ run \in Snapshots
    /\ newest \in {r \in Runs : Exists(r)}
    /\ arc = NoArchiver
    /\ box = [r \in Runs |-> NoBox]
    /\ rep = [r \in Runs |-> "none"]
    /\ edits = 0

Edit == edits < MaxEdits /\ edits' = edits + 1

\* ------------------------------------------------------------------- flow

\* Stages of a run; the flow makes a directory in it, which is then newest.
\* A step that is skipped leaves its directory without a state.
NextStages(s) ==
    CASE s = "none"    -> {"empty"}
      [] s = "empty"   -> {"open"}
      [] s = "open"    -> {"steps"}
      [] s = "steps"   -> {"open", "klayout", "final"}
      [] s = "klayout" -> {"steps"}
      [] OTHER         -> {}

FlowAdvances(r) ==
    /\ Edit
    /\ \E s \in NextStages(run[r].stage), hole \in BOOLEAN, m \in {"none", "bad", "zero"} :
         /\ run[r].hole => hole
         /\ (m # "none") <=> (s = "final")
         /\ run' = [run EXCEPT ![r] = [@ EXCEPT !.stage = s, !.hole = hole, !.metrics = m]]
    /\ newest' = r
    /\ UNCHANGED <<arc, box, rep>>

\* A file is written again.  When the archiver has judged it and not copied it
\* yet, its archive is raced.
FileWritten(r, c, place, f) ==
    /\ Edit /\ Exists(r) /\ c # "run_manifest"
    /\ run' = IF place = "top" THEN [run EXCEPT ![r].top[c] = f] ELSE [run EXCEPT ![r].fall[c] = f]
    /\ box' = [box EXCEPT ![r].raced =
                 @ \/ (arc.pc = "copy" /\ arc.run = r /\ ClassOrder[arc.i] = c /\ arc.from = place)]
    /\ UNCHANGED <<newest, arc, rep>>

\* An engineer writes signoff-run.yaml, or waives a check.
RunJudged(r) ==
    /\ Edit /\ Exists(r)
    /\ \/ \E m \in {"incomplete", "clean", "waived", "sta"} : run' = [run EXCEPT ![r].man = m]
       \/ \E w \in {"open", "closed"} : run' = [run EXCEPT ![r].wv = w]
    /\ newest' = r
    /\ UNCHANGED <<arc, box, rep>>

\* --------------------------------------------------------------- archiver

\* select_run, then rmtree, which removes files in no particular order.
ArchiveStart(r) ==
    /\ arc.pc = "idle" /\ r \in ArchivedRuns /\ Exists(r)
    /\ arc' = [NoArchiver EXCEPT !.pc = "clear", !.run = r]
    /\ \E kept \in SUBSET {c \in Classes : box[r].copy[c] # "none"},
          sums \in {FALSE, box[r].sums.there}, summary \in {FALSE, box[r].summary # "none"} :
         box' = [box EXCEPT ![r] =
             [copy |-> [c \in Classes |-> IF c \in kept THEN @.copy[c] ELSE "none"],
              summary |-> IF summary THEN @.summary ELSE "none",
              raced |-> @.raced,
              sums |-> IF sums THEN @.sums ELSE NoBox.sums]]
    /\ UNCHANGED <<run, newest, rep, edits>>

Clear ==
    /\ arc.pc = "clear"
    /\ box' = [box EXCEPT ![arc.run] = NoBox]
    /\ arc' = [arc EXCEPT !.pc = "judge"]
    /\ UNCHANGED <<run, newest, rep, edits>>

\* report_regex_results and the size, of the files found.
StatusOf(c, f) ==
    CASE f = "none"                                                 -> "missing"
      [] f = "small" \/ (c \in ReportClasses /\ f \in Dirty \cup Unmarked) -> "blocked"
      [] OTHER                                                      -> "present"

\* One class is judged: the manifest's files, or else the fallback's ...
Judge ==
    /\ arc.pc = "judge"
    /\ LET c == ClassOrder[arc.i]
           from == IF FileAt(arc.run, c) # "none" THEN "top" ELSE "fall"
           f == IF from = "top" THEN FileAt(arc.run, c) ELSE FallbackAt(arc.run, c)
       IN arc' = [arc EXCEPT !.status[c] = StatusOf(c, f), !.from = from, !.pc = "copy"]
    /\ UNCHANGED <<run, newest, box, rep, edits>>

\* ... and copied, as it is by then.
Copy ==
    /\ arc.pc = "copy"
    /\ LET c == ClassOrder[arc.i]
           f == IF arc.from = "top" THEN FileAt(arc.run, c) ELSE FallbackAt(arc.run, c)
       IN box' = [box EXCEPT ![arc.run].copy[c] = IF arc.status[c] = "missing" THEN "none" ELSE f]
    /\ arc' = IF arc.i < Len(ClassOrder) THEN [arc EXCEPT !.pc = "judge", !.i = @ + 1]
              ELSE [arc EXCEPT !.pc = "summary", !.i = 1]
    /\ UNCHANGED <<run, newest, rep, edits>>
ReleaseReadyFound ==
    IF \A c \in Classes : arc.status[c] # "missing" THEN "ready" ELSE "incomplete"

ReleaseReady ==
    IF \A c \in Classes : arc.status[c] = "present" THEN "ready" ELSE "incomplete"

WriteSummary ==
    /\ arc.pc = "summary"
    /\ box' = [box EXCEPT ![arc.run].summary = ReleaseReady]
    /\ arc' = [arc EXCEPT !.pc = "sums"]
    /\ UNCHANGED <<run, newest, rep, edits>>

\* write_checksums, of all that is in the archive.
WriteChecksums ==
    /\ arc.pc = "sums"
    /\ box' = [box EXCEPT ![arc.run].sums =
                 [there |-> TRUE, copy |-> box[arc.run].copy, summary |-> box[arc.run].summary]]
    /\ arc' = [arc EXCEPT !.pc = "report"]
    /\ UNCHANGED <<run, newest, rep, edits>>

\* The report in pd/signoff/reports, and the exit code.
WriteReport ==
    /\ arc.pc = "report"
    /\ rep' = [rep EXCEPT ![arc.run] = ReleaseReady]
    /\ arc' = NoArchiver
    /\ UNCHANGED <<run, newest, box, edits>>

ArchiverKilled ==
    /\ arc.pc # "idle"
    /\ arc' = NoArchiver
    /\ UNCHANGED <<run, newest, box, rep, edits>>

RunChanges ==
    \E r \in Runs :
        \/ FlowAdvances(r) \/ RunJudged(r)
        \/ \E c \in Classes, place \in {"top", "fall"}, f \in Verdicts :
             FileWritten(r, c, place, f)

Archiver ==
    \/ \E r \in Runs : ArchiveStart(r)
    \/ Clear \/ Judge \/ Copy \/ WriteSummary \/ WriteChecksums
    \/ WriteReport \/ ArchiverKilled

PdNext == RunChanges \/ Archiver

PdSpec == PdInit /\ [][PdNext]_pdVars
-----------------------------------------------------------------------------
\* Runs, archives and the archiver are of their kinds.
PdTypeOK ==
    /\ newest \in Runs /\ Exists(newest) /\ edits \in 0 .. MaxEdits
    /\ arc.pc \in {"idle", "clear", "judge", "copy", "summary", "sums", "report"}
    /\ arc.pc # "idle" => arc.run \in Runs /\ arc.i \in 1 .. Len(ClassOrder)
    /\ \A r \in Runs : rep[r] \in {"none", "ready", "incomplete"}

\* Somebody who trusts an archive checks its SHA256SUMS.
Verifies(r) ==
    /\ box[r].sums.there
    /\ box[r].sums.copy = box[r].copy /\ box[r].sums.summary = box[r].summary

\* However often the archiver was killed, while it cleared an older archive
\* too: an archive that verifies and says it is ready for release holds an
\* acceptable file of every class, unless the run was written at between a
\* judgement and its copy.
VerifiedArchiveIsReady ==
    \A r \in Runs :
        Verifies(r) /\ box[r].summary = "ready" /\ ~box[r].raced =>
            \A c \in Classes : StatusOf(c, box[r].copy[c]) = "present"

\* The gates, which select and read the runs in five ways, do not contradict
\* each other.  What signoff passes has every gate approved, no antenna or
\* timing waiver, and without a dirty report the archiver would find it ready
\* from the manifest's own files.  A released preflight means no run has a
\* dirty report, signoff's among them, and the input preflight does not fail.
\* A run diagnosed complete is no blocker for the preflight.
PdGatesAgree ==
    \A m \in PdManifests :
        /\ SignoffPasses(m) =>
             /\ \A g \in ReleaseGates : m.gates[g] = "approved"
             /\ run[Chosen].man \notin {"sta", "incomplete"} /\ run[Chosen].wv # "open"
             /\ InputPreflight(m) # "fail"
             /\ DirtyReports(Chosen) = {} =>
                  \A c \in Classes : StatusOf(c, FileAt(Chosen, c)) = "present"
             /\ DirtyReports(Chosen) # {} => Waivers(m) \/ ~m.strict
        /\ PreflightPasses(m) =>
             /\ InputPreflight(m) # "fail" /\ Diagnosis(newest) # "in_progress"
             /\ CompleteRuns # {} => "dirty" \notin RunFailures(m, Chosen)
        /\ Diagnosis(newest) = "complete_by_state_out" => LatestRunOk

\* Signoff judges the first complete run by name: whatever happens to later
\* runs changes its verdict neither way, as long as no waiver file appears.
LaterRunsChange ==
    run' # run /\ CompleteRuns # {} /\ \A q \in Runs : q <= Chosen => run'[q] = run[q]
VerdictKept ==
    LaterRunsChange =>
        \A m \in PdManifests : Waivers(m)' = Waivers(m) => SignoffPasses(m)' = SignoffPasses(m)
VerdictOfFirstRun == [][VerdictKept]_pdVars
=============================================================================
