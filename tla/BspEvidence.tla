---------------------------- MODULE BspEvidence ----------------------------
(***************************************************************************)
(* The evidence of the software board support: the logs an external build  *)
(* or boot leaves under docs/evidence, the two programs that put them      *)
(* there for Android (scripts/boot_android_simulator.sh captures them one  *)
(* after the other, scripts/intake_android_evidence.py installs a          *)
(* directory of them), and the gates that read them:                       *)
(* scripts/check_software_bsp.py in its four modes,                        *)
(* check_software_bsp_evidence.py and check_android_sim_boot.py.           *)
(*                                                                         *)
(* Two manifests say what a log must contain, and different programs ask   *)
(* for the one, the other or both.  A log is the set of their tests that   *)
(* it passes; NoEvidence stands for no file.                               *)
(***************************************************************************)
EXTENDS Naturals, Sequences, FiniteSets

CONSTANTS
    BspLogs,     \* board support target -> the logs its evidence consists of
    AospOrder,   \* the logs of target aosp, in the order of the capture
    BuildStages, \* how many of them a build-only capture takes
    Contents,    \* what a capture may leave in a log
    Sources,     \* what may lie in the directory an intake reads
    ScaffoldParts, \* parts of the repository's own scaffold
    MaxBspEdits  \* bound: changes made by others

\* The tests of docs/android/bsp-log-evidence-manifest.json and those of
\* docs/evidence/software-bsp-evidence-manifest.json.
LogTests  == {"metadata", "all", "any", "no_failure", "no_claim"}
ItemTests == {"size", "required", "groups", "not_forbidden", "status", "boundary"}

\* What a log that was cut short still passes: the tests for words it must
\* not contain.
CutShort == {"no_failure", "no_claim", "not_forbidden"}
NoEvidence == {"none"}
AllLogs == UNION {BspLogs[t] : t \in DOMAIN BspLogs}

ASSUME BspAssumption ==
    /\ "aosp" \in DOMAIN BspLogs /\ AospOrder \in Seq(BspLogs["aosp"]) \ {<<>>}
    /\ {AospOrder[i] : i \in DOMAIN AospOrder} = BspLogs["aosp"]
    /\ BuildStages \in 0 .. Len(AospOrder) /\ MaxBspEdits \in Nat
    /\ NoEvidence \notin Contents
    /\ Sources \subseteq [BspLogs["aosp"] -> Contents \cup {NoEvidence}]

VARIABLES
    installed,   \* the logs in the repository
    source,      \* the logs in the directory an intake reads
    scaffold,    \* the parts of the scaffold that pass their checks
    intake,      \* a running intake
    capture,     \* a running capture
    bootReport,  \* build/reports/android_sim_boot.json
    stands,      \* nothing was written since: the last intake, the last report
    bspEdits
bspVars == <<installed, source, scaffold, intake, capture, bootReport, stands, bspEdits>>
-----------------------------------------------------------------------------
\* check_software_bsp.py.  Tests of the scaffold are errors, tests of the logs
\* are blockers.
Present(t) == {p \in BspLogs[t] : installed[p] # NoEvidence}
MissingEvidence(t) == BspLogs[t] \ Present(t)

\* validate_evidence_file and check_log_evidence, on the logs that are there.
InvalidEvidence(t) == {p \in Present(t) : ~(ItemTests \subseteq installed[p])}
LogProblems(t) == {p \in Present(t) : ~(LogTests \subseteq installed[p])}

\* check_contract, check_artifact_manifest, the README and its terms, the
\* required files; for Android the schema, the product and the templates.
SharedParts == {"contract", "artifact_manifest", "readme", "required", "terms", "log_specs"}
AospParts == {"boot_schema", "product_glue", "proof_templates"}
BspErrors(t) == ((SharedParts \cup IF t = "aosp" THEN AospParts ELSE {}) \cap ScaffoldParts) \ scaffold
BspBlockedOfLogs(t) == LogProblems(t) \cup MissingEvidence(t) # {}

BspBlocked(t) == LogProblems(t) \cup InvalidEvidence(t) \cup MissingEvidence(t) # {}

\* target_report and the "status" subcommand.
EvidenceStatus(t) ==
    IF MissingEvidence(t) # {} THEN "BLOCKED"
    ELSE IF InvalidEvidence(t) # {} \/ BspErrors(t) # {} THEN "FAIL" ELSE "PASS"
StatusSubcommand(t) ==
    IF EvidenceStatus(t) # "PASS" THEN 2 ELSE IF BspErrors(t) = {} THEN 0 ELSE 1

\* Without --json: the scaffold audit runs too, and any blocker counts.
PlainBspCode(targets, require) ==
    IF \E t \in targets : \/ BspErrors(t) # {} \/ "audit" \in ScaffoldParts \ scaffold
                          \/ require /\ BspBlocked(t)
    THEN 1 ELSE 0

\* With --json: what the report lists.
JsonBspCode(targets, require) ==
    IF \E t \in targets : \/ BspErrors(t) # {}
                          \/ require /\ MissingEvidence(t) \cup InvalidEvidence(t) # {}
    THEN 1 ELSE 0

\* check_software_bsp_evidence.py: a log that is missing outweighs one that is bad.
BspReleaseGate(targets) ==
    IF \E t \in targets : MissingEvidence(t) # {} THEN "BLOCKED"
    ELSE IF \E t \in targets : InvalidEvidence(t) # {} \/ BspErrors(t) # {} THEN "FAIL"
    ELSE "PASS"

\* check_android_sim_boot.py.  Only a pass is looked into; a capture that failed
\* ends as one that is blocked does.
BootReportErrors ==
    bootReport = "pass" /\ EvidenceStatus("aosp") # "PASS"
BootCheckCode ==
    IF bootReport = "none" THEN 2
    ELSE IF "log_specs" \in ScaffoldParts \ scaffold THEN (IF bootReport = "blocked" THEN 2 ELSE 1)
    ELSE IF BootReportErrors THEN 1
    ELSE IF bootReport = "pass" THEN 0 ELSE 2
-----------------------------------------------------------------------------
IdleIntake == [pc |-> "idle", at |-> 1, failed |-> FALSE, clean |-> TRUE]
IdleCapture == [pc |-> "idle", at |-> 1, full |-> TRUE, failed |-> FALSE, clean |-> TRUE]

BspInit ==
    /\ installed = [p \in AllLogs |-> NoEvidence]
    /\ source \in Sources
    /\ scaffold = ScaffoldParts
    /\ intake = IdleIntake
    /\ capture = IdleCapture
    /\ bootReport = "none"
    /\ stands = [intake |-> FALSE, report |-> FALSE]
    /\ bspEdits = 0

\* A log is written by somebody else than a running intake, or capture.
DisturbIntake == intake' = [intake EXCEPT !.clean = intake.pc = "idle"]
DisturbCapture == capture' = [capture EXCEPT !.clean = capture.pc = "idle"]

\* ------------------------------------------------- intake_android_evidence

\* The logs of the directory are read and validated one after the other, against
\* the log manifest only.
StartInstall ==
    /\ intake.pc = "idle" /\ "log_specs" \notin ScaffoldParts \ scaffold
    /\ intake' = [IdleIntake EXCEPT !.pc = "validate"]
    /\ UNCHANGED <<installed, source, scaffold, capture, bootReport, stands, bspEdits>>

ValidateSource ==
    /\ intake.pc = "validate"
    /\ LET bad  == ~(LogTests \subseteq source[AospOrder[intake.at]])
           last == intake.at = Len(AospOrder)
       IN  intake' = IF ~last THEN [intake EXCEPT !.at = @ + 1, !.failed = @ \/ bad]
                     ELSE IF intake.failed \/ bad THEN IdleIntake
                     ELSE [intake EXCEPT !.pc = "install", !.at = 1]
    /\ UNCHANGED <<installed, source, scaffold, capture, bootReport, stands, bspEdits>>

\* shutil.copyfile, log by log, of what is in the directory by then; a log that
\* is gone ends the intake.
InstallLog ==
    /\ intake.pc = "install"
    /\ LET p == AospOrder[intake.at] IN
         IF source[p] = NoEvidence
         THEN intake' = IdleIntake /\ UNCHANGED <<installed, capture, stands>>
         ELSE /\ installed' = [installed EXCEPT ![p] = source[p]]
              /\ DisturbCapture
              /\ IF intake.at = Len(AospOrder)
                 THEN /\ intake' = IdleIntake
                      /\ stands' = [intake |-> intake.clean, report |-> FALSE]
                 ELSE /\ intake' = [intake EXCEPT !.at = @ + 1]
                      /\ stands' = [intake |-> FALSE, report |-> FALSE]
    /\ UNCHANGED <<source, scaffold, bootReport, bspEdits>>

\* The intake is killed, perhaps in the middle of a copy.
IntakeKilled ==
    /\ intake.pc # "idle" /\ bspEdits < MaxBspEdits
    /\ intake' = IdleIntake
    /\ \/ UNCHANGED <<installed, capture, stands>>
       \/ /\ intake.pc = "install"
          /\ installed' = [installed EXCEPT ![AospOrder[intake.at]] = CutShort]
          /\ DisturbCapture
          /\ stands' = [intake |-> FALSE, report |-> FALSE]
    /\ bspEdits' = bspEdits + 1
    /\ UNCHANGED <<source, scaffold, bootReport>>

\* ------------------------------------------------- boot_android_simulator

\* The host or the checkout is not up to it: the script only says so.
BootBlocked ==
    /\ capture.pc = "idle" /\ bspEdits < MaxBspEdits
    /\ bootReport' = "blocked" /\ bspEdits' = bspEdits + 1
    /\ stands' = [stands EXCEPT !.report = FALSE]
    /\ UNCHANGED <<installed, source, scaffold, intake, capture>>

StartCapture ==
    /\ capture.pc = "idle"
    /\ \E full \in BOOLEAN : capture' = [IdleCapture EXCEPT !.pc = "begin", !.full = full]
    /\ UNCHANGED <<installed, source, scaffold, intake, bootReport, stands, bspEdits>>

\* A stage empties its log and writes its header, runs, and writes the end.
BeginStage ==
    /\ capture.pc = "begin"
    /\ installed' = [installed EXCEPT ![AospOrder[capture.at]] = CutShort]
    /\ capture' = [capture EXCEPT !.pc = "end"]
    /\ DisturbIntake
    /\ stands' = [intake |-> FALSE, report |-> FALSE]
    /\ UNCHANGED <<source, scaffold, bootReport, bspEdits>>

Stages == IF capture.full THEN Len(AospOrder) ELSE BuildStages

\* stage_passed: the log says RESULT=0 and status=PASS.
EndStage ==
    /\ capture.pc = "end"
    /\ \E c \in Contents :
         /\ installed' = [installed EXCEPT ![AospOrder[capture.at]] = c]
         /\ capture' = [capture EXCEPT !.failed = @ \/ "status" \notin c,
                          !.at = IF @ < Stages THEN @ + 1 ELSE @,
                          !.pc = IF capture.at < Stages THEN "begin" ELSE "check"]
    /\ DisturbIntake
    /\ stands' = [intake |-> FALSE, report |-> FALSE]
    /\ UNCHANGED <<source, scaffold, bootReport, bspEdits>>

\* check_software_bsp.py aosp: with --require-evidence after a full capture;
\* without it after a build-only one, which ends there when the check fails.
CheckCapture ==
    /\ capture.pc = "check"
    /\ IF capture.full
       THEN capture' = [capture EXCEPT !.pc = "report",
                          !.failed = @ \/ PlainBspCode({"aosp"}, TRUE) # 0]
       ELSE capture' = IF PlainBspCode({"aosp"}, FALSE) = 0
                       THEN [capture EXCEPT !.pc = "report"] ELSE IdleCapture
    /\ UNCHANGED <<installed, source, scaffold, intake, bootReport, stands, bspEdits>>

\* write_report: a temporary file of its own, moved over the report.
ReportCapture ==
    /\ capture.pc = "report"
    /\ bootReport' = IF ~capture.full THEN "blocked"
                     ELSE IF capture.failed THEN "failed" ELSE "pass"
    /\ stands' = [stands EXCEPT !.report = capture.clean]
    /\ capture' = IdleCapture
    /\ UNCHANGED <<installed, source, scaffold, intake, bspEdits>>

CaptureKilled ==
    /\ capture.pc # "idle" /\ bspEdits < MaxBspEdits
    /\ capture' = IdleCapture
    /\ bspEdits' = bspEdits + 1
    /\ UNCHANGED <<installed, source, scaffold, intake, bootReport, stands>>

\* ------------------------------------------------------------------ others

\* The directory an intake reads is filled again.
ChangeSource ==
    /\ bspEdits < MaxBspEdits
    /\ \E p \in BspLogs["aosp"], c \in Contents \cup {NoEvidence} :
         source[p] # c /\ source' = [source EXCEPT ![p] = c]
    /\ bspEdits' = bspEdits + 1
    /\ DisturbIntake
    /\ UNCHANGED <<installed, scaffold, capture, bootReport, stands>>

\* A log is written by hand, or by the capture script of its target.
WriteLog ==
    /\ bspEdits < MaxBspEdits
    /\ \E p \in AllLogs, c \in Contents \cup {NoEvidence} :
         installed[p] # c /\ installed' = [installed EXCEPT ![p] = c]
    /\ bspEdits' = bspEdits + 1
    /\ DisturbIntake /\ DisturbCapture
    /\ stands' = [intake |-> FALSE, report |-> FALSE]
    /\ UNCHANGED <<source, scaffold, bootReport>>

\* A part of the scaffold is broken or repaired.
EditScaffold ==
    /\ bspEdits < MaxBspEdits
    /\ \E s \in ScaffoldParts :
         scaffold' = IF s \in scaffold THEN scaffold \ {s} ELSE scaffold \cup {s}
    /\ bspEdits' = bspEdits + 1
    /\ DisturbCapture
    /\ stands' = [stands EXCEPT !.report = FALSE]
    /\ UNCHANGED <<installed, source, intake, bootReport>>

BspNext ==
    \/ StartInstall \/ ValidateSource \/ InstallLog \/ IntakeKilled
    \/ BootBlocked \/ StartCapture \/ BeginStage \/ EndStage \/ CheckCapture
    \/ ReportCapture \/ CaptureKilled
    \/ ChangeSource \/ WriteLog \/ EditScaffold

BspSpec == BspInit /\ [][BspNext]_bspVars
-----------------------------------------------------------------------------
\* What a program that succeeded vouches for stands as long as nobody else wrote:
\* after an intake no installed log lacks what the log manifest asks for, and after
\* a capture whose report says pass every gate passes.
SuccessStands ==
    /\ stands.intake => LogProblems("aosp") = {} /\ MissingEvidence("aosp") = {}
    /\ stands.report /\ bootReport = "pass" =>
         /\ PlainBspCode({"aosp"}, TRUE) = 0 /\ BspReleaseGate({"aosp"}) = "PASS"
         /\ BootCheckCode = 0

\* Of the ways to ask whether the evidence is complete the plain one is the
\* strictest, and the others agree with each other: for one target and for all of
\* them.  The check of the boot report passes on no less than they ask for.
BspGatesAgree ==
    \A targets \in {{t} : t \in DOMAIN BspLogs} \cup {DOMAIN BspLogs} :
        /\ PlainBspCode(targets, TRUE) = 0 => JsonBspCode(targets, TRUE) = 0
        /\ (BspReleaseGate(targets) = "PASS") = (JsonBspCode(targets, TRUE) = 0)
        /\ (BspReleaseGate(targets) = "PASS") = (\A t \in targets : StatusSubcommand(t) = 0)
        /\ targets = {"aosp"} /\ BootCheckCode = 0 => JsonBspCode(targets, TRUE) = 0
=============================================================================
