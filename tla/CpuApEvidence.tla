---------------------------- MODULE CpuApEvidence ----------------------------
(***************************************************************************)
(* The evidence chain of the application processor: the generator that     *)
(* imports the Chipyard collateral and writes the import manifest, the     *)
(* intake that archives boot transcripts bound to that manifest, the       *)
(* operator who copies their hashes into it, and the gates that read all   *)
(* of it (scripts/generate_chipyard_openagent.py,                          *)
(* capture_cpu_ap_evidence.py, cpu_ap_evidence_lib.py,                     *)
(* check_chipyard_import_preflight.py,                                     *)
(* check_chipyard_verilator_preflight.py,                                  *)
(* check_chipyard_generator_manifest.py, check_cpu_ap_evidence.py,         *)
(* check_cpu_ap_completion_gate.py, check_chipyard_payload_path.py,        *)
(* check_chipyard_generated_linux_contract.py,                             *)
(* check_cpu_ap_boot_readiness.py, wire_cpu_ap_capture_commands.py).       *)
(*                                                                         *)
(* They share files.  A content is a number, fresh for every write, so a   *)
(* SHA-256 is the number of what it was taken of.  Number 0 is no file.    *)
(* Every tool may be killed between two of its writes, and two of them may *)
(* run at the same time.                                                   *)
(***************************************************************************)
EXTENDS Naturals

CONSTANTS
    Transcripts,   \* the boot transcripts the evidence manifest asks for
    Derived,       \* those whose command is derived from the smoke runner
    EnvCommands,   \* those whose command the environment gives
    Runner,        \* the smoke runner and its payload are on this host
    LinuxGates,    \* rows of the gate matrix of the evidence manifest
    PhoneItems,    \* blockers of the phone claim in its target policy
    Manifests,     \* the evidence manifests somebody may check in
    Checkouts,     \* the checkouts somebody may begin with
    Upsets,        \* what may become of the submodules: scope and status
    Remains,       \* what a write that is cut leaves of its file
    Claims,        \* what the repository may come to claim of its CPU
    DtsTokens,     \* generation -> what its device tree names
    MaxClock       \* bound: contents written in a behaviour

Artifacts == {"generated_src", "verilog", "dts", "simulator"}

\* The submodules by who looks at them: generators/rocket-chip (both preflights),
\* those below it (the Verilator preflight) and the eight other roots the import
\* preflight lists.
Scopes == {"rocket", "nested", "others"}
SubStates == {"clean", "missing", "drifted", "conflict"}
CheckoutStates ==
    [subs : [Scopes -> SubStates], rest : {"ok", "error", "absent", "notools"}]

\* How much there is of a file: nothing (of a directory, no file in it); fewer bytes
\* than the gates ask for; those, but not all the gates look for; all of that.
Sizes == {"empty", "small", "cut", "whole"}

ASSUME CpuApAssumption ==
    /\ Transcripts # {} /\ MaxClock \in Nat
    /\ Checkouts \subseteq CheckoutStates
    /\ Upsets \subseteq Scopes \X SubStates
    /\ Remains \in [Artifacts \cup {"manifest"} -> SUBSET Sizes]
    /\ Derived \subseteq Transcripts /\ EnvCommands \subseteq Transcripts
    /\ Runner \in BOOLEAN

VARIABLES
    clock,     \* contents written so far
    co,        \* the Chipyard checkout: its submodules and the rest
    cgen,      \* collateral the generator left in the checkout
    csim,      \* the collateral the simulator in the checkout was built of
    art,       \* imported artifacts; simulator 0 is one without an executable
    size,      \* how much of an artifact and of the import manifest is there
    man,       \* the import manifest
    gen,       \* the step the generator is at
    em,        \* the evidence manifest that is checked in
    tr,        \* the archived transcripts
    intk,      \* a running intake
    claim,     \* what the repository claims of its CPU
    gate       \* the completion gate's state

vars == <<clock, co, cgen, csim, art, size, man, gen, em, tr, intk, claim, gate>>

\* ------------------------------------------------------ evidence manifest

BoundaryOk == em.boundary = "generated_chipyard_artifacts_and_external_transcripts_only"
LinuxGatesOk == DOMAIN em.gates = LinuxGates /\ \A g \in LinuxGates : em.gates[g] = "blocked"
QemuReferenceOk == em.qemu = {"BLOCKED", "FAIL", "PASS"}
TargetPolicyOk == PhoneItems \subseteq em.phone
ArtifactSpecsOk == Artifacts \subseteq em.artifacts
TranscriptSpecsOk == Transcripts \subseteq em.transcripts

\* load_evidence_manifest: what every tool of the chain asks for first.
EvidenceManifestOk ==
    /\ BoundaryOk /\ LinuxGatesOk /\ QemuReferenceOk
    /\ TargetPolicyOk /\ ArtifactSpecsOk /\ TranscriptSpecsOk

\* -------------------------------------------------------------- preflights

\* Without --recursive, of the nine roots; only "-" and "+" lines make an error here.
ImportPreflight ==
    IF co.rest = "absent" THEN "blocked"
    ELSE IF \/ co.rest = "error"
            \/ \E c \in {"rocket", "others"} : co.subs[c] \in {"missing", "drifted"} THEN "fail"
    ELSE "pass"

\* With --recursive, of generators/rocket-chip.
SubmoduleProblems == {c \in {"rocket", "nested"} : co.subs[c] # "clean"}

VerilatorPreflight ==
    IF co.rest = "absent" THEN "blocked"
    ELSE IF co.rest = "error" \/ SubmoduleProblems # {} THEN "fail"
    ELSE IF co.rest = "notools" THEN "blocked" ELSE "pass"

\* ------------------------------------------------------------ other gates

\* At least min_bytes of a file.
LongEnough(a) == size[a] \notin {"empty", "small"}
ManifestIs(sizes) == man.id # 0 /\ size["manifest"] \in sizes

\* What the device tree names; one too short for its least size names nothing.
DtsOf == IF art["dts"] = 0 \/ ~LongEnough("dts") THEN {} ELSE DtsTokens[art["dts"]]
AllTranscripts == \A t \in em.transcripts : tr[t].id # 0

\* STATUS of the Linux contract of the generated collateral and of its boot.  The
\* tree holds the maps it asks for, and the AP's module is the end of the Verilog.
LinuxDtsTokens == {"generic", "cpu", "mmu", "memory", "clint", "plic", "serial", "stdout", "rom"}
LinuxContractDts == LinuxDtsTokens \subseteq DtsOf
MemoryMapOk == art["generated_src"] # 0 /\ LongEnough("generated_src")
ModuleThere == art["verilog"] # 0 /\ size["verilog"] = "whole"
ImportBlocked == man.id = 0 \/ size["simulator"] = "empty" \/ ~AllTranscripts

LinuxContract ==
    IF ~(LinuxContractDts /\ MemoryMapOk /\ ModuleThere /\ EvidenceManifestOk) THEN "fail"
    ELSE IF ImportBlocked THEN "blocked" ELSE "pass"

DtsAudit ==
    IF art["dts"] # 0 /\ {"cpu", "memory", "clint", "plic", "serial", "stdout"} \subseteq DtsOf
    THEN "pass" ELSE "blocked"

\* A directory must hold a file, a file the least bytes.
PayloadTokens == {"cpu", "memory", "clint", "plic", "serial", "stdout"}
ArtifactStatus(a) ==
    CASE a = "simulator"     -> size[a] # "empty"
      [] a = "generated_src" -> art[a] # 0 /\ size[a] # "empty"
      [] OTHER               -> art[a] # 0 /\ LongEnough(a)

PayloadPath ==
    IF ~EvidenceManifestOk THEN "fail"
    ELSE IF art["dts"] # 0 /\ ~(PayloadTokens \subseteq DtsOf) THEN "fail"
    ELSE IF \/ \E a \in Artifacts : ~ArtifactStatus(a)
            \/ ~ManifestIs({"cut", "whole"}) \/ ~AllTranscripts THEN "blocked"
    ELSE "pass"

\* The generated part of the boot readiness report: files that are not empty.
ReadinessTokens == {"cpu", "mmu", "memory", "serial", "plic"}
ReadinessGenerated ==
    IF art["dts"] # 0 /\ ~(ReadinessTokens \subseteq DtsOf) THEN "fail"
    ELSE IF \/ \E a \in {"verilog", "dts"} : art[a] = 0 \/ size[a] = "empty"
            \/ ~ManifestIs({"small", "cut", "whole"}) THEN "blocked"
    ELSE "pass"

\* ---------------------------------------------------------- generated gate
ShaOkIfRecorded(recorded, actual) == recorded # 0 /\ actual # 0 => recorded = actual
ShaOkUnseen(recorded, actual) == recorded # 0

\* validate_sha256: an entry must be there, and be that of the file, if the
\* file is there.
ShaOk(recorded, actual) == recorded # 0 /\ (actual # 0 => recorded = actual)

\* A file that is there, a directory with something in it.
PathKindOk(a) == art[a] # 0 /\ (a \in {"generated_src", "simulator"} => size[a] # "empty")

\* min_bytes and required_strings.
TokensOk(a) ==
    /\ a = "dts" => "generic" \in DtsOf
    /\ a = "verilog" => ModuleThere

\* A transcript passes text_problems: its own text and the header's.
TextOk(t) == tr[t].ok

SelectedManifestOk == claim \notin {"status", "linux", "flip"} /\ EvidenceManifestOk

\* check_chipyard_generator_manifest.py --require-generated
GeneratedGate ==
    /\ ManifestIs({"whole"})
    /\ SelectedManifestOk
    /\ \A a \in em.artifacts : PathKindOk(a) /\ TokensOk(a) /\ ShaOk(man.art[a], art[a])
    /\ \A t \in em.transcripts : tr[t].id # 0 => TextOk(t) /\ ShaOk(man.ev[t], tr[t].id)

\* ----------------------------------------------------------- evidence gate
BoundToAny(t) == man.id # 0 /\ tr[t].bound # 0

\* transcript_metadata_problems: bound to the manifest that is there now.
Bound(t) == man.id # 0 /\ tr[t].bound = man.id

ScaffoldOk == claim \notin {"has_cpu", "status", "linux"} /\ EvidenceManifestOk

EvidenceProblems == {t \in em.transcripts : tr[t].id # 0 /\ ~(TextOk(t) /\ Bound(t))}

\* check_cpu_ap_evidence.py --require-evidence
EvidenceGate == ScaffoldOk /\ EvidenceProblems = {} /\ AllTranscripts

CompletionClaimed == claim # "none"

\* ---------------------------------------------------------------- initial

NoFile == [id |-> 0, bound |-> 0, ok |-> FALSE]
NoManifest == [id |-> 0, hand |-> FALSE,
               art |-> [a \in Artifacts |-> 0], ev |-> [t \in Transcripts |-> 0]]

CpuApInit ==
    /\ clock = 0
    /\ co \in Checkouts
    /\ cgen = 0 /\ csim = 0
    /\ art = [a \in Artifacts |-> 0]
    /\ size = [a \in Artifacts \cup {"manifest"} |-> "empty"]
    /\ man = NoManifest
    /\ gen = "idle"
    /\ em \in Manifests
    /\ tr = [t \in Transcripts |-> NoFile]
    /\ intk = [pc |-> "idle", bound |-> 0, ok |-> FALSE]
    /\ claim = "none"
    /\ gate = [pc |-> "idle", raced |-> FALSE, passed |-> FALSE]

\* A change of what the completion gate reads while it runs.
Touched == gate' = [gate EXCEPT !.raced = @ \/ gate.pc # "idle"]

\* A file is written to its end.
ToItsEnd(a) == size' = [size EXCEPT ![a] = "whole"]

Fresh == clock < MaxClock /\ clock' = clock + 1

\* --------------------------------------------------------------- generator

\* main: two preflights, one after the other, each of which must exit 0.
StartGenerate ==
    /\ gen = "idle" /\ ImportPreflight = "pass"
    /\ gen' = "preflight"
    /\ UNCHANGED <<clock, co, cgen, csim, art, size, man, em, tr, intk, claim, gate>>

SecondPreflight ==
    /\ gen = "preflight"
    /\ gen' = IF VerilatorPreflight = "pass" THEN "generate" ELSE "idle"
    /\ UNCHANGED <<clock, co, cgen, csim, art, size, man, em, tr, intk, claim, gate>>

RunGenerator ==
    /\ gen = "generate" /\ Fresh
    /\ cgen' = clock + 1
    /\ gen' = "import"
    /\ UNCHANGED <<co, csim, art, size, man, em, tr, intk, claim, gate>>

\* import_artifacts: rmtree, copytree ...
ImportTree ==
    /\ gen = "import"
    /\ \/ /\ art["generated_src"] # 0
          /\ art' = [art EXCEPT !["generated_src"] = 0] /\ gen' = gen
       \/ /\ art["generated_src"] = 0
          /\ art' = [art EXCEPT !["generated_src"] = cgen] /\ gen' = "dts"
    /\ ToItsEnd("generated_src") /\ Touched
    /\ UNCHANGED <<clock, co, cgen, csim, man, em, tr, intk, claim>>

\* ... the DTS ...
ImportDts ==
    /\ gen = "dts"
    /\ art' = [art EXCEPT !["dts"] = cgen]
    /\ gen' = "verilog"
    /\ ToItsEnd("dts") /\ Touched
    /\ UNCHANGED <<clock, co, cgen, csim, man, em, tr, intk, claim>>

\* ... the Verilog firtool makes of it ...
ImportVerilog ==
    /\ gen = "verilog"
    /\ art' = [art EXCEPT !["verilog"] = art["generated_src"]]
    /\ gen' = "simulator"
    /\ ToItsEnd("verilog") /\ Touched
    /\ UNCHANGED <<clock, co, cgen, csim, man, em, tr, intk, claim>>

\* ... and the simulator that lies in the checkout, if there is one.  The
\* import goes on when an executable is there, this one or an older one.
ImportSimulator ==
    /\ gen = "simulator"
    /\ art' = [art EXCEPT !["simulator"] = IF csim # 0 THEN csim ELSE @]
    /\ gen' = IF art'["simulator"] # 0 THEN "manifest" ELSE "idle"
    /\ ToItsEnd("simulator") /\ Touched
    /\ UNCHANGED <<clock, co, cgen, csim, man, em, tr, intk, claim>>

\* write_manifest: the hashes of what is imported, and no evidence hash.
WriteManifest ==
    /\ gen = "manifest" /\ Fresh
    /\ man' = [id |-> clock + 1, hand |-> FALSE, art |-> art,
               ev |-> [t \in Transcripts |-> 0]]
    /\ gen' = "idle"
    /\ ToItsEnd("manifest") /\ Touched
    /\ UNCHANGED <<co, cgen, csim, art, em, tr, intk, claim>>

\* A step fails, or the generator is killed between two writes ...
GeneratorFails ==
    /\ gen # "idle"
    /\ gen' = "idle"
    /\ UNCHANGED <<clock, co, cgen, csim, art, size, man, em, tr, intk, claim, gate>>

\* ... or while it writes an artifact.  The copy of a simulator gets its mode at
\* the end, so only one in the place of an older one can be executed.
ArtifactCut ==
    /\ gen \in {"import", "dts", "verilog", "simulator"} /\ Fresh
    /\ LET a == IF gen = "import" THEN "generated_src" ELSE gen IN
         /\ art' = [art EXCEPT ![a] =
                      IF a = "simulator" /\ (@ = 0 \/ csim = 0) THEN @ ELSE clock + 1]
         /\ \E s \in IF a = "simulator" THEN {"cut"} ELSE Remains[a] :
              size' = [size EXCEPT ![a] = s]
    /\ gen' = "idle"
    /\ Touched
    /\ UNCHANGED <<co, cgen, csim, man, em, tr, intk, claim>>

\* ... or the manifest, which is no JSON then.
ManifestCut ==
    /\ gen = "manifest" /\ Fresh
    /\ man' = [NoManifest EXCEPT !.id = clock + 1]
    /\ \E s \in Remains["manifest"] \ {"whole"} : size' = [size EXCEPT !["manifest"] = s]
    /\ gen' = "idle"
    /\ Touched
    /\ UNCHANGED <<co, cgen, csim, art, em, tr, intk, claim>>

\* run_chipyard_openagent_verilator.sh: the second preflight, then make builds
\* a simulator of the collateral, which it makes when there is none.
BuildSimulator ==
    /\ VerilatorPreflight = "pass"
    /\ \/ /\ cgen = 0 /\ Fresh
          /\ cgen' = clock + 1
       \/ /\ cgen # 0 /\ csim # cgen
          /\ UNCHANGED <<clock, cgen>>
    /\ csim' = cgen'
    /\ UNCHANGED <<co, art, size, man, gen, em, tr, intk, claim, gate>>

\* Somebody works in the checkout.
ChangeCheckout ==
    /\ gen \in {"idle", "preflight"} /\ Fresh
    /\ \E u \in Upsets : co.subs[u[1]] # u[2] /\ co' = [co EXCEPT !.subs[u[1]] = u[2]]
    /\ UNCHANGED <<cgen, csim, art, size, man, gen, em, tr, intk, claim, gate>>

\* ------------------------------------------------------------------ intake

\* build_entries: a lane has a command.
Wired(t) == t \in EnvCommands \/ (t \in Derived /\ man.id # 0 /\ Runner)

\* intake, whose source was accepted: it takes the manifest's hash.  ok is
\* whether the header's own words, the source's path among them, pass too.
IntakeRead(t) ==
    /\ intk.pc = "idle" /\ EvidenceManifestOk /\ man.id # 0 /\ Wired(t)
    /\ \E ok \in BOOLEAN : intk' = [pc |-> t, bound |-> man.id, ok |-> ok]
    /\ UNCHANGED <<clock, co, cgen, csim, art, size, man, gen, em, tr, claim, gate>>

\* It writes the transcript, or is killed while it does.
IntakeWrite(t) ==
    /\ intk.pc = t /\ Fresh
    /\ \E whole \in BOOLEAN :
         tr' = [tr EXCEPT ![t] = [id |-> clock + 1, bound |-> intk.bound, ok |-> intk.ok /\ whole]]
    /\ intk' = [pc |-> "idle", bound |-> 0, ok |-> FALSE]
    /\ Touched
    /\ UNCHANGED <<co, cgen, csim, art, size, man, gen, em, claim>>

\* The operator copies what "hashes" prints into the import manifest.
RecordHashes ==
    /\ EvidenceManifestOk /\ ManifestIs({"whole"}) /\ Fresh
    /\ man' = [man EXCEPT !.id = clock + 1, !.hand = TRUE, !.art = art,
                 !.ev = [t \in Transcripts |-> tr[t].id]]
    /\ Touched
    /\ UNCHANGED <<co, cgen, csim, art, size, gen, em, tr, intk, claim>>

\* ------------------------------------------------------------- repository

\* The evidence manifest or the claim in the repository is edited.
EditManifest ==
    /\ em' \in Manifests \ {em} /\ Fresh
    /\ Touched
    /\ UNCHANGED <<co, cgen, csim, art, size, man, gen, tr, intk, claim>>

EditClaim ==
    /\ claim' \in Claims \ {claim} /\ Fresh
    /\ Touched
    /\ UNCHANGED <<co, cgen, csim, art, size, man, gen, em, tr, intk>>

\* --------------------------------------------------------- completion gate

\* It checks when there is a claim or when --require-complete asks for it.
StartCompletion ==
    /\ gate.pc = "idle"
    /\ gate' = [pc |-> "generated", raced |-> FALSE, passed |-> FALSE]
    /\ UNCHANGED <<clock, co, cgen, csim, art, size, man, gen, em, tr, intk, claim>>

\* Without either it reports BLOCKED and exits 0: no PASS.
ReportBlocked ==
    /\ gate.pc = "idle" /\ ~CompletionClaimed
    /\ gate' = [pc |-> "idle", raced |-> FALSE, passed |-> FALSE]
    /\ UNCHANGED <<clock, co, cgen, csim, art, size, man, gen, em, tr, intk, claim>>

RunGeneratedGate ==
    /\ gate.pc = "generated"
    /\ gate' = [pc |-> IF GeneratedGate THEN "evidence" ELSE "idle",
                raced |-> FALSE, passed |-> FALSE]
    /\ UNCHANGED <<clock, co, cgen, csim, art, size, man, gen, em, tr, intk, claim>>

RunEvidenceGate ==
    /\ gate.pc = "evidence"
    /\ gate' = [pc |-> "idle", raced |-> FALSE, passed |-> EvidenceGate]
    /\ UNCHANGED <<clock, co, cgen, csim, art, size, man, gen, em, tr, intk, claim>>

Generator == \/ StartGenerate \/ SecondPreflight \/ RunGenerator \/ ImportTree
             \/ ImportDts \/ ImportVerilog \/ ImportSimulator \/ WriteManifest
             \/ GeneratorFails \/ ArtifactCut \/ ManifestCut
Intake == \E t \in Transcripts : IntakeRead(t) \/ IntakeWrite(t)
Repository == BuildSimulator \/ ChangeCheckout \/ RecordHashes \/ EditManifest \/ EditClaim
Completion == StartCompletion \/ ReportBlocked \/ RunGeneratedGate \/ RunEvidenceGate

CpuApNext == Generator \/ Intake \/ Repository \/ Completion

CpuApSpec == CpuApInit /\ [][CpuApNext]_vars

-----------------------------------------------------------------------------
\* Files and processes are of their kinds, and no number is ahead of the
\* contents written.
CpuApTypeOK ==
    /\ clock \in Nat /\ cgen \in 0 .. clock /\ csim \in 0 .. clock
    /\ co \in CheckoutStates
    /\ art \in [Artifacts -> 0 .. clock]
    /\ size \in [Artifacts \cup {"manifest"} -> Sizes]
    /\ man \in [id : 0 .. clock, hand : BOOLEAN,
                art : [Artifacts -> 0 .. clock], ev : [Transcripts -> 0 .. clock]]
    /\ gen \in {"idle", "preflight", "generate", "import", "dts", "verilog", "simulator",
               "manifest"}
    /\ tr \in [Transcripts -> [id : 0 .. clock, bound : 0 .. clock, ok : BOOLEAN]]
    /\ intk \in [pc : Transcripts \cup {"idle"}, bound : 0 .. clock, ok : BOOLEAN]
    /\ gate \in [pc : {"idle", "generated", "evidence"}, raced : BOOLEAN, passed : BOOLEAN]

\* The completion gate runs the generated gate and then the evidence gate.
\* The first wants every transcript's hash in the import manifest, the second
\* the manifest's hash in every transcript: no files satisfy both.
NeverConsistent == ~(GeneratedGate /\ EvidenceGate)

\* So a PASS of the completion gate is given only when somebody changed what
\* it reads between its two halves.
RacedIfPassed == RunEvidenceGate /\ gate'.passed => gate.raced
PassIsRaced == [][RacedIfPassed]_vars

\* A generator that is killed between two imports, or runs again after it,
\* leaves files of two generations.  As long as nobody copied hashes into
\* the manifest by hand, the generated gate accepts Verilog, device tree and
\* sources of one generation only.
OneGeneration ==
    GeneratedGate /\ ~man.hand =>
        /\ art["verilog"] = art["generated_src"]
        /\ art["dts"] = art["generated_src"]

\* The gates of the repository agree as far as they look at the same things.  With
\* both preflights passed, generators/rocket-chip is clean all the way down; of the
\* other submodules only a merge conflict is overlooked.  Artifacts the generated
\* gate accepts, with their transcripts, leave nothing the weaker gates are still
\* blocked for.  Where the Linux contract passes, no gate fails; they are blocked
\* only for an import manifest shorter than they ask for.  An evidence manifest that
\* asks for less passes none of them.
GatesAgree ==
    /\ ImportPreflight = "pass" /\ VerilatorPreflight = "pass" =>
         /\ co.subs["rocket"] = "clean" /\ co.subs["nested"] = "clean"
         /\ co.subs["others"] \in {"clean", "conflict"}
    /\ GeneratedGate /\ AllTranscripts =>
         /\ LinuxContract # "blocked" /\ PayloadPath # "blocked"
         /\ ReadinessGenerated # "blocked"
    /\ LinuxContract = "pass" =>
         /\ DtsAudit = "pass" /\ PayloadPath # "fail" /\ ReadinessGenerated # "fail"
         /\ PayloadPath = "blocked" => size["manifest"] \in {"empty", "small"}
         /\ ReadinessGenerated = "blocked" => size["manifest"] = "empty"
    /\ ~(Transcripts \subseteq em.transcripts) =>
         ~GeneratedGate /\ ~EvidenceGate /\ PayloadPath = "fail" /\ LinuxContract = "fail"

\* "After all captures pass, copy the printed artifact_sha256.* and
\* evidence_sha256.* values ... into the generated import manifest, then rerun
\* the checks" (docs/evidence/cpu/README.md): the manifest the transcripts are bound
\* to is another one then, and the evidence gate refuses all of them.
RecordingUnbinds == RecordHashes => ~EvidenceGate'

\* "Simulator ... built from the pinned generated AP": the simulator the
\* generated gate accepts is one of the sources it accepts.
SimulatorOfSources ==
    GeneratedGate /\ ~man.hand => art["simulator"] = art["generated_src"]
=============================================================================
