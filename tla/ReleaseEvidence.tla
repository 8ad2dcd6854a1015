--------------------------- MODULE ReleaseEvidence ---------------------------
(***************************************************************************)
(* Manufacturing evidence: the files vendors and tools deliver, the        *)
(* manifests that claim them, the records that bind some to their digests, *)
(* and the two gates with --release (check_board_package_evidence.py,      *)
(* check_manufacturing_artifacts.py).                                      *)
(*                                                                         *)
(* An artifact has expressions that may find many files.  The first gate   *)
(* reads one manifest and compares digests only of the files its records   *)
(* name.  The second reads four others, and then reads every file that     *)
(* their expressions find again, for its resolved manifest.  Files change  *)
(* at any moment.  A content is a number, fresh for every write; 0 is no   *)
(* file.                                                                   *)
(***************************************************************************)
EXTENDS Naturals

CONSTANTS
    Files,          \* the files that may be delivered
    Items,          \* artifacts of board-package-evidence.yaml ...
    RequiredItems,  \* ... those of REQUIRED_RELEASE_BLOCKER_IDS among them
    Listings,       \* artifacts of the four manifests of the second gate
    RequiredListings,\* REQUIRED_GROUP_ARTIFACT_ALIASES
    Globs,          \* per artifact, the files its expressions find
    Nameable,       \* per item, the files that a record of it may name (Path.match)
    Placeholders,   \* the template, the placeholders and files below such a directory
    Reports,        \* listings with a fail_regex or clean_regex
    Headers,        \* heads of the manifests, what they list and link to
    MaxContents     \* bound: contents and edits in a behaviour

ASSUME ReleaseAssumption ==
    /\ RequiredItems \subseteq Items /\ RequiredListings \subseteq Listings
    /\ Globs \in [Items \cup Listings -> SUBSET Files]
    /\ Nameable \in [Items -> SUBSET Files]
    /\ MaxContents \in Nat

VARIABLES
    stamp,     \* contents and edits so far
    file,      \* per file, its content and what is in it
    entry,     \* per artifact, what its manifest says of it
    records,   \* per item and file, the evidence record
    head,      \* the rest of the manifests
    audit,     \* a run of the manufacturing gate
    inventory  \* its resolved manifest: per listing and file, the digest

releaseVars == <<stamp, file, entry, records, head, audit, inventory>>

Edited == stamp < MaxContents /\ stamp' = stamp + 1

\* matching_files
Found(i) == {f \in Globs[i] : file[f].id # 0}
NoRecord == [sha |-> 0, accepted |-> FALSE]
Recorded(i) == {f \in Files : records[i][f].sha # 0}

\* validate_artifact of either gate: the status agrees with what is found, and the
\* metadata an artifact requires is there once it is complete.
ArtifactOk(i, release) ==
    /\ entry[i].status = "missing" => Found(i) = {}
    /\ entry[i].status = "complete" => Found(i) # {}
    /\ release \/ entry[i].status = "complete" => entry[i].meta = "full"
    /\ release => entry[i].status = "complete"

\* ------------------------------------------------------------ board gate

\* The linked pinout, padframe and cross-probe contracts name each other and
\* count the same pins.
SourceContractsOk == head.contracts /\ head.pins
CaptureTemplateOk == head.template = "template_not_release_evidence"

\* Every row and item of the scaling assessment remains blocked.
ScalingAssessmentOk == head.scaling = "blocked"
RecordPolicyOk == head.policy

\* Each placeholder still says that it is one.
PlaceholderBlockersOk == head.placeholders
RecordOkOnce(i, f) ==
    /\ records[i][f].accepted /\ f \in Nameable[i] \ Placeholders
    /\ file[f].id # 0 /\ file[f].text # "marked"

\* validate_evidence_records: the record names a file that may be one of the item's, is
\* neither a placeholder nor marked as one, was accepted, and has the file's digest.
RecordOk(i, f) ==
    /\ records[i][f].accepted /\ f \in Nameable[i] \ Placeholders
    /\ file[f].id # 0 /\ file[f].text # "marked"
    /\ records[i][f].sha = file[f].id

BoardItemOk(i, release) ==
    /\ ArtifactOk(i, release)
    /\ entry[i].status = "complete" => Recorded(i) # {}
    /\ \A f \in Recorded(i) : RecordOk(i, f)

\* check_board_package_evidence.py, with or without --release.  A released
\* manifest still has the status release_blocked.
BoardGate(release) ==
    /\ head.status = "release_blocked"
    /\ SourceContractsOk /\ CaptureTemplateOk /\ ScalingAssessmentOk
    /\ RecordPolicyOk /\ PlaceholderBlockersOk
    /\ RequiredItems \subseteq head.listed
    /\ release => head.groups = "complete"
    /\ \A i \in head.listed : BoardItemOk(i, release)

\* ---------------------------------------------------- manufacturing gate

\* check_report_markers, of every file that is found.
MarkersOk(i) == i \in Reports => \A f \in Found(i) : file[f].text # "dirty"

MfgItemOk(i, release) == ArtifactOk(i, release) /\ (release => MarkersOk(i))

\* validate_required_artifact_names
NamesOk == RequiredListings \subseteq Listings \ head.unlisted

\* validate_manifest of the four manifests, with their groups and release gates.
MfgGate(release) ==
    /\ release => ~head.blocked
    /\ NamesOk
    /\ \A i \in Listings \ head.unlisted : MfgItemOk(i, release)

\* ---------------------------------------------------------------- actions

ReleaseInit ==
    /\ stamp = 0
    /\ file = [f \in Files |-> [id |-> 0, text |-> "clean"]]
    /\ entry = [i \in Items \cup Listings |-> [status |-> "missing", meta |-> "none"]]
    /\ records = [i \in Items |-> [f \in Files |-> NoRecord]]
    /\ head \in Headers
    /\ audit = [pc |-> "idle", release |-> FALSE, ok |-> FALSE, raced |-> FALSE]
    /\ inventory = [i \in Listings |-> [f \in Files |-> 0]]

\* A vendor or a tool delivers a file, or one is removed.
Delivered(f, content) ==
    /\ Edited
    /\ file' = [file EXCEPT ![f] = content]
    /\ audit' = [audit EXCEPT !.raced = @ \/ audit.pc = "inventory"]
    /\ UNCHANGED <<entry, records, head, inventory>>
Deliver(f) ==
    \E t \in {"clean", "marked", "dirty"} : Delivered(f, [id |-> stamp + 1, text |-> t])
Remove(f) == file[f].id # 0 /\ Delivered(f, [id |-> 0, text |-> "clean"])

\* An engineer records the digest of a file that is there and what the review
\* said, and claims the item.
RecordFile(i, f) ==
    /\ Edited /\ file[f].id # 0
    /\ \E ok \in BOOLEAN : records' = [records EXCEPT ![i][f] = [sha |-> file[f].id, accepted |-> ok]]
    /\ entry' = [entry EXCEPT ![i] = [status |-> "complete", meta |-> "full"]]
    /\ UNCHANGED <<file, head, audit, inventory>>

ClaimStatus(i) ==
    /\ Edited
    /\ \E e \in [status : {"missing", "draft", "complete"}, meta : {"none", "full"}] \ {entry[i]} :
         entry' = [entry EXCEPT ![i] = e]
    /\ UNCHANGED <<file, records, head, audit, inventory>>

\* The manufacturing gate validates ...
Validate(release) ==
    /\ audit.pc = "idle"
    /\ audit' = [pc |-> "inventory", release |-> release, ok |-> MfgGate(release), raced |-> FALSE]
    /\ UNCHANGED <<stamp, file, entry, records, head, inventory>>

\* ... and then finds and reads all files again for the resolved manifest, which
\* it writes whatever the validation said.
ResolveManifest ==
    /\ audit.pc = "inventory"
    /\ inventory' = [i \in Listings |-> [f \in Files |->
                       IF i \notin head.unlisted /\ f \in Globs[i] THEN file[f].id ELSE 0]]
    /\ audit' = [audit EXCEPT !.pc = "idle"]
    /\ UNCHANGED <<stamp, file, entry, records, head>>

ReleaseNext ==
    \/ \E f \in Files : Deliver(f) \/ Remove(f) \/ \E i \in Items : RecordFile(i, f)
    \/ \E i \in Items \cup Listings : ClaimStatus(i)
    \/ \E release \in BOOLEAN : Validate(release)
    \/ ResolveManifest

ReleaseSpec == ReleaseInit /\ [][ReleaseNext]_releaseVars

-----------------------------------------------------------------------------
\* Once the board gate releases, a recorded file that is delivered again, good or
\* bad, or removed, takes the release back until somebody records it.  (A file that
\* an item's expressions find and no record names may come and go.)
TakenBack ==
    \A i \in Items, f \in Files :
        BoardGate(TRUE) /\ i \in head.listed /\ f \in Recorded(i) /\ file'[f] # file[f]
            => ~BoardGate(TRUE)'

\* A resolved manifest of a run that released, between whose two readings no file
\* came or went, lists for every required artifact a file, no report that would have
\* failed, and of a file that the board gate releases now the digest of its record.
ListsAccepted ==
    ResolveManifest /\ audit.ok /\ audit.release /\ ~audit.raced =>
        \A i \in RequiredListings :
            /\ \E f \in Files : inventory'[i][f] # 0
            /\ \A f \in Files : inventory'[i][f] # 0 =>
                 /\ i \in Reports => file[f].text # "dirty"
                 /\ \A b \in head.listed :
                      BoardGate(TRUE) /\ f \in Recorded(b) => inventory'[i][f] = records[b][f].sha

\* What the board gate releases is never older than what any resolved manifest, of
\* a run raced or failed too, lists of the same file.
NeverOlder ==
    \A b \in head.listed, i \in Listings : \A f \in Recorded(b) :
        BoardGate(TRUE) => inventory[i][f] <= records[b][f].sha
AcceptedIsCurrent == [][TakenBack /\ ListsAccepted /\ NeverOlder']_releaseVars
=============================================================================
