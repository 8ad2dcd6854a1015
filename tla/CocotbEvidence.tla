--------------------------- MODULE CocotbEvidence ---------------------------
(***************************************************************************)
(* The results of the cocotb simulations, from the simulator's file to the *)
(* manifest the gates believe (scripts/run_cocotb.sh,                      *)
(* check_cocotb_results.py, pipeline_check.py, check_mvp_status.py).       *)
(*                                                                         *)
(* A job is a run of run_cocotb.sh for one target.  Jobs overlap: they     *)
(* exclude each other with two directories, a target's lock and then the   *)
(* results lock.  The job of the top target begins a round: it removes all *)
(* results, before it has any lock.  SIGKILL ends a job anywhere.  SIGTERM *)
(* runs the trap, which removes both locks, and the script goes on.        *)
(* One accident in a behaviour is enough.                                  *)
(***************************************************************************)
EXTENDS Naturals, FiniteSets

CONSTANTS
    Jobs,       \* numbers of processes; the first that is free is taken
    CocotbTargets,
    Top,        \* e1_chip_top_test_e1_chip, whose job begins a round
    MaxSims,    \* bound: jobs started
    MaxRevs     \* bound: revisions of the sources

ASSUME CocotbAssumption ==
    Jobs \subseteq Nat /\ Top \in CocotbTargets /\ MaxSims \in Nat /\ MaxRevs \in Nat

VARIABLES
    job,        \* per job, its next command and what it knows
    locked,     \* lock directories there are: targets, and "results"
    shared,     \* verify/cocotb/results.xml
    result,     \* per target, verify/cocotb/results/<target>.xml
    archive,    \* per target, build/reports/cocotb/<target>.xml
    manifest,   \* build/reports/cocotb/manifest.json: entries of targets
    rev,        \* revision of the sources
    simulations,       \* jobs started
    excuse      \* history: what happened that no lock covers

cocotbVars == <<job, locked, shared, result, archive, manifest, rev, simulations, excuse>>

\* An XML file: the target and round it was simulated for, the sources, and
\* whether all its test cases pass.
NoXml == [of |-> "none", id |-> 0, rev |-> 0, ok |-> FALSE, fresh |-> FALSE]
\* An entry: the digest of an XML file and the revision of source_hashes.
NoEntry == [sha |-> 0, rev |-> 0]
NoEntries == [t \in CocotbTargets |-> NoEntry]
IdleJob == [pc |-> "idle", t |-> Top, n |-> 0, draft |-> NoEntries]

InSection == {"simulate", "save", "archive", "load", "write", "unlock"}

CocotbInit ==
    /\ job = [j \in Jobs |-> IdleJob]
    /\ locked = {} /\ shared = NoXml
    /\ result = [t \in CocotbTargets |-> NoXml]
    /\ archive = [t \in CocotbTargets |-> NoXml]
    /\ manifest = NoEntries
    /\ rev = 1 /\ simulations = 0 /\ excuse = {}

JobStep(j, from, to) == job[j].pc = from /\ job' = [job EXCEPT ![j].pc = to]

Stale(x) == [x EXCEPT !.fresh = FALSE]

\* ------------------------------------------------------------ run_cocotb.sh

StartJob(j, t) ==
    /\ simulations < MaxSims /\ simulations' = simulations + 1
    /\ job[j].pc = "idle" /\ \A k \in Jobs : job[k].pc = "idle" => j <= k
    /\ job' = [job EXCEPT ![j] = [IdleJob EXCEPT !.pc = IF t = Top THEN "clean" ELSE "lock",
                                             !.t = t, !.n = simulations + 1]]
    /\ UNCHANGED <<locked, shared, result, archive, manifest, rev, excuse>>

\* rm -f of the manifest and of all results, whoever is at work.
Clean(j) ==
    /\ JobStep(j, "clean", "lock")
    /\ manifest' = NoEntries
    /\ archive' = [t \in CocotbTargets |-> NoXml]
    /\ result' = [t \in CocotbTargets |-> NoXml]
    /\ shared' = Stale(shared)
    /\ excuse' = IF \E k \in Jobs : job[k].pc \in InSection THEN excuse \cup {"clean"} ELSE excuse
    /\ UNCHANGED <<locked, rev, simulations>>

LockTarget(j) ==
    /\ job[j].t \notin locked /\ JobStep(j, "lock", "lockresults")
    /\ locked' = locked \cup {job[j].t}
    /\ UNCHANGED <<shared, result, archive, manifest, rev, simulations, excuse>>
LockResultsBlindly(j) ==
    /\ JobStep(j, "lockresults", "simulate")
    /\ locked' = locked \cup {"results"}
    /\ shared' = NoXml
    /\ result' = [result EXCEPT ![job[j].t] = NoXml]
    /\ UNCHANGED <<archive, manifest, rev, simulations, excuse>>

\* Then rm -rf of the build and of this target's old results.
LockResults(j) ==
    /\ "results" \notin locked /\ JobStep(j, "lockresults", "simulate")
    /\ locked' = locked \cup {"results"}
    /\ shared' = NoXml
    /\ result' = [result EXCEPT ![job[j].t] = NoXml]
    /\ UNCHANGED <<archive, manifest, rev, simulations, excuse>>

\* make: the simulator leaves its verdicts, or nothing and make fails.
Simulate(j) ==
    /\ \/ /\ JobStep(j, "simulate", "save")
          /\ \E ok \in BOOLEAN :
               shared' = [of |-> job[j].t, id |-> job[j].n, rev |-> rev, ok |-> ok, fresh |-> TRUE]
       \/ JobStep(j, "simulate", "unlock") /\ shared' = shared
    /\ UNCHANGED <<locked, result, archive, manifest, rev, simulations, excuse>>

\* cp of results.xml, for the record and for the checker.
Save(j) ==
    /\ JobStep(j, "save", IF shared = NoXml THEN "unlock" ELSE "archive")
    /\ result' = [result EXCEPT ![job[j].t] = IF shared = NoXml THEN @ ELSE shared]
    /\ UNCHANGED <<locked, shared, archive, manifest, rev, simulations, excuse>>

\* ------------------------------------------------- check_cocotb_results.py

\* result_stats: what does not pass, or is not there any more, is not
\* archived.
Archive(j) ==
    /\ JobStep(j, "archive", IF result[job[j].t].ok THEN "load" ELSE "unlock")
    /\ archive' = [archive EXCEPT ![job[j].t] = IF result[job[j].t].ok THEN result[job[j].t] ELSE @]
    /\ UNCHANGED <<locked, shared, result, manifest, rev, simulations, excuse>>

\* rebuild_manifest_from_archives: what is archived keeps the rest of its
\* entry and gets the digest of the file of today.
Rebuilt == [t \in CocotbTargets |->
              IF archive[t] # NoXml /\ manifest[t] # NoEntry
              THEN [manifest[t] EXCEPT !.sha = archive[t].id] ELSE NoEntry]

\* load_manifest; then source_hashes, of the sources as they are by now.  The
\* digest of an archive that is gone ends the checker.
Load(j) ==
    /\ job[j].pc = "load"
    /\ job' = [job EXCEPT ![j].pc = IF archive[job[j].t] = NoXml THEN "unlock" ELSE "write",
                 ![j].draft = [Rebuilt EXCEPT ![job[j].t] = [sha |-> archive[job[j].t].id, rev |-> rev]]]
    /\ UNCHANGED <<locked, shared, result, archive, manifest, rev, simulations, excuse>>

WriteCocotbManifest(j) ==
    /\ JobStep(j, "write", "unlock")
    /\ manifest' = job[j].draft
    /\ UNCHANGED <<locked, shared, result, archive, rev, simulations, excuse>>
RemoveTargetLock(j) ==
    /\ job[j].pc = "unlock" /\ job' = [job EXCEPT ![j] = IdleJob]
    /\ locked' = locked \ {job[j].t}
    /\ UNCHANGED <<shared, result, archive, manifest, rev, simulations, excuse>>

\* The trap of EXIT, whoever holds the locks by now.
RemoveLocks(j) ==
    /\ job[j].pc = "unlock" /\ job' = [job EXCEPT ![j] = IdleJob]
    /\ locked' = locked \ {job[j].t, "results"}
    /\ UNCHANGED <<shared, result, archive, manifest, rev, simulations, excuse>>

\* --------------------------------------------------------------- accidents

\* SIGTERM to the script alone: the trap removes the locks, and the script
\* goes on with its next command.
Terminated(j) ==
    /\ job[j].pc \in InSection \ {"unlock"} /\ excuse = {}
    /\ locked' = locked \ {job[j].t, "results"} /\ excuse' = excuse \cup {"term"}
    /\ UNCHANGED <<job, shared, result, archive, manifest, rev, simulations>>

\* SIGKILL: locks stay, and so does what has been written.
Killed(j) ==
    /\ job[j].pc # "idle" /\ excuse = {}
    /\ job' = [job EXCEPT ![j] = IdleJob] /\ excuse' = excuse \cup {"kill"}
    /\ UNCHANGED <<locked, shared, result, archive, manifest, rev, simulations>>

EditSources ==
    /\ rev < MaxRevs /\ excuse = {} /\ rev' = rev + 1
    /\ excuse' = IF \E j \in Jobs : job[j].pc \in InSection THEN excuse \cup {"edit"} ELSE excuse
    /\ UNCHANGED <<job, locked, shared, result, archive, manifest, simulations>>

Work(j) ==
    \/ Clean(j) \/ LockTarget(j) \/ LockResults(j) \/ Simulate(j) \/ Save(j)
    \/ Archive(j) \/ Load(j) \/ WriteCocotbManifest(j) \/ RemoveLocks(j)

CocotbNext ==
    \/ \E j \in Jobs : Work(j) \/ Terminated(j) \/ Killed(j) \/ \E t \in CocotbTargets : StartJob(j, t)
    \/ EditSources

CocotbFairness == \A j \in Jobs : WF_cocotbVars(Work(j))
CocotbSpec == CocotbInit /\ [][CocotbNext]_cocotbVars /\ CocotbFairness
-----------------------------------------------------------------------------
\* validate_cocotb_manifest of pipeline_check.py finds nothing.  stats in an
\* entry are of the file its digest is of.
PipelineAccepts ==
    \A t \in CocotbTargets : archive[t] # NoXml /\ manifest[t].sha = archive[t].id /\ archive[t].ok

\* cocotb_status of check_mvp_status.py: a manifest must list all targets,
\* without one the files decide, the archived one before the other.
CocotbStatus ==
    LET Seen(t) == IF archive[t] # NoXml THEN archive[t] ELSE result[t] IN
    IF manifest # NoEntries /\ \E t \in CocotbTargets : manifest[t] = NoEntry THEN "BLOCK"
    ELSE IF \E t \in CocotbTargets : Seen(t) = NoXml THEN "BLOCK"
    ELSE IF \E t \in CocotbTargets : ~Seen(t).ok THEN "FAIL" ELSE "PASS"

\* Evidence the pipeline accepts is what it says it is.  check_mvp_status
\* passes it too; every file is of its own target, though all simulations
\* leave theirs in one place, unless a job was terminated; an entry names the
\* sources that were simulated unless they were edited, or a job was killed,
\* on the way; and nothing in it is older than the last round unless the
\* round began in the middle of a job.
AcceptedEvidence ==
    PipelineAccepts =>
        /\ CocotbStatus = "PASS"
        /\ "term" \notin excuse => \A t \in CocotbTargets : archive[t].of = t
        /\ excuse = {} => \A t \in CocotbTargets : manifest[t].rev = archive[t].rev
        /\ excuse \cap {"term", "clean"} = {} => \A t \in CocotbTargets : archive[t].fresh

\* However many wait for the same locks, and as only so many begin, the jobs
\* come to rest, unless one was killed: what it had locked stays locked.
JobsRest == (\A j \in Jobs : job[j].pc = "idle") \/ "kill" \in excuse
EveryJobEnds == []<>JobsRest
=============================================================================
