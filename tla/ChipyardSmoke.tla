---------------------------- MODULE ChipyardSmoke ----------------------------
(***************************************************************************)
(* The bounded Linux smoke of the generated Chipyard AP: the wrapper that  *)
(* builds and runs the Verilator model under a wall-clock timeout, the     *)
(* gate that reads its log and writes the smoke report, and the repairs    *)
(* of a stale generated tree and of an interrupted log                     *)
(* (scripts/check_chipyard_verilator_linux_smoke.py,                       *)
(* scripts/repair_chipyard_generated_paths.py,                             *)
(* scripts/locate_chipyard_linux_payload.py, scripts/run_with_timeout.py,  *)
(* scripts/run_chipyard_openagent_linux_smoke.sh).                         *)
(*                                                                         *)
(* They share files and nothing else.  The gate opens the log twice, the   *)
(* wrapper appends to it in three places, a simulator that outlives its    *)
(* timeout keeps its descriptor, and a repair may run at any moment.       *)
(*                                                                         *)
(* What a simulator prints is its boot level: 0 nothing, 1 the payload is  *)
(* loaded and runs, 2 the OpenSBI banner, 3 an OpenSBI handoff marker,     *)
(* 4 the Linux banner, 5 a Linux userland marker.                          *)
(***************************************************************************)
EXTENDS Naturals, Sequences

CONSTANTS
    MaxAttempts,      \* bound: log headers written in a behaviour
    Levels,           \* boot levels a simulator stops at on its way
    Targets,          \* make targets: "run-binary" traces, "run-binary-fast" not
    LockHeld,         \* the pid file of LOCK_DIR names a live process
    AllowContainer,   \* CHIPYARD_ALLOW_CONTAINER_GENERATED_PATHS=1
    Archived,         \* what the archived simulator may be
    Payloads,         \* what the environment variable may name
    Candidates        \* sequences of default payload files, by what they are

ASSUME SmokeAssumption ==
    /\ MaxAttempts \in Nat \ {0} /\ Levels \subseteq 1 .. 5
    /\ AllowContainer \in BOOLEAN /\ LockHeld \in BOOLEAN
    /\ Targets \subseteq {"run-binary", "run-binary-fast"}
    /\ Archived \subseteq {"none", "plain", "exec"}
    /\ Payloads \subseteq {"unset", "file", "nofile"}
    /\ \A c \in Candidates : \A i \in DOMAIN c :
         c[i] \in {"missing", "notelf", "bare", "runnable"}

VARIABLES
    tree,      \* the generated config directory
    gsim,      \* the simulator make built: "none", "plain" or "exec"
    asim,      \* the archived simulator
    smokeLog,  \* verilator-linux-smoke.log
    trace,     \* the instruction trace and which of trace and log is newer
    wrap,      \* the wrapper's state
    sims,      \* per attempt, the simulator it started
    env,       \* payloads a process could find
    chk,       \* the gate's state while it runs
    smokeReport,  \* verilator-linux-smoke.json
    fix,       \* the state of a --repair-incomplete-attempt run
    repaired   \* history: stale-tree repairs since anything else touched it

treeVars == <<tree, gsim, asim, repaired>>
smokeVars == <<tree, gsim, asim, smokeLog, trace, wrap, sims, env, chk, smokeReport,
               fix, repaired>>

\* -------------------------------------------------------------- payload

\* A little-endian ELF64 file, and one the simulator can boot: RISC-V, with
\* an entry and the OpenSBI marker.
ReadsAsElf(kind) == kind \in {"bare", "runnable"}
Runnable(kind) == ReadsAsElf(kind) /\ kind = "runnable"

\* The environment's file comes before the default ones.
CandidatePaths ==
    CASE env.var = "unset"  -> env.cands
      [] env.var = "file"   -> <<"runnable">> \o env.cands
      [] env.var = "nofile" -> <<"missing">> \o env.cands

\* The locator selects the first runnable candidate, if there is one.
Located == \E i \in DOMAIN CandidatePaths : Runnable(CandidatePaths[i])

\* The payload the gate judges: the variable, else the log's, else located.
PayloadOf(logged) ==
    IF env.var # "unset" THEN env.var ELSE IF logged \/ Located THEN "file" ELSE "none"

PayloadBlockers(logged) ==
    CASE PayloadOf(logged) = "none"   -> {"payload unset"}
      [] PayloadOf(logged) = "nofile" -> {"payload missing"}
      [] OTHER                        -> {}

\* ------------------------------------------------------- generated tree

NoTree == [dir |-> FALSE, mk |-> FALSE, zero |-> FALSE, root |-> "host"]

\* Files that name an absolute root of another machine.  "embedded" is such a
\* name inside a longer path: the gate's substring test sees it, the
\* rewriter's pattern does not.
StaleRoots(t) == ~AllowContainer /\ t.dir /\ t.root \in {"container", "embedded"}

GeneratedPathBlockers(t, g) ==
    (IF StaleRoots(t) THEN {"stale paths"}
     ELSE IF t.dir \/ g # "none" THEN {"partial output"} ELSE {})
    \cup (IF t.dir /\ t.zero THEN {"zero-byte"} ELSE {})
    \cup (IF t.dir /\ ~t.mk THEN {"partial config"} ELSE {})

SimulatorBlockers(g, a) ==
    IF g = "none" /\ a = "none" THEN {"no simulator"}
    ELSE IF "exec" \notin {g, a} THEN {"not executable"} ELSE {}

\* rewrite_text replaces a stale root only where a path starts with it.
Rewrites(t, root) == t.dir /\ t.root # root /\ t.root # "embedded"

\* --rewrite, on this host or with --replacement-root /work in the container.
RewriteTree(t, root) == IF Rewrites(t, root) THEN [t EXCEPT !.root = root] ELSE t
RemovalsOfTree(u, g, busy) == {[tree |-> NoTree, gsim |-> g, rc |-> 0]}

\* remove_path gives up when another process keeps writing there.
Removals(u, g, busy) ==
    {[tree |-> NoTree, gsim |-> "none", rc |-> 0]}
    \cup (IF busy THEN {[tree |-> [u EXCEPT !.mk = FALSE], gsim |-> g, rc |-> 2]} ELSE {})

\* The result of --repair-stale-generated.  The blockers are those found
\* before the rewrite.
Repairable(t, g) == GeneratedPathBlockers(t, g) # {}
Destructive(t, g) ==
    GeneratedPathBlockers(t, g) \cap {"partial output", "zero-byte", "partial config"} # {}

StaleRepairs(t, g, busy) ==
    LET u == RewriteTree(t, "host") IN
    IF Rewrites(t, "host") /\ ~Destructive(t, g)
    THEN {[tree |-> u, gsim |-> g, rc |-> 0]}
    ELSE IF ~Repairable(t, g) THEN {[tree |-> u, gsim |-> g, rc |-> 0]}
    ELSE Removals(u, g, busy)

\* ------------------------------------------------------------------ log

NoSmokeLog == [there |-> FALSE, ino |-> 0, begun |-> FALSE, level |-> 0, bad |-> {},
          end |-> FALSE, exit |-> "none", late |-> FALSE]

\* Header of attempt n: the file is truncated, its inode stays.
Header(n) == [NoSmokeLog EXCEPT !.there = TRUE, !.begun = TRUE,
                           !.ino = IF smokeLog.there THEN smokeLog.ino ELSE n]

\* An append by path: it creates the file when a repair has renamed it.
Appended(l, n) == IF l.there THEN l ELSE [NoSmokeLog EXCEPT !.there = TRUE, !.ino = n]

AcceptedOpenSBI(l) == l.level >= 3
AcceptedLinux(l) == l.level >= 5
MetadataEager(l) == [begun |-> l.begun, end |-> l.begun, late |-> l.late,
                     bad |-> l.bad, exit |-> l.exit, loaded |-> l.level >= 1]

\* What parse_log_metadata keeps of the log for main.
Metadata(l) == [begun |-> l.begun, end |-> l.end, late |-> l.late,
                bad |-> l.bad, exit |-> l.exit, loaded |-> l.level >= 1]

Stage(l, t, md) ==
    IF ~l.there THEN "no_run"
    ELSE IF l.level >= 2
    THEN <<"opensbi_banner_only", "opensbi_boot", "linux_banner_only", "linux_boot">>[l.level - 1]
    ELSE IF t.handoff THEN "cpu_progress_to_payload"
    ELSE IF md.loaded \/ l.level = 1 THEN "payload_loaded_no_cpu_progress"
    ELSE IF md.end THEN "simulator_attempt_complete" ELSE "incomplete_attempt"

\* The trace must not be older than the log, whose last lines the wrapper
\* writes after the simulator.
TraceBlockers(l, t) ==
    CASE t.there /\ ~t.fresh                             -> {"old trace"}
      [] t.there /\ t.fresh /\ t.handoff /\ l.level < 2  -> {"payload silent"}
      [] OTHER                                           -> {}

\* The blockers of an existing log: l is the text read now, md what was
\* parsed earlier, t the instruction trace.
LogBlockers(l, md, t) ==
    IF ~l.there THEN {"no log"}
    ELSE UNION {
        IF l.begun /\ ~md.end THEN {"interrupted"} ELSE {},
        IF md.late THEN {"late lines"} ELSE {},
        IF md.bad \cap {"fatal", "simfail"} # {} THEN {"build or simulator failure"} ELSE {},
        IF md.exit = "nonzero" THEN {"exit code"} ELSE {},
        TraceBlockers(l, t),
        IF l.level < 4 THEN {"missing marker"} ELSE {},
        IF l.level >= 2 /\ ~AcceptedOpenSBI(l) THEN {"no handoff marker"} ELSE {},
        IF l.level >= 4 /\ ~AcceptedLinux(l) THEN {"no userland marker"} ELSE {}}

\* --------------------------------------------------------------- initial

NoSim == [live |-> FALSE, level |-> 0, ino |-> 0]

SmokeInit ==
    /\ tree \in [dir : {TRUE}, mk : BOOLEAN, zero : BOOLEAN,
                 root : {"host", "container", "embedded"}] \cup {NoTree}
    /\ gsim \in IF tree.mk THEN {"exec"} ELSE {"none"}
    /\ asim \in Archived
    /\ smokeLog = NoSmokeLog
    /\ trace = [there |-> FALSE, fresh |-> TRUE, handoff |-> FALSE]
    /\ wrap = [pc |-> "idle", n |-> 0, att |-> 1, rc |-> 0]
    /\ sims = [a \in 1 .. MaxAttempts |-> NoSim]
    /\ env \in [var : Payloads, cands : Candidates, target : Targets]
    /\ chk = [pc |-> "idle", md |-> Metadata(NoSmokeLog), clear |-> TRUE, raced |-> FALSE]
    /\ smokeReport = "none"
    /\ fix = "idle"
    /\ repaired = 0

Running(a) == sims[a].live
SomeSim == \E a \in DOMAIN sims : Running(a)

\* Whoever writes the log tells the history of a gate that is reading it.
LogWritten == chk' = [chk EXCEPT !.raced = chk.pc # "idle"]

\* ---------------------------------------------------------------- wrapper

\* The wrapper starts when it has a payload; without one it exits with 2.
StartWrapper ==
    /\ wrap.pc = "idle" /\ wrap.n + 2 <= MaxAttempts
    /\ PayloadOf(FALSE) = "file"
    /\ wrap' = [wrap EXCEPT !.pc = "repair", !.att = 1]
    /\ UNCHANGED <<treeVars, smokeLog, trace, sims, env, chk, smokeReport, fix>>

\* It repairs the tree, leaves when that fails, and seeds the boot ROMs.
WrapperRepair ==
    /\ wrap.pc = "repair"
    /\ \E r \in StaleRepairs(tree, gsim, SomeSim) :
         /\ gsim' = r.gsim
         /\ tree' = IF r.rc = 0 THEN [r.tree EXCEPT !.dir = TRUE] ELSE r.tree
         /\ wrap' = [wrap EXCEPT !.pc = IF r.rc = 0 THEN "header" ELSE "idle"]
    /\ repaired' = 0
    /\ UNCHANGED <<asim, smokeLog, trace, sims, env, chk, smokeReport, fix>>

WriteHeader ==
    /\ wrap.pc = "header"
    /\ wrap' = [wrap EXCEPT !.pc = "make", !.n = wrap.n + 1]
    /\ smokeLog' = Header(wrap.n + 1)
    /\ sims' = [sims EXCEPT ![wrap.n + 1].ino = smokeLog'.ino]
    /\ trace' = [trace EXCEPT !.fresh = FALSE]
    /\ LogWritten
    /\ UNCHANGED <<treeVars, env, smokeReport, fix>>

\* make builds the model and starts the simulator; both print on the log
\* file that was open when make started.
Build ==
    /\ wrap.pc = "make"
    /\ tree' = [dir |-> TRUE, mk |-> TRUE, zero |-> FALSE, root |-> "host"]
    /\ gsim' = "exec" /\ repaired' = 0
    /\ sims' = [sims EXCEPT ![wrap.n].live = TRUE]
    /\ wrap' = [wrap EXCEPT !.pc = "run"]
    /\ UNCHANGED <<asim, smokeLog, trace, env, chk, smokeReport, fix>>

\* The build stops: a missing rule or header, or a half-written model.
BuildFails ==
    /\ wrap.pc = "make"
    /\ \E z \in BOOLEAN : tree' = [tree EXCEPT !.dir = TRUE, !.mk = FALSE, !.zero = z]
    /\ gsim' = "none" /\ repaired' = 0
    /\ \E b \in {"rule", "fatal", "simfail"} :
         smokeLog' = IF smokeLog.ino = sims[wrap.n].ino
                     THEN [smokeLog EXCEPT !.bad = @ \cup {b}] ELSE smokeLog
    /\ wrap' = [wrap EXCEPT !.pc = "close", !.rc = 1]
    /\ LogWritten
    /\ UNCHANGED <<asim, trace, sims, env, smokeReport, fix>>

\* The simulator exits and run_with_timeout returns its code.
SimulatorExits ==
    /\ wrap.pc = "run" /\ Running(wrap.n)
    /\ sims' = [sims EXCEPT ![wrap.n].live = FALSE]
    /\ \E rc \in {0, 1} : wrap' = [wrap EXCEPT !.pc = "close", !.rc = rc]
    /\ UNCHANGED <<treeVars, smokeLog, trace, env, chk, smokeReport, fix>>

\* The timeout: the process group is told to stop and only make is waited
\* for, so the simulator dies now or a while later.
Timeout ==
    /\ wrap.pc = "run"
    /\ sims' \in {sims, [sims EXCEPT ![wrap.n].live = FALSE]}
    /\ wrap' = [wrap EXCEPT !.pc = "close", !.rc = 124]
    /\ UNCHANGED <<treeVars, smokeLog, trace, env, chk, smokeReport, fix>>

CloseTranscript ==
    /\ wrap.pc = "close"
    /\ wrap' = [wrap EXCEPT !.pc = "exit"]
    /\ smokeLog' = [Appended(smokeLog, MaxAttempts + wrap.n) EXCEPT !.end = TRUE]
    /\ trace' = [trace EXCEPT !.fresh = FALSE]
    /\ LogWritten
    /\ UNCHANGED <<treeVars, sims, env, smokeReport, fix>>

WriteExitCode ==
    /\ wrap.pc = "exit"
    /\ wrap' = [wrap EXCEPT !.pc = "after"]
    /\ smokeLog' = [Appended(smokeLog, MaxAttempts + wrap.n) EXCEPT
                 !.exit = IF wrap.rc = 0 THEN "zero" ELSE "nonzero"]
    /\ trace' = [trace EXCEPT !.fresh = FALSE]
    /\ LogWritten
    /\ UNCHANGED <<treeVars, sims, env, smokeReport, fix>>

\* A failed build of the first attempt is repaired and tried once more.
Retry ==
    /\ wrap.pc = "after" /\ wrap.rc # 0
    /\ wrap.att = 1 /\ smokeLog.bad \cap {"rule", "fatal"} # {}
    /\ \E r \in StaleRepairs(tree, gsim, SomeSim) :
         /\ tree' = r.tree /\ gsim' = r.gsim
         /\ wrap' = IF r.rc = 0 THEN [wrap EXCEPT !.pc = "repair", !.att = 2]
                    ELSE [wrap EXCEPT !.pc = "idle"]
    /\ repaired' = 0
    /\ UNCHANGED <<asim, smokeLog, trace, sims, env, chk, smokeReport, fix>>

GiveUp ==
    /\ wrap.pc = "after" /\ wrap.rc # 0
    /\ ~(wrap.att = 1 /\ smokeLog.bad \cap {"rule", "fatal"} # {})
    /\ wrap' = [wrap EXCEPT !.pc = "idle"]
    /\ UNCHANGED <<treeVars, smokeLog, trace, sims, env, chk, smokeReport, fix>>

\* A run that succeeded ends with the gate; the model runs one gate at a time.
HandToGate ==
    /\ wrap.pc = "after" /\ wrap.rc = 0 /\ chk.pc = "idle"
    /\ wrap' = [wrap EXCEPT !.pc = "idle"]
    /\ chk' = [chk EXCEPT !.pc = "meta", !.raced = FALSE]
    /\ UNCHANGED <<treeVars, smokeLog, trace, sims, env, smokeReport, fix>>

\* Somebody stops the wrapper; what it started goes on.
Interrupt ==
    /\ wrap.pc \in {"make", "run", "close", "exit"}
    /\ wrap' = [wrap EXCEPT !.pc = "idle"]
    /\ UNCHANGED <<treeVars, smokeLog, trace, sims, env, chk, smokeReport, fix>>

\* --------------------------------------------------------------- simulator

\* A simulator boots further.  Its lines reach the log while the
\* log is the file it opened, whichever attempt's header that file bears.
Boot(a) ==
    /\ Running(a)
    /\ \E l \in Levels : l > sims[a].level /\ sims' = [sims EXCEPT ![a].level = l]
    /\ trace' = IF env.target = "run-binary"
                THEN [there |-> TRUE, fresh |-> TRUE, handoff |-> TRUE] ELSE trace
    /\ IF smokeLog.ino = sims[a].ino
       THEN /\ smokeLog' = [smokeLog EXCEPT
                 !.level = IF sims'[a].level > @ THEN sims'[a].level ELSE @,
                 !.late = @ \/ smokeLog.end]
            /\ LogWritten
       ELSE UNCHANGED <<smokeLog, chk>>
    /\ UNCHANGED <<treeVars, wrap, env, smokeReport, fix>>

\* A simulator that outlived its wrapper dies.
LingererDies(a) ==
    /\ Running(a) /\ ~(wrap.pc = "run" /\ wrap.n = a)
    /\ sims' = [sims EXCEPT ![a].live = FALSE]
    /\ UNCHANGED <<treeVars, smokeLog, trace, wrap, env, chk, smokeReport, fix>>

Simulator == \E a \in DOMAIN sims : Boot(a) \/ LingererDies(a)

\* -------------------------------------------------------------------- gate

StartGate ==
    /\ chk.pc = "idle"
    /\ chk' = [chk EXCEPT !.pc = "meta", !.raced = FALSE]
    /\ UNCHANGED <<treeVars, smokeLog, trace, wrap, sims, env, smokeReport, fix>>

\* The first look at the log: its metadata, and the payload it records.
ReadMetadata ==
    /\ chk.pc = "meta"
    /\ chk' = [chk EXCEPT !.pc = "tree", !.md = Metadata(smokeLog), !.raced = FALSE]
    /\ UNCHANGED <<treeVars, smokeLog, trace, wrap, sims, env, smokeReport, fix>>

ReadTree ==
    /\ chk.pc = "tree"
    /\ chk' = [chk EXCEPT !.pc = "text",
                 !.clear = /\ GeneratedPathBlockers(tree, gsim) = {}
                            /\ SimulatorBlockers(gsim, asim) = {}
                            /\ PayloadBlockers(chk.md.begun) = {}]
    /\ UNCHANGED <<treeVars, smokeLog, trace, wrap, sims, env, smokeReport, fix>>

\* The second look, the verdict and the report, which is replaced atomically.
Verdict == IF chk.clear /\ LogBlockers(smokeLog, chk.md, trace) = {} THEN "pass" ELSE "blocked"

WriteSmokeReport ==
    /\ chk.pc = "text"
    /\ smokeReport' = Verdict
    /\ chk' = [chk EXCEPT !.pc = "idle", !.clear = TRUE, !.md = Metadata(NoSmokeLog),
                          !.raced = FALSE]
    /\ UNCHANGED <<treeVars, smokeLog, trace, wrap, sims, env, fix>>

Gate == ReadMetadata \/ ReadTree \/ WriteSmokeReport

\* ----------------------------------------------------------------- repairs

\* --repair-stale-generated, called by hand or by make.
RepairStale ==
    /\ \E r \in StaleRepairs(tree, gsim, SomeSim \/ wrap.pc = "make") :
         tree' = r.tree /\ gsim' = r.gsim
    /\ repaired' = IF SomeSim \/ wrap.pc # "idle" THEN 0
                   ELSE IF repaired < 2 THEN repaired + 1 ELSE 2
    /\ UNCHANGED <<asim, smokeLog, trace, wrap, sims, env, chk, smokeReport, fix>>

\* repair_chipyard_generated_paths.py --rewrite, as the container run calls it.
RewriteForContainer ==
    /\ Rewrites(tree, "container") /\ wrap.pc = "idle"
    /\ tree' = RewriteTree(tree, "container") /\ repaired' = 0
    /\ UNCHANGED <<gsim, asim, smokeLog, trace, wrap, sims, env, chk, smokeReport, fix>>

ActiveLockOwner == LockHeld

\* --repair-incomplete-attempt looks at the log, then at the lock ...
InspectAttempt ==
    /\ fix = "idle" /\ smokeLog.there /\ smokeLog.begun /\ ~smokeLog.end /\ ~ActiveLockOwner
    /\ fix' = "archive"
    /\ UNCHANGED <<treeVars, smokeLog, trace, wrap, sims, env, chk, smokeReport>>

\* ... and renames whatever the log is by then.
ArchiveAttempt ==
    /\ fix = "archive" /\ smokeLog.there
    /\ fix' = "idle" /\ smokeLog' = NoSmokeLog
    /\ LogWritten
    /\ UNCHANGED <<treeVars, trace, wrap, sims, env, smokeReport>>

Wrapper == \/ WrapperRepair \/ WriteHeader \/ Build \/ BuildFails \/ SimulatorExits
           \/ Timeout \/ CloseTranscript \/ WriteExitCode \/ Retry \/ GiveUp
           \/ HandToGate
Operator == \/ StartWrapper \/ Interrupt \/ StartGate \/ RepairStale
            \/ RewriteForContainer \/ InspectAttempt \/ ArchiveAttempt

SmokeNext == Wrapper \/ Simulator \/ Gate \/ Operator

\* The wrapper, its timeout and a started gate go on; a simulator may hang.
SmokeSpec == /\ SmokeInit /\ [][SmokeNext]_smokeVars
             /\ WF_smokeVars(Wrapper) /\ SF_smokeVars(HandToGate) /\ WF_smokeVars(Gate)

-----------------------------------------------------------------------------
\* Files and processes are of their kinds.
SmokeTypeOK ==
    /\ tree \in [dir : BOOLEAN, mk : BOOLEAN, zero : BOOLEAN,
                 root : {"host", "container", "embedded"}]
    /\ gsim \in {"none", "plain", "exec"} /\ asim \in {"none", "plain", "exec"}
    /\ smokeLog.level \in 0 .. 5 /\ smokeReport \in {"none", "pass", "blocked"}
    /\ wrap.n \in 0 .. MaxAttempts /\ wrap.att \in {1, 2}
    /\ fix \in {"idle", "archive"} /\ repaired \in 0 .. 2

\* A PASS is earned.  The gate looks at the log twice and at the tree in
\* between: the text it passes booted to userland, and unless the log was
\* written meanwhile it is a whole transcript with no failed exit code, no
\* failure line and no line after its end.
EarnedIfPassed ==
    chk.pc = "text" /\ chk'.pc = "idle" /\ smokeReport' = "pass" =>
        /\ Stage(smokeLog, trace, chk.md) = "linux_boot" /\ PayloadOf(smokeLog.begun) = "file"
        /\ ~chk.raced =>
             /\ smokeLog.begun => smokeLog.end
             /\ smokeLog.exit # "nonzero" /\ ~smokeLog.late
             /\ smokeLog.bad \cap {"fatal", "simfail"} = {}
PassEarned == [][EarnedIfPassed]_smokeVars

\* Two calls of --repair-stale-generated in a row, with nothing building in
\* between, leave a tree the gate has nothing to say against: the first may
\* only have rewritten its paths.
RepairConverges == repaired = 2 => GeneratedPathBlockers(tree, gsim) = {}

\* The wrapper always comes back: its timeout ends a simulator that hangs and
\* a failed build is tried at most once more.
WrapperIdle == wrap.pc = "idle"
WrapperEnds == []<>WrapperIdle

\* The blocker says the output "is missing the driver makefile": the tree of
\* a run that has just succeeded, complete and with this host's paths, is not
\* blocked for that.
CompleteTreePasses ==
    wrap.pc = "after" /\ wrap.rc = 0 /\ tree.mk /\ tree.root = "host" =>
        GeneratedPathBlockers(tree, gsim) \subseteq {"zero-byte"}

\* "archive an interrupted smoke log only when no smoke runner owns the lock":
\* the log of a wrapper that is running is not taken from it.
RunningLogKept == [][ArchiveAttempt => wrap.pc \notin {"make", "run", "close", "exit"}]_smokeVars
=============================================================================
