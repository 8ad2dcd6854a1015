--------------------------- MODULE OpenLaneLaunch ---------------------------
(***************************************************************************)
(* The launcher of OpenLane: a lock directory made with mkdir, the pid in  *)
(* it, the removal of a stale one, the containers labeled with this        *)
(* repository, and the flow run under an optional timeout                  *)
(* (scripts/run_openlane.sh, run_with_timeout.py, and what                 *)
(* check_openlane_run_preflight.py sees of them).                          *)
(*                                                                         *)
(* Launchers are shell processes; each of their commands is a step.        *)
(* SIGKILL may end them between two, and so may INT or TERM before the     *)
(* trap is set: no cleanup is run, and what they have started goes on.     *)
(* After that INT and TERM run the trap, which is the cleanup, and the     *)
(* launcher goes on, without its lock.                                     *)
(***************************************************************************)
EXTENDS Naturals, FiniteSets

CONSTANT Launchers

VARIABLES
    lock,     \* .openlane-run.lock: the directory, and pid and docker.cid in it
    launch,   \* per launcher, its next command
    flows,    \* launchers whose OpenLane, or container, is running
    native,   \* OpenLane is on PATH; otherwise it runs in a container
    overlap,  \* history: two launchers were starting at the same time
    trapped   \* history: a launcher was signalled and went on

launchVars == <<lock, launch, flows, native, overlap, trapped>>

NoLock == [dir |-> FALSE, pid |-> {}, cid |-> {}]
Alive(l) == launch[l] \notin {"new", "done", "killed"}
Starting == {"steal", "ps", "remove", "remake", "pid"}

\* active_openlane_containers: docker ps with the two labels.
ActiveContainers == IF native THEN {} ELSE flows

LaunchInit ==
    /\ lock = NoLock
    /\ launch = [l \in Launchers |-> "new"]
    /\ flows = {} /\ native \in BOOLEAN /\ overlap = FALSE /\ trapped = FALSE

Command(l, from, to) == launch[l] = from /\ launch' = [launch EXCEPT ![l] = to]

\* mkdir succeeds, or it fails and the lock is looked at: another one's pid
\* that is alive, and then a container, make the launcher exit.
MakeLock(l) ==
    /\ overlap' = (overlap \/ \E k \in Launchers : launch[k] \in Starting)
    /\ \/ /\ ~lock.dir /\ Command(l, "new", "pid")
          /\ lock' = [NoLock EXCEPT !.dir = TRUE]
       \/ /\ lock.dir /\ Command(l, "new", "steal") /\ lock' = lock
    /\ UNCHANGED <<flows, native, trapped>>

LockActive(l) ==
    /\ \/ (\E k \in lock.pid : Alive(k)) /\ Command(l, "steal", "done")
       \/ ActiveContainers # {} /\ Command(l, "ps", "done")
    /\ UNCHANGED <<lock, flows, native, overlap, trapped>>

LockStaleBlindly(l) ==
    /\ Command(l, "steal", "ps") \/ (ActiveContainers = {} /\ Command(l, "ps", "remove"))
    /\ UNCHANGED <<lock, flows, native, overlap, trapped>>
LockStale(l) ==
    /\ \/ (\A k \in lock.pid : ~Alive(k)) /\ Command(l, "steal", "ps")
       \/ ActiveContainers = {} /\ Command(l, "ps", "remove")
    /\ UNCHANGED <<lock, flows, native, overlap, trapped>>

\* rm -rf of the lock, whosever it may be by now ...
StealLock(l) ==
    /\ Command(l, "remove", "remake")
    /\ lock' = NoLock
    /\ UNCHANGED <<flows, native, overlap, trapped>>

\* ... and mkdir, which ends the launcher when somebody was faster.
RemakeLock(l) ==
    /\ \/ /\ ~lock.dir /\ Command(l, "remake", "pid")
          /\ lock' = [NoLock EXCEPT !.dir = TRUE]
       \/ /\ lock.dir /\ Command(l, "remake", "done") /\ lock' = lock
    /\ UNCHANGED <<flows, native, overlap, trapped>>

\* The pid, into whatever directory is there now.
WritePid(l) ==
    /\ \/ lock.dir /\ lock' = [lock EXCEPT !.pid = {l}] /\ Command(l, "pid", "look")
       \/ ~lock.dir /\ lock' = lock /\ Command(l, "pid", "done")
    /\ UNCHANGED <<flows, native, overlap, trapped>>

\* The trap is set; a container that runs already ends the launcher.
LookForContainer(l) ==
    /\ Command(l, "look", IF ActiveContainers = {} THEN "start" ELSE "exit")
    /\ UNCHANGED <<lock, flows, native, overlap, trapped>>

\* OpenLane starts; docker writes the container's id, once, or refuses.
StartFlow(l) ==
    /\ \/ /\ native \/ (lock.dir /\ lock.cid = {})
          /\ Command(l, "start", "wait")
          /\ flows' = flows \cup {l}
          /\ lock' = IF native THEN lock ELSE [lock EXCEPT !.cid = {l}]
       \/ /\ ~native /\ (~lock.dir \/ lock.cid # {})
          /\ Command(l, "start", "exit")
          /\ UNCHANGED <<lock, flows>>
    /\ UNCHANGED <<native, overlap, trapped>>

\* The flow ends by itself; the launcher, or nobody, hears of it.
FlowEnds(l) ==
    /\ l \in flows /\ flows' = flows \ {l}
    /\ launch' = IF launch[l] = "wait" THEN [launch EXCEPT ![l] = "exit"] ELSE launch
    /\ UNCHANGED <<lock, native, overlap, trapped>>

\* The timeout kills the process group: OpenLane itself, but of a container
\* only the client; the container may go on.
FlowTimesOut(l) ==
    /\ Command(l, "wait", "exit")
    /\ flows' \in IF native THEN {flows \ {l}} ELSE {flows, flows \ {l}}
    /\ UNCHANGED <<lock, native, overlap, trapped>>

\* cleanup: docker rm -f of the container whose id is there, rm -rf.
RemoveWhatIsThere == flows' = flows \ lock.cid /\ lock' = NoLock

Cleanup(l) ==
    /\ Command(l, "exit", "done") /\ RemoveWhatIsThere
    /\ UNCHANGED <<native, overlap, trapped>>

\* INT or TERM once the trap is set: the cleanup, and on with the script, unless
\* the signal ended the command too.  While a flow runs the shell defers the trap
\* to its end.
TrapRuns(l) ==
    /\ \/ launch[l] \in {"look", "start", "exit"} /\ UNCHANGED launch
       \/ Command(l, "look", "exit")
    /\ RemoveWhatIsThere /\ trapped' = TRUE
    /\ UNCHANGED <<native, overlap>>

LauncherKilled(l) ==
    /\ Alive(l) /\ launch' = [launch EXCEPT ![l] = "killed"]
    /\ UNCHANGED <<lock, flows, native, overlap, trapped>>

Launcher(l) ==
    \/ MakeLock(l) \/ LockActive(l) \/ LockStale(l) \/ StealLock(l) \/ RemakeLock(l)
    \/ WritePid(l) \/ LookForContainer(l) \/ StartFlow(l) \/ FlowEnds(l) \/ FlowTimesOut(l)
    \/ Cleanup(l) \/ TrapRuns(l) \/ LauncherKilled(l)

LaunchNext == \E l \in Launchers : Launcher(l)

LaunchSpec == LaunchInit /\ [][LaunchNext]_launchVars

\* What run_orchestration_blockers of the preflight says of the lock.
OrchestrationBlockers ==
    (IF ~lock.dir THEN {}
     ELSE IF \E k \in lock.pid : Alive(k) THEN {"active lock"} ELSE {"stale lock"})
    \cup (IF ActiveContainers = {} THEN {} ELSE {"containers"})

-----------------------------------------------------------------------------
\* Launchers that do not start at the very same time never run two flows as long as
\* none is signalled after its trap, however many are killed: what a killed one left
\* behind still runs in its container and is found there.  On PATH there is nothing
\* to find it by, so it counts only as long as its launcher lives.  In containers
\* they never do as long as none is killed, however often they are signalled: the
\* cleanup takes the container with the lock, and docker refuses one that finds no
\* place for its id.  On PATH a signal is enough for two flows: the launcher goes on
\* to its own, and nothing shows it to the next one.  A lock outlives its launchers
\* only when one of them was killed.
OneFlowAtATime ==
    /\ ~overlap /\ ~trapped /\ (native => \A l \in flows : Alive(l)) => Cardinality(flows) <= 1
    /\ ~overlap /\ ~native /\ (\A l \in Launchers : launch[l] # "killed")
         => Cardinality(flows) <= 1
    /\ lock.dir /\ (\A l \in Launchers : ~Alive(l)) => \E l \in Launchers : launch[l] = "killed"
=============================================================================
