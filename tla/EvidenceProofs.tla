---------------------------- MODULE EvidenceProofs ----------------------------
(***************************************************************************)
(* Proofs about the tools around the chip, one section for each: the       *)
(* launcher of OpenLane, the gates of the manufacturing evidence, the      *)
(* archive of a physical design run, the aggregate of the simulators, the  *)
(* evidence of the CPU, the tables of statuses, the evidence of the board  *)
(* support, and the software that drives the NPU; what the properties of   *)
(* MCEvidence say for every value of its constants; and last the captures  *)
(* of MCCapture, the smoke of the generated Linux and the simulations.     *)
(***************************************************************************)
EXTENDS MCEvidence, MCCapture, FiniteSetTheorems, TLAPS

-----------------------------------------------------------------------------
\* ---------------------------------------------------------- OpenLaneLaunch

\* Between its pid and its cleanup a launcher relies on the lock.
Holding == {"look", "start", "wait", "exit"}

LaunchTypeOK ==
    /\ lock \in [dir : BOOLEAN, pid : SUBSET Launchers, cid : SUBSET Launchers]
    /\ launch \in [Launchers -> {"new", "done", "killed"} \cup Starting \cup Holding]
    /\ flows \subseteq Launchers /\ native \in BOOLEAN /\ overlap \in BOOLEAN
    /\ trapped \in BOOLEAN

\* Whose lock it is, and whose flow runs.  Without an overlap one launcher at most
\* is starting.
OneStarts == \A k, l \in Launchers : launch[k] \in Starting /\ launch[l] \in Starting => k = l
FlowOfNative == native => \A l \in flows : launch[l] \in {"wait", "killed"}
LockHasOwner == lock.dir => \E l \in Launchers : launch[l] \in {"pid", "killed"} \cup Holding
NothingWithoutDir == ~lock.dir => lock.cid = {}

\* Without a signal besides, one that holds the lock has its pid there, nobody comes
\* past a live pid, and a container was started by one that had seen none.
Past == {"ps", "remove", "remake", "pid"}
HolderIsNamed == \A l \in Launchers : launch[l] \in Holding => lock.dir /\ lock.pid = {l}
NobodyIsPassed == \A k, l \in Launchers : launch[k] \in Past => launch[l] \notin Holding
SeenNoContainer ==
    ~native => /\ \A l \in Launchers : launch[l] = "start" => flows = {}
               /\ \A k, l \in flows : k = l
Unsignalled == HolderIsNamed /\ NobodyIsPassed /\ SeenNoContainer

\* Without a kill instead, a lock is never stale, so that nobody who goes on finds
\* one, and the container that runs is the one the lock names.
LockIsLive == lock.dir => \/ \E l \in Launchers : launch[l] = "pid"
                          \/ \E l \in lock.pid : launch[l] \in Holding
NothingToSteal == \A l \in Launchers : launch[l] \in {"ps", "remove", "remake"} => ~lock.dir
ContainerIsNamed == flows \subseteq lock.cid /\ \A k, l \in lock.cid : k = l
Unkilled == LockIsLive /\ NothingToSteal /\ (~native => ContainerIsNamed)
NobodyKilled == \A l \in Launchers : launch[l] # "killed"

LaunchInv ==
    /\ ~overlap => OneStarts
    /\ ~overlap /\ ~trapped => Unsignalled
    /\ ~overlap /\ NobodyKilled => Unkilled
    /\ FlowOfNative /\ LockHasOwner /\ NothingWithoutDir

\* Every command, a signal and a kill keep the kinds of things.
LEMMA LaunchTypeStep ==
    ASSUME LaunchTypeOK, [LaunchNext]_launchVars
    PROVE  LaunchTypeOK'
<1> USE DEF LaunchTypeOK
<1>1. CASE UNCHANGED launchVars
  BY <1>1 DEF launchVars
<1>2. ASSUME NEW l \in Launchers, Launcher(l)
      PROVE  LaunchTypeOK'
  <2> USE DEF Command, NoLock, Starting, Holding
  <2>1. CASE MakeLock(l)
    BY <2>1 DEF MakeLock
  <2>2. CASE LockActive(l)
    BY <2>2 DEF LockActive
  <2>3. CASE LockStale(l)
    BY <2>3 DEF LockStale
  <2>4. CASE StealLock(l)
    BY <2>4 DEF StealLock
  <2>5. CASE RemakeLock(l)
    BY <2>5 DEF RemakeLock
  <2>6. CASE WritePid(l)
    BY <2>6 DEF WritePid
  <2>7. CASE LookForContainer(l)
    BY <2>7 DEF LookForContainer
  <2>8. CASE StartFlow(l)
    BY <2>8 DEF StartFlow
  <2>9. CASE FlowEnds(l)
    BY <2>9 DEF FlowEnds
  <2>10. CASE FlowTimesOut(l)
    BY <2>10 DEF FlowTimesOut
  <2>11. CASE Cleanup(l)
    BY <2>11 DEF Cleanup, RemoveWhatIsThere
  <2>12. CASE TrapRuns(l)
    BY <2>12 DEF TrapRuns, RemoveWhatIsThere
  <2>13. CASE LauncherKilled(l)
    BY <2>13 DEF LauncherKilled
  <2> QED
    BY <1>2, <2>1, <2>2, <2>3, <2>4, <2>5, <2>6, <2>7, <2>8, <2>9, <2>10, <2>11, <2>12, <2>13
    DEF Launcher
<1> QED BY <1>1, <1>2 DEF LaunchNext

\* What a launcher does leaves one starting, if nobody else comes in between.
LEMMA OneStartsStep ==
    ASSUME LaunchTypeOK, NEW l \in Launchers, Launcher(l), ~overlap => OneStarts
    PROVE  ~overlap' => ~overlap /\ OneStarts /\ OneStarts'
<1> USE DEF LaunchTypeOK, OneStarts, Command, Starting, Holding
<1>1. CASE MakeLock(l)
  BY <1>1 DEF MakeLock
<1>2. CASE LockActive(l) \/ LockStale(l) \/ StealLock(l) \/ RemakeLock(l) \/ WritePid(l)
  BY <1>2 DEF LockActive, LockStale, StealLock, RemakeLock, WritePid
<1>3. CASE LookForContainer(l) \/ StartFlow(l) \/ FlowEnds(l) \/ FlowTimesOut(l)
  BY <1>3 DEF LookForContainer, StartFlow, FlowEnds, FlowTimesOut
<1>4. CASE Cleanup(l) \/ TrapRuns(l) \/ LauncherKilled(l)
  BY <1>4 DEF Cleanup, TrapRuns, LauncherKilled
<1> QED BY <1>1, <1>2, <1>3, <1>4 DEF Launcher

\* What holds whatever happens: a flow on PATH has its launcher or outlives it, and a
\* lock somebody who made it.
LEMMA OwnersStep ==
    ASSUME LaunchTypeOK, NEW l \in Launchers, Launcher(l),
           FlowOfNative, LockHasOwner, NothingWithoutDir
    PROVE  FlowOfNative' /\ LockHasOwner' /\ NothingWithoutDir'
<1> USE DEF LaunchTypeOK, FlowOfNative, LockHasOwner, NothingWithoutDir, Command, NoLock,
            Starting, Holding
<1>1. CASE MakeLock(l)
  BY <1>1 DEF MakeLock
<1>2. CASE LockActive(l) \/ LockStale(l)
  BY <1>2 DEF LockActive, LockStale
<1>3. CASE StealLock(l)
  BY <1>3 DEF StealLock
<1>4. CASE RemakeLock(l)
  BY <1>4 DEF RemakeLock
<1>5. CASE WritePid(l)
  BY <1>5 DEF WritePid
<1>6. CASE LookForContainer(l)
  BY <1>6 DEF LookForContainer
<1>7. CASE StartFlow(l)
  BY <1>7 DEF StartFlow
<1>8. CASE FlowEnds(l) \/ FlowTimesOut(l)
  BY <1>8 DEF FlowEnds, FlowTimesOut
<1>9. CASE Cleanup(l) \/ TrapRuns(l)
  BY <1>9 DEF Cleanup, TrapRuns, RemoveWhatIsThere
<1>10. CASE LauncherKilled(l)
  BY <1>10 DEF LauncherKilled
<1> QED BY <1>1, <1>2, <1>3, <1>4, <1>5, <1>6, <1>7, <1>8, <1>9, <1>10 DEF Launcher

\* Nobody signalled: a launcher passes from one command to the next with the lock as
\* it left it; who comes later either meets its pid or finds it gone.
LEMMA UnsignalledStep ==
    ASSUME LaunchTypeOK, NEW l \in Launchers, Launcher(l),
           OneStarts, Unsignalled, ~overlap', ~trapped'
    PROVE  Unsignalled'
<1> USE DEF LaunchTypeOK, OneStarts, Unsignalled, HolderIsNamed, NobodyIsPassed, SeenNoContainer,
            Command, NoLock, Starting, Holding, Past
<1>1. CASE MakeLock(l)
  <2>1. /\ launch[l] = "new" /\ UNCHANGED <<flows, native>>
        /\ \A k \in Launchers : launch[k] \notin Starting
    BY <1>1 DEF MakeLock
  <2>2. CASE lock.dir
    BY <1>1, <2>1, <2>2 DEF MakeLock
  <2>3. CASE ~lock.dir
    <3>1. lock'.dir /\ launch' = [launch EXCEPT ![l] = "pid"]
      BY <1>1, <2>3 DEF MakeLock
    <3>2. \A k \in Launchers : launch[k] \notin Holding
      BY <2>3
    <3>3. \A k \in Launchers : k # l => launch'[k] = launch[k]
      BY <3>1
    <3> QED BY <2>1, <3>1, <3>2, <3>3
  <2> QED BY <2>2, <2>3
<1>2. CASE LockActive(l)
  BY <1>2 DEF LockActive
<1>3. CASE LockStale(l)
  <2>1. CASE launch[l] = "steal"
    <3>1. \A k \in Launchers : launch[k] \notin Holding
      BY <1>3, <2>1 DEF LockStale, Alive
    <3> QED BY <1>3, <2>1, <3>1 DEF LockStale
  <2>2. CASE launch[l] = "ps"
    BY <1>3, <2>2 DEF LockStale
  <2> QED BY <1>3, <2>1, <2>2 DEF LockStale
<1>4. CASE StealLock(l)
  BY <1>4 DEF StealLock
<1>5. CASE RemakeLock(l)
  BY <1>5 DEF RemakeLock
<1>6. CASE WritePid(l)
  BY <1>6 DEF WritePid
<1>7. CASE LookForContainer(l)
  BY <1>7 DEF LookForContainer, ActiveContainers
<1>8. CASE StartFlow(l)
  BY <1>8 DEF StartFlow
<1>9. CASE FlowEnds(l)
  BY <1>9 DEF FlowEnds
<1>10. CASE FlowTimesOut(l)
  BY <1>10 DEF FlowTimesOut
<1>11. CASE Cleanup(l)
  BY <1>11 DEF Cleanup, RemoveWhatIsThere
<1>12. CASE TrapRuns(l)
  BY <1>12 DEF TrapRuns
<1>13. CASE LauncherKilled(l)
  BY <1>13 DEF LauncherKilled
<1> QED
  BY <1>1, <1>2, <1>3, <1>4, <1>5, <1>6, <1>7, <1>8, <1>9, <1>10, <1>11, <1>12, <1>13 DEF Launcher

\* Nobody killed: a signal takes the container away with the lock that names it.
LEMMA UnkilledStep ==
    ASSUME LaunchTypeOK, NEW l \in Launchers, Launcher(l),
           OneStarts, NothingWithoutDir, Unkilled, ~overlap', NobodyKilled'
    PROVE  Unkilled'
<1> USE DEF LaunchTypeOK, OneStarts, Unkilled, LockIsLive, NothingToSteal, ContainerIsNamed,
            NothingWithoutDir, Command, NoLock, Starting, Holding
<1>1. CASE MakeLock(l)
  <2>1. CASE lock.dir
    BY <1>1, <2>1 DEF MakeLock
  <2>2. CASE ~lock.dir
    BY <1>1, <2>2 DEF MakeLock
  <2> QED BY <2>1, <2>2
<1>2. CASE LockActive(l)
  BY <1>2 DEF LockActive
<1>3. CASE LockStale(l)
  <2>1. CASE launch[l] = "steal"
    <3>1. \A k \in lock.pid : launch[k] \notin Holding
      BY <1>3, <2>1 DEF LockStale, Alive
    <3>2. ~lock.dir
      BY <2>1, <3>1
    <3> QED BY <1>3, <2>1, <3>2 DEF LockStale
  <2>2. CASE launch[l] = "ps"
    BY <1>3, <2>2 DEF LockStale
  <2> QED BY <1>3, <2>1, <2>2 DEF LockStale
<1>4. CASE StealLock(l)
  BY <1>4 DEF StealLock
<1>5. CASE RemakeLock(l)
  BY <1>5 DEF RemakeLock
<1>6. CASE WritePid(l)
  BY <1>6 DEF WritePid
<1>7. CASE LookForContainer(l)
  BY <1>7 DEF LookForContainer
<1>8. CASE StartFlow(l)
  BY <1>8 DEF StartFlow
<1>9. CASE FlowEnds(l)
  BY <1>9 DEF FlowEnds
<1>10. CASE FlowTimesOut(l)
  BY <1>10 DEF FlowTimesOut
<1>11. CASE Cleanup(l)
  BY <1>11 DEF Cleanup, RemoveWhatIsThere
<1>12. CASE TrapRuns(l)
  BY <1>12 DEF TrapRuns, RemoveWhatIsThere
<1>13. CASE LauncherKilled(l)
  BY <1>13 DEF LauncherKilled, NobodyKilled
<1> QED
  BY <1>1, <1>2, <1>3, <1>4, <1>5, <1>6, <1>7, <1>8, <1>9, <1>10, <1>11, <1>12, <1>13 DEF Launcher

\* A launcher that was killed stays so, and one that was signalled has been.
LEMMA NothingForgotten ==
    ASSUME LaunchTypeOK, NEW l \in Launchers, Launcher(l)
    PROVE  (trapped => trapped') /\ (NobodyKilled' => NobodyKilled)
<1> USE DEF LaunchTypeOK, Command, NobodyKilled
<1>1. CASE MakeLock(l) \/ LockActive(l) \/ LockStale(l) \/ StealLock(l) \/ RemakeLock(l)
  BY <1>1 DEF MakeLock, LockActive, LockStale, StealLock, RemakeLock
<1>2. CASE WritePid(l) \/ LookForContainer(l) \/ StartFlow(l) \/ FlowEnds(l) \/ FlowTimesOut(l)
  BY <1>2 DEF WritePid, LookForContainer, StartFlow, FlowEnds, FlowTimesOut
<1>3. CASE Cleanup(l) \/ TrapRuns(l) \/ LauncherKilled(l)
  BY <1>3 DEF Cleanup, TrapRuns, LauncherKilled
<1> QED BY <1>1, <1>2, <1>3 DEF Launcher

LEMMA LaunchInvStep ==
    ASSUME LaunchTypeOK, LaunchInv, [LaunchNext]_launchVars
    PROVE  LaunchInv'
<1>1. CASE UNCHANGED launchVars
  BY <1>1
  DEF launchVars, LaunchInv, OneStarts, Unsignalled, HolderIsNamed, NobodyIsPassed,
      SeenNoContainer, NobodyKilled, Unkilled, LockIsLive, NothingToSteal, ContainerIsNamed,
      FlowOfNative, LockHasOwner, NothingWithoutDir
<1>2. ASSUME NEW l \in Launchers, Launcher(l)
      PROVE  LaunchInv'
  <2>1. ~overlap' => ~overlap /\ OneStarts /\ OneStarts'
    BY <1>2, OneStartsStep DEF LaunchInv
  <2>2. (trapped => trapped') /\ (NobodyKilled' => NobodyKilled)
    BY <1>2, NothingForgotten
  <2>3. ~overlap' /\ ~trapped' => Unsignalled'
    BY <1>2, <2>1, <2>2, UnsignalledStep DEF LaunchInv
  <2>4. ~overlap' /\ NobodyKilled' => Unkilled'
    BY <1>2, <2>1, <2>2, UnkilledStep DEF LaunchInv
  <2>5. FlowOfNative' /\ LockHasOwner' /\ NothingWithoutDir'
    BY <1>2, OwnersStep DEF LaunchInv
  <2> QED BY <2>1, <2>3, <2>4, <2>5 DEF LaunchInv
<1> QED BY <1>1, <1>2 DEF LaunchNext

\* Two flows would be two launchers that wait, each with its own pid in the lock, or
\* two containers of which the second was started in sight of the first or under a
\* name that was taken.
LEMMA LaunchInvSuffices ==
    ASSUME LaunchTypeOK, LaunchInv
    PROVE  OneFlowAtATime
<1>1. (\A k, l \in flows : k = l) => Cardinality(flows) <= 1
  <2> SUFFICES ASSUME \A k, l \in flows : k = l PROVE Cardinality(flows) <= 1
    OBVIOUS
  <2>1. CASE flows = {}
    BY <2>1, FS_EmptySet
  <2>2. CASE flows # {}
    <3>1. PICK l : flows = {l}
      BY <2>2
    <3>2. Cardinality(flows) = 1
      BY <3>1, FS_Singleton
    <3> QED BY <3>2
  <2> QED BY <2>1, <2>2
<1>2. ASSUME ~overlap, ~trapped, native => \A l \in flows : Alive(l)
      PROVE  \A k, l \in flows : k = l
  <2>1. CASE native
    BY <1>2, <2>1
    DEF LaunchTypeOK, LaunchInv, Unsignalled, FlowOfNative, HolderIsNamed, Holding, Alive
  <2>2. CASE ~native
    BY <1>2, <2>2 DEF LaunchInv, Unsignalled, SeenNoContainer
  <2> QED BY <2>1, <2>2
<1>3. ASSUME ~overlap, ~native, \A l \in Launchers : launch[l] # "killed"
      PROVE  \A k, l \in flows : k = l
  BY <1>3 DEF LaunchInv, NobodyKilled, Unkilled, ContainerIsNamed
<1>4. ASSUME lock.dir, \A l \in Launchers : ~Alive(l)
      PROVE  \E l \in Launchers : launch[l] = "killed"
  BY <1>4 DEF LaunchInv, LockHasOwner, Alive, Holding
<1> QED BY <1>1, <1>2, <1>3, <1>4 DEF OneFlowAtATime

LEMMA LaunchStarts == LaunchInit => LaunchTypeOK /\ LaunchInv
<1>1. LaunchInit => LaunchTypeOK
  <2> SUFFICES ASSUME LaunchInit PROVE LaunchTypeOK
    OBVIOUS
  <2>1. lock \in [dir : BOOLEAN, pid : SUBSET Launchers, cid : SUBSET Launchers]
    BY DEF LaunchInit, NoLock
  <2>2. launch \in [Launchers -> {"new", "done", "killed"} \cup Starting \cup Holding]
    BY DEF LaunchInit
  <2> QED BY <2>1, <2>2 DEF LaunchInit, LaunchTypeOK
<1>2. LaunchInit => LaunchInv
  <2> SUFFICES ASSUME LaunchInit PROVE LaunchInv
    OBVIOUS
  <2>1. /\ ~lock.dir /\ lock.cid = {} /\ flows = {}
        /\ \A l \in Launchers : launch[l] = "new"
    BY DEF LaunchInit, NoLock
  <2> QED
    BY <2>1
    DEF LaunchInv, OneStarts, Unsignalled, HolderIsNamed, NobodyIsPassed, SeenNoContainer,
        Unkilled, LockIsLive, NothingToSteal, ContainerIsNamed, FlowOfNative, LockHasOwner,
        NothingWithoutDir, Starting, Holding, Past
<1> QED BY <1>1, <1>2

\* Any number of launchers that do not start at the very same time: none signalled,
\* or in containers none killed, and they never run two flows; and a lock that
\* outlives all launchers is left of one that was killed.
THEOREM OneFlow == LaunchSpec => []OneFlowAtATime
<1>1. LaunchTypeOK /\ LaunchInv /\ [LaunchNext]_launchVars => LaunchTypeOK' /\ LaunchInv'
  BY LaunchTypeStep, LaunchInvStep
<1> QED BY <1>1, LaunchStarts, LaunchInvSuffices, PTL DEF LaunchSpec

-----------------------------------------------------------------------------
\* --------------------------------------------------------- ReleaseEvidence

\* Contents are numbers, and none is larger than the last that was given out.
ReleasedFiles == [id : 0 .. stamp, text : {"clean", "marked", "dirty"}]
ReleaseRecords == [sha : 0 .. stamp, accepted : BOOLEAN]
ReleaseTypeOK ==
    /\ stamp \in Nat
    /\ file \in [Files -> ReleasedFiles]
    /\ records \in [Items -> [Files -> ReleaseRecords]]
    /\ audit \in [pc : {"idle", "inventory"}, release : BOOLEAN, ok : BOOLEAN, raced : BOOLEAN]
    /\ inventory \in [Listings -> [Files -> 0 .. stamp]]

\* Between the two readings of the manufacturing gate, when it released and no file
\* came or went, every required listing is still as it was validated.
ValidatedHolds ==
    audit.pc = "inventory" /\ audit.ok /\ audit.release /\ ~audit.raced =>
        \A i \in RequiredListings :
            i \in Listings \ head.unlisted /\ Found(i) # {} /\ MarkersOk(i)

\* No file is older than what a resolved manifest lists of it.
InventoryIsPast ==
    \A i \in Listings, f \in Files : file[f].id # 0 => inventory[i][f] <= file[f].id

\* Deliveries and records keep contents below the next one.
LEMMA ReleaseTypeStep ==
    ASSUME ReleaseTypeOK, [ReleaseNext]_releaseVars
    PROVE  ReleaseTypeOK'
<1> USE DEF ReleaseTypeOK
<1>1. CASE UNCHANGED releaseVars
  BY <1>1 DEF releaseVars, ReleasedFiles, ReleaseRecords
<1>2. ASSUME Edited
      PROVE  /\ stamp' \in Nat /\ stamp' = stamp + 1
             /\ file \in [Files -> ReleasedFiles'] /\ ReleaseRecords \subseteq ReleaseRecords'
             /\ records \in [Items -> [Files -> ReleaseRecords']]
             /\ inventory \in [Listings -> [Files -> 0 .. stamp']]
  <2>1. stamp' \in Nat /\ stamp' = stamp + 1 /\ 0 .. stamp \subseteq 0 .. stamp'
    BY <1>2 DEF Edited
  <2>2. ReleasedFiles \subseteq ReleasedFiles' /\ ReleaseRecords \subseteq ReleaseRecords'
    BY <2>1 DEF ReleasedFiles, ReleaseRecords
  <2> QED BY <2>1, <2>2
<1>3. ASSUME NEW f \in Files, NEW content \in ReleasedFiles', Delivered(f, content)
      PROVE  ReleaseTypeOK'
  <2>1. file' \in [Files -> ReleasedFiles']
    BY <1>2, <1>3 DEF Delivered
  <2>2. audit' \in [pc : {"idle", "inventory"}, release : BOOLEAN, ok : BOOLEAN, raced : BOOLEAN]
    BY <1>3 DEF Delivered
  <2> QED BY <1>2, <1>3, <2>1, <2>2 DEF Delivered
<1>4. ASSUME NEW f \in Files, Deliver(f) \/ Remove(f)
      PROVE  ReleaseTypeOK'
  <2>1. CASE Deliver(f)
    <3>1. PICK t \in {"clean", "marked", "dirty"} : Delivered(f, [id |-> stamp + 1, text |-> t])
      BY <2>1 DEF Deliver
    <3>2. [id |-> stamp + 1, text |-> t] \in ReleasedFiles'
      BY <1>2, <3>1 DEF Delivered, ReleasedFiles
    <3> QED BY <1>3, <3>1, <3>2
  <2>2. CASE Remove(f)
    <3>1. [id |-> 0, text |-> "clean"] \in ReleasedFiles'
      BY <1>2, <2>2 DEF Remove, Delivered, ReleasedFiles
    <3> QED BY <1>3, <2>2, <3>1 DEF Remove
  <2> QED BY <1>4, <2>1, <2>2
<1>5. ASSUME NEW i \in Items, NEW f \in Files, RecordFile(i, f)
      PROVE  ReleaseTypeOK'
  <2>1. PICK ok \in BOOLEAN : records' = [records EXCEPT ![i][f] = [sha |-> file[f].id, accepted |-> ok]]
    BY <1>5 DEF RecordFile
  <2>2. file[f].id \in 0 .. stamp'
    BY <1>2, <1>5 DEF RecordFile, ReleasedFiles
  <2>3. [sha |-> file[f].id, accepted |-> ok] \in ReleaseRecords'
    BY <2>2 DEF ReleaseRecords
  <2>4. records' \in [Items -> [Files -> ReleaseRecords']]
    BY <1>2, <1>5, <2>1, <2>3 DEF RecordFile
  <2> QED BY <1>2, <1>5, <2>4 DEF RecordFile
<1>6. ASSUME NEW i \in Items \cup Listings, ClaimStatus(i)
      PROVE  ReleaseTypeOK'
  BY <1>2, <1>6 DEF ClaimStatus
<1>7. ASSUME NEW release \in BOOLEAN, Validate(release)
      PROVE  ReleaseTypeOK'
  <2>1. MfgGate(release) \in BOOLEAN
    BY DEF MfgGate
  <2>2. audit' \in [pc : {"idle", "inventory"}, release : BOOLEAN, ok : BOOLEAN, raced : BOOLEAN]
    BY <1>7, <2>1 DEF Validate
  <2> QED BY <1>7, <2>2 DEF Validate, ReleasedFiles, ReleaseRecords
<1>8. CASE ResolveManifest
  <2>1. \A f \in Files : file[f].id \in 0 .. stamp
    BY DEF ReleasedFiles
  <2>2. inventory' \in [Listings -> [Files -> 0 .. stamp]]
    BY <1>8, <2>1 DEF ResolveManifest
  <2>3. audit' \in [pc : {"idle", "inventory"}, release : BOOLEAN, ok : BOOLEAN, raced : BOOLEAN]
    BY <1>8 DEF ResolveManifest
  <2> QED BY <1>8, <2>2, <2>3 DEF ResolveManifest, ReleasedFiles, ReleaseRecords
<1> QED BY <1>1, <1>4, <1>5, <1>6, <1>7, <1>8 DEF ReleaseNext

\* A file that comes or goes: only that one, and it gets a new content or none.
LEMMA FilesMove ==
    ASSUME ReleaseTypeOK, [ReleaseNext]_releaseVars, file' # file
    PROVE  /\ UNCHANGED <<records, head, inventory>> /\ audit'.raced = (audit.raced \/ audit.pc = "inventory")
           /\ audit' = [audit EXCEPT !.raced = @ \/ audit.pc = "inventory"]
           /\ \A f \in Files : file'[f] # file[f] => file'[f].id \in {0, stamp + 1}
<1>1. PICK f \in Files : Deliver(f) \/ Remove(f)
  BY DEF ReleaseNext, releaseVars, RecordFile, ClaimStatus, Validate, ResolveManifest
<1>2. PICK content : Delivered(f, content) /\ content.id \in {0, stamp + 1}
  BY <1>1 DEF Deliver, Remove
<1> QED BY <1>2 DEF Delivered, ReleaseTypeOK

\* The gate validates all that is required, and a file that comes or goes after that
\* marks the run as raced.
LEMMA ValidatedStep ==
    ASSUME ReleaseTypeOK, ValidatedHolds, [ReleaseNext]_releaseVars
    PROVE  ValidatedHolds'
<1> USE DEF ValidatedHolds
<1>1. CASE file' # file
  <2>1. audit'.pc = audit.pc /\ audit'.raced = (audit.raced \/ audit.pc = "inventory")
    BY <1>1, FilesMove DEF ReleaseTypeOK
  <2> QED BY <2>1
<1>2. CASE UNCHANGED <<file, head, audit>>
  BY <1>2 DEF Found, MarkersOk
<1>3. ASSUME NEW release \in BOOLEAN, Validate(release)
      PROVE  ValidatedHolds'
  <2>1. UNCHANGED <<file, head>> /\ (audit'.ok /\ audit'.release => MfgGate(TRUE))
    BY <1>3 DEF Validate
  <2>2. MfgGate(TRUE) => \A i \in RequiredListings :
            i \in Listings \ head.unlisted /\ Found(i) # {} /\ MarkersOk(i)
    BY DEF MfgGate, NamesOk, MfgItemOk, ArtifactOk
  <2>3. \A i : Found(i)' = Found(i) /\ (MarkersOk(i) => MarkersOk(i)')
    BY <2>1 DEF Found, MarkersOk
  <2> QED BY <2>1, <2>2, <2>3
<1>4. CASE ResolveManifest
  BY <1>4 DEF ResolveManifest, ReleaseTypeOK
<1>5. /\ \A i \in Items, f \in Files : RecordFile(i, f) => UNCHANGED <<file, head, audit>>
      /\ \A i : ClaimStatus(i) => UNCHANGED <<file, head, audit>>
  BY DEF RecordFile, ClaimStatus
<1>6. \A f \in Files : Deliver(f) \/ Remove(f) => file' # file \/ UNCHANGED <<file, head, audit>>
                                                   \/ audit'.raced \/ audit'.pc # "inventory"
  BY DEF Deliver, Remove, Delivered, ReleaseTypeOK
<1> QED BY <1>1, <1>2, <1>3, <1>4, <1>5, <1>6 DEF ReleaseNext, releaseVars

\* A resolved manifest lists what is there, and what comes later is newer.
LEMMA InventoryStep ==
    ASSUME ReleaseTypeOK, InventoryIsPast, [ReleaseNext]_releaseVars
    PROVE  InventoryIsPast'
<1> SUFFICES ASSUME NEW i \in Listings, NEW f \in Files, file'[f].id # 0
             PROVE  inventory'[i][f] <= file'[f].id
  BY DEF InventoryIsPast
<1>0. inventory[i][f] \in 0 .. stamp /\ stamp \in Nat /\ file[f].id \in 0 .. stamp
  BY DEF ReleaseTypeOK, ReleasedFiles
<1>1. CASE file' # file
  BY <1>0, <1>1, FilesMove DEF InventoryIsPast
<1>2. CASE file' = file /\ inventory' = inventory
  BY <1>2 DEF InventoryIsPast
<1>3. CASE ResolveManifest
  <2>1. file' = file /\ inventory'[i][f] \in {0, file[f].id}
    BY <1>3 DEF ResolveManifest
  <2> QED BY <1>0, <2>1
<1>4. file' # file \/ inventory' = inventory \/ ResolveManifest
  BY DEF ReleaseNext, releaseVars, RecordFile, ClaimStatus, Validate, Deliver, Remove, Delivered
<1>5. file' # file \/ file' = file
  OBVIOUS
<1> QED BY <1>1, <1>2, <1>3, <1>4, <1>5

\* What is delivered gets a new content, which no record names yet.
LEMMA DeliveryTakesBack ==
    ASSUME ReleaseTypeOK, [ReleaseNext]_releaseVars
    PROVE  TakenBack
<1> SUFFICES ASSUME NEW i \in Items, NEW f \in Files, BoardGate(TRUE), i \in head.listed,
                    f \in Recorded(i), file'[f] # file[f], BoardGate(TRUE)'
             PROVE  FALSE
  BY DEF TakenBack
<1>1. UNCHANGED <<records, head>> /\ file'[f].id \in {0, stamp + 1}
  BY FilesMove
<1>2. f \in Recorded(i)' /\ i \in head'.listed
  BY <1>1 DEF Recorded
<1>3. RecordOk(i, f)'
  BY <1>2 DEF BoardGate, BoardItemOk
<1>4. records[i][f].sha = file'[f].id /\ file'[f].id # 0
  BY <1>1, <1>3 DEF RecordOk
<1>5. records[i][f].sha \in 0 .. stamp /\ stamp \in Nat
  BY DEF ReleaseTypeOK, ReleaseRecords
<1> QED BY <1>1, <1>4, <1>5

\* What the board gate releases is recorded as it is.
LEMMA ReleasedAsRecorded ==
    ASSUME BoardGate(TRUE), NEW b \in head.listed, NEW f \in Recorded(b)
    PROVE  records[b][f].sha = file[f].id /\ file[f].id # 0
BY DEF BoardGate, BoardItemOk, RecordOk

\* The resolved manifest is taken of files that still are what was validated.
LEMMA InventoryOfValidated ==
    ASSUME ReleaseTypeOK, ValidatedHolds
    PROVE  ListsAccepted
<1> SUFFICES ASSUME ResolveManifest, audit.ok, audit.release, ~audit.raced, NEW i \in RequiredListings
             PROVE  /\ \E f \in Files : inventory'[i][f] # 0
                    /\ \A f \in Files : inventory'[i][f] # 0 =>
                         /\ i \in Reports => file[f].text # "dirty"
                         /\ \A b \in head.listed :
                              BoardGate(TRUE) /\ f \in Recorded(b) => inventory'[i][f] = records[b][f].sha
  BY DEF ListsAccepted
<1>1. i \in Listings \ head.unlisted /\ Found(i) # {} /\ MarkersOk(i)
  BY DEF ResolveManifest, ValidatedHolds
<1>2. \A f \in Files : inventory'[i][f] = IF f \in Globs[i] THEN file[f].id ELSE 0
  BY <1>1 DEF ResolveManifest
<1>3. PICK f \in Found(i) : TRUE
  BY <1>1
<1>4. f \in Files /\ inventory'[i][f] # 0
  BY <1>1, <1>2, <1>3, ReleaseAssumption DEF ReleaseAssumption, Found
<1>5. ASSUME NEW g \in Files, inventory'[i][g] # 0
      PROVE  /\ i \in Reports => file[g].text # "dirty"
             /\ \A b \in head.listed :
                  BoardGate(TRUE) /\ g \in Recorded(b) => inventory'[i][g] = records[b][g].sha
  <2>1. g \in Found(i) /\ inventory'[i][g] = file[g].id
    BY <1>2, <1>5 DEF Found
  <2>2. i \in Reports => file[g].text # "dirty"
    BY <1>1, <2>1 DEF MarkersOk
  <2> QED BY <2>1, <2>2, ReleasedAsRecorded
<1> QED BY <1>4, <1>5

\* What is recorded as it is, is not older than what is listed.
LEMMA ReleasedIsNewest == InventoryIsPast => NeverOlder
<1> SUFFICES ASSUME InventoryIsPast, NEW b \in head.listed, NEW i \in Listings, NEW f \in Recorded(b),
                    BoardGate(TRUE)
             PROVE  inventory[i][f] <= records[b][f].sha
  BY DEF NeverOlder
<1>1. records[b][f].sha = file[f].id /\ file[f].id # 0
  BY ReleasedAsRecorded
<1> QED BY <1>1 DEF InventoryIsPast, Recorded

ReleaseInv == ReleaseTypeOK /\ ValidatedHolds /\ InventoryIsPast

LEMMA ReleaseStarts == ReleaseInit => ReleaseInv
BY DEF ReleaseInit, ReleaseInv, ReleaseTypeOK, ReleasedFiles, ReleaseRecords, NoRecord,
       ValidatedHolds, InventoryIsPast

LEMMA ReleaseStep ==
    ASSUME ReleaseInv, [ReleaseNext]_releaseVars
    PROVE  ReleaseInv' /\ TakenBack /\ ListsAccepted /\ NeverOlder'
<1>1. ReleaseInv' /\ TakenBack /\ ListsAccepted
  BY ReleaseTypeStep, ValidatedStep, InventoryStep, DeliveryTakesBack, InventoryOfValidated
     DEF ReleaseInv
<1>2. (InventoryIsPast => NeverOlder)'
  BY ReleasedIsNewest, PTL
<1> QED BY <1>1, <1>2 DEF ReleaseInv

\* Acceptance is of contents: a recorded file that changes takes the release of the
\* board back, a resolved manifest lists what both gates could accept, and what is
\* released is never older than what one lists.
THEOREM AcceptanceOfContents == ReleaseSpec => AcceptedIsCurrent
<1>1. ReleaseInv /\ [ReleaseNext]_releaseVars
        => ReleaseInv' /\ [TakenBack /\ ListsAccepted /\ NeverOlder']_releaseVars
  BY ReleaseStep
<1> QED BY <1>1, ReleaseStarts, PTL DEF ReleaseSpec, AcceptedIsCurrent

-----------------------------------------------------------------------------
\* --------------------------------------------------------------- PdSignoff

Statuses == {"none", "missing", "blocked", "present"}
Summaries == {"none", "ready", "incomplete"}

Archivers ==
    [pc : {"idle", "clear", "judge", "copy", "summary", "sums", "report"},
     run : Nat, i : Nat, status : [Classes -> Statuses], from : {"none", "top", "fall"}]
Boxes ==
    [copy : [Classes -> Kinds], summary : Summaries, raced : BOOLEAN,
     sums : [there : BOOLEAN, copy : [Classes -> Kinds], summary : Summaries]]

ArchiveTypeOK ==
    /\ run \in [Runs -> RunStates] /\ arc \in Archivers /\ box \in [Runs -> Boxes]
    /\ arc.pc # "idle" => arc.run \in Runs /\ arc.i \in 1 .. Len(ClassOrder)
    /\ arc.pc = "copy" => arc.from \in {"top", "fall"}

AllPresent(copy) == \A c \in Classes : StatusOf(c, copy[c]) = "present"

\* The class at hand, and the file of it that was judged.
AtHand == ClassOrder[arc.i]
Judged == IF arc.from = "top" THEN FileAt(arc.run, AtHand) ELSE FallbackAt(arc.run, AtHand)

\* The classes that were judged and copied, in this run of the archiver.
Copied ==
    CASE arc.pc = "judge"   -> {ClassOrder[j] : j \in 1 .. arc.i - 1}
      [] arc.pc = "copy"    -> {ClassOrder[j] : j \in 1 .. arc.i - 1} \ {AtHand}
      [] arc.pc = "summary" -> Classes
      [] OTHER              -> {}

\* The archiver clears before it judges the first class.
ClearsFirst == arc.pc = "clear" => arc.i = 1

\* As long as nothing was written between a judgement and its copy, a judgement
\* stands, is that of the copy, and is what the summary says; and checksums are
\* taken of an archive that is what its summary says.
JudgementStands ==
    arc.pc = "copy" /\ ~box[arc.run].raced /\ arc.status[AtHand] = "present" =>
        StatusOf(AtHand, Judged) = "present"
CopyIsJudged ==
    arc.pc # "idle" /\ ~box[arc.run].raced =>
        \A c \in Copied : arc.status[c] = "present" => StatusOf(c, box[arc.run].copy[c]) = "present"
SummaryIsOfCopies ==
    arc.pc = "sums" /\ ~box[arc.run].raced /\ box[arc.run].summary = "ready" =>
        AllPresent(box[arc.run].copy)
SumsAreOfReady ==
    \A r \in Runs : box[r].sums.there /\ box[r].sums.summary = "ready" /\ ~box[r].raced =>
        AllPresent(box[r].sums.copy)

ArchiveInv ==
    /\ ArchiveTypeOK /\ ClearsFirst
    /\ JudgementStands /\ CopyIsJudged /\ SummaryIsOfCopies /\ SumsAreOfReady

\* A run directory, an archive and the archiver stay of their kinds when a part of them changes.
LEMMA RunStateParts ==
    ASSUME NEW x \in RunStates
    PROVE  /\ \A s \in {"empty", "open", "steps", "klayout", "final"}, hole \in BOOLEAN,
                 m \in {"none", "bad", "zero"} :
                [x EXCEPT !.stage = s, !.hole = hole, !.metrics = m] \in RunStates
           /\ \A c \in Classes, f \in Kinds :
                [x EXCEPT !.top[c] = f] \in RunStates /\ [x EXCEPT !.fall[c] = f] \in RunStates
           /\ \A m \in {"incomplete", "clean", "waived", "sta"} : [x EXCEPT !.man = m] \in RunStates
           /\ \A w \in {"open", "closed"} : [x EXCEPT !.wv = w] \in RunStates
BY ZenonT(60) DEF RunStates

LEMMA BoxParts ==
    ASSUME NEW x \in Boxes
    PROVE  /\ \A raced \in BOOLEAN : [x EXCEPT !.raced = raced] \in Boxes
           /\ \A c \in Classes, f \in Kinds : [x EXCEPT !.copy[c] = f] \in Boxes
           /\ \A s \in Summaries : [x EXCEPT !.summary = s] \in Boxes
           /\ [x EXCEPT !.sums = [there |-> TRUE, copy |-> x.copy, summary |-> x.summary]] \in Boxes
BY DEF Boxes

LEMMA ArchiverParts ==
    ASSUME NEW x \in Archivers
    PROVE  /\ \A pc \in {"judge", "sums", "report"} : [x EXCEPT !.pc = pc] \in Archivers
           /\ \A n \in Nat : [x EXCEPT !.pc = "clear", !.run = n] \in Archivers
           /\ [x EXCEPT !.pc = "judge", !.i = @ + 1] \in Archivers
           /\ [x EXCEPT !.pc = "summary", !.i = 1] \in Archivers
           /\ \A c \in Classes, s \in {"missing", "blocked", "present"}, from \in {"top", "fall"} :
                [x EXCEPT !.status[c] = s, !.from = from, !.pc = "copy"] \in Archivers
<1>2. ASSUME NEW c \in Classes, NEW s \in {"missing", "blocked", "present"}, NEW from \in {"top", "fall"}
      PROVE  [x EXCEPT !.status[c] = s, !.from = from, !.pc = "copy"] \in Archivers
  BY DEF Archivers, Statuses
<1>3. \A pc \in {"judge", "sums", "report"} : [x EXCEPT !.pc = pc] \in Archivers
  BY DEF Archivers
<1>4. \A n \in Nat : [x EXCEPT !.pc = "clear", !.run = n] \in Archivers
  BY DEF Archivers
<1>5. [x EXCEPT !.pc = "judge", !.i = @ + 1] \in Archivers
  <2>1. x.i + 1 \in Nat
    BY DEF Archivers
  <2> QED BY <2>1 DEF Archivers
<1>6. [x EXCEPT !.pc = "summary", !.i = 1] \in Archivers
  BY DEF Archivers
<1> QED BY <1>2, <1>3, <1>4, <1>5, <1>6, Zenon

\* What the archiver looks at is of the kinds of the model.
LEMMA ClassAtHand ==
    ASSUME ArchiveTypeOK, arc.pc # "idle"
    PROVE  arc.run \in Runs /\ AtHand \in Classes /\ Judged \in Kinds
<1>1. ClassOrder \in Seq(Classes)
  BY PdAssumption DEF PdAssumption
<1>2. arc.run \in Runs /\ arc.i \in 1 .. Len(ClassOrder)
  BY DEF ArchiveTypeOK
<1>3. AtHand \in Classes
  BY <1>1, <1>2 DEF AtHand
<1>4. run[arc.run] \in RunStates
  BY <1>2 DEF ArchiveTypeOK
<1> QED BY <1>2, <1>3, <1>4 DEF Judged, FileAt, FallbackAt, RunStates, Kinds

LEMMA StatusOfKind == \A c, f : StatusOf(c, f) \in {"missing", "blocked", "present"}
BY DEF StatusOf

\* The flow and the engineers keep the kinds of things, ...
LEMMA RunChangesType ==
    ASSUME ArchiveTypeOK, RunChanges
    PROVE  ArchiveTypeOK'
<1> USE DEF ArchiveTypeOK
<1>0. \A r \in Runs : run[r] \in RunStates /\ box[r] \in Boxes
  OBVIOUS
<1>1. ASSUME NEW r \in Runs, FlowAdvances(r)
      PROVE  ArchiveTypeOK'
  <2>1. PICK s \in NextStages(run[r].stage), hole \in BOOLEAN, m \in {"none", "bad", "zero"} :
            run' = [run EXCEPT ![r] = [@ EXCEPT !.stage = s, !.hole = hole, !.metrics = m]]
    BY <1>1 DEF FlowAdvances
  <2>2. s \in {"empty", "open", "steps", "klayout", "final"}
    BY <2>1 DEF NextStages
  <2>3. [run[r] EXCEPT !.stage = s, !.hole = hole, !.metrics = m] \in RunStates
    BY <1>0, <2>2, RunStateParts, Zenon
  <2>4. run' \in [Runs -> RunStates]
    BY <2>1, <2>3
  <2> QED BY <1>1, <2>4 DEF FlowAdvances
<1>2. ASSUME NEW r \in Runs, NEW c \in Classes, NEW place \in {"top", "fall"}, NEW f \in Verdicts,
             FileWritten(r, c, place, f)
      PROVE  ArchiveTypeOK'
  <2>1. f \in Kinds
    BY PdAssumption DEF PdAssumption
  <2>2. [run[r] EXCEPT !.top[c] = f] \in RunStates /\ [run[r] EXCEPT !.fall[c] = f] \in RunStates
    BY <1>0, <2>1, RunStateParts, Zenon
  <2>3. run' \in [Runs -> RunStates]
    BY <1>2, <2>2 DEF FileWritten
  <2>4. box' \in [Runs -> Boxes]
    <3>1. PICK raced \in BOOLEAN : box' = [box EXCEPT ![r].raced = raced]
      BY <1>2, <1>0 DEF FileWritten, Boxes
    <3>2. [box[r] EXCEPT !.raced = raced] \in Boxes
      BY <1>0, BoxParts
    <3> QED BY <3>1, <3>2
  <2> QED BY <1>2, <2>3, <2>4 DEF FileWritten
<1>3. ASSUME NEW r \in Runs, RunJudged(r)
      PROVE  ArchiveTypeOK'
  <2>1. CASE \E m \in {"incomplete", "clean", "waived", "sta"} : run' = [run EXCEPT ![r].man = m]
    <3>1. PICK m \in {"incomplete", "clean", "waived", "sta"} : run' = [run EXCEPT ![r].man = m]
      BY <2>1
    <3>2. [run[r] EXCEPT !.man = m] \in RunStates
      BY <1>0, RunStateParts, Zenon
    <3> QED BY <1>3, <3>1, <3>2 DEF RunJudged
  <2>2. CASE \E w \in {"open", "closed"} : run' = [run EXCEPT ![r].wv = w]
    <3>1. PICK w \in {"open", "closed"} : run' = [run EXCEPT ![r].wv = w]
      BY <2>2
    <3>2. [run[r] EXCEPT !.wv = w] \in RunStates
      BY <1>0, RunStateParts, Zenon
    <3> QED BY <1>3, <3>1, <3>2 DEF RunJudged
  <2> QED BY <1>3, <2>1, <2>2 DEF RunJudged
<1> QED BY <1>1, <1>2, <1>3 DEF RunChanges

\* A judgement is of the manifest's file, or else of the fallback's.
LEMMA JudgesOneFile ==
    ASSUME Judge
    PROVE  \E from \in {"top", "fall"} :
             arc' = [arc EXCEPT
                       !.status[AtHand] =
                          StatusOf(AtHand, IF from = "top" THEN FileAt(arc.run, AtHand)
                                           ELSE FallbackAt(arc.run, AtHand)),
                       !.from = from, !.pc = "copy"]
<1> DEFINE from == IF FileAt(arc.run, AtHand) # "none" THEN "top" ELSE "fall"
<1>1. from \in {"top", "fall"}
  OBVIOUS
<1>2. arc' = [arc EXCEPT
                 !.status[AtHand] =
                    StatusOf(AtHand, IF from = "top" THEN FileAt(arc.run, AtHand)
                                     ELSE FallbackAt(arc.run, AtHand)),
                 !.from = from, !.pc = "copy"]
  BY Zenon DEF Judge, AtHand
<1> HIDE DEF from
<1> QED BY <1>1, <1>2

\* ... and so does the archiver, wherever it is killed.
LEMMA ArchiverType ==
    ASSUME ArchiveTypeOK, Archiver
    PROVE  ArchiveTypeOK'
<1> USE DEF ArchiveTypeOK
<1>0. NoArchiver \in Archivers /\ NoArchiver.pc = "idle" /\ NoArchiver.i = 1
  BY DEF NoArchiver, NoFiles, Statuses, Archivers
<1>1. NoBox \in Boxes
  BY DEF NoBox, NoFiles, Kinds, Summaries, Boxes
<1>9. \A r \in Runs : box[r] \in Boxes
  OBVIOUS
<1>2. ASSUME NEW r \in Runs, ArchiveStart(r)
      PROVE  ArchiveTypeOK'
  <2>1. PICK kept \in SUBSET {c \in Classes : box[r].copy[c] # "none"},
             sums \in {FALSE, box[r].sums.there}, summary \in {FALSE, box[r].summary # "none"} :
          box' = [box EXCEPT ![r] =
             [copy |-> [c \in Classes |-> IF c \in kept THEN @.copy[c] ELSE "none"],
              summary |-> IF summary THEN @.summary ELSE "none",
              raced |-> @.raced,
              sums |-> IF sums THEN @.sums ELSE NoBox.sums]]
    BY <1>2 DEF ArchiveStart
  <2>2. [c \in Classes |-> IF c \in kept THEN box[r].copy[c] ELSE "none"] \in [Classes -> Kinds]
    BY <1>9 DEF Kinds, Boxes
  <2>3. (IF summary THEN box[r].summary ELSE "none") \in Summaries
    BY <1>9 DEF Summaries, Boxes
  <2>4. (IF sums THEN box[r].sums ELSE NoBox.sums)
           \in [there : BOOLEAN, copy : [Classes -> Kinds], summary : Summaries]
    BY <1>1, <1>9 DEF Boxes
  <2>9. box[r].raced \in BOOLEAN
    BY <1>9 DEF Boxes
  <2>5. [copy |-> [c \in Classes |-> IF c \in kept THEN box[r].copy[c] ELSE "none"],
         summary |-> IF summary THEN box[r].summary ELSE "none",
         raced |-> box[r].raced,
         sums |-> IF sums THEN box[r].sums ELSE NoBox.sums] \in Boxes
    BY <2>2, <2>3, <2>4, <2>9 DEF Boxes
  <2>10. box' \in [Runs -> Boxes]
    BY <2>1, <2>5
  <2>6. run' = run /\ arc' = [NoArchiver EXCEPT !.pc = "clear", !.run = r] /\ r \in Nat
    BY <1>2, PdAssumption DEF ArchiveStart, PdAssumption
  <2>7. arc' \in Archivers /\ arc'.run = r /\ arc'.i = 1
    <3>1. arc' \in Archivers
      BY <1>0, <2>6, ArchiverParts, Zenon
    <3> QED BY <1>0, <2>6, <3>1 DEF Archivers
  <2>8. 1 \in 1 .. Len(ClassOrder)
    BY PdAssumption DEF PdAssumption, Classes
  <2> QED BY <2>10, <2>6, <2>7, <2>8
<1>3. CASE Clear
  <2>1. arc' \in Archivers /\ arc' = [arc EXCEPT !.pc = "judge"]
    BY <1>3, ArchiverParts, Zenon DEF Clear
  <2>2. arc'.run = arc.run /\ arc'.i = arc.i /\ arc.pc = "clear"
    BY <1>3, <2>1 DEF Archivers, Clear
  <2> QED BY <1>1, <1>3, <2>1, <2>2 DEF Clear
<1>4. CASE Judge
  <2>1. AtHand \in Classes /\ arc.run \in Runs
    BY <1>4, ClassAtHand DEF Judge
  <2>2. PICK s \in {"missing", "blocked", "present"}, from \in {"top", "fall"} :
            arc' = [arc EXCEPT !.status[AtHand] = s, !.from = from, !.pc = "copy"]
    <3> DEFINE F(from) == IF from = "top" THEN FileAt(arc.run, AtHand) ELSE FallbackAt(arc.run, AtHand)
    <3>1. PICK from \in {"top", "fall"} :
             arc' = [arc EXCEPT !.status[AtHand] = StatusOf(AtHand, F(from)), !.from = from, !.pc = "copy"]
      BY <1>4, JudgesOneFile, Zenon
    <3>2. StatusOf(AtHand, F(from)) \in {"missing", "blocked", "present"}
      BY StatusOfKind
    <3> HIDE DEF F
    <3> QED BY <3>1, <3>2, Zenon
  <2>3. UNCHANGED <<run, box>> /\ arc.pc = "judge"
    BY <1>4 DEF Judge
  <2>4. arc' \in Archivers
    BY <2>1, <2>2, ArchiverParts, Zenon
  <2>5. arc'.run = arc.run /\ arc'.i = arc.i /\ arc'.from = from
    <3> HIDE DEF ArchiveTypeOK
    <3>1. arc \in Archivers
      BY DEF ArchiveTypeOK
    <3> QED BY <2>2, <3>1 DEF Archivers
  <2> QED BY <2>1, <2>3, <2>4, <2>5
<1>5. CASE Copy
  <2>1. AtHand \in Classes /\ arc.run \in Runs /\ Judged \in Kinds
    BY <1>5, ClassAtHand DEF Copy
  <2>2. PICK f \in Kinds : box' = [box EXCEPT ![arc.run].copy[AtHand] = f]
    BY <1>5, <2>1 DEF Copy, AtHand, Judged, Kinds
  <2>5. run' = run /\ arc.pc = "copy"
    BY <1>5 DEF Copy
  <2>6. [box[arc.run] EXCEPT !.copy[AtHand] = f] \in Boxes
    BY <1>9, <2>1, BoxParts
  <2>7. box' \in [Runs -> Boxes]
    BY <2>2, <2>6
  <2>8. arc.i \in 1 .. Len(ClassOrder) /\ Len(ClassOrder) \in Nat
    BY <2>5, PdAssumption DEF PdAssumption
  <2>3. CASE arc.i < Len(ClassOrder) /\ arc' = [arc EXCEPT !.pc = "judge", !.i = @ + 1]
    <3>1. arc' \in Archivers
      BY <2>3, ArchiverParts, Zenon
    <3>2. arc'.run = arc.run /\ arc'.i = arc.i + 1
      BY <2>3 DEF Archivers
    <3> QED BY <2>1, <2>3, <2>5, <2>7, <2>8, <3>1, <3>2
  <2>4. CASE arc' = [arc EXCEPT !.pc = "summary", !.i = 1]
    <3>1. arc' \in Archivers
      BY <2>4, ArchiverParts, Zenon
    <3>2. arc'.run = arc.run /\ arc'.i = 1
      BY <2>4 DEF Archivers
    <3> QED BY <2>1, <2>4, <2>5, <2>7, <2>8, <3>1, <3>2
  <2> QED BY <1>5, <2>3, <2>4 DEF Copy
<1>6. CASE WriteSummary
  <2>1. ReleaseReady \in Summaries
    BY DEF ReleaseReady, Summaries
  <2>2. arc.run \in Runs /\ [box[arc.run] EXCEPT !.summary = ReleaseReady] \in Boxes
    BY <1>6, <1>9, <2>1, BoxParts DEF WriteSummary
  <2>3. arc' \in Archivers /\ arc' = [arc EXCEPT !.pc = "sums"]
    BY <1>6, ArchiverParts, Zenon DEF WriteSummary
  <2>4. arc'.run = arc.run /\ arc'.i = arc.i
    BY <2>3 DEF Archivers
  <2> QED BY <1>6, <2>2, <2>3, <2>4 DEF WriteSummary
<1>7. CASE WriteChecksums
  <2>1. arc.run \in Runs /\ box[arc.run] \in Boxes
    BY <1>7 DEF WriteChecksums
  <2>2. [box[arc.run] EXCEPT !.sums = [there |-> TRUE, copy |-> box[arc.run].copy,
                                       summary |-> box[arc.run].summary]] \in Boxes
    BY <2>1, BoxParts, Zenon
  <2>3. arc' \in Archivers /\ arc' = [arc EXCEPT !.pc = "report"]
    BY <1>7, ArchiverParts, Zenon DEF WriteChecksums
  <2>4. arc'.run = arc.run /\ arc'.i = arc.i
    BY <2>3 DEF Archivers
  <2> QED BY <1>7, <2>1, <2>2, <2>3, <2>4 DEF WriteChecksums
<1>8. CASE WriteReport \/ ArchiverKilled
  BY <1>0, <1>8 DEF WriteReport, ArchiverKilled
<1> QED BY <1>2, <1>3, <1>4, <1>5, <1>6, <1>7, <1>8 DEF Archiver

\* What changes in a run neither touches an archive nor, unseen, the file that
\* was judged.
LEMMA RunChangesKeep ==
    ASSUME ArchiveTypeOK, RunChanges
    PROVE  /\ arc' = arc
           /\ \A q \in Runs : /\ box'[q].copy = box[q].copy /\ box'[q].summary = box[q].summary
                              /\ box'[q].sums = box[q].sums /\ (box[q].raced => box'[q].raced)
           /\ arc.pc = "copy" /\ ~box'[arc.run].raced /\ StatusOf(AtHand, Judged) = "present"
                => StatusOf(AtHand', Judged') = "present"
<1>0. run \in [Runs -> RunStates] /\ box \in [Runs -> Boxes]
  BY DEF ArchiveTypeOK
<1>7. arc.pc = "copy" => arc.run \in Runs /\ AtHand \in Classes
  BY ClassAtHand
<1>1. ASSUME NEW r \in Runs, FlowAdvances(r)
      PROVE  /\ arc' = arc /\ box' = box
             /\ \A q \in Runs : run'[q].top = run[q].top /\ run'[q].fall = run[q].fall /\ run'[q].man = run[q].man
  <2>1. PICK s \in NextStages(run[r].stage), hole \in BOOLEAN, m \in {"none", "bad", "zero"} :
            run' = [run EXCEPT ![r] = [@ EXCEPT !.stage = s, !.hole = hole, !.metrics = m]]
    BY <1>1 DEF FlowAdvances
  <2> QED BY <1>0, <1>1, <2>1 DEF FlowAdvances, RunStates
<1>2. ASSUME NEW r \in Runs, NEW c \in Classes, NEW place \in {"top", "fall"}, NEW f \in Verdicts,
             FileWritten(r, c, place, f)
      PROVE  /\ arc' = arc
             /\ \A q \in Runs : /\ box'[q].copy = box[q].copy /\ box'[q].summary = box[q].summary
                                /\ box'[q].sums = box[q].sums /\ (box[q].raced => box'[q].raced)
             /\ arc.pc = "copy" /\ ~box'[arc.run].raced => Judged' = Judged
  <2>1. /\ c # "run_manifest" /\ arc' = arc
        /\ run' = IF place = "top" THEN [run EXCEPT ![r].top[c] = f] ELSE [run EXCEPT ![r].fall[c] = f]
        /\ box' = [box EXCEPT ![r].raced =
                     @ \/ (arc.pc = "copy" /\ arc.run = r /\ AtHand = c /\ arc.from = place)]
    BY <1>2 DEF FileWritten, AtHand
  <2>2. \A q \in Runs : /\ box'[q].copy = box[q].copy /\ box'[q].summary = box[q].summary
                        /\ box'[q].sums = box[q].sums
    BY <1>0, <2>1 DEF Boxes
  <2>3. PICK hit \in BOOLEAN :
            /\ hit = (arc.pc = "copy" /\ arc.run = r /\ AtHand = c /\ arc.from = place)
            /\ box' = [box EXCEPT ![r].raced = @ \/ hit]
    BY <2>1
  <2>4. \A q \in Runs : box[q].raced => box'[q].raced
    BY <1>0, <2>3, Zenon DEF Boxes
  <2>5. box'[r].raced = (box[r].raced \/ hit)
    BY <1>0, <2>3, Zenon DEF Boxes
  <2>6. ASSUME arc.pc = "copy", ~box'[arc.run].raced
        PROVE  Judged' = Judged
    <3>1. (arc.run # r \/ AtHand # c \/ arc.from # place) /\ arc.from \in {"top", "fall"}
      BY <2>3, <2>5, <2>6 DEF ArchiveTypeOK
    <3>2. AtHand' = AtHand /\ arc.run \in Runs /\ AtHand \in Classes
      BY <1>7, <2>1, <2>6 DEF AtHand
    <3>3. run'[arc.run].man = run[arc.run].man
      BY <1>0, <2>1, <3>2 DEF RunStates
    <3>4. CASE place = "top"
      <4>1. run'[arc.run].fall = run[arc.run].fall
        BY <1>0, <2>1, <3>2, <3>4 DEF RunStates
      <4>2. arc.run # r \/ AtHand # c => run'[arc.run].top[AtHand] = run[arc.run].top[AtHand]
        BY <1>0, <2>1, <3>2, <3>4 DEF RunStates
      <4> QED BY <2>1, <3>1, <3>2, <3>3, <3>4, <4>1, <4>2 DEF Judged, FileAt, FallbackAt
    <3>5. CASE place = "fall"
      <4>1. run'[arc.run].top = run[arc.run].top
        BY <1>0, <2>1, <3>2, <3>5 DEF RunStates
      <4>2. arc.run # r \/ AtHand # c => run'[arc.run].fall[AtHand] = run[arc.run].fall[AtHand]
        BY <1>0, <2>1, <3>2, <3>5 DEF RunStates
      <4> QED BY <2>1, <3>1, <3>2, <3>3, <3>5, <4>1, <4>2 DEF Judged, FileAt, FallbackAt
    <3> QED BY <3>4, <3>5
  <2> QED BY <2>1, <2>2, <2>4, <2>6
<1>3. ASSUME NEW r \in Runs, RunJudged(r)
      PROVE  /\ arc' = arc /\ box' = box
             /\ \A q \in Runs : /\ run'[q].top = run[q].top /\ run'[q].fall = run[q].fall
                                /\ run[q].man # "none" => run'[q].man # "none"
  <2>1. arc' = arc /\ box' = box
    BY <1>3 DEF RunJudged
  <2>2. CASE \E m \in {"incomplete", "clean", "waived", "sta"} : run' = [run EXCEPT ![r].man = m]
    BY <1>0, <2>1, <2>2 DEF RunStates
  <2>3. CASE \E w \in {"open", "closed"} : run' = [run EXCEPT ![r].wv = w]
    BY <1>0, <2>1, <2>3 DEF RunStates
  <2> QED BY <1>3, <2>2, <2>3 DEF RunJudged
<1>4. ASSUME arc' = arc, arc.pc = "copy", StatusOf(AtHand, Judged) = "present",
             \A q \in Runs : /\ run'[q].top = run[q].top /\ run'[q].fall = run[q].fall
                             /\ run[q].man # "none" => run'[q].man # "none"
      PROVE  StatusOf(AtHand', Judged') = "present"
  <2>1. AtHand' = AtHand /\ arc.run \in Runs
    BY <1>4, <1>7 DEF AtHand
  <2>2. Judged # "none"
    BY <1>4 DEF StatusOf
  <2>3. Judged' = Judged
    BY <1>4, <2>1, <2>2 DEF Judged, FileAt, FallbackAt
  <2> QED BY <1>4, <2>1, <2>3
<1>5. arc' = arc => AtHand' = AtHand
  BY DEF AtHand
<1> QED BY <1>1, <1>2, <1>3, <1>4, <1>5 DEF RunChanges

LEMMA RunChangesArchive ==
    ASSUME ArchiveInv, RunChanges
    PROVE  ArchiveInv'
<1>1. ArchiveTypeOK /\ ArchiveTypeOK'
  BY RunChangesType DEF ArchiveInv
<1>2. /\ arc' = arc
      /\ \A q \in Runs : /\ box'[q].copy = box[q].copy /\ box'[q].summary = box[q].summary
                         /\ box'[q].sums = box[q].sums /\ (box[q].raced => box'[q].raced)
      /\ arc.pc = "copy" /\ ~box'[arc.run].raced /\ StatusOf(AtHand, Judged) = "present"
           => StatusOf(AtHand', Judged') = "present"
  BY <1>1, RunChangesKeep
<1>3. AtHand' = AtHand /\ Copied' = Copied
  BY <1>2 DEF AtHand, Copied
<1>4. arc.pc # "idle" => arc.run \in Runs
  BY <1>1 DEF ArchiveTypeOK
<1>5. JudgementStands'
  BY <1>2, <1>3, <1>4 DEF ArchiveInv, JudgementStands
<1>6. CopyIsJudged'
  BY <1>2, <1>3, <1>4 DEF ArchiveInv, CopyIsJudged
<1>7. SummaryIsOfCopies'
  BY <1>2, <1>4 DEF ArchiveInv, SummaryIsOfCopies, AllPresent
<1>8. SumsAreOfReady'
  BY <1>2 DEF ArchiveInv, SumsAreOfReady, AllPresent
<1>9. ClearsFirst'
  BY <1>2 DEF ArchiveInv, ClearsFirst
<1> QED BY <1>1, <1>5, <1>6, <1>7, <1>8, <1>9 DEF ArchiveInv

\* Each step of the archiver keeps them.
LEMMA ArchiverArchive ==
    ASSUME ArchiveInv, Archiver
    PROVE  ArchiveInv'
<1>0. ArchiveTypeOK /\ ArchiveTypeOK'
  BY ArchiverType DEF ArchiveInv
<1>1. /\ arc \in Archivers /\ box \in [Runs -> Boxes]
      /\ arc.pc # "idle" => arc.run \in Runs /\ arc.i \in 1 .. Len(ClassOrder)
  BY <1>0 DEF ArchiveTypeOK
<1>2. ASSUME NEW r \in Runs, ArchiveStart(r)
      PROVE  ArchiveInv'
  <2>1. arc' = [NoArchiver EXCEPT !.pc = "clear", !.run = r]
    BY <1>2 DEF ArchiveStart
  <2>2. arc'.pc = "clear" /\ arc'.i = 1
    BY <2>1 DEF NoArchiver
  <2>3. \A q \in Runs : box'[q].raced = box[q].raced
    BY <1>1, <1>2 DEF ArchiveStart, Boxes
  <2>4. \A q \in Runs : box'[q].sums = box[q].sums \/ ~box'[q].sums.there
    <3>1. \A q \in Runs : q # r => box'[q] = box[q]
      BY <1>1, <1>2 DEF ArchiveStart
    <3>2. box'[r].sums = box[r].sums \/ box'[r].sums = NoBox.sums
      BY <1>1, <1>2 DEF ArchiveStart
    <3>3. ~NoBox.sums.there
      BY DEF NoBox
    <3> QED BY <3>1, <3>2, <3>3
  <2>5. SumsAreOfReady'
    BY <2>3, <2>4 DEF ArchiveInv, SumsAreOfReady, AllPresent
  <2>6. Copied' = {}
    BY <2>2 DEF Copied
  <2> QED BY <1>0, <2>2, <2>5, <2>6
          DEF ArchiveInv, ClearsFirst, JudgementStands, CopyIsJudged, SummaryIsOfCopies
<1>3. CASE Clear
  <2>1. arc' = [arc EXCEPT !.pc = "judge"] /\ arc.pc = "clear" /\ box' = [box EXCEPT ![arc.run] = NoBox]
    BY <1>3 DEF Clear
  <2>2. arc'.pc = "judge" /\ arc'.i = 1
    BY <1>1, <2>1 DEF Archivers, ArchiveInv, ClearsFirst
  <2>3. Copied' = {}
    BY <2>2 DEF Copied
  <2>4. ~NoBox.sums.there
    BY DEF NoBox
  <2>5. SumsAreOfReady'
    BY <1>1, <2>1, <2>4 DEF ArchiveInv, SumsAreOfReady, AllPresent
  <2> QED BY <1>0, <2>2, <2>3, <2>5
          DEF ArchiveInv, ClearsFirst, JudgementStands, CopyIsJudged, SummaryIsOfCopies
<1>4. CASE Judge
  <2>1. PICK from \in {"top", "fall"} :
          arc' = [arc EXCEPT
                    !.status[AtHand] =
                       StatusOf(AtHand, IF from = "top" THEN FileAt(arc.run, AtHand)
                                        ELSE FallbackAt(arc.run, AtHand)),
                    !.from = from, !.pc = "copy"]
    BY <1>4, JudgesOneFile
  <2>2. run' = run /\ box' = box /\ arc.pc = "judge" /\ AtHand \in Classes /\ arc.run \in Runs
    BY <1>0, <1>4, ClassAtHand DEF Judge
  <2>3. /\ arc'.pc = "copy" /\ arc'.run = arc.run /\ arc'.i = arc.i /\ arc'.from = from
        /\ arc'.status[AtHand] = StatusOf(AtHand, IF from = "top" THEN FileAt(arc.run, AtHand)
                                                  ELSE FallbackAt(arc.run, AtHand))
        /\ \A c \in Classes \ {AtHand} : arc'.status[c] = arc.status[c]
    BY <1>1, <2>1, <2>2 DEF Archivers
  <2>4. AtHand' = AtHand
    BY <2>3 DEF AtHand
  <2>5. Judged' = IF from = "top" THEN FileAt(arc.run, AtHand) ELSE FallbackAt(arc.run, AtHand)
    BY <2>2, <2>3, <2>4 DEF Judged, FileAt, FallbackAt
  <2>6. JudgementStands'
    BY <2>3, <2>4, <2>5 DEF JudgementStands
  <2>7. Copied' = Copied \ {AtHand}
    BY <2>2, <2>3, <2>4 DEF Copied
  <2>8. Copied' \subseteq Classes \ {AtHand}
    <3>1. ClassOrder \in Seq(Classes)
      BY PdAssumption DEF PdAssumption
    <3>2. Copied = {ClassOrder[j] : j \in 1 .. arc.i - 1}
      BY <2>2 DEF Copied
    <3>3. \A j \in 1 .. arc.i - 1 : ClassOrder[j] \in Classes
      BY <1>1, <2>2, <3>1
    <3> QED BY <2>7, <3>2, <3>3
  <2>9. CopyIsJudged'
    BY <2>2, <2>3, <2>7, <2>8 DEF ArchiveInv, CopyIsJudged
  <2>10. SumsAreOfReady'
    BY <2>2 DEF ArchiveInv, SumsAreOfReady, AllPresent
  <2> QED BY <1>0, <2>3, <2>6, <2>9, <2>10 DEF ArchiveInv, ClearsFirst, SummaryIsOfCopies
<1>5. CASE Copy
  <2>1. arc.pc = "copy" /\ AtHand \in Classes /\ arc.run \in Runs /\ run' = run
    BY <1>0, <1>5, ClassAtHand DEF Copy
  <2>2. box' = [box EXCEPT ![arc.run].copy[AtHand] =
                  IF arc.status[AtHand] = "missing" THEN "none" ELSE Judged]
    BY <1>5, Zenon DEF Copy, AtHand, Judged
  <2>3. box'[arc.run].copy[AtHand] = IF arc.status[AtHand] = "missing" THEN "none" ELSE Judged
    BY <1>1, <2>1, <2>2 DEF Boxes
  <2>4. /\ \A c \in Classes \ {AtHand} : box'[arc.run].copy[c] = box[arc.run].copy[c]
        /\ \A q \in Runs : box'[q].raced = box[q].raced /\ box'[q].sums = box[q].sums
    BY <1>1, <2>1, <2>2 DEF Boxes
  <2>5. /\ arc'.run = arc.run /\ arc'.status = arc.status
        /\ \/ arc'.pc = "judge" /\ arc'.i = arc.i + 1
           \/ arc'.pc = "summary" /\ arc.i = Len(ClassOrder)
    <3>1. Len(ClassOrder) \in Nat /\ arc.i \in 1 .. Len(ClassOrder)
      BY <1>1, <2>1, PdAssumption DEF PdAssumption
    <3>2. CASE arc.i < Len(ClassOrder)
      BY <1>1, <1>5, <3>2 DEF Copy, Archivers
    <3>3. CASE ~(arc.i < Len(ClassOrder))
      BY <1>1, <1>5, <3>1, <3>3 DEF Copy, Archivers
    <3> QED BY <3>2, <3>3
  <2>6. Copied = {ClassOrder[j] : j \in 1 .. arc.i - 1} \ {AtHand}
    BY <2>1 DEF Copied
  <2>7. Copied' \subseteq Copied \cup {AtHand}
    <3>1. ClassOrder \in Seq(Classes) /\ arc.i \in 1 .. Len(ClassOrder)
      BY <1>1, <2>1, PdAssumption DEF PdAssumption
    <3>2. CASE arc'.pc = "judge" /\ arc'.i = arc.i + 1
      <4>1. Copied' = {ClassOrder[j] : j \in 1 .. arc.i}
        BY <3>1, <3>2 DEF Copied
      <4>2. \A j \in 1 .. arc.i : j \in 1 .. arc.i - 1 \/ ClassOrder[j] = AtHand
        BY <3>1 DEF AtHand
      <4> QED BY <2>6, <4>1, <4>2
    <3>3. CASE arc'.pc = "summary" /\ arc.i = Len(ClassOrder)
      <4>1. Copied' = Classes
        BY <3>3 DEF Copied
      <4>2. \A j \in DOMAIN ClassOrder : j \in 1 .. arc.i - 1 \/ ClassOrder[j] = AtHand
        BY <3>1, <3>3 DEF AtHand
      <4> QED BY <2>6, <4>1, <4>2 DEF Classes
    <3> QED BY <2>5, <3>2, <3>3
  <2>8. Copied \subseteq Classes \ {AtHand}
    <3>1. ClassOrder \in Seq(Classes) /\ arc.i \in 1 .. Len(ClassOrder)
      BY <1>1, <2>1, PdAssumption DEF PdAssumption
    <3>2. \A j \in 1 .. arc.i - 1 : ClassOrder[j] \in Classes
      BY <3>1
    <3> QED BY <2>6, <3>2
  <2>9. CopyIsJudged'
    <3> SUFFICES ASSUME ~box[arc.run].raced, NEW c \in Copied', arc.status[c] = "present"
                 PROVE  StatusOf(c, box'[arc.run].copy[c]) = "present"
      BY <2>1, <2>4, <2>5 DEF CopyIsJudged
    <3>1. CASE c = AtHand
      BY <2>1, <2>3, <3>1 DEF ArchiveInv, JudgementStands
    <3>2. CASE c # AtHand
      BY <2>1, <2>4, <2>7, <2>8, <3>2 DEF ArchiveInv, CopyIsJudged
    <3> QED BY <3>1, <3>2
  <2>10. SumsAreOfReady'
    BY <2>4 DEF ArchiveInv, SumsAreOfReady, AllPresent
  <2> QED BY <1>0, <2>5, <2>9, <2>10 DEF ArchiveInv, ClearsFirst, JudgementStands, SummaryIsOfCopies
<1>6. CASE WriteSummary
  <2>1. /\ arc.pc = "summary" /\ arc.run \in Runs /\ box' = [box EXCEPT ![arc.run].summary = ReleaseReady]
        /\ arc' = [arc EXCEPT !.pc = "sums"]
    BY <1>1, <1>6 DEF WriteSummary
  <2>2. arc'.pc = "sums" /\ arc'.run = arc.run
    BY <1>1, <2>1 DEF Archivers
  <2>3. /\ \A q \in Runs : /\ box'[q].raced = box[q].raced /\ box'[q].sums = box[q].sums
                           /\ box'[q].copy = box[q].copy
        /\ box'[arc.run].summary = ReleaseReady
    BY <1>1, <2>1 DEF Boxes
  <2>4. Copied = Classes /\ Copied' = {}
    BY <2>1, <2>2 DEF Copied
  <2>5. SummaryIsOfCopies'
    BY <2>1, <2>2, <2>3, <2>4 DEF ArchiveInv, CopyIsJudged, SummaryIsOfCopies, AllPresent, ReleaseReady
  <2>6. SumsAreOfReady'
    BY <2>3 DEF ArchiveInv, SumsAreOfReady, AllPresent
  <2> QED BY <1>0, <2>2, <2>4, <2>5, <2>6 DEF ArchiveInv, ClearsFirst, JudgementStands, CopyIsJudged
<1>7. CASE WriteChecksums
  <2>1. /\ arc.pc = "sums" /\ arc.run \in Runs
        /\ box' = [box EXCEPT ![arc.run].sums =
                     [there |-> TRUE, copy |-> box[arc.run].copy, summary |-> box[arc.run].summary]]
        /\ arc' = [arc EXCEPT !.pc = "report"]
    BY <1>1, <1>7 DEF WriteChecksums
  <2>2. arc'.pc = "report"
    BY <1>1, <2>1 DEF Archivers
  <2>3. /\ \A q \in Runs : box'[q].raced = box[q].raced
        /\ \A q \in Runs \ {arc.run} : box'[q].sums = box[q].sums
        /\ box'[arc.run].sums.copy = box[arc.run].copy
        /\ box'[arc.run].sums.summary = box[arc.run].summary
    BY <1>1, <2>1 DEF Boxes
  <2>4. SumsAreOfReady'
    BY <2>1, <2>3 DEF ArchiveInv, SummaryIsOfCopies, SumsAreOfReady, AllPresent
  <2>5. Copied' = {}
    BY <2>2 DEF Copied
  <2> QED BY <1>0, <2>2, <2>4, <2>5
          DEF ArchiveInv, ClearsFirst, JudgementStands, CopyIsJudged, SummaryIsOfCopies
<1>8. CASE WriteReport \/ ArchiverKilled
  <2>1. box' = box /\ arc'.pc = "idle"
    BY <1>8 DEF WriteReport, ArchiverKilled, NoArchiver
  <2>2. SumsAreOfReady'
    BY <2>1 DEF ArchiveInv, SumsAreOfReady, AllPresent
  <2> QED BY <1>0, <2>1, <2>2
          DEF ArchiveInv, ClearsFirst, JudgementStands, CopyIsJudged, SummaryIsOfCopies
<1> QED BY <1>2, <1>3, <1>4, <1>5, <1>6, <1>7, <1>8 DEF Archiver

LEMMA ArchiveStarts == PdInit => ArchiveInv
<1> SUFFICES ASSUME PdInit
             PROVE  ArchiveInv
  OBVIOUS
<1>1. run \in [Runs -> RunStates]
  BY PdAssumption DEF PdInit, PdAssumption
<1>2. arc \in Archivers /\ arc.pc = "idle"
  BY DEF PdInit, NoArchiver, NoFiles, Statuses, Archivers
<1>3. box \in [Runs -> Boxes] /\ \A r \in Runs : ~box[r].sums.there
  BY DEF PdInit, NoBox, NoFiles, Kinds, Summaries, Boxes
<1>4. Copied = {}
  BY <1>2 DEF Copied
<1> QED BY <1>1, <1>2, <1>3, <1>4
        DEF ArchiveInv, ArchiveTypeOK, ClearsFirst, JudgementStands, CopyIsJudged,
            SummaryIsOfCopies, SumsAreOfReady

LEMMA ArchiveStep == ArchiveInv /\ [PdNext]_pdVars => ArchiveInv'
<1> SUFFICES ASSUME ArchiveInv, [PdNext]_pdVars
             PROVE  ArchiveInv'
  OBVIOUS
<1>1. CASE PdNext
  BY <1>1, RunChangesArchive, ArchiverArchive DEF PdNext
<1>2. CASE UNCHANGED pdVars
  <2>1. run' = run /\ arc' = arc /\ box' = box
    BY <1>2 DEF pdVars
  <2>2. AtHand' = AtHand /\ Judged' = Judged /\ Copied' = Copied
    BY <2>1 DEF AtHand, Judged, Copied, FileAt, FallbackAt
  <2> QED BY <2>1, <2>2
          DEF ArchiveInv, ArchiveTypeOK, ClearsFirst, JudgementStands, CopyIsJudged,
              SummaryIsOfCopies, SumsAreOfReady, AllPresent
<1> QED BY <1>1, <1>2

LEMMA ArchiveSuffices == ArchiveInv => VerifiedArchiveIsReady
BY DEF ArchiveInv, SumsAreOfReady, AllPresent, VerifiedArchiveIsReady, Verifies

\* An archive whose checksums verify and that says it is ready for release holds
\* an acceptable file of every class, wherever the archiver was killed, in this
\* run of it or while it cleared an older one's archive.
THEOREM VerifiedArchivesAreReady == PdSpec => []VerifiedArchiveIsReady
<1>1. PdInit => ArchiveInv
  BY ArchiveStarts
<1>2. ArchiveInv /\ [PdNext]_pdVars => ArchiveInv'
  BY ArchiveStep
<1>3. ArchiveInv => VerifiedArchiveIsReady
  BY ArchiveSuffices
<1> QED BY <1>1, <1>2, <1>3, PTL DEF PdSpec

\* A set of numbers has a least element, and it is the one that is chosen.
LEMMA NatSetHasLeast ==
    ASSUME NEW S, S \subseteq Nat, S # {}
    PROVE  \E x \in S : \A y \in S : x <= y
<1>1. PICK x \in S : \A y \in S : ~(<<y, x>> \in OpToRel(<, Nat))
  BY NatLessThanWellFounded, WFMin, Zenon
<1>2. \A y \in S : ~(y < x)
  BY <1>1 DEF OpToRel
<1> QED BY <1>2

LEMMA LeastIsChosen ==
    ASSUME NEW S, S \subseteq Nat, NEW x \in S, \A y \in S : x <= y
    PROVE  (CHOOSE r \in S : \A q \in S : r <= q) = x
<1> DEFINE c == CHOOSE r \in S : \A q \in S : r <= q
<1>1. c \in S /\ \A q \in S : c <= q
  OBVIOUS
<1> HIDE DEF c
<1>2. c \in Nat /\ x \in Nat /\ c <= x /\ x <= c
  BY <1>1
<1>3. c = x
  BY <1>2
<1> QED BY <1>3 DEF c

LEMMA ChosenIsFirst ==
    ASSUME CompleteRuns # {}
    PROVE  Chosen \in CompleteRuns /\ \A q \in CompleteRuns : Chosen <= q
<1>1. CompleteRuns \subseteq Nat
  BY PdAssumption DEF PdAssumption, CompleteRuns
<1>2. \E x \in CompleteRuns : \A y \in CompleteRuns : x <= y
  BY <1>1, NatSetHasLeast
<1> QED BY <1>2 DEF Chosen

\* The gates, whatever the runs hold.
LEMMA PdGatesDoAgree == PdGatesAgree
<1> SUFFICES ASSUME NEW m \in PdManifests
             PROVE  /\ SignoffPasses(m) =>
                         /\ \A g \in ReleaseGates : m.gates[g] = "approved"
                         /\ run[Chosen].man \notin {"sta", "incomplete"} /\ run[Chosen].wv # "open"
                         /\ InputPreflight(m) # "fail"
                         /\ DirtyReports(Chosen) = {} =>
                              \A c \in Classes : StatusOf(c, FileAt(Chosen, c)) = "present"
                         /\ DirtyReports(Chosen) # {} => Waivers(m) \/ ~m.strict
                    /\ PreflightPasses(m) =>
                         /\ InputPreflight(m) # "fail" /\ Diagnosis(newest) # "in_progress"
                         /\ CompleteRuns # {} => "dirty" \notin RunFailures(m, Chosen)
                    /\ Diagnosis(newest) = "complete_by_state_out" => LatestRunOk
  BY DEF PdGatesAgree
<1>1. ASSUME SignoffPasses(m)
      PROVE  /\ \A g \in ReleaseGates : m.gates[g] = "approved"
             /\ run[Chosen].man \notin {"sta", "incomplete"} /\ run[Chosen].wv # "open"
             /\ InputPreflight(m) # "fail"
             /\ DirtyReports(Chosen) = {} =>
                  \A c \in Classes : StatusOf(c, FileAt(Chosen, c)) = "present"
             /\ DirtyReports(Chosen) # {} => Waivers(m) \/ ~m.strict
  <2>1. ManifestOk(m) /\ StillBlocked(m) = {} /\ Chosen \in CompleteRuns /\ RunFailures(m, Chosen) = {}
    BY <1>1, ChosenIsFirst DEF SignoffPasses
  <2>2. \A g \in ReleaseGates : m.gates[g] = "approved"
    BY <2>1, PdAssumption DEF ManifestOk, BlockedGatesOk, StillBlocked, PdAssumption
  <2>3. InputPreflight(m) # "fail"
    BY <2>1 DEF ManifestOk, InputPreflight
  <2>4. /\ TooSmall(Chosen) = {} /\ MissingCleanMarkers(Chosen) = {} /\ RunManifestOk(Chosen)
        /\ ClosureOk(Chosen) /\ ~(DirtyReports(Chosen) # {} /\ m.strict /\ ~Waivers(m))
    BY <2>1 DEF RunFailures
  <2>5. run[Chosen].man \notin {"sta", "incomplete"} /\ run[Chosen].wv # "open"
    BY <2>4 DEF RunManifestOk, ClosureOk, ClosureManifestOk, ClosureWaiversOk
  <2>6. ASSUME DirtyReports(Chosen) = {}, NEW c \in Classes
        PROVE  StatusOf(c, FileAt(Chosen, c)) = "present"
    <3>1. FileAt(Chosen, c) # "none"
      BY <2>1 DEF CompleteRuns, Missing
    <3>2. FileAt(Chosen, c) # "small"
      BY <2>4 DEF TooSmall
    <3>3. c \in ReportClasses => FileAt(Chosen, c) \notin Dirty \cup Unmarked
      BY <2>4, <2>6 DEF MissingCleanMarkers, DirtyReports
    <3> HIDE DEF FileAt
    <3> QED BY <3>1, <3>2, <3>3 DEF StatusOf
  <2> QED BY <2>2, <2>3, <2>4, <2>5, <2>6
<1>2. ASSUME PreflightPasses(m)
      PROVE  /\ InputPreflight(m) # "fail" /\ Diagnosis(newest) # "in_progress"
             /\ CompleteRuns # {} => "dirty" \notin RunFailures(m, Chosen)
  <2>1. InputPreflight(m) # "fail"
    BY <1>2 DEF PreflightPasses, InputPreflight
  <2>2. Diagnosis(newest) # "in_progress"
    BY <1>2 DEF PreflightPasses, LatestRunOk, Diagnosis
  <2>3. ASSUME CompleteRuns # {}
        PROVE  DirtyReports(Chosen) = {}
    <3>1. Chosen \in Runs /\ Exists(Chosen)
      BY <2>3, ChosenIsFirst DEF CompleteRuns
    <3>2. ASSUME NEW c \in DirtyReports(Chosen)
          PROVE  FALSE
      <4>1. c \in ReportClasses /\ FileAt(Chosen, c) \in Dirty
        BY DEF DirtyReports
      <4>2. FileAt(Chosen, c) \in ReleaseFiles(c)
        BY <3>1, <4>1 DEF ReleaseFiles, Dirty
      <4> QED BY <1>2, <4>1, <4>2 DEF PreflightPasses, ReleaseArtifactsOk
    <3> QED BY <3>2
  <2>4. DirtyReports(Chosen) = {} => "dirty" \notin RunFailures(m, Chosen)
    BY DEF RunFailures
  <2> QED BY <2>1, <2>2, <2>3, <2>4
<1>3. Diagnosis(newest) = "complete_by_state_out" => LatestRunOk
  BY DEF Diagnosis, LatestRunOk
<1> QED BY <1>1, <1>2, <1>3

\* The verdict of signoff is that of the first complete run, and a step that changes
\* later ones only changes neither which it is nor what is found in it.
LEMMA VerdictIsKept == VerdictKept
<1> SUFFICES ASSUME LaterRunsChange, NEW m \in PdManifests, Waivers(m)' = Waivers(m)
             PROVE  SignoffPasses(m)' = SignoffPasses(m)
  BY DEF VerdictKept
<1>1. Chosen \in CompleteRuns /\ \A q \in CompleteRuns : Chosen <= q
  BY ChosenIsFirst DEF LaterRunsChange
<1>2. Chosen \in Nat /\ CompleteRuns \subseteq Nat /\ CompleteRuns' \subseteq Nat /\ Chosen \in Runs
  BY <1>1, PdAssumption DEF PdAssumption, CompleteRuns
<1>3. \A q \in Runs : q <= Chosen => (q \in CompleteRuns' <=> q \in CompleteRuns)
  BY DEF LaterRunsChange, CompleteRuns, Exists, Missing, FileAt
<1>4. Chosen \in CompleteRuns'
  BY <1>1, <1>2, <1>3
<1>5. \A q \in CompleteRuns' : Chosen <= q
  <2> SUFFICES ASSUME NEW q \in CompleteRuns', ~(Chosen <= q)
               PROVE  FALSE
    OBVIOUS
  <2>1. q \in Nat /\ q \in Runs
    BY <1>2 DEF CompleteRuns
  <2>2. q \in CompleteRuns
    BY <1>2, <1>3, <2>1
  <2> QED BY <1>1, <2>2
<1>6. Chosen' = Chosen
  <2>1. (CHOOSE r \in CompleteRuns' : \A q \in CompleteRuns' : r <= q) = Chosen
    BY <1>2, <1>4, <1>5, LeastIsChosen
  <2> QED BY <2>1 DEF Chosen
<1>7. run'[Chosen] = run[Chosen]
  BY <1>2 DEF LaterRunsChange
<1>8. RunFailures(m, Chosen)' = RunFailures(m, Chosen)
  <2>1. /\ TooSmall(Chosen)' = TooSmall(Chosen) /\ MissingCleanMarkers(Chosen)' = MissingCleanMarkers(Chosen)
        /\ DirtyReports(Chosen)' = DirtyReports(Chosen)
    BY <1>6, <1>7 DEF TooSmall, MissingCleanMarkers, DirtyReports, FileAt
  <2>2. RunManifestOk(Chosen)' = RunManifestOk(Chosen) /\ ClosureOk(Chosen)' = ClosureOk(Chosen)
    BY <1>6, <1>7 DEF RunManifestOk, ClosureOk, MetricsOk, ClosureManifestOk, ClosureWaiversOk
  <2> QED BY <2>1, <2>2, Zenon DEF RunFailures
<1>9. CompleteRuns # {} /\ CompleteRuns' # {}
  BY <1>1, <1>4
<1>10. SignoffPasses(m) <=> /\ ManifestOk(m) /\ StillBlocked(m) = {}
                            /\ RunFailures(m, Chosen) = {}
  BY <1>9 DEF SignoffPasses
<1>11. SignoffPasses(m)' <=> /\ ManifestOk(m) /\ StillBlocked(m) = {}
                             /\ RunFailures(m, Chosen)' = {}
  BY <1>9 DEF SignoffPasses, ManifestOk, BlockedGatesOk, ReadinessOk, ConfigsOk, StillBlocked
<1>12. SignoffPasses(m)' \in BOOLEAN /\ SignoffPasses(m) \in BOOLEAN
  BY DEF SignoffPasses
<1> QED BY <1>8, <1>10, <1>11, <1>12
-----------------------------------------------------------------------------
\* ------------------------------------------------------------ MvpSimulator

Smoke == "chipyard_verilator_linux_smoke"
Attempt == "chipyard_verilator_linux_attempt"
StepVerdicts == {"pass", "blocked", "fail"}
LogRecords == {NoLog} \cup [id : Nat \ {0}, by : Aggregates \cup {0}, t : Logs]
SimRecords ==
    [pc : 1 .. 18, results : [Names -> StepVerdicts \cup {"none"}], integrated : BOOLEAN, judged : Nat,
     read : LogRecords]
ReportRecords ==
    [by : Aggregates \cup {0}, whole : BOOLEAN, results : [Names -> StepVerdicts \cup {"none"}],
     integrated : BOOLEAN, judged : Nat, read : LogRecords]
SimTypeOK ==
    /\ log \in LogRecords /\ sim \in [Aggregates -> SimRecords]
    /\ tmp \in ReportRecords /\ report \in ReportRecords

\* Run r passed the smoke check on log number judged, of which l is a later reading:
\* it is still that log, with a boot in it, or another run has written it since.
Backed(res, judged, l, r) ==
    /\ judged <= l.id
    /\ judged = l.id \/ l.by \notin {0, r}
    /\ res[Smoke] = "pass" /\ judged = l.id => l.id # 0 /\ l.t.boot
RunBacked ==
    \A r \in Aggregates :
        /\ \A i \in 1 .. 13 : i < sim[r].pc /\ sim[r].pc <= 17 => sim[r].results[Steps[i].name] \in StepVerdicts
        /\ sim[r].pc \in 10 .. 14 => Backed(sim[r].results, sim[r].judged, log, r)
        /\ sim[r].pc \in 15 .. 17 => Backed(sim[r].results, sim[r].judged, sim[r].read, r)

\* A report that a run has written, in the temporary file or in its place.
Stands(m) ==
    IF m.by = 0 THEN ~m.whole
    ELSE /\ \A n \in Names : m.results[n] \in StepVerdicts
         /\ Backed(m.results, m.judged, m.read, m.by)

SimInv == SimTypeOK /\ RunBacked /\ Stands(tmp) /\ Stands(report)

\* The table of steps.
LEMMA TableIs ==
    /\ DOMAIN Steps = 1 .. 13 /\ Len(Steps) = 13
    /\ Steps[1].name = "android_sim_boot" /\ Steps[2].name = "android_sim_report_check"
    /\ Steps[3].name = "qemu_os_boot" /\ Steps[4].name = "cpu_ap_linux_evidence"
    /\ Steps[5].name = "chipyard_verilator_preflight" /\ Steps[6].name = "chipyard_generated_ap"
    /\ Steps[7].name = "chipyard_payload_path" /\ Steps[8].name = Attempt
    /\ Steps[9].name = Smoke /\ Steps[10].name = "npu_ml_smoke"
    /\ Steps[11].name = "qemu_firmware_smoke" /\ Steps[12].name = "renode_firmware_smoke"
    /\ Steps[13].name = "local_rtl_sim_ladder"
BY DEF Steps, Step, Smoke, Attempt

LEMMA ScopesAre ==
    /\ Steps[1].scope = "android_reference" /\ Steps[1].tier = "os_boot"
    /\ Steps[2].scope = "android_reference" /\ Steps[2].tier = "os_boot"
    /\ Steps[3].scope = "qemu_virt_reference" /\ Steps[3].tier = "os_boot"
    /\ Steps[4].scope = "our_chip_prereq" /\ Steps[5].scope = "our_chip_prereq"
    /\ Steps[6].scope = "our_chip_prereq" /\ Steps[7].scope = "our_chip_prereq"
    /\ Steps[8].scope = "our_chip_os_boot" /\ Steps[9].scope = "our_chip_os_boot"
    /\ Steps[10].scope = "our_chip_npu_ml_local"
    /\ Steps[11].scope = "qemu_virt_reference" /\ Steps[11].tier = "firmware_smoke"
    /\ Steps[12].scope = "renode_reference" /\ Steps[12].tier = "firmware_smoke"
    /\ Steps[13].scope = "our_chip_rtl_sim"
BY DEF Steps, Step

LEMMA UpTo13 ==
    \A i \in 1 .. 13 : \/ i = 1 \/ i = 2 \/ i = 3 \/ i = 4 \/ i = 5 \/ i = 6 \/ i = 7 \/ i = 8
                       \/ i = 9 \/ i = 10 \/ i = 11 \/ i = 12 \/ i = 13
OBVIOUS

LEMMA SmokeIsNinth ==
    /\ \A i \in 1 .. 13 : Steps[i].name \in Names
    /\ \A i \in 1 .. 13 : Steps[i].name = Smoke <=> i = 9
    /\ \A i \in 1 .. 13 : Steps[i].name = Attempt <=> i = 8
    /\ Smoke \in Names
<1>1. \A i \in 1 .. 13 : Steps[i].name \in Names
  BY TableIs DEF Names
<1>2. \A i \in 1 .. 13 : Steps[i].name = Smoke <=> i = 9
  BY TableIs, UpTo13 DEF Smoke, Attempt
<1>3. \A i \in 1 .. 13 : Steps[i].name = Attempt <=> i = 8
  BY TableIs, UpTo13 DEF Smoke, Attempt
<1> QED BY <1>1, <1>2, <1>3

LEMMA NoResultsAre ==
    /\ NoResults \in [Names -> StepVerdicts \cup {"none"}] /\ NoLog \in LogRecords
    /\ NoLog.id = 0 /\ NoLog.by = 0
    /\ Idle \in SimRecords /\ Idle.pc = 1
    /\ NoReport \in ReportRecords /\ NoReport.by = 0 /\ NoReport.judged = 0 /\ Stands(NoReport)
BY DEF NoResults, NoLog, LogRecords, Idle, NoReport, SimRecords, ReportRecords, Stands

LEMMA SimStarts == SimInit => SimInv
<1> SUFFICES ASSUME SimInit PROVE SimInv
  OBVIOUS
<1>1. log \in LogRecords
  <2>1. \A t \in Logs : [id |-> 1, by |-> 0, t |-> t] \in [id : Nat \ {0}, by : Aggregates \cup {0}, t : Logs]
    OBVIOUS
  <2> QED BY <2>1 DEF SimInit, LogRecords
<1>2. SimTypeOK /\ Stands(tmp) /\ Stands(report)
  BY <1>1, NoResultsAre DEF SimInit, SimTypeOK
<1>3. RunBacked
  BY NoResultsAre DEF SimInit, RunBacked
<1> QED BY <1>2, <1>3 DEF SimInv

\* A step that is recorded.
LEMMA RecordParts ==
    ASSUME SimInv, NEW r \in Aggregates, InSteps(r), NEW o, Record(r, Current(r), o)
    PROVE  /\ sim[r].pc \in 1 .. 13 /\ sim' \in [Aggregates -> SimRecords]
           /\ \A k \in Aggregates : k # r => sim'[k] = sim[k]
           /\ sim'[r].pc = sim[r].pc + 1
           /\ sim'[r].results = [sim[r].results EXCEPT ![Current(r)] = Classify(o)]
           /\ Classify(o) \in StepVerdicts /\ Current(r) = Steps[sim[r].pc].name
           /\ sim'[r].judged = IF Current(r) = Smoke THEN log.id ELSE sim[r].judged
<1>1. Classify(o) \in StepVerdicts
  BY DEF Classify, StepVerdicts
<1>2. log.id \in Nat /\ sim \in [Aggregates -> SimRecords] /\ sim[r].pc \in 1 .. 13
  BY TableIs DEF SimInv, SimTypeOK, LogRecords, NoLog, InSteps
<1>3. PICK s \in SimRecords : s = sim[r]
  BY <1>2
<1>4. PICK n \in Names : n = Current(r) /\ Current(r) = Steps[sim[r].pc].name
  BY <1>2, SmokeIsNinth DEF Current
<1>5. PICK c \in StepVerdicts : c = Classify(o)
  BY <1>1
<1>6. PICK judged \in Nat : judged = IF n = Smoke THEN log.id ELSE s.judged
  BY <1>2, <1>3 DEF SimRecords
<1>7. PICK pc \in 1 .. 18 : pc = s.pc + 1
  BY <1>2, <1>3
<1>8. PICK res \in [Names -> StepVerdicts \cup {"none"}] : res = [s.results EXCEPT ![n] = c]
  <2>1. s.results \in [Names -> StepVerdicts \cup {"none"}]
    BY DEF SimRecords
  <2> QED BY <2>1
<1>9. PICK t \in SimRecords : t = [s EXCEPT !.results = res, !.pc = pc, !.judged = judged]
  BY DEF SimRecords
<1>10. sim' = [sim EXCEPT ![r] = t]
  <2>1. sim' = [sim EXCEPT ![r].results[n] = c, ![r].pc = pc, ![r].judged = judged]
    BY <1>3, <1>4, <1>5, <1>6, <1>7, Zenon DEF Record, Smoke
  <2> QED BY <1>2, <1>3, <1>8, <1>9, <2>1
<1>11. t.pc = pc /\ t.results = res /\ t.judged = judged
  BY <1>9 DEF SimRecords
<1> QED BY <1>1, <1>2, <1>3, <1>4, <1>5, <1>6, <1>7, <1>8, <1>10, <1>11

\* A step of run r that leaves the log as it is; the smoke check passes only on a boot.
LEMMA RecordKeeps ==
    ASSUME SimInv, NEW r \in Aggregates, InSteps(r), NEW o, Record(r, Current(r), o),
           UNCHANGED <<tmp, report>>, log' \in LogRecords,
           Current(r) = Smoke /\ Classify(o) = "pass" => log.id # 0 /\ log.t.boot,
           \/ log' = log
           \/ Current(r) = Attempt /\ log'.id = log.id + 1 /\ log'.by = r
    PROVE  SimInv'
<1>1. /\ sim[r].pc \in 1 .. 13 /\ sim' \in [Aggregates -> SimRecords]
      /\ \A k \in Aggregates : k # r => sim'[k] = sim[k]
      /\ sim'[r].pc = sim[r].pc + 1
      /\ sim'[r].results = [sim[r].results EXCEPT ![Current(r)] = Classify(o)]
      /\ Classify(o) \in StepVerdicts /\ Current(r) = Steps[sim[r].pc].name
      /\ sim'[r].judged = IF Current(r) = Smoke THEN log.id ELSE sim[r].judged
  BY RecordParts
<1>2. SimTypeOK' /\ Stands(tmp)' /\ Stands(report)'
  BY <1>1 DEF SimInv, SimTypeOK, Stands
<1>3. log.id \in Nat /\ sim[r].results \in [Names -> StepVerdicts \cup {"none"}] /\ r # 0
  BY SimulatorAssumption DEF SimulatorAssumption, SimInv, SimTypeOK, LogRecords, NoLog, SimRecords
<1>4. ASSUME NEW k \in Aggregates
      PROVE  /\ \A i \in 1 .. 13 : i < sim'[k].pc /\ sim'[k].pc <= 17
                  => sim'[k].results[Steps[i].name] \in StepVerdicts
             /\ sim'[k].pc \in 10 .. 14 => Backed(sim'[k].results, sim'[k].judged, log', k)
             /\ sim'[k].pc \in 15 .. 17 => Backed(sim'[k].results, sim'[k].judged, sim'[k].read, k)
  <2>1. CASE k # r
    <3>1. sim'[k] = sim[k] /\ sim[k].judged \in Nat
      BY <1>1, <2>1 DEF SimInv, SimTypeOK, SimRecords
    <3>2. CASE log' = log
      BY <3>1, <3>2 DEF SimInv, RunBacked
    <3>3. CASE log'.id = log.id + 1 /\ log'.by = r
      <4>1. sim[k].pc \in 10 .. 14 => Backed(sim[k].results, sim[k].judged, log', k)
        <5>1. sim[k].pc \in 10 .. 14 => sim[k].judged <= log.id
          BY DEF SimInv, RunBacked, Backed
        <5>2. sim[k].judged <= log.id => sim[k].judged <= log'.id /\ sim[k].judged # log'.id
          BY <1>3, <3>1, <3>3
        <5> QED BY <1>3, <2>1, <3>3, <5>1, <5>2 DEF Backed
      <4> QED BY <3>1, <4>1 DEF SimInv, RunBacked
    <3> QED BY <3>2, <3>3
  <2>2. CASE k = r
    <3>1. sim'[r].pc \in 2 .. 14
      BY <1>1
    <3>2. ASSUME NEW i \in 1 .. 13, i < sim'[r].pc
          PROVE  sim'[r].results[Steps[i].name] \in StepVerdicts
      <4>1. CASE Steps[i].name = Current(r)
        BY <1>1, <1>3, <4>1, SmokeIsNinth
      <4>2. CASE Steps[i].name # Current(r)
        <5>1. i < sim[r].pc
          <6>1. i # sim[r].pc
            BY <1>1, <4>2
          <6> QED BY <1>1, <3>2, <6>1
        <5>2. sim[r].results[Steps[i].name] \in StepVerdicts
          BY <1>1, <5>1, SMTT(30) DEF SimInv, RunBacked
        <5> QED BY <1>1, <1>3, <4>2, <5>2, SmokeIsNinth
      <4> QED BY <4>1, <4>2
    <3>3. ASSUME sim'[r].pc \in 10 .. 14
          PROVE  Backed(sim'[r].results, sim'[r].judged, log', r)
      <4>1. sim[r].pc \in 9 .. 13 /\ log' = log
        BY <1>1, <3>3, SmokeIsNinth
      <4>2. CASE sim[r].pc = 9
        <5>1. Current(r) = Smoke
          BY <1>1, <4>2, SmokeIsNinth
        <5>2. sim'[r].judged = log.id /\ sim'[r].results[Smoke] = Classify(o)
          BY <1>1, <1>3, <5>1, SmokeIsNinth
        <5> QED BY <1>3, <4>1, <5>1, <5>2 DEF Backed
      <4>3. CASE sim[r].pc # 9
        <5>1. Current(r) # Smoke
          BY <1>1, <4>3, SmokeIsNinth
        <5>2. sim'[r].judged = sim[r].judged /\ sim'[r].results[Smoke] = sim[r].results[Smoke]
          BY <1>1, <1>3, <5>1, SmokeIsNinth
        <5>3. Backed(sim[r].results, sim[r].judged, log, r)
          BY <4>1, <4>3 DEF SimInv, RunBacked
        <5> QED BY <4>1, <5>2, <5>3 DEF Backed
      <4> QED BY <4>2, <4>3
    <3>4. sim'[r].pc \notin 15 .. 17
      BY <3>1
    <3> QED BY <2>2, <3>2, <3>3, <3>4
  <2> QED BY <2>1, <2>2
<1>5. RunBacked'
  BY <1>4 DEF RunBacked
<1> QED BY <1>2, <1>5 DEF SimInv

LEMMA RunStepKeeps ==
    ASSUME SimInv, NEW r \in Aggregates, RunStep(r)
    PROVE  SimInv'
<1>1. PICK o \in StepOutcomes(Current(r)) : Record(r, Current(r), o)
  BY DEF RunStep
<1>2. Current(r) = Smoke /\ Classify(o) = "pass" => log.id # 0 /\ log.t.boot
  <2> SUFFICES ASSUME Current(r) = Smoke, Classify(o) = "pass" PROVE log.id # 0 /\ log.t.boot
    OBVIOUS
  <2>1. o = SmokeOutcome
    BY <1>1 DEF StepOutcomes, Smoke
  <2>2. Classify(Blocked) = "blocked"
    BY DEF Classify, Blocked, Ended
  <2> QED BY <2>1, <2>2 DEF SmokeOutcome
<1>3. InSteps(r) /\ UNCHANGED <<log, tmp, report>> /\ log' \in LogRecords
  BY DEF RunStep, SimInv, SimTypeOK
<1> QED BY <1>1, <1>2, <1>3, RecordKeeps

LEMMA RunAttemptKeeps ==
    ASSUME SimInv, NEW r \in Aggregates, RunAttempt(r)
    PROVE  SimInv'
<1>1. InSteps(r) /\ Current(r) = Attempt /\ UNCHANGED <<tmp, report>> /\ Current(r) # Smoke
  BY DEF RunAttempt, Attempt, Smoke
<1>2. ASSUME NEW t \in Logs, log' = [id |-> log.id + 1, by |-> r, t |-> t],
             Record(r, Current(r), IF t.boot THEN Passed ELSE Blocked)
      PROVE  SimInv'
  <2>1. log.id \in Nat
    BY DEF SimInv, SimTypeOK, LogRecords, NoLog
  <2>2. log'.id = log.id + 1 /\ log'.by = r /\ log' \in LogRecords
    BY <1>2, <2>1 DEF LogRecords
  <2> QED BY <1>1, <1>2, <2>2, RecordKeeps
<1>3. ASSUME NEW o, Record(r, Current(r), o), UNCHANGED log
      PROVE  SimInv'
  <2>1. log' \in LogRecords
    BY <1>3 DEF SimInv, SimTypeOK
  <2> QED BY <1>1, <1>3, <2>1, RecordKeeps
<1> QED BY <1>2, <1>3 DEF RunAttempt

LEMMA SkipStepKeeps ==
    ASSUME SimInv, NEW r \in Aggregates, SkipStep(r)
    PROVE  SimInv'
<1>1. InSteps(r) /\ Record(r, Current(r), Blocked) /\ UNCHANGED <<log, tmp, report>> /\ log' \in LogRecords
  BY DEF SkipStep, SimInv, SimTypeOK
<1>2. Classify(Blocked) = "blocked"
  BY DEF Classify, Blocked, Ended
<1> QED BY <1>1, <1>2, RecordKeeps

\* Run r after its steps: where it is, and what the others keep.
LEMMA MovesOn ==
    ASSUME SimInv, NEW r \in Aggregates, NEW s \in SimRecords, sim' = [sim EXCEPT ![r] = s],
           log' = log, tmp' \in ReportRecords, report' \in ReportRecords,
           Stands(tmp)', Stands(report)',
           s.pc <= 17 => /\ \A n \in Names : s.results[n] \in StepVerdicts
                         /\ s.pc \in 15 .. 17 /\ Backed(s.results, s.judged, s.read, r)
    PROVE  SimInv'
<1>1. /\ sim' \in [Aggregates -> SimRecords] /\ sim'[r] = s
      /\ \A k \in Aggregates : k # r => sim'[k] = sim[k]
  BY DEF SimInv, SimTypeOK
<1>2. SimTypeOK'
  BY <1>1 DEF SimInv, SimTypeOK
<1>3. ASSUME NEW k \in Aggregates
      PROVE  /\ \A i \in 1 .. 13 : i < sim'[k].pc /\ sim'[k].pc <= 17
                  => sim'[k].results[Steps[i].name] \in StepVerdicts
             /\ sim'[k].pc \in 10 .. 14 => Backed(sim'[k].results, sim'[k].judged, log', k)
             /\ sim'[k].pc \in 15 .. 17 => Backed(sim'[k].results, sim'[k].judged, sim'[k].read, k)
  <2>1. CASE k # r
    BY <1>1, <2>1 DEF SimInv, RunBacked
  <2>2. CASE k = r
    <3>1. s.pc \in 1 .. 18
      BY DEF SimRecords
    <3> QED BY <1>1, <2>2, <3>1, SmokeIsNinth
  <2> QED BY <2>1, <2>2
<1>4. RunBacked'
  BY <1>3 DEF RunBacked
<1> QED BY <1>2, <1>4 DEF SimInv

\* A run past its steps has a verdict for each.
LEMMA AllRecorded ==
    ASSUME SimInv, NEW r \in Aggregates, sim[r].pc \in 14 .. 17
    PROVE  /\ \A n \in Names : sim[r].results[n] \in StepVerdicts
           /\ sim[r] \in SimRecords /\ r # 0
<1>1. sim[r] \in SimRecords /\ r # 0
  BY SimulatorAssumption DEF SimulatorAssumption, SimInv, SimTypeOK
<1>2. ASSUME NEW n \in Names
      PROVE  sim[r].results[n] \in StepVerdicts
  <2>1. PICK i \in 1 .. 13 : n = Steps[i].name
    BY TableIs DEF Names
  <2>2. i < sim[r].pc /\ sim[r].pc <= 17
    OBVIOUS
  <2> QED BY <2>1, <2>2 DEF SimInv, RunBacked
<1> QED BY <1>1, <1>2

LEMMA ReadClaimsKeeps ==
    ASSUME SimInv, NEW r \in Aggregates, ReadClaims(r)
    PROVE  SimInv'
<1>1. PICK found \in BOOLEAN : found = IntegratedMarkers
  BY DEF IntegratedMarkers
<1>2. PICK s : s = sim[r]
  OBVIOUS
<1>3. s.pc = 14 /\ UNCHANGED <<log, tmp, report>> /\ log \in LogRecords
  BY <1>2, TableIs DEF ReadClaims, SimInv, SimTypeOK
<1>4. s \in SimRecords /\ \A n \in Names : s.results[n] \in StepVerdicts
  BY <1>2, <1>3, AllRecorded
<1>0. PICK l \in LogRecords : l = log
  BY <1>3
<1>5. PICK t : t = [s EXCEPT !.pc = 15, !.integrated = found, !.read = l]
  OBVIOUS
<1>6. /\ t \in SimRecords /\ t.pc = 15 /\ t.results = s.results /\ t.judged = s.judged
      /\ t.read = log
  <2>1. t.pc = 15 /\ t.results = s.results /\ t.judged = s.judged /\ t.read = l
    BY <1>4, <1>5 DEF SimRecords
  <2>2. t \in SimRecords
    <3>1. 15 \in 1 .. 18
      OBVIOUS
    <3> QED BY <1>4, <1>5, <3>1 DEF SimRecords
  <2> QED BY <1>0, <2>1, <2>2
<1>7. sim' = [sim EXCEPT ![r] = t]
  <2>1. sim' = [sim EXCEPT ![r].pc = sim[r].pc + 1, ![r].integrated = found, ![r].read = l]
    BY <1>0, <1>1, Zenon DEF ReadClaims
  <2>2. sim[r].pc + 1 = 15
    BY <1>2, <1>3
  <2>3. sim' = [sim EXCEPT ![r] = [sim[r] EXCEPT !.pc = sim[r].pc + 1, !.integrated = found, !.read = l]]
    BY <2>1 DEF SimInv, SimTypeOK
  <2> QED BY <1>2, <1>5, <2>2, <2>3
<1>8. Backed(t.results, t.judged, t.read, r)
  BY <1>2, <1>3, <1>6 DEF SimInv, RunBacked
<1>9. Stands(tmp)' /\ Stands(report)' /\ tmp' \in ReportRecords /\ report' \in ReportRecords
  BY <1>3 DEF SimInv, SimTypeOK, Stands
<1>11. t.pc \in 15 .. 17 /\ \A n \in Names : t.results[n] \in StepVerdicts
  BY <1>4, <1>6
<1> QED BY <1>3, <1>6, <1>7, <1>8, <1>9, <1>11, MovesOn

\* What a run that has its results writes can be read back.
LEMMA ContentStands ==
    ASSUME SimInv, NEW r \in Aggregates, sim[r].pc \in 15 .. 17, NEW whole \in BOOLEAN
    PROVE  Content(r, whole) \in ReportRecords /\ Stands(Content(r, whole))
<1>1. /\ \A n \in Names : sim[r].results[n] \in StepVerdicts
      /\ sim[r] \in SimRecords /\ r # 0
  BY AllRecorded
<1>2. Backed(sim[r].results, sim[r].judged, sim[r].read, r)
  BY DEF SimInv, RunBacked
<1>3. PICK m : m = Content(r, whole)
  OBVIOUS
<1>4. m \in ReportRecords
  BY <1>1, <1>3 DEF Content, ReportRecords, SimRecords
<1>5. /\ m.by = r /\ m.results = sim[r].results /\ m.judged = sim[r].judged /\ m.read = sim[r].read
  BY <1>3 DEF Content
<1>6. Stands(m)
  BY <1>1, <1>2, <1>5 DEF Stands
<1> QED BY <1>3, <1>4, <1>6

\* The run's next place, with what it has gathered.
LEMMA NextPlace ==
    ASSUME SimInv, NEW r \in Aggregates, sim[r].pc \in 15 .. 16, sim' = Goto(r, sim[r].pc + 1),
           log' = log, tmp' \in ReportRecords, report' \in ReportRecords, Stands(tmp)', Stands(report)'
    PROVE  SimInv'
<1>1. PICK s \in SimRecords : s = sim[r]
  BY AllRecorded
<1>2. PICK pc \in 16 .. 17 : pc = s.pc + 1
  BY <1>1
<1>3. PICK t : t = [s EXCEPT !.pc = pc]
  OBVIOUS
<1>4. /\ t \in SimRecords /\ t.pc = pc /\ t.results = s.results /\ t.judged = s.judged
      /\ t.read = s.read
  BY <1>3 DEF SimRecords
<1>5. sim' = [sim EXCEPT ![r] = t]
  BY <1>1, <1>2, <1>3 DEF Goto, SimInv, SimTypeOK
<1>6. (\A n \in Names : s.results[n] \in StepVerdicts) /\ Backed(s.results, s.judged, s.read, r)
  <2>1. s.pc \in 14 .. 17 /\ s.pc \in 15 .. 17
    BY <1>1
  <2> QED BY <1>1, <2>1, AllRecorded DEF SimInv, RunBacked
<1>7. t.pc \in 15 .. 17 /\ (\A n \in Names : t.results[n] \in StepVerdicts)
      /\ Backed(t.results, t.judged, t.read, r)
  BY <1>4, <1>6
<1> QED BY <1>4, <1>5, <1>7, MovesOn

LEMMA OpenReportKeeps ==
    ASSUME SimInv, NEW r \in Aggregates, OpenReport(r)
    PROVE  SimInv'
<1>1. sim[r].pc = 15 /\ tmp' = Content(r, FALSE) /\ sim' = Goto(r, sim[r].pc + 1)
      /\ UNCHANGED <<log, report>>
  BY TableIs DEF OpenReport
<1>2. Content(r, FALSE) \in ReportRecords /\ Stands(Content(r, FALSE))
  <2>1. sim[r].pc \in 15 .. 17 /\ FALSE \in BOOLEAN
    BY <1>1
  <2> QED BY <2>1, ContentStands
<1>3. tmp' \in ReportRecords /\ report' \in ReportRecords /\ Stands(tmp') /\ Stands(report')
  BY <1>1, <1>2 DEF SimInv, SimTypeOK
<1>4. Stands(tmp)' /\ Stands(report)'
  BY <1>3 DEF Stands
<1>5. sim[r].pc \in 15 .. 16
  BY <1>1
<1> QED BY <1>1, <1>3, <1>4, <1>5, NextPlace

LEMMA WriteAggregateKeeps ==
    ASSUME SimInv, NEW r \in Aggregates, WriteAggregate(r)
    PROVE  SimInv'
<1>1. sim[r].pc = 16 /\ sim' = Goto(r, sim[r].pc + 1) /\ UNCHANGED log
  BY TableIs DEF WriteAggregate
<1>2. PICK to : to = IF tmp.by # 0 THEN tmp ELSE report
  OBVIOUS
<1>3. PICK whole \in {TRUE, ~to.whole} :
             /\ tmp'    = IF tmp.by # 0 THEN Content(r, whole) ELSE tmp
             /\ report' = IF tmp.by = 0 THEN Content(r, whole) ELSE report
  BY <1>2, Zenon DEF WriteAggregate
<1>4. whole \in BOOLEAN
  OBVIOUS
<1>5. Content(r, whole) \in ReportRecords /\ Stands(Content(r, whole))
  BY <1>1, <1>4, ContentStands
<1>6. tmp' \in ReportRecords /\ report' \in ReportRecords /\ Stands(tmp') /\ Stands(report')
  BY <1>3, <1>5 DEF SimInv, SimTypeOK
<1>7. Stands(tmp)' /\ Stands(report)'
  BY <1>6 DEF Stands
<1> QED BY <1>1, <1>6, <1>7, NextPlace

LEMMA PublishKeeps ==
    ASSUME SimInv, NEW r \in Aggregates, Publish(r)
    PROVE  SimInv'
<1>1. sim[r].pc = 17 /\ sim' = [sim EXCEPT ![r] = [Idle EXCEPT !.pc = 18]] /\ log' = log
  BY TableIs DEF Publish
<1>2. PICK t : t = [Idle EXCEPT !.pc = 18]
  OBVIOUS
<1>3. t \in SimRecords /\ t.pc = 18
  BY <1>2, NoResultsAre DEF SimRecords
<1>4. tmp' \in ReportRecords /\ report' \in ReportRecords /\ Stands(tmp') /\ Stands(report')
  BY NoResultsAre DEF Publish, SimInv, SimTypeOK
<1>5. Stands(tmp)' /\ Stands(report)'
  BY <1>4 DEF Stands
<1>6. ~(t.pc <= 17)
  BY <1>3
<1> QED BY <1>1, <1>2, <1>3, <1>4, <1>5, <1>6, MovesOn

LEMMA SimStep == SimInv /\ [SimNext]_simVars => SimInv'
<1> SUFFICES ASSUME SimInv, [SimNext]_simVars PROVE SimInv'
  OBVIOUS
<1>1. CASE UNCHANGED simVars
  BY <1>1 DEF simVars, SimInv, SimTypeOK, RunBacked, Stands
<1>2. CASE SimNext
  BY <1>2, RunStepKeeps, RunAttemptKeeps, SkipStepKeeps, ReadClaimsKeeps, OpenReportKeeps,
     WriteAggregateKeeps, PublishKeeps DEF SimNext
<1> QED BY <1>1, <1>2

\* Two runs of the aggregate at once: a report that claims Linux and the NPU together
\* has the boot and the markers from one log, or the other run wrote it in between.
LEMMA TranscriptSuffices == SimInv => OneTranscript
BY DEF SimInv, Stands, Backed, OneTranscript

\* What the readers of a report make of it.
LEMMA ReferenceTier ==
    ASSUME NEW res
    PROVE  BestTier(res, ReferenceScopes) \in {"os_boot", "firmware_smoke", "none"}
<1>1. PICK p : p = Passing(res, ReferenceScopes)
  OBVIOUS
<1>2. \A s \in p : s.tier \in {"os_boot", "firmware_smoke"}
  <2> SUFFICES ASSUME NEW s \in p PROVE s.tier \in {"os_boot", "firmware_smoke"}
    OBVIOUS
  <2>1. PICK i \in 1 .. 13 : s = Steps[i] /\ s.scope \in ReferenceScopes
    BY <1>1, TableIs DEF Passing
  <2> QED BY <2>1, UpTo13, ScopesAre DEF ReferenceScopes
<1>3. TierRank["os_boot"] = 4 /\ TierRank["firmware_smoke"] = 2
  BY DEF TierRank
<1>4. p # {} => \E s \in p : \A o \in p : TierRank[s.tier] >= TierRank[o.tier]
  <2>1. CASE \E s \in p : s.tier = "os_boot"
    BY <1>2, <1>3, <2>1
  <2>2. CASE ~\E s \in p : s.tier = "os_boot"
    BY <1>2, <1>3, <2>2
  <2> QED BY <2>1, <2>2
<1>5. CASE p = {}
  BY <1>1, <1>5 DEF BestTier
<1>6. CASE p # {}
  <2>1. PICK best : best = CHOOSE s \in p : \A o \in p : TierRank[s.tier] >= TierRank[o.tier]
    OBVIOUS
  <2>2. best \in p
    BY <1>4, <1>6, <2>1, Zenon
  <2>3. BestTier(res, ReferenceScopes) = best.tier
    BY <1>1, <1>6, <2>1, Zenon DEF BestTier
  <2> QED BY <1>2, <2>2, <2>3
<1> QED BY <1>5, <1>6

LEMMA PrerequisitesAre ==
    \A n \in Prerequisites : n \in Names /\ StepOf(n).scope \in ChipScopes
<1>1. ASSUME NEW i \in {4, 7, 9}
      PROVE  StepOf(Steps[i].name) = Steps[i] /\ Steps[i].scope \in ChipScopes /\ Steps[i].name \in Names
  <2>1. i \in 1 .. 13 /\ Steps[i].name \in Names
    BY SmokeIsNinth
  <2>2. \A j \in 1 .. 13 : Steps[j].name = Steps[i].name => j = i
    BY TableIs, UpTo13 DEF Smoke, Attempt
  <2>3. PICK s : s = StepOf(Steps[i].name)
    OBVIOUS
  <2>4. s \in {Steps[j] : j \in DOMAIN Steps} /\ s.name = Steps[i].name
    <3>1. \E t \in {Steps[j] : j \in DOMAIN Steps} : t.name = Steps[i].name
      BY <2>1, TableIs
    <3> QED BY <2>3, <3>1, Zenon DEF StepOf
  <2>5. s = Steps[i]
    BY <2>2, <2>4, TableIs
  <2>6. Steps[i].scope \in ChipScopes
    BY ScopesAre DEF ChipScopes
  <2> QED BY <2>1, <2>3, <2>5, <2>6
<1>2. Prerequisites = {Steps[i].name : i \in {4, 7, 9}}
  BY TableIs DEF Prerequisites, Smoke
<1> QED BY <1>1, <1>2

\* The reader refuses a report for one reason only.
LEMMA RefusedIs ==
    ASSUME NEW m, \A n \in Names : m.results[n] \in StepVerdicts
    PROVE  CheckErrors(m) <=> /\ ~OnChipClaim(m.results)
                              /\ \E n \in Prerequisites : m.results[n] # "blocked"
<1>1. PICK res : res = m.results
  OBVIOUS
<1>2. OnChipClaim(res) => Passing(res, {"our_chip_os_boot"}) # {}
  <2>1. OnChipClaim(res) => Steps[9] \in Passing(res, {"our_chip_os_boot"})
    BY TableIs, ScopesAre DEF OnChipClaim, Passing, Smoke
  <2> QED BY <2>1
<1>3. Prerequisites \subseteq OnChipBlockers(res) <=> \A n \in Prerequisites : res[n] = "blocked"
  BY PrerequisitesAre DEF OnChipBlockers, BlockedItems
<1>4. ~m.integrated => "integrated_linux_npu_ml_transcript" \in MinimumBlockers(m)
  BY DEF MinimumBlockers
<1>5. /\ ~\E n \in Names : res[n] \notin {"pass", "blocked", "fail"}
      /\ BestTier(res, ReferenceScopes) \in {"os_boot", "firmware_smoke", "none"}
  BY <1>1, ReferenceTier DEF StepVerdicts
<1> QED BY <1>1, <1>2, <1>3, <1>4, <1>5, Zenon DEF CheckErrors

\* The target's check never agrees: its benchmark is blocked by a constant.
LEMMA TargetNeverAgrees ==
    ASSUME NEW l, NEW in
    PROVE  TargetCode(l, in, TRUE) # 0
<1>1. TargetGates(l, in).benchmark_command = "blocked" /\ "benchmark_command" \in DOMAIN TargetGates(l, in)
  BY DEF TargetGates
<1>2. TargetStatus(l, in) \in {"fail", "blocked"}
  BY <1>1, Zenon DEF TargetStatus
<1>3. CASE TargetStatus(l, in) = "fail"
  BY <1>3 DEF TargetCode
<1>4. CASE TargetStatus(l, in) = "blocked"
  BY <1>4 DEF TargetCode
<1> QED BY <1>2, <1>3, <1>4

LEMMA ReadersSuffice == SimInv => ReadersAgree
<1> SUFFICES ASSUME SimInv, report.by # 0, report.whole
             PROVE  LET refused == ~OnChipClaim(report.results)
                                   /\ \E n \in Prerequisites : report.results[n] # "blocked"
                    IN  /\ CheckCode(report) = IF refused THEN 1 ELSE RunnerCode(report.results)
                        /\ \A in \in GateInputs :
                              CompletionCode(report, in) = 0 => CheckCode(report) = 0
                        /\ MinimumClaim(report) /\ report.judged = report.read.id =>
                              \A in \in TargetInputs :
                                 /\ TargetGates(report.read, in).generated_ap_linux_boot = "passed"
                                 /\ TargetCode(report.read, in, TRUE) # 0
  BY DEF ReadersAgree
<1> DEFINE refused == ~OnChipClaim(report.results)
                      /\ \E n \in Prerequisites : report.results[n] # "blocked"
<1>1. (\A n \in Names : report.results[n] \in StepVerdicts)
      /\ Backed(report.results, report.judged, report.read, report.by)
  BY DEF SimInv, Stands
<1>2. CheckErrors(report) <=> refused
  BY <1>1, RefusedIs
<1>3. CheckCode(report) = IF refused THEN 1 ELSE RunnerCode(report.results)
  BY <1>2, Zenon DEF CheckCode
<1>4. ASSUME NEW in \in GateInputs, CompletionCode(report, in) = 0
      PROVE  CheckCode(report) = 0
  <2>1. MvpAccepted(report)
    BY <1>4 DEF CompletionCode
  <2>2. ~refused /\ Overall(report.results) = "pass"
    BY <2>1 DEF MvpAccepted
  <2>3. RunnerCode(report.results) = 0
    BY <2>2 DEF RunnerCode
  <2> QED BY <1>3, <2>2, <2>3
<1>5. ASSUME MinimumClaim(report), report.judged = report.read.id, NEW in \in TargetInputs
      PROVE  TargetGates(report.read, in).generated_ap_linux_boot = "passed"
  <2>1. report.results[Smoke] = "pass"
    BY <1>5 DEF MinimumClaim, OnChipClaim, Smoke
  <2>2. report.read.id # 0 /\ report.read.t.boot
    BY <1>1, <1>5, <2>1 DEF Backed
  <2>3. report.read.t \in Logs
    BY <2>2 DEF SimInv, SimTypeOK, ReportRecords, LogRecords, NoLog
  <2>4. report.read.t.banner
    BY <2>2, <2>3, SimulatorAssumption DEF SimulatorAssumption
  <2> QED BY <2>4 DEF TargetGates, PassedIf
<1> QED BY <1>3, <1>4, <1>5, TargetNeverAgrees

\* Two runs of the aggregate at once, and any number of logs: the claim of Linux and
\* the NPU together rests on one log, and those who read the report end as its writer did.
THEOREM ClaimsAreBacked == SimSpec => [](OneTranscript /\ ReadersAgree)
<1>1. SimInit => SimInv
  BY SimStarts
<1>2. SimInv /\ [SimNext]_simVars => SimInv'
  BY SimStep
<1>3. SimInv => OneTranscript /\ ReadersAgree
  BY TranscriptSuffices, ReadersSuffice
<1> QED BY <1>1, <1>2, <1>3, PTL DEF SimSpec

-----------------------------------------------------------------------------
\* ----------------------------------------------------------- CpuApEvidence
\* For every set of transcripts, evidence manifest, checkout, device tree and
\* number of contents: the two halves of the completion gate never accept the
\* same files, so its PASS is always a race, and files of two generations are
\* not accepted together.

\* Type correctness, one conjunct of the state at a time.

\* Where contents are counted, the numbers given so far stay numbers.
LEMMA ClockGrows ==
    ASSUME CpuApTypeOK, Fresh
    PROVE  clock' = clock + 1 /\ clock + 1 \in 0 .. clock' /\ 0 .. clock \subseteq 0 .. clock'
BY DEF CpuApTypeOK, Fresh

\* A race is recorded in a state of the completion gate that is one.
LEMMA TouchedType ==
    ASSUME CpuApTypeOK, Touched
    PROVE  gate' \in [pc : {"idle", "generated", "evidence"}, raced : BOOLEAN, passed : BOOLEAN]
<1>1. (gate.raced \/ gate.pc # "idle") \in BOOLEAN
  OBVIOUS
<1> QED BY <1>1, Zenon DEF CpuApTypeOK, Touched

\* The generator's steps keep the types.
LEMMA GeneratorType ==
    ASSUME CpuApTypeOK, Generator
    PROVE  CpuApTypeOK'
<1> USE DEF CpuApTypeOK
<1>1. CASE StartGenerate \/ GeneratorFails
  BY <1>1 DEF StartGenerate, GeneratorFails
<1>2. CASE SecondPreflight
  BY <1>2 DEF SecondPreflight
<1>3. CASE RunGenerator
  BY <1>3, ClockGrows DEF RunGenerator
<1>4. CASE ImportTree \/ ImportDts
  BY <1>4, TouchedType DEF ImportTree, ImportDts, ToItsEnd, Artifacts, Sizes
<1>5. CASE ImportVerilog
  BY <1>5, TouchedType DEF ImportVerilog, ToItsEnd, Artifacts, Sizes
<1>6. CASE ImportSimulator
  BY <1>6, TouchedType DEF ImportSimulator, ToItsEnd, Artifacts, Sizes
<1>7. CASE WriteManifest
  BY <1>7, ClockGrows, TouchedType DEF WriteManifest, ToItsEnd, Sizes
<1>8. CASE ArtifactCut
  <2>1. PICK a \in Artifacts, n \in 0 .. clock', s \in Sizes :
          /\ art' = [art EXCEPT ![a] = n]
          /\ size' = [size EXCEPT ![a] = s]
    <3> DEFINE a == IF gen = "import" THEN "generated_src" ELSE gen
               n == IF a = "simulator" /\ (art[a] = 0 \/ csim = 0) THEN art[a] ELSE clock + 1
    <3>1. a \in Artifacts
      BY <1>8 DEF ArtifactCut, Artifacts
    <3>2. Fresh /\ art' = [art EXCEPT ![a] = n]
      BY <1>8 DEF ArtifactCut
    <3>3. n \in 0 .. clock'
      BY <3>1, <3>2, ClockGrows
    <3>4. \E s \in IF a = "simulator" THEN {"cut"} ELSE Remains[a] :
            size' = [size EXCEPT ![a] = s]
      BY <1>8 DEF ArtifactCut
    <3>5. \E s \in Sizes : size' = [size EXCEPT ![a] = s]
      BY <3>1, <3>4, CpuApAssumption DEF CpuApAssumption, Sizes
    <3> HIDE DEF a, n
    <3> QED BY <3>1, <3>2, <3>3, <3>5
  <2>2. Fresh /\ Touched /\ gen' = "idle" /\ UNCHANGED <<co, cgen, csim, man, tr, intk>>
    BY <1>8 DEF ArtifactCut
  <2> QED BY <2>1, <2>2, ClockGrows, TouchedType
<1>9. CASE ManifestCut
  <2> DEFINE A == [a \in Artifacts |-> 0]
             E == [t \in Transcripts |-> 0]
  <2>1. NoManifest = [id |-> 0, hand |-> FALSE, art |-> A, ev |-> E]
    BY Zenon DEF NoManifest
  <2>2. Fresh /\ Touched /\ gen' = "idle" /\ UNCHANGED <<co, cgen, csim, art, tr, intk>>
    BY <1>9 DEF ManifestCut
  <2>3. A \in [Artifacts -> 0 .. clock'] /\ E \in [Transcripts -> 0 .. clock']
    BY <2>2, ClockGrows
  <2> HIDE DEF A, E
  <2>4. man' = [id |-> clock + 1, hand |-> FALSE, art |-> A, ev |-> E]
    BY <1>9, <2>1 DEF ManifestCut
  <2>5. man' \in [id : 0 .. clock', hand : BOOLEAN,
                  art : [Artifacts -> 0 .. clock'], ev : [Transcripts -> 0 .. clock']]
    BY <2>2, <2>3, <2>4, ClockGrows
  <2>6. \E s \in Sizes : size' = [size EXCEPT !["manifest"] = s]
    BY <1>9, CpuApAssumption DEF ManifestCut, CpuApAssumption
  <2> QED BY <2>2, <2>5, <2>6, ClockGrows, TouchedType
<1> QED
  BY <1>1, <1>2, <1>3, <1>4, <1>5, <1>6, <1>7, <1>8, <1>9 DEF Generator

\* So do the intake, ...
LEMMA IntakeType ==
    ASSUME CpuApTypeOK, NEW t \in Transcripts, IntakeRead(t) \/ IntakeWrite(t)
    PROVE  CpuApTypeOK'
<1> USE DEF CpuApTypeOK
<1>1. CASE IntakeRead(t)
  BY <1>1 DEF IntakeRead
<1>2. CASE IntakeWrite(t)
  BY <1>2, ClockGrows, TouchedType DEF IntakeWrite
<1> QED BY <1>1, <1>2

\* ... whoever works in the repository ...
LEMMA RepositoryType ==
    ASSUME CpuApTypeOK, Repository
    PROVE  CpuApTypeOK'
<1> USE DEF CpuApTypeOK
<1>1. CASE BuildSimulator
  BY <1>1, ClockGrows DEF BuildSimulator
<1>2. CASE ChangeCheckout
  <2>1. PICK u \in Upsets : co' = [co EXCEPT !.subs[u[1]] = u[2]]
    BY <1>2 DEF ChangeCheckout
  <2>2. u[1] \in Scopes /\ u[2] \in SubStates
    BY CpuApAssumption DEF CpuApAssumption
  <2>3. Fresh /\ UNCHANGED <<cgen, csim, art, size, man, gen, tr, intk, gate>>
    BY <1>2 DEF ChangeCheckout
  <2>4. co' \in CheckoutStates
    BY <2>1, <2>2 DEF CheckoutStates
  <2> QED BY <2>3, <2>4, ClockGrows
<1>3. CASE RecordHashes
  <2>1. man' = [id |-> clock + 1, hand |-> TRUE, art |-> art,
                ev |-> [t \in Transcripts |-> tr[t].id]]
    BY <1>3 DEF RecordHashes
  <2>2. art \in [Artifacts -> 0 .. clock']
    BY <1>3, ClockGrows DEF RecordHashes
  <2>3. \A t \in Transcripts : tr[t].id \in 0 .. clock'
    BY <1>3, ClockGrows DEF RecordHashes
  <2> DEFINE E == [t \in Transcripts |-> tr[t].id]
  <2>4. E \in [Transcripts -> 0 .. clock']
    BY <2>3
  <2>5. man' = [id |-> clock + 1, hand |-> TRUE, art |-> art, ev |-> E]
    BY <2>1
  <2> HIDE DEF E
  <2>6. man' \in [id : 0 .. clock', hand : BOOLEAN,
               art : [Artifacts -> 0 .. clock'], ev : [Transcripts -> 0 .. clock']]
    <3>1. Fresh
      BY <1>3 DEF RecordHashes
    <3> QED BY <2>2, <2>4, <2>5, <3>1, ClockGrows
  <2>7. Fresh /\ Touched /\ UNCHANGED <<co, cgen, csim, art, size, gen, tr, intk>>
    BY <1>3 DEF RecordHashes
  <2> QED BY <2>6, <2>7, ClockGrows, TouchedType
<1>4. CASE EditManifest
  BY <1>4, ClockGrows, TouchedType DEF EditManifest
<1>5. CASE EditClaim
  BY <1>5, ClockGrows, TouchedType DEF EditClaim
<1> QED BY <1>1, <1>2, <1>3, <1>4, <1>5 DEF Repository

\* ... and the completion gate.
LEMMA CompletionType ==
    ASSUME CpuApTypeOK, Completion
    PROVE  CpuApTypeOK'
<1>1. (EvidenceGate \in BOOLEAN)
  BY DEF EvidenceGate
<1> USE DEF CpuApTypeOK
<1>2. CASE StartCompletion
  BY <1>2 DEF StartCompletion
<1>3. CASE ReportBlocked
  BY <1>3 DEF ReportBlocked
<1>4. CASE RunGeneratedGate
  BY <1>4 DEF RunGeneratedGate
<1>5. CASE RunEvidenceGate
  BY <1>1, <1>5, Zenon DEF RunEvidenceGate
<1> QED BY <1>2, <1>3, <1>4, <1>5 DEF Completion

LEMMA CpuApTypeStep ==
    ASSUME CpuApTypeOK, [CpuApNext]_vars
    PROVE  CpuApTypeOK'
<1>1. CASE UNCHANGED vars
  BY <1>1 DEF CpuApTypeOK, vars
<1> QED
  BY <1>1, GeneratorType, IntakeType, RepositoryType, CompletionType DEF CpuApNext, Intake

LEMMA CpuApTypeStarts == CpuApInit => CpuApTypeOK
BY CpuApAssumption DEF CpuApInit, CpuApTypeOK, CpuApAssumption, NoManifest, NoFile, Sizes

\* Files and processes stay of their kinds, whatever runs at the same time.
THEOREM CpuApTypeCorrect == CpuApSpec => []CpuApTypeOK
<1>1. CpuApTypeOK /\ [CpuApNext]_vars => CpuApTypeOK'
  BY CpuApTypeStep
<1> QED BY <1>1, CpuApTypeStarts, PTL DEF CpuApSpec

-----------------------------------------------------------------------------
\* The two halves of the completion gate.

\* A transcript is written after the manifest it is bound to, and a hash is
\* recorded in a manifest that is written after what it is the hash of.
WrittenAfter ==
    /\ \A t \in Transcripts : tr[t].id # 0 => tr[t].bound < tr[t].id
    /\ \A t \in Transcripts : man.ev[t] # 0 => man.ev[t] < man.id

\* Only three writes touch a transcript or a manifest, and each is of a number
\* larger than all before it.
LEMMA WrittenAfterStep ==
    ASSUME CpuApTypeOK, WrittenAfter, [CpuApNext]_vars
    PROVE  WrittenAfter'
<1>1. CASE UNCHANGED <<man, tr>>
  BY <1>1 DEF WrittenAfter
<1>2. CASE WriteManifest
  <2>1. tr' = tr /\ man'.ev = [t \in Transcripts |-> 0]
    BY <1>2 DEF WriteManifest
  <2> QED BY <2>1 DEF WrittenAfter
<1>3. CASE ManifestCut
  <2>1. tr' = tr /\ man' = [NoManifest EXCEPT !.id = clock + 1]
    BY <1>3 DEF ManifestCut
  <2>2. man'.ev = [t \in Transcripts |-> 0]
    BY <2>1, Zenon DEF NoManifest
  <2> QED BY <2>1, <2>2 DEF WrittenAfter
<1>4. CASE RecordHashes
  <2>1. tr' = tr /\ man'.id = clock + 1 /\ man'.ev = [t \in Transcripts |-> tr[t].id]
    BY <1>4 DEF RecordHashes, CpuApTypeOK
  <2>2. \A t \in Transcripts : tr[t].id \in Nat /\ tr[t].id < clock + 1
    BY DEF CpuApTypeOK
  <2> QED BY <2>1, <2>2 DEF WrittenAfter
<1>5. ASSUME NEW t \in Transcripts, IntakeWrite(t)
      PROVE  WrittenAfter'
  <2>1. man' = man
    BY <1>5 DEF IntakeWrite
  <2>2. \A u \in Transcripts \ {t} : tr'[u] = tr[u]
    BY <1>5 DEF IntakeWrite, CpuApTypeOK
  <2>3. tr'[t].id = clock + 1 /\ tr'[t].bound = intk.bound
    BY <1>5 DEF IntakeWrite, CpuApTypeOK
  <2>4. intk.bound < clock + 1
    BY DEF CpuApTypeOK
  <2> QED BY <2>1, <2>2, <2>3, <2>4 DEF WrittenAfter
<1>6. \/ UNCHANGED <<man, tr>> \/ WriteManifest \/ ManifestCut
      \/ RecordHashes \/ \E t \in Transcripts : IntakeWrite(t)
  BY DEF CpuApNext, vars, Generator, Intake, Repository, Completion, StartGenerate,
         SecondPreflight, RunGenerator, ImportTree, ImportDts, ImportVerilog, ImportSimulator,
         GeneratorFails, ArtifactCut, BuildSimulator, ChangeCheckout, EditManifest, EditClaim,
         StartCompletion, ReportBlocked, RunGeneratedGate, RunEvidenceGate, IntakeRead
<1> QED BY <1>1, <1>2, <1>3, <1>4, <1>5, <1>6

\* For files written in that order the hashes would have to grow in a circle:
\* a transcript is newer than the manifest that names it.
LEMMA NoCircle ==
    ASSUME CpuApTypeOK, WrittenAfter
    PROVE  NeverConsistent
<1> SUFFICES ASSUME GeneratedGate, EvidenceGate PROVE FALSE
  BY DEF NeverConsistent
<1>1. PICK t \in Transcripts : TRUE
  BY CpuApAssumption DEF CpuApAssumption
<1>2. t \in em.transcripts
  BY DEF EvidenceGate, ScaffoldOk, EvidenceManifestOk, TranscriptSpecsOk
<1>3. tr[t].id # 0
  BY <1>2 DEF EvidenceGate, AllTranscripts
<1>4. man.ev[t] = tr[t].id
  BY <1>2, <1>3 DEF GeneratedGate, ShaOk
<1>5. tr[t].bound = man.id
  BY <1>2, <1>3 DEF EvidenceGate, EvidenceProblems, Bound
<1>6. tr[t].bound < tr[t].id /\ man.ev[t] < man.id
  BY <1>3, <1>4 DEF WrittenAfter
<1>7. tr[t].id \in Nat /\ man.id \in Nat
  BY DEF CpuApTypeOK
<1> QED BY <1>4, <1>5, <1>6, <1>7

\* No files pass both halves of the completion gate: a transcript would have to
\* carry the hash of a manifest that carries the hash of the transcript.
THEOREM GatesNeverConsistent == CpuApSpec => []NeverConsistent
<1>1. CpuApInit => WrittenAfter
  BY DEF CpuApInit, WrittenAfter, NoFile, NoManifest
<1>2. CpuApTypeOK /\ WrittenAfter /\ [CpuApNext]_vars => WrittenAfter'
  BY WrittenAfterStep
<1>3. CpuApTypeOK /\ WrittenAfter => NeverConsistent
  BY NoCircle
<1> QED BY <1>1, <1>2, <1>3, CpuApTypeCorrect, PTL DEF CpuApSpec

\* While the gate is between its halves and nothing it reads was changed, what
\* the first half accepted it would still accept.
FirstHalfHolds == gate.pc = "evidence" /\ ~gate.raced => GeneratedGate

\* Whatever changes what the first half reads is recorded as a race.
LEMMA FirstHalfStep ==
    ASSUME CpuApTypeOK, FirstHalfHolds, [CpuApNext]_vars
    PROVE  FirstHalfHolds'
<1>1. CASE Touched
  <2>1. gate'.pc = gate.pc /\ gate'.raced = (gate.raced \/ gate.pc # "idle")
    BY <1>1, Zenon DEF Touched, CpuApTypeOK
  <2> QED BY <2>1 DEF FirstHalfHolds
<1>2. CASE UNCHANGED <<art, size, man, em, tr, claim, gate>>
  BY <1>2, Zenon
  DEF FirstHalfHolds, GeneratedGate, SelectedManifestOk, EvidenceManifestOk, BoundaryOk,
      LinuxGatesOk, QemuReferenceOk, TargetPolicyOk, ArtifactSpecsOk, TranscriptSpecsOk,
      PathKindOk, TokensOk, DtsOf, ShaOk, TextOk, LongEnough, ManifestIs, ModuleThere
<1>4. CASE RunGeneratedGate
  <2>1. GeneratedGate' = GeneratedGate
    BY <1>4, Zenon
    DEF RunGeneratedGate, GeneratedGate, SelectedManifestOk, EvidenceManifestOk, BoundaryOk,
        LinuxGatesOk, QemuReferenceOk, TargetPolicyOk, ArtifactSpecsOk, TranscriptSpecsOk,
        PathKindOk, TokensOk, DtsOf, ShaOk, TextOk, LongEnough, ManifestIs, ModuleThere
  <2>2. gate'.pc = "evidence" => GeneratedGate
    BY <1>4 DEF RunGeneratedGate
  <2> QED BY <2>1, <2>2 DEF FirstHalfHolds
<1>5. CASE gate'.pc # "evidence"
  BY <1>5 DEF FirstHalfHolds
<1>6. CASE Generator
  <2>1. StartGenerate \/ SecondPreflight \/ RunGenerator \/ GeneratorFails =>
          UNCHANGED <<art, size, man, em, tr, claim, gate>>
    BY DEF StartGenerate, SecondPreflight, RunGenerator, GeneratorFails
  <2>2. ImportTree \/ ImportDts \/ ImportVerilog \/ ImportSimulator \/ WriteManifest
          \/ ArtifactCut \/ ManifestCut => Touched
    BY DEF ImportTree, ImportDts, ImportVerilog, ImportSimulator, WriteManifest, ArtifactCut,
           ManifestCut
  <2> QED BY <1>1, <1>2, <1>6, <2>1, <2>2 DEF Generator
<1>7. CASE Intake
  BY <1>1, <1>2, <1>7 DEF Intake, IntakeRead, IntakeWrite
<1>8. CASE Repository
  BY <1>1, <1>2, <1>8
  DEF Repository, BuildSimulator, ChangeCheckout, RecordHashes, EditManifest, EditClaim
<1>9. CASE Completion
  <2>1. StartCompletion \/ ReportBlocked \/ RunEvidenceGate => gate'.pc # "evidence"
    BY DEF StartCompletion, ReportBlocked, RunEvidenceGate
  <2> QED BY <1>4, <1>5, <1>9, <2>1 DEF Completion
<1>10. CASE UNCHANGED vars
  BY <1>2, <1>10 DEF vars
<1> QED
  BY <1>6, <1>7, <1>8, <1>9, <1>10 DEF CpuApNext

\* What the second half accepts then the first would not have.
LEMMA SecondHalfIsRaced ==
    ASSUME FirstHalfHolds, NeverConsistent
    PROVE  RacedIfPassed
<1> SUFFICES ASSUME RunEvidenceGate, gate'.passed PROVE gate.raced
  BY DEF RacedIfPassed
<1>1. gate.pc = "evidence" /\ EvidenceGate
  BY DEF RunEvidenceGate
<1> QED BY <1>1 DEF FirstHalfHolds, NeverConsistent

\* A PASS of the completion gate is given only when what it reads was changed
\* between its halves.
THEOREM CompletionPassIsRaced == CpuApSpec => PassIsRaced
<1>1. CpuApInit => FirstHalfHolds
  BY DEF CpuApInit, FirstHalfHolds
<1>2. CpuApTypeOK /\ FirstHalfHolds /\ [CpuApNext]_vars => FirstHalfHolds'
  BY FirstHalfStep
<1>3. FirstHalfHolds /\ NeverConsistent => RacedIfPassed
  BY SecondHalfIsRaced
<1> QED
  BY <1>1, <1>2, <1>3, CpuApTypeCorrect, GatesNeverConsistent, PTL
  DEF CpuApSpec, PassIsRaced

-----------------------------------------------------------------------------
\* Generations.

\* What the generator has imported when it comes to the manifest, and what a
\* manifest names that nobody edited by hand, is of one generation.
SameGeneration(a) == a["verilog"] = a["generated_src"] /\ a["dts"] = a["generated_src"]
ImportedTogether ==
    /\ gen \in {"import", "dts"} => cgen # 0
    /\ gen = "dts" => art["generated_src"] = cgen
    /\ gen = "verilog" => art["dts"] = art["generated_src"]
    /\ gen \in {"simulator", "manifest"} => SameGeneration(art)
    /\ ~man.hand => SameGeneration(man.art)

\* Each import keeps what the ones before it brought; the manifest is of all.
LEMMA ImportedTogetherStep ==
    ASSUME CpuApTypeOK, ImportedTogether, [CpuApNext]_vars
    PROVE  ImportedTogether'
<1> USE DEF ImportedTogether, SameGeneration
<1>1. CASE UNCHANGED <<cgen, art, man, gen>>
  BY <1>1
<1>2. CASE Generator
  <2>1. CASE StartGenerate \/ SecondPreflight \/ RunGenerator
    BY <2>1 DEF StartGenerate, SecondPreflight, RunGenerator, CpuApTypeOK
  <2>2. CASE ImportTree \/ ImportDts
    BY <2>2 DEF ImportTree, ImportDts, CpuApTypeOK, Artifacts
  <2>3. CASE ImportVerilog
    BY <2>3 DEF ImportVerilog, CpuApTypeOK, Artifacts
  <2>4. CASE ImportSimulator
    BY <2>4 DEF ImportSimulator, CpuApTypeOK, Artifacts
  <2>5. CASE WriteManifest
    BY <2>5 DEF WriteManifest, CpuApTypeOK
  <2>6. CASE GeneratorFails \/ ArtifactCut
    BY <2>6 DEF GeneratorFails, ArtifactCut
  <2>7. CASE ManifestCut
    <3>1. gen' = "idle" /\ man' = [NoManifest EXCEPT !.id = clock + 1]
      BY <2>7 DEF ManifestCut
    <3>2. man'.art = [a \in Artifacts |-> 0]
      BY <3>1, Zenon DEF NoManifest
    <3> QED BY <3>1, <3>2 DEF Artifacts
  <2> QED BY <1>2, <2>1, <2>2, <2>3, <2>4, <2>5, <2>6, <2>7 DEF Generator
<1>3. CASE RecordHashes
  BY <1>3 DEF RecordHashes, CpuApTypeOK
<1>4. /\ Intake \/ ChangeCheckout \/ EditManifest \/ EditClaim \/ Completion =>
           UNCHANGED <<cgen, art, man, gen>>
      /\ BuildSimulator => UNCHANGED <<art, man, gen>> /\ (cgen # 0 => cgen' = cgen)
  BY DEF Intake, IntakeRead, IntakeWrite, BuildSimulator, ChangeCheckout, EditManifest,
         EditClaim, Completion, StartCompletion, ReportBlocked, RunGeneratedGate,
         RunEvidenceGate
<1> QED BY <1>1, <1>2, <1>3, <1>4 DEF CpuApNext, Repository, vars

\* The generated gate compares what is imported with what the manifest names.
LEMMA ManifestOfGeneration ==
    ASSUME ImportedTogether
    PROVE  OneGeneration
<1> SUFFICES ASSUME GeneratedGate, ~man.hand PROVE SameGeneration(art)
  BY DEF OneGeneration, SameGeneration
<1>1. Artifacts \subseteq em.artifacts
  BY DEF GeneratedGate, SelectedManifestOk, EvidenceManifestOk, ArtifactSpecsOk
<1>2. \A a \in Artifacts : man.art[a] = art[a]
  BY <1>1 DEF GeneratedGate, PathKindOk, ShaOk
<1> QED BY <1>2 DEF ImportedTogether, SameGeneration, Artifacts

\* However often the generator is killed and started again, Verilog, device tree
\* and sources the generated gate accepts are of one generation, as long as
\* nobody copied hashes into the import manifest by hand.
THEOREM AcceptedOfOneGeneration == CpuApSpec => []OneGeneration
<1>1. CpuApInit => ImportedTogether
  BY DEF CpuApInit, ImportedTogether, SameGeneration, NoManifest, Artifacts
<1>2. CpuApTypeOK /\ ImportedTogether /\ [CpuApNext]_vars => ImportedTogether'
  BY ImportedTogetherStep
<1>3. ImportedTogether => OneGeneration
  BY ManifestOfGeneration
<1> QED BY <1>1, <1>2, <1>3, CpuApTypeCorrect, PTL DEF CpuApSpec

-----------------------------------------------------------------------------
\* The gates beside the two.

\* Each conjunct of GatesAgree is a fact about what the gates ask for.
LEMMA GatesDoAgree ==
    ASSUME CpuApTypeOK
    PROVE  GatesAgree
<1>1. ASSUME ImportPreflight = "pass", VerilatorPreflight = "pass"
      PROVE  /\ co.subs["rocket"] = "clean" /\ co.subs["nested"] = "clean"
             /\ co.subs["others"] \in {"clean", "conflict"}
  BY <1>1 DEF ImportPreflight, VerilatorPreflight, SubmoduleProblems, CpuApTypeOK, CheckoutStates,
                Scopes, SubStates
<1>2. ASSUME GeneratedGate, AllTranscripts
      PROVE  /\ LinuxContract # "blocked" /\ PayloadPath # "blocked"
             /\ ReadinessGenerated # "blocked"
  <2>1. ManifestIs({"whole"}) /\ Artifacts \subseteq em.artifacts
    BY <1>2 DEF GeneratedGate, SelectedManifestOk, EvidenceManifestOk, ArtifactSpecsOk
  <2>2. \A a \in Artifacts : PathKindOk(a) /\ TokensOk(a)
    BY <1>2, <2>1 DEF GeneratedGate
  <2>3. /\ \A a \in Artifacts : art[a] # 0
        /\ size["generated_src"] # "empty" /\ size["simulator"] # "empty"
        /\ LongEnough("verilog") /\ LongEnough("dts")
    BY <2>2 DEF PathKindOk, TokensOk, ModuleThere, LongEnough, DtsOf, Artifacts
  <2> QED
    BY <1>2, <2>1, <2>3
    DEF LinuxContract, ImportBlocked, PayloadPath, ArtifactStatus, ReadinessGenerated, Artifacts,
        ManifestIs, LongEnough
<1>3. ASSUME LinuxContract = "pass"
      PROVE  /\ DtsAudit = "pass" /\ PayloadPath # "fail" /\ ReadinessGenerated # "fail"
             /\ PayloadPath = "blocked" => size["manifest"] \in {"empty", "small"}
             /\ ReadinessGenerated = "blocked" => size["manifest"] = "empty"
  <2>1. /\ LinuxContractDts /\ MemoryMapOk /\ ModuleThere /\ EvidenceManifestOk
        /\ man.id # 0 /\ size["simulator"] # "empty" /\ AllTranscripts
    BY <1>3 DEF LinuxContract, ImportBlocked
  <2>2. LinuxDtsTokens \subseteq DtsOf /\ art["dts"] # 0 /\ LongEnough("dts")
    BY <2>1 DEF LinuxContractDts, DtsOf, LinuxDtsTokens
  <2>3. /\ PayloadTokens \subseteq DtsOf /\ ReadinessTokens \subseteq DtsOf
        /\ {"cpu", "memory", "clint", "plic", "serial", "stdout"} \subseteq DtsOf
    BY <2>2 DEF LinuxDtsTokens, PayloadTokens, ReadinessTokens
  <2>4. \A a \in Artifacts : ArtifactStatus(a)
    BY <2>1, <2>2 DEF ArtifactStatus, Artifacts, MemoryMapOk, ModuleThere, LongEnough
  <2>5. size["manifest"] \in Sizes
    BY DEF CpuApTypeOK
  <2>6. DtsAudit = "pass" /\ PayloadPath # "fail" /\ ReadinessGenerated # "fail"
    BY <2>1, <2>2, <2>3 DEF DtsAudit, PayloadPath, ReadinessGenerated
  <2>7. PayloadPath = "blocked" => size["manifest"] \in {"empty", "small"}
    BY <2>1, <2>3, <2>4, <2>5 DEF PayloadPath, ManifestIs, Sizes
  <2>8. ReadinessGenerated = "blocked" => size["manifest"] = "empty"
    BY <2>1, <2>2, <2>3, <2>5 DEF ReadinessGenerated, ManifestIs, Sizes, ModuleThere, LongEnough
  <2> QED BY <2>6, <2>7, <2>8
<1>4. ASSUME ~(Transcripts \subseteq em.transcripts)
      PROVE  ~GeneratedGate /\ ~EvidenceGate /\ PayloadPath = "fail" /\ LinuxContract = "fail"
  <2>1. ~EvidenceManifestOk
    BY <1>4 DEF EvidenceManifestOk, TranscriptSpecsOk
  <2> QED
    BY <2>1 DEF GeneratedGate, SelectedManifestOk, EvidenceGate, ScaffoldOk, PayloadPath,
                LinuxContract
<1> QED BY <1>1, <1>2, <1>3, <1>4 DEF GatesAgree

\* Whatever the files are and whatever a kill left of them, no gate is still blocked
\* for what a stricter one accepted, except for a manifest that was cut short, and
\* none passes under an evidence manifest that asks for less.
THEOREM GatesAlwaysAgree == CpuApSpec => []GatesAgree
BY GatesDoAgree, CpuApTypeCorrect, PTL

\* A transcript is bound to a manifest that was there before; the manifest the
\* hashes are recorded in is newer than all of those.
LEMMA RecordingDoesUnbind ==
    ASSUME CpuApTypeOK
    PROVE  RecordingUnbinds
<1> SUFFICES ASSUME RecordHashes, EvidenceGate' PROVE FALSE
  BY DEF RecordingUnbinds
<1>1. tr' = tr /\ em' = em /\ man'.id = clock + 1
  BY DEF RecordHashes, CpuApTypeOK
<1>2. PICK t \in Transcripts : TRUE
  BY CpuApAssumption DEF CpuApAssumption
<1>3. t \in em'.transcripts
  BY DEF EvidenceGate, ScaffoldOk, EvidenceManifestOk, TranscriptSpecsOk
<1>4. tr'[t].id # 0 /\ tr'[t].bound = man'.id
  BY <1>3 DEF EvidenceGate, EvidenceProblems, AllTranscripts, Bound
<1>5. tr[t].bound \in 0 .. clock
  BY DEF CpuApTypeOK
<1> QED BY <1>1, <1>4, <1>5 DEF CpuApTypeOK

\* Following the documented procedure, recording the hashes last, leaves the
\* evidence gate refusing every transcript, in every state.
THEOREM RecordingAlwaysUnbinds == CpuApSpec => [][RecordingUnbinds]_vars
BY RecordingDoesUnbind, CpuApTypeCorrect, PTL DEF CpuApSpec

-----------------------------------------------------------------------------
\* --------------------------------------------------------------- MvpStatus

\* What a reading that has been passed since the last regeneration accepted is
\* there still: the dry run, which alone writes, writes what only later ones read.
StatusTypeOK ==
    /\ files = [c \in DOMAIN Base |-> files[c]]
    /\ files["cocotb"].result \in CocotbResults
    /\ pipe \in [pc : 1 .. 11, verdict : {"none", "fail", "pass"}, last : 0 .. 11,
                 opt : [strict : BOOLEAN, signoff : BOOLEAN]]

AcceptedSince ==
    \A i \in 1 .. 10 : i < pipe.pc /\ pipe.last <= i => Accepted(Readings[i], files, pipe.opt)
PassIsAtTheEnd == pipe.verdict = "pass" => pipe.pc = 11

StatusInv == StatusTypeOK /\ AcceptedSince /\ PassIsAtTheEnd

LEMMA ReadingsAre ==
    /\ Readings[1] = "artifacts" /\ Readings[2] = "manifests" /\ Readings[3] = "signoff"
    /\ Readings[4] = "checks" /\ Readings[5] = "dry run" /\ Readings[6] = "validate"
    /\ Readings[7] = "table" /\ Readings[8] = "dashboard" /\ Readings[9] = "benchmarks"
    /\ Readings[10] = "semantics" /\ Readings[11] = "done"
BY DEF Readings

LEMMA ReadingsDiffer ==
    \A i \in 1 .. 11 : (Readings[i] = "dry run" => i = 5) /\ (Readings[i] = "done" => i = 11)
<1> SUFFICES ASSUME NEW i \in 1 .. 11
             PROVE  (Readings[i] = "dry run" => i = 5) /\ (Readings[i] = "done" => i = 11)
  OBVIOUS
<1>1. \/ i = 1 \/ i = 2 \/ i = 3 \/ i = 4 \/ i = 5 \/ i = 6
      \/ i = 7 \/ i = 8 \/ i = 9 \/ i = 10 \/ i = 11
  OBVIOUS
<1> QED BY <1>1, ReadingsAre

\* What the readings that look at the files accept.
LEMMA AcceptedIs ==
    ASSUME NEW f, NEW opt
    PROVE  /\ Accepted("artifacts", f, opt) <=> ArtifactsOk(f)
           /\ Accepted("manifests", f, opt) <=>
                CocotbManifestOk(f["cocotb"]) /\ FormalManifestOk(f["formal"], opt.strict)
           /\ Accepted("signoff", f, opt) <=> (opt.signoff => f["product"].pd)
           /\ Accepted("checks", f, opt) <=> f["gates"].rc = 0 /\ f["bsp"].rc = 0
           /\ Accepted("table", f, opt) <=> StatusCode(f, FALSE) = 0
           /\ Accepted("dashboard", f, opt) <=> DashboardOk(f)
           /\ Accepted("benchmarks", f, opt) <=> BenchmarkReportOk(f["benchmarks"])
           /\ Accepted("semantics", f, opt) <=> StatusSemanticsOk(f)
           /\ Accepted("dry run", f, opt)
BY DEF Accepted

LEMMA StatusStarts == StatusInit => StatusInv
<1> SUFFICES ASSUME StatusInit
             PROVE  StatusInv
  OBVIOUS
<1>1. files = Base /\ pipe.pc = 1 /\ pipe.verdict = "none"
  BY DEF StatusInit
<1>2. pipe \in [pc : 1 .. 11, verdict : {"none", "fail", "pass"}, last : 0 .. 11,
                opt : [strict : BOOLEAN, signoff : BOOLEAN]]
  BY DEF StatusInit
<1>3. StatusTypeOK
  BY <1>1, <1>2, StatusAssumption DEF StatusTypeOK, StatusAssumption
<1>4. AcceptedSince /\ PassIsAtTheEnd
  BY <1>1 DEF AcceptedSince, PassIsAtTheEnd
<1> QED BY <1>3, <1>4 DEF StatusInv

LEMMA RegenerateKeeps ==
    ASSUME StatusInv, Regenerate
    PROVE  StatusInv'
<1>1. PICK c \in DOMAIN Values : \E v \in Values[c] : files' = [files EXCEPT ![c] = v]
  BY DEF Regenerate
<1>2. PICK v \in Values[c] : files' = [files EXCEPT ![c] = v]
  BY <1>1
<1>3. pipe' = [pipe EXCEPT !.last = pipe.pc]
  BY DEF Regenerate
<1>4. StatusTypeOK'
  <2>1. files' = [d \in DOMAIN Base |-> files'[d]]
    BY <1>2 DEF StatusInv, StatusTypeOK
  <2>2. files'["cocotb"].result \in CocotbResults
    <3>1. CASE c = "cocotb"
      BY <1>2, <3>1, StatusAssumption DEF StatusInv, StatusTypeOK, StatusAssumption
    <3>2. CASE c # "cocotb"
      BY <1>2, <3>2, StatusAssumption DEF StatusInv, StatusTypeOK, StatusAssumption
    <3> QED BY <3>1, <3>2
  <2>3. pipe' \in [pc : 1 .. 11, verdict : {"none", "fail", "pass"}, last : 0 .. 11,
                   opt : [strict : BOOLEAN, signoff : BOOLEAN]]
    BY <1>3 DEF StatusInv, StatusTypeOK
  <2> QED BY <2>1, <2>2, <2>3 DEF StatusTypeOK
<1>5. pipe'.pc = pipe.pc /\ pipe'.last = pipe.pc /\ pipe'.verdict = pipe.verdict /\ pipe.pc \in 1 .. 11
  BY <1>3 DEF StatusInv, StatusTypeOK
<1>6. AcceptedSince'
  BY <1>5 DEF AcceptedSince
<1>7. PassIsAtTheEnd'
  BY <1>5 DEF StatusInv, PassIsAtTheEnd
<1> QED BY <1>4, <1>6, <1>7 DEF StatusInv

LEMMA FirstFour == \A i \in 1 .. 4 : i = 1 \/ i = 2 \/ i = 3 \/ i = 4
OBVIOUS

\* What the first four readings look at is none of the benchmarks.
LEMMA DryRunIsUnread ==
    ASSUME StatusInv, Readings[pipe.pc] = "dry run",
           files' = [files EXCEPT !["benchmarks"] = DryRun(files["benchmarks"])],
           NEW i \in 1 .. 4, Accepted(Readings[i], files, pipe.opt)
    PROVE  Accepted(Readings[i], files', pipe.opt)
<1>1. /\ files'["cocotb"] = files["cocotb"] /\ files'["formal"] = files["formal"]
      /\ files'["product"] = files["product"] /\ files'["gates"] = files["gates"]
      /\ files'["bsp"] = files["bsp"]
  BY StatusAssumption DEF StatusInv, StatusTypeOK, StatusAssumption
<1>2. /\ \A a \in ArtifactRows : files'[a] = files[a]
      /\ files'["rtl"] = files["rtl"] /\ files'["sources"] = files["sources"]
      /\ files'["netlist"] = files["netlist"]
  BY StatusAssumption DEF StatusInv, StatusTypeOK, StatusAssumption, ArtifactRows
<1>3. ArtifactsOk(files) => ArtifactsOk(files')
  <2>1. (\A a \in ArtifactRows : files[a].present) => \A a \in ArtifactRows : files'[a].present
    BY <1>2, Zenon
  <2>2. files["sources"] /\ files["rtl"] => files'["sources"] /\ files'["rtl"]
    BY <1>2, Zenon
  <2>3. files["netlist"].complete /\ files["netlist"].top
          => files'["netlist"].complete /\ files'["netlist"].top
    BY <1>2, Zenon
  <2> QED BY <1>1, <2>1, <2>2, <2>3, Zenon DEF ArtifactsOk
<1>4. i = 1 \/ i = 2 \/ i = 3 \/ i = 4
  BY FirstFour
<1>5. CASE i = 1
  BY <1>3, <1>5, ReadingsAre, AcceptedIs
<1>6. CASE i = 2
  BY <1>1, <1>6, ReadingsAre, AcceptedIs, ZenonT(60)
<1>7. CASE i = 3
  BY <1>1, <1>7, ReadingsAre, AcceptedIs, ZenonT(60)
<1>8. CASE i = 4
  BY <1>1, <1>8, ReadingsAre, AcceptedIs, ZenonT(60)
<1> QED BY <1>4, <1>5, <1>6, <1>7, <1>8

LEMMA ReadKeeps ==
    ASSUME StatusInv, Read
    PROVE  StatusInv'
<1>1. /\ pipe.verdict = "none" /\ pipe.pc \in 1 .. 10
      /\ pipe \in [pc : 1 .. 11, verdict : {"none", "fail", "pass"}, last : 0 .. 11,
                   opt : [strict : BOOLEAN, signoff : BOOLEAN]]
  <2>1. pipe.pc \in 1 .. 11
    BY DEF StatusInv, StatusTypeOK
  <2>2. pipe.pc # 11
    BY ReadingsAre DEF Read
  <2>3. pipe.pc \in 1 .. 10
    BY <2>1, <2>2
  <2> QED BY <2>3 DEF Read, StatusInv, StatusTypeOK
<1>2. \/ /\ Accepted(Readings[pipe.pc], files, pipe.opt)
         /\ pipe' = [pipe EXCEPT !.pc = @ + 1]
      \/ pipe' = [pipe EXCEPT !.verdict = "fail"]
  BY Zenon DEF Read
<1>3. /\ pipe'.last = pipe.last /\ pipe'.opt = pipe.opt /\ pipe'.verdict # "pass"
      /\ \/ Accepted(Readings[pipe.pc], files, pipe.opt) /\ pipe'.pc = pipe.pc + 1
         \/ pipe'.pc = pipe.pc
  BY <1>1, <1>2
<1>4. pipe' \in [pc : 1 .. 11, verdict : {"none", "fail", "pass"}, last : 0 .. 11,
                 opt : [strict : BOOLEAN, signoff : BOOLEAN]]
  BY <1>1, <1>2
<1>5. files' = files \/ (/\ Readings[pipe.pc] = "dry run"
                         /\ files' = [files EXCEPT !["benchmarks"] = DryRun(files["benchmarks"])])
  BY Zenon DEF Read
<1>6. files' = [c \in DOMAIN Base |-> files'[c]] /\ files'["cocotb"].result \in CocotbResults
  <2>1. files = [c \in DOMAIN Base |-> files[c]] /\ files["cocotb"].result \in CocotbResults
        /\ "cocotb" \in DOMAIN Base
    BY StatusAssumption DEF StatusInv, StatusTypeOK, StatusAssumption
  <2> QED BY <1>5, <2>1
<1>7. AcceptedSince'
  <2> SUFFICES ASSUME NEW i \in 1 .. 10, i < pipe'.pc, pipe.last <= i
               PROVE  Accepted(Readings[i], files', pipe.opt)
    BY <1>3 DEF AcceptedSince
  <2>1. Accepted(Readings[i], files, pipe.opt)
    BY <1>1, <1>3 DEF StatusInv, AcceptedSince
  <2>2. CASE files' = files
    BY <2>1, <2>2
  <2>3. CASE /\ Readings[pipe.pc] = "dry run"
             /\ files' = [files EXCEPT !["benchmarks"] = DryRun(files["benchmarks"])]
    <3>1. pipe.pc = 5
      BY <1>1, <2>3, ReadingsDiffer
    <3>2. CASE i = 5
      BY <3>2, ReadingsAre, AcceptedIs
    <3>3. CASE i # 5
      <4>1. i \in 1 .. 4
        BY <1>3, <3>1, <3>3
      <4> QED BY <2>1, <2>3, <4>1, DryRunIsUnread
    <3> QED BY <3>2, <3>3
  <2> QED BY <1>5, <2>2, <2>3
<1> QED BY <1>3, <1>4, <1>6, <1>7 DEF StatusInv, StatusTypeOK, PassIsAtTheEnd

LEMMA ConcludeKeeps ==
    ASSUME StatusInv, Conclude
    PROVE  StatusInv'
<1>1. pipe.pc \in 1 .. 11 /\ Readings[pipe.pc] = "done"
  BY DEF Conclude, StatusInv, StatusTypeOK
<1>2. pipe.pc = 11
  BY <1>1, ReadingsDiffer
<1>3. pipe' = [pipe EXCEPT !.verdict = "pass"] /\ files' = files
  BY DEF Conclude
<1>4. pipe'.pc = pipe.pc /\ pipe'.last = pipe.last /\ pipe'.opt = pipe.opt
  BY <1>3 DEF StatusInv, StatusTypeOK
<1>5. StatusTypeOK'
  BY <1>3 DEF StatusInv, StatusTypeOK
<1>6. AcceptedSince' /\ PassIsAtTheEnd'
  BY <1>2, <1>3, <1>4 DEF StatusInv, AcceptedSince, PassIsAtTheEnd
<1> QED BY <1>5, <1>6 DEF StatusInv

LEMMA StatusStep == StatusInv /\ [StatusNext]_statusVars => StatusInv'
<1> SUFFICES ASSUME StatusInv, [StatusNext]_statusVars
             PROVE  StatusInv'
  OBVIOUS
<1>1. CASE UNCHANGED statusVars
  BY <1>1 DEF statusVars, StatusInv, StatusTypeOK, AcceptedSince, PassIsAtTheEnd
<1> QED BY <1>1, RegenerateKeeps, ReadKeeps, ConcludeKeeps DEF StatusNext

\* The rows the pipeline rests on, each of what is found for it.
LEMMA RowsOf ==
    ASSUME NEW f
    PROVE  /\ {"cocotb", "formal", "qemu", "renode", "npu", "product"} \subseteq Rows
           /\ Collect(f)["cocotb"] = CocotbRow(f["cocotb"])
           /\ Collect(f)["formal"] = FormalStatus(f["formal"])
           /\ Collect(f)["qemu"] = QemuStatus(f["qemu"])
           /\ Collect(f)["renode"] = RenodeStatus(f["renode"])
           /\ Collect(f)["npu"] = StatusCheck(f["npu"])
           /\ Collect(f)["product"] = ProductStatus(f["product"])
<1>1. {"cocotb", "formal", "qemu", "renode", "npu", "product"} \subseteq Rows
  BY DEF Rows
<1>2. Collect(f)["cocotb"] = CocotbRow(f["cocotb"])
  BY <1>1 DEF Collect, CommandRows, ArtifactRows
<1>3. Collect(f)["formal"] = FormalStatus(f["formal"])
  BY <1>1 DEF Collect, CommandRows, ArtifactRows
<1>4. Collect(f)["qemu"] = QemuStatus(f["qemu"])
  BY <1>1 DEF Collect, CommandRows, ArtifactRows
<1>5. Collect(f)["renode"] = RenodeStatus(f["renode"])
  BY <1>1 DEF Collect, CommandRows, ArtifactRows
<1>6. Collect(f)["npu"] = StatusCheck(f["npu"])
  BY <1>1 DEF Collect, CommandRows, ArtifactRows
<1>7. Collect(f)["product"] = ProductStatus(f["product"])
  BY <1>1 DEF Collect, CommandRows, ArtifactRows
<1> QED BY <1>1, <1>2, <1>3, <1>4, <1>5, <1>6, <1>7

LEMMA NoRowFails ==
    ASSUME NEW f, StatusCode(f, FALSE) = 0
    PROVE  \A r \in Rows : Collect(f)[r].status # "FAIL"
BY DEF StatusCode

\* What a row that does not fail excludes.
LEMMA FailingRows ==
    /\ \A c : CocotbRow(c).status # "FAIL" =>
                 c.manifest # "invalid" /\ (c.result = "failing" => c.manifest = "partial")
    /\ \A f : FormalStatus(f).status # "FAIL" => \A t \in FormalTargets : f.sby[t] # "FAIL"
    /\ \A o : StatusCheck(o).status # "FAIL" => o.rc # 1
    /\ \A q : QemuStatus(q).status # "FAIL" => q.run.rc # 1
    /\ \A n : RenodeStatus(n).status # "FAIL" => n.file \notin {"FAIL", "invalid"}
<1>1. \A c : CocotbRow(c).status # "FAIL" =>
                c.manifest # "invalid" /\ (c.result = "failing" => c.manifest = "partial")
  BY DEF CocotbRow, Row
<1>2. \A f : FormalStatus(f).status # "FAIL" => \A t \in FormalTargets : f.sby[t] # "FAIL"
  BY DEF FormalStatus, Row
<1>3. \A o : StatusCheck(o).status # "FAIL" => o.rc # 1
  BY DEF StatusCheck, Row
<1>4. \A q : QemuStatus(q).status # "FAIL" => q.run.rc # 1
  <2> SUFFICES ASSUME NEW q, q.run.rc = 1
               PROVE  QemuStatus(q).status = "FAIL"
    OBVIOUS
  <2>1. StatusCheck(q.run) = Row("FAIL", "test_fail")
    BY DEF StatusCheck
  <2> QED BY <2>1 DEF QemuStatus, Row
<1>5. \A n : RenodeStatus(n).status # "FAIL" => n.file \notin {"FAIL", "invalid"}
  BY DEF RenodeStatus, Row
<1> QED BY <1>1, <1>2, <1>3, <1>4, <1>5

LEMMA ProductRows ==
    ASSUME NEW p
    PROVE  /\ ProductStatus(p).status # "FAIL" => p.required /\ p.checks
           /\ ProductStatus(p).status = "PASS" => ReleaseBlockers(p) = {}
<1>1. ASSUME ~p.required \/ ~p.checks
      PROVE  ProductStatus(p) = Row("FAIL", "command_fail")
  <2>1. ProductCheck(p, FALSE) = [rc |-> 1, says |-> "error"]
    BY <1>1 DEF ProductCheck
  <2>2. [rc |-> 1, says |-> "error"].says = "error" /\ [rc |-> 1, says |-> "error"].rc # 0
    OBVIOUS
  <2>3. "error" \notin {"release check failed", "release blockers remain"}
    OBVIOUS
  <2> QED BY <2>1, <2>2, <2>3, Zenon DEF ProductStatus
<1>2. ASSUME p.required, p.checks, ReleaseBlockers(p) # {}
      PROVE  ProductStatus(p) = Row("BLOCK", "release_blocker")
  <2>1. ProductCheck(p, FALSE) = [rc |-> 0, says |-> "release blockers remain"]
    BY <1>2 DEF ProductCheck
  <2>2. [rc |-> 0, says |-> "release blockers remain"].says = "release blockers remain"
    OBVIOUS
  <2> QED BY <2>1, <2>2, Zenon DEF ProductStatus
<1> QED BY <1>1, <1>2 DEF Row

LEMMA StatusSuffices == StatusInv => EvidenceBehindPass
<1> SUFFICES ASSUME StatusInv, pipe.verdict = "pass"
             PROVE  EvidenceBehindPass
  BY DEF EvidenceBehindPass, SeenFrom
<1>1. \A i \in 1 .. 10 : pipe.last <= i => Accepted(Readings[i], files, pipe.opt)
  BY DEF StatusInv, AcceptedSince, PassIsAtTheEnd
<1>2. DOMAIN Readings = 1 .. 11 /\ pipe.last \in 0 .. 11
  BY DEF Readings, StatusInv, StatusTypeOK
<1>3. /\ SeenFrom("manifests") => pipe.last <= 2
      /\ SeenFrom("dry run") => pipe.last <= 5
      /\ SeenFrom("table") => pipe.last <= 7
      /\ SeenFrom("dashboard") => pipe.last <= 8
  <2>1. {2, 5, 7, 8} \subseteq DOMAIN Readings
    BY <1>2
  <2> QED BY <2>1, ReadingsAre DEF SeenFrom
<1>4. ASSUME pipe.last <= 8
      PROVE  /\ DashboardOk(files) /\ StatusSemanticsOk(files)
             /\ \A r \in Rows : Collect(files)[r].status # "FAIL"
  <2>1. DashboardOk(files) /\ StatusSemanticsOk(files)
    <3>1. Accepted(Readings[8], files, pipe.opt) /\ Accepted(Readings[10], files, pipe.opt)
      BY <1>1, <1>2, <1>4
    <3> QED BY <3>1, ReadingsAre, AcceptedIs
  <2> QED BY <2>1, NoRowFails DEF StatusSemanticsOk
<1>5. ASSUME pipe.last <= 2
      PROVE  /\ files["cocotb"].result = "passing"
             /\ pipe.opt.strict => \A t \in FormalTargets :
                   files["formal"].manifest.entries[t].class # "blocked_requires_sby"
  <2>1. Accepted(Readings[2], files, pipe.opt)
    BY <1>1, <1>5
  <2>2. CocotbManifestOk(files["cocotb"]) /\ FormalManifestOk(files["formal"], pipe.opt.strict)
    BY <2>1, ReadingsAre, AcceptedIs
  <2>3. Collect(files)["cocotb"].status # "FAIL"
    BY <1>2, <1>4, <1>5, RowsOf
  <2>4. files["cocotb"].result # "failing"
    BY <2>2, <2>3, RowsOf, FailingRows DEF CocotbManifestOk
  <2>5. files["cocotb"].result \in CocotbResults /\ files["cocotb"].result # "none"
    BY <2>2 DEF StatusInv, StatusTypeOK, CocotbManifestOk
  <2>6. pipe.opt.strict => \A t \in FormalTargets :
             files["formal"].manifest.entries[t].class # "blocked_requires_sby"
    BY <2>2 DEF FormalManifestOk
  <2> QED BY <2>4, <2>5, <2>6 DEF CocotbResults
<1>6. ASSUME pipe.last <= 5
      PROVE  "passed" \notin files["benchmarks"].pipeline.statuses
  <2>1. Accepted(Readings[9], files, pipe.opt)
    BY <1>1, <1>2, <1>6
  <2> QED BY <2>1, ReadingsAre, AcceptedIs DEF BenchmarkReportOk
<1>7. ASSUME pipe.last <= 7
      PROVE  /\ \A t \in FormalTargets : files["formal"].sby[t] # "FAIL"
             /\ files["cocotb"].result = "failing" => files["cocotb"].manifest = "partial"
             /\ files["renode"].file \notin {"FAIL", "invalid"}
             /\ files["qemu"].run.rc # 1 /\ files["npu"].rc # 1
             /\ files["product"].required /\ files["product"].checks
             /\ files["dashboard"].rows["product"].status = "PASS" => ReleaseBlockers(files["product"]) = {}
  <2>1. /\ CocotbRow(files["cocotb"]).status # "FAIL" /\ FormalStatus(files["formal"]).status # "FAIL"
        /\ QemuStatus(files["qemu"]).status # "FAIL" /\ RenodeStatus(files["renode"]).status # "FAIL"
        /\ StatusCheck(files["npu"]).status # "FAIL" /\ ProductStatus(files["product"]).status # "FAIL"
    BY <1>2, <1>4, <1>7, RowsOf
  <2>2. files["dashboard"].rows["product"] = ProductStatus(files["product"])
    BY <1>2, <1>4, <1>7, RowsOf DEF DashboardOk
  <2> QED BY <2>1, <2>2, FailingRows, ProductRows, Zenon
<1>8. ASSUME pipe.last <= 8
      PROVE  \A r \in Rows : files["dashboard"].rows[r].status # "FAIL"
  BY <1>4, <1>8 DEF DashboardOk
<1> QED BY <1>3, <1>5, <1>6, <1>7, <1>8, Zenon DEF EvidenceBehindPass

\* What a pipeline that passes rests on, however often the evidence is regenerated
\* between its readings.
THEOREM PassHasEvidence == StatusSpec => []EvidenceBehindPass
<1>1. StatusInit => StatusInv
  BY StatusStarts
<1>2. StatusInv /\ [StatusNext]_statusVars => StatusInv'
  BY StatusStep
<1>3. StatusInv => EvidenceBehindPass
  BY StatusSuffices
<1> QED BY <1>1, <1>2, <1>3, PTL DEF StatusSpec

-----------------------------------------------------------------------------
\* ------------------------------------------------------------- BspEvidence

LogStates == Contents \cup {NoEvidence, CutShort}
Intakes == [pc : {"idle", "validate", "install"}, at : 1 .. Len(AospOrder),
            failed : BOOLEAN, clean : BOOLEAN]
Captures == [pc : {"idle", "begin", "end", "check", "report"}, at : 1 .. Len(AospOrder),
             full : BOOLEAN, failed : BOOLEAN, clean : BOOLEAN]

BspTypeOK ==
    /\ installed \in [AllLogs -> LogStates]
    /\ source \in [BspLogs["aosp"] -> Contents \cup {NoEvidence}]
    /\ intake \in Intakes /\ capture \in Captures
    /\ stands \in [intake : BOOLEAN, report : BOOLEAN]

Good(written) == LogTests \subseteq written
\* The first n logs of a place are as the log manifest asks.
GoodUpTo(place, n) == \A j \in 1 .. n : Good(place[AospOrder[j]])

\* As long as nobody else writes: an intake that has found no fault has validated
\* what it has come past, and installs that; a capture that has not failed has
\* checked what its report says.
ValidatedSoFar ==
    intake.clean =>
        /\ intake.pc = "validate" /\ ~intake.failed => GoodUpTo(source, intake.at - 1)
        /\ intake.pc = "install" => GoodUpTo(source, Len(AospOrder)) /\ GoodUpTo(installed, intake.at - 1)
CheckedBefore ==
    capture.pc = "report" /\ capture.clean /\ capture.full /\ ~capture.failed =>
        PlainBspCode({"aosp"}, TRUE) = 0
IntakeStands == stands.intake => GoodUpTo(installed, Len(AospOrder))
ReportStands == stands.report /\ bootReport = "pass" => PlainBspCode({"aosp"}, TRUE) = 0

BspInv == BspTypeOK /\ ValidatedSoFar /\ CheckedBefore /\ IntakeStands /\ ReportStands

\* The logs of the capture's order are those of target aosp.
LEMMA AospLogs ==
    /\ Len(AospOrder) \in Nat \ {0}
    /\ \A j \in 1 .. Len(AospOrder) : AospOrder[j] \in BspLogs["aosp"]
    /\ \A p \in BspLogs["aosp"] : \E j \in 1 .. Len(AospOrder) : p = AospOrder[j]
    /\ BspLogs["aosp"] \subseteq AllLogs
<1>1. AospOrder \in Seq(BspLogs["aosp"]) /\ AospOrder # <<>>
      /\ {AospOrder[i] : i \in DOMAIN AospOrder} = BspLogs["aosp"] /\ "aosp" \in DOMAIN BspLogs
  BY BspAssumption DEF BspAssumption
<1>2. DOMAIN AospOrder = 1 .. Len(AospOrder) /\ Len(AospOrder) \in Nat
  BY <1>1
<1> QED BY <1>1, <1>2 DEF AllLogs

LEMMA GoodIsEvidence == \A written : Good(written) => written # NoEvidence
BY DEF Good, LogTests, NoEvidence

\* When all logs of the order are good, none is missing and none is a problem.
LEMMA GoodLogsSuffice ==
    ASSUME GoodUpTo(installed, Len(AospOrder))
    PROVE  LogProblems("aosp") = {} /\ MissingEvidence("aosp") = {}
<1>1. \A p \in BspLogs["aosp"] : Good(installed[p])
  BY AospLogs DEF GoodUpTo
<1> QED BY <1>1, GoodIsEvidence DEF LogProblems, MissingEvidence, Present, Good

\* What the plain check passes every gate passes.
LEMMA PlainIsStrictest ==
    ASSUME NEW targets, PlainBspCode(targets, TRUE) = 0
    PROVE  \A t \in targets : /\ BspErrors(t) = {} /\ MissingEvidence(t) = {}
                              /\ InvalidEvidence(t) = {} /\ LogProblems(t) = {}
BY DEF PlainBspCode, BspBlocked

LEMMA PlainPassesAll ==
    ASSUME PlainBspCode({"aosp"}, TRUE) = 0, bootReport = "pass"
    PROVE  BspReleaseGate({"aosp"}) = "PASS" /\ BootCheckCode = 0
<1>1. BspErrors("aosp") = {} /\ MissingEvidence("aosp") = {} /\ InvalidEvidence("aosp") = {}
  BY PlainIsStrictest
<1>2. BspReleaseGate({"aosp"}) = "PASS"
  BY <1>1 DEF BspReleaseGate
<1>3. "log_specs" \notin ScaffoldParts \ scaffold
  BY <1>1 DEF BspErrors, SharedParts
<1>4. EvidenceStatus("aosp") = "PASS"
  BY <1>1 DEF EvidenceStatus
<1> QED BY <1>2, <1>3, <1>4 DEF BootCheckCode, BootReportErrors

LEMMA BspSuffices == BspInv => SuccessStands
BY GoodLogsSuffice, PlainPassesAll DEF BspInv, IntakeStands, ReportStands, SuccessStands

LEMMA BspGatesDoAgree == BspGatesAgree
<1> SUFFICES ASSUME NEW targets \in {{t} : t \in DOMAIN BspLogs} \cup {DOMAIN BspLogs}
             PROVE  /\ PlainBspCode(targets, TRUE) = 0 => JsonBspCode(targets, TRUE) = 0
                    /\ (BspReleaseGate(targets) = "PASS") = (JsonBspCode(targets, TRUE) = 0)
                    /\ (BspReleaseGate(targets) = "PASS") = (\A t \in targets : StatusSubcommand(t) = 0)
                    /\ targets = {"aosp"} /\ BootCheckCode = 0 => JsonBspCode(targets, TRUE) = 0
  BY DEF BspGatesAgree
<1> DEFINE AllWhole == \A t \in targets : BspErrors(t) = {} /\ MissingEvidence(t) = {} /\ InvalidEvidence(t) = {}
<1>1. (JsonBspCode(targets, TRUE) = 0) <=> AllWhole
  BY DEF JsonBspCode
<1>2. (BspReleaseGate(targets) = "PASS") <=> AllWhole
  BY DEF BspReleaseGate
<1>3. \A t : StatusSubcommand(t) = 0
             <=> BspErrors(t) = {} /\ MissingEvidence(t) = {} /\ InvalidEvidence(t) = {}
  BY DEF StatusSubcommand, EvidenceStatus
<1>4. PlainBspCode(targets, TRUE) = 0 => AllWhole
  BY PlainIsStrictest
<1>5. targets = {"aosp"} /\ BootCheckCode = 0 => AllWhole
  BY DEF BootCheckCode, BootReportErrors, EvidenceStatus
<1> HIDE DEF AllWhole
<1>6. (\A t \in targets : StatusSubcommand(t) = 0) <=> AllWhole
  BY <1>3 DEF AllWhole
<1> QED BY <1>1, <1>2, <1>4, <1>5, <1>6

LEMMA BspStarts == BspInit => BspInv
<1> SUFFICES ASSUME BspInit
             PROVE  BspInv
  OBVIOUS
<1>1. intake.pc = "idle" /\ capture.pc = "idle" /\ ~stands.intake /\ ~stands.report
  BY DEF BspInit, IdleIntake, IdleCapture
<1>2. intake \in Intakes /\ capture \in Captures
  BY AospLogs DEF BspInit, IdleIntake, IdleCapture, Intakes, Captures
<1>3. BspTypeOK
  BY <1>2, BspAssumption DEF BspInit, BspTypeOK, LogStates, BspAssumption
<1> QED BY <1>1, <1>3 DEF BspInv, ValidatedSoFar, CheckedBefore, IntakeStands, ReportStands

\* An intake and a capture stay of their kinds when a part of them changes.
LEMMA IntakeParts ==
    ASSUME NEW x \in Intakes
    PROVE  /\ IdleIntake \in Intakes
           /\ \A b \in BOOLEAN : [x EXCEPT !.clean = b] \in Intakes
           /\ \A b \in BOOLEAN : x.at # Len(AospOrder) => [x EXCEPT !.at = @ + 1, !.failed = b] \in Intakes
           /\ x.at # Len(AospOrder) => [x EXCEPT !.at = @ + 1] \in Intakes
           /\ [x EXCEPT !.pc = "install", !.at = 1] \in Intakes
           /\ [IdleIntake EXCEPT !.pc = "validate"] \in Intakes
<1>1. Len(AospOrder) \in Nat \ {0} /\ 1 \in 1 .. Len(AospOrder)
  BY AospLogs
<1>2. IdleIntake \in Intakes /\ [IdleIntake EXCEPT !.pc = "validate"] \in Intakes
  <2>1. IdleIntake \in Intakes
    BY <1>1 DEF IdleIntake, Intakes
  <2>2. [IdleIntake EXCEPT !.pc = "validate"] \in Intakes
    <3> HIDE DEF IdleIntake
    <3> QED BY <2>1 DEF Intakes
  <2> QED BY <2>1, <2>2
<1>3. \A b \in BOOLEAN : [x EXCEPT !.clean = b] \in Intakes
  BY DEF Intakes
<1>4. x.at # Len(AospOrder) => x.at + 1 \in 1 .. Len(AospOrder)
  BY <1>1 DEF Intakes
<1>5. ASSUME NEW b \in BOOLEAN, x.at # Len(AospOrder)
      PROVE  [x EXCEPT !.at = @ + 1, !.failed = b] \in Intakes
  BY <1>4, <1>5 DEF Intakes
<1>6. x.at # Len(AospOrder) => [x EXCEPT !.at = @ + 1] \in Intakes
  BY <1>4 DEF Intakes
<1>7. [x EXCEPT !.pc = "install", !.at = 1] \in Intakes
  BY <1>1 DEF Intakes
<1> QED BY <1>2, <1>3, <1>5, <1>6, <1>7

LEMMA CaptureParts ==
    ASSUME NEW x \in Captures
    PROVE  /\ IdleCapture \in Captures
           /\ \A b \in BOOLEAN : [x EXCEPT !.clean = b] \in Captures
           /\ \A b \in BOOLEAN : [IdleCapture EXCEPT !.pc = "begin", !.full = b] \in Captures
           /\ [x EXCEPT !.pc = "end"] \in Captures
           /\ [x EXCEPT !.pc = "report"] \in Captures
           /\ \A b \in BOOLEAN : [x EXCEPT !.pc = "report", !.failed = b] \in Captures
<1>1. Len(AospOrder) \in Nat \ {0} /\ 1 \in 1 .. Len(AospOrder)
  BY AospLogs
<1>2. IdleCapture \in Captures /\ \A b \in BOOLEAN : [IdleCapture EXCEPT !.pc = "begin", !.full = b] \in Captures
  <2>1. IdleCapture \in Captures
    BY <1>1 DEF IdleCapture, Captures
  <2>2. ASSUME NEW b \in BOOLEAN
        PROVE  [IdleCapture EXCEPT !.pc = "begin", !.full = b] \in Captures
    <3> HIDE DEF IdleCapture
    <3> QED BY <2>1 DEF Captures
  <2> QED BY <2>1, <2>2
<1> QED BY <1>2 DEF Captures

\* Whoever writes a log or the scaffold leaves both programs of their kinds, and
\* not clean when they run.
LEMMA Disturbed ==
    ASSUME BspTypeOK
    PROVE  /\ DisturbIntake =>
                /\ intake' \in Intakes /\ intake'.pc = intake.pc
                /\ intake'.pc # "idle" => ~intake'.clean
           /\ DisturbCapture =>
                /\ capture' \in Captures /\ capture'.pc = capture.pc
                /\ capture'.pc # "idle" => ~capture'.clean
<1>1. intake \in Intakes /\ capture \in Captures
  BY DEF BspTypeOK
<1>2. ASSUME DisturbIntake
      PROVE  /\ intake' \in Intakes /\ intake'.pc = intake.pc
             /\ intake'.pc # "idle" => ~intake'.clean
  <2>1. PICK b \in BOOLEAN : b = (intake.pc = "idle") /\ intake' = [intake EXCEPT !.clean = b]
    BY <1>2 DEF DisturbIntake
  <2>2. intake' \in Intakes
    BY <1>1, <2>1, IntakeParts
  <2>3. intake'.pc = intake.pc /\ intake'.clean = b
    BY <1>1, <2>1 DEF Intakes
  <2> QED BY <2>1, <2>2, <2>3
<1>3. ASSUME DisturbCapture
      PROVE  /\ capture' \in Captures /\ capture'.pc = capture.pc
             /\ capture'.pc # "idle" => ~capture'.clean
  <2>1. PICK b \in BOOLEAN : b = (capture.pc = "idle") /\ capture' = [capture EXCEPT !.clean = b]
    BY <1>3 DEF DisturbCapture
  <2>2. capture' \in Captures
    BY <1>1, <2>1, CaptureParts
  <2>3. capture'.pc = capture.pc /\ capture'.clean = b
    BY <1>1, <2>1 DEF Captures
  <2> QED BY <2>1, <2>2, <2>3
<1> QED BY <1>2, <1>3

\* A verdict of the plain check stands while neither logs nor scaffold change.
LEMMA PlainKept ==
    ASSUME installed' = installed, scaffold' = scaffold
    PROVE  PlainBspCode({"aosp"}, TRUE)' = PlainBspCode({"aosp"}, TRUE)
<1>1. \A t : BspErrors(t)' = BspErrors(t) /\ BspBlocked(t)' = BspBlocked(t)
  BY DEF BspErrors, BspBlocked, LogProblems, InvalidEvidence, MissingEvidence, Present
<1> QED BY <1>1 DEF PlainBspCode

\* The steps of an intake ...
LEMMA IntakeKeeps ==
    ASSUME BspInv, StartInstall \/ ValidateSource \/ InstallLog \/ IntakeKilled
    PROVE  BspInv'
<1>0. /\ installed \in [AllLogs -> LogStates] /\ source \in [BspLogs["aosp"] -> Contents \cup {NoEvidence}]
      /\ intake \in Intakes /\ capture \in Captures /\ stands \in [intake : BOOLEAN, report : BOOLEAN]
      /\ BspTypeOK
  BY DEF BspInv, BspTypeOK
<1>1. Len(AospOrder) \in Nat \ {0} /\ intake.at \in 1 .. Len(AospOrder) /\ IdleIntake \in Intakes
      /\ IdleIntake.pc = "idle" /\ AospOrder[intake.at] \in BspLogs["aosp"]
  BY <1>0, AospLogs, IntakeParts DEF Intakes, IdleIntake
<1>2. CASE StartInstall
  <2>1. intake' = [IdleIntake EXCEPT !.pc = "validate"]
        /\ UNCHANGED <<installed, source, scaffold, capture, bootReport, stands>>
    BY <1>2 DEF StartInstall
  <2>2. intake' \in Intakes
    BY <1>0, <2>1, IntakeParts
  <2>3. intake'.pc = "validate" /\ intake'.at = 1
    BY <2>1 DEF IdleIntake
  <2>4. ValidatedSoFar'
    BY <2>3 DEF ValidatedSoFar, GoodUpTo
  <2> QED BY <2>1, <2>2, <2>4, PlainKept
          DEF BspInv, BspTypeOK, CheckedBefore, IntakeStands, ReportStands, GoodUpTo
<1>3. CASE ValidateSource
  <2>1. intake.pc = "validate" /\ UNCHANGED <<installed, source, scaffold, capture, bootReport, stands>>
    BY <1>3 DEF ValidateSource
  <2>2. PICK bad \in BOOLEAN :
          /\ bad = ~Good(source[AospOrder[intake.at]])
          /\ intake' = IF intake.at # Len(AospOrder) THEN [intake EXCEPT !.at = @ + 1, !.failed = @ \/ bad]
                       ELSE IF intake.failed \/ bad THEN IdleIntake
                       ELSE [intake EXCEPT !.pc = "install", !.at = 1]
    BY <1>3, Zenon DEF ValidateSource, Good
  <2>3. CASE intake.at # Len(AospOrder)
    <3>1. PICK b \in BOOLEAN : b = (intake.failed \/ bad) /\ intake' = [intake EXCEPT !.at = @ + 1, !.failed = b]
      BY <1>0, <2>2, <2>3 DEF Intakes
    <3>2. intake' \in Intakes
      BY <1>0, <2>3, <3>1, IntakeParts
    <3>3. /\ intake'.pc = "validate" /\ intake'.at = intake.at + 1 /\ intake'.failed = b
          /\ intake'.clean = intake.clean
      BY <1>0, <2>1, <3>1 DEF Intakes
    <3>4. ValidatedSoFar'
      <4> SUFFICES ASSUME intake.clean, ~intake.failed, ~bad, NEW j \in 1 .. intake.at
                   PROVE  Good(source[AospOrder[j]])
        <5>1. intake'.at - 1 = intake.at
          BY <1>1, <3>3
        <5>2. ValidatedSoFar' <=> (intake.clean /\ ~b => GoodUpTo(source, intake.at))
          BY <2>1, <3>3, <5>1 DEF ValidatedSoFar, GoodUpTo
        <5> QED BY <3>1, <5>2 DEF GoodUpTo
      <4>1. CASE j = intake.at
        BY <2>2, <4>1
      <4>2. CASE j # intake.at
        <5>1. j \in 1 .. intake.at - 1
          BY <1>1, <4>2
        <5> QED BY <2>1, <5>1 DEF BspInv, ValidatedSoFar, GoodUpTo
      <4> QED BY <4>1, <4>2
    <3> QED BY <2>1, <3>2, <3>4, PlainKept
            DEF BspInv, BspTypeOK, CheckedBefore, IntakeStands, ReportStands, GoodUpTo
  <2>4. CASE intake.at = Len(AospOrder) /\ (intake.failed \/ bad)
    <3>1. intake' = IdleIntake
      BY <2>2, <2>4
    <3> QED BY <1>1, <2>1, <3>1, PlainKept
            DEF BspInv, BspTypeOK, ValidatedSoFar, CheckedBefore, IntakeStands, ReportStands, GoodUpTo
  <2>5. CASE intake.at = Len(AospOrder) /\ ~(intake.failed \/ bad)
    <3>1. intake' = [intake EXCEPT !.pc = "install", !.at = 1]
      BY <2>2, <2>5
    <3>2. intake' \in Intakes
      BY <1>0, <3>1, IntakeParts
    <3>3. intake'.pc = "install" /\ intake'.at = 1 /\ intake'.clean = intake.clean
      BY <1>0, <3>1 DEF Intakes
    <3>4. intake.clean => GoodUpTo(source, Len(AospOrder))
      <4> SUFFICES ASSUME intake.clean, NEW j \in 1 .. Len(AospOrder)
                   PROVE  Good(source[AospOrder[j]])
        BY DEF GoodUpTo
      <4>1. CASE j = intake.at
        BY <2>2, <2>5, <4>1
      <4>2. CASE j # intake.at
        <5>1. j \in 1 .. intake.at - 1
          BY <1>1, <2>5, <4>2
        <5> QED BY <2>1, <2>5, <5>1 DEF BspInv, ValidatedSoFar, GoodUpTo
      <4> QED BY <4>1, <4>2
    <3>5. ValidatedSoFar'
      BY <2>1, <3>3, <3>4 DEF ValidatedSoFar, GoodUpTo
    <3> QED BY <2>1, <3>2, <3>5, PlainKept
            DEF BspInv, BspTypeOK, CheckedBefore, IntakeStands, ReportStands, GoodUpTo
  <2> QED BY <2>2, <2>3, <2>4, <2>5
<1>4. CASE InstallLog
  <2> DEFINE p == AospOrder[intake.at]
  <2>1. /\ intake.pc = "install" /\ UNCHANGED <<source, scaffold, bootReport>>
        /\ IF source[p] = NoEvidence
           THEN intake' = IdleIntake /\ UNCHANGED <<installed, capture, stands>>
           ELSE /\ installed' = [installed EXCEPT ![p] = source[p]]
                /\ DisturbCapture
                /\ IF intake.at = Len(AospOrder)
                   THEN /\ intake' = IdleIntake
                        /\ stands' = [intake |-> intake.clean, report |-> FALSE]
                   ELSE /\ intake' = [intake EXCEPT !.at = @ + 1]
                        /\ stands' = [intake |-> FALSE, report |-> FALSE]
    BY <1>4 DEF InstallLog
  <2>2. CASE source[p] = NoEvidence
    <3>1. intake' = IdleIntake /\ UNCHANGED <<installed, capture, stands>>
      BY <2>1, <2>2
    <3> QED BY <1>1, <2>1, <3>1, PlainKept
            DEF BspInv, BspTypeOK, ValidatedSoFar, CheckedBefore, IntakeStands, ReportStands, GoodUpTo
  <2>3. CASE source[p] # NoEvidence
    <3>1. p \in AllLogs /\ source[p] \in LogStates
      BY <1>0, <1>1, AospLogs DEF LogStates
    <3>2. installed' = [installed EXCEPT ![p] = source[p]] /\ installed' \in [AllLogs -> LogStates]
      BY <1>0, <2>1, <2>3, <3>1
    <3>3. capture' \in Captures /\ (capture'.pc # "idle" => ~capture'.clean)
      BY <1>0, <2>1, <2>3, Disturbed
    <3>4. ~stands'.report /\ stands' \in [intake : BOOLEAN, report : BOOLEAN]
      <4>1. intake.clean \in BOOLEAN
        BY <1>0 DEF Intakes
      <4>2. \E b \in BOOLEAN : stands' = [intake |-> b, report |-> FALSE]
        BY <2>1, <2>3, <4>1
      <4> QED BY <4>2
    <3>5. ASSUME intake.clean
          PROVE  GoodUpTo(installed', intake.at)
      <4> SUFFICES ASSUME NEW j \in 1 .. intake.at
                   PROVE  Good(installed'[AospOrder[j]])
        BY DEF GoodUpTo
      <4>1. AospOrder[j] \in AllLogs
        BY <1>1, AospLogs
      <4>2. CASE AospOrder[j] = p
        BY <1>0, <1>1, <2>1, <3>1, <3>2, <3>5, <4>2 DEF BspInv, ValidatedSoFar, GoodUpTo
      <4>3. CASE AospOrder[j] # p
        <5>1. j \in 1 .. intake.at - 1
          BY <1>1, <4>3
        <5>2. Good(installed[AospOrder[j]])
          BY <2>1, <3>5, <5>1 DEF BspInv, ValidatedSoFar, GoodUpTo
        <5> QED BY <1>0, <3>2, <4>1, <4>3, <5>2
      <4> QED BY <4>2, <4>3
    <3>6. CASE intake.at = Len(AospOrder)
      <4>1. intake' = IdleIntake /\ stands' = [intake |-> intake.clean, report |-> FALSE]
        BY <2>1, <2>3, <3>6
      <4>2. IntakeStands'
        BY <3>5, <3>6, <4>1 DEF IntakeStands
      <4> QED BY <1>0, <1>1, <2>1, <3>2, <3>3, <3>4, <4>1, <4>2
              DEF BspInv, BspTypeOK, ValidatedSoFar, CheckedBefore, ReportStands
    <3>7. CASE intake.at # Len(AospOrder)
      <4>1. intake' = [intake EXCEPT !.at = @ + 1] /\ ~stands'.intake
        BY <2>1, <2>3, <3>7
      <4>2. intake' \in Intakes
        BY <1>0, <3>7, <4>1, IntakeParts
      <4>3. intake'.pc = "install" /\ intake'.at = intake.at + 1 /\ intake'.clean = intake.clean
        BY <1>0, <2>1, <4>1 DEF Intakes
      <4>4. ValidatedSoFar'
        <5>1. intake.clean => GoodUpTo(source, Len(AospOrder))
          BY <2>1 DEF BspInv, ValidatedSoFar
        <5>2. intake'.at - 1 = intake.at
          BY <1>1, <4>3
        <5> QED BY <2>1, <3>5, <4>3, <5>1, <5>2 DEF ValidatedSoFar
      <4> QED BY <1>0, <2>1, <3>2, <3>3, <3>4, <4>1, <4>2, <4>4
              DEF BspInv, BspTypeOK, CheckedBefore, IntakeStands, ReportStands
    <3> QED BY <3>6, <3>7
  <2> QED BY <2>2, <2>3
<1>5. CASE IntakeKilled
  <2>1. intake' = IdleIntake /\ UNCHANGED <<source, scaffold, bootReport>>
    BY <1>5 DEF IntakeKilled
  <2>2. CASE UNCHANGED <<installed, capture, stands>>
    BY <1>1, <2>1, <2>2, PlainKept
       DEF BspInv, BspTypeOK, ValidatedSoFar, CheckedBefore, IntakeStands, ReportStands, GoodUpTo
  <2>3. CASE /\ intake.pc = "install"
             /\ installed' = [installed EXCEPT ![AospOrder[intake.at]] = CutShort]
             /\ DisturbCapture
             /\ stands' = [intake |-> FALSE, report |-> FALSE]
    <3>1. installed' \in [AllLogs -> LogStates]
      BY <1>0, <2>3 DEF LogStates
    <3>2. capture' \in Captures /\ (capture'.pc # "idle" => ~capture'.clean)
      BY <1>0, <2>3, Disturbed
    <3>3. ~stands'.intake /\ ~stands'.report /\ stands' \in [intake : BOOLEAN, report : BOOLEAN]
      BY <2>3
    <3> QED BY <1>0, <1>1, <2>1, <3>1, <3>2, <3>3
            DEF BspInv, BspTypeOK, ValidatedSoFar, CheckedBefore, IntakeStands, ReportStands
  <2> QED BY <1>5, <2>2, <2>3 DEF IntakeKilled
<1> QED BY <1>2, <1>3, <1>4, <1>5

\* ... of a capture ...
LEMMA CaptureKeeps ==
    ASSUME BspInv, BootBlocked \/ StartCapture \/ BeginStage \/ EndStage \/ CheckCapture
                     \/ ReportCapture \/ CaptureKilled
    PROVE  BspInv'
<1>0. /\ installed \in [AllLogs -> LogStates] /\ source \in [BspLogs["aosp"] -> Contents \cup {NoEvidence}]
      /\ intake \in Intakes /\ capture \in Captures /\ stands \in [intake : BOOLEAN, report : BOOLEAN]
      /\ BspTypeOK
  BY DEF BspInv, BspTypeOK
<1>1. Len(AospOrder) \in Nat \ {0} /\ capture.at \in 1 .. Len(AospOrder) /\ IdleCapture \in Captures
      /\ IdleCapture.pc = "idle"
  BY <1>0, AospLogs, CaptureParts DEF Captures, IdleCapture
<1>2. CASE BootBlocked
  <2>1. /\ bootReport' = "blocked" /\ stands' = [stands EXCEPT !.report = FALSE]
        /\ UNCHANGED <<installed, source, scaffold, intake, capture>>
    BY <1>2 DEF BootBlocked
  <2>2. stands'.intake = stands.intake /\ stands' \in [intake : BOOLEAN, report : BOOLEAN]
    BY <1>0, <2>1
  <2> QED BY <2>1, <2>2, PlainKept
          DEF BspInv, BspTypeOK, ValidatedSoFar, CheckedBefore, IntakeStands, ReportStands, GoodUpTo
<1>3. CASE StartCapture
  <2>1. PICK full \in BOOLEAN : capture' = [IdleCapture EXCEPT !.pc = "begin", !.full = full]
    BY <1>3 DEF StartCapture
  <2>2. UNCHANGED <<installed, source, scaffold, intake, bootReport, stands>>
    BY <1>3 DEF StartCapture
  <2>3. capture' \in Captures
    BY <1>0, <2>1, CaptureParts
  <2>4. capture'.pc = "begin"
    BY <2>1 DEF IdleCapture
  <2> QED BY <2>2, <2>3, <2>4, PlainKept
          DEF BspInv, BspTypeOK, ValidatedSoFar, CheckedBefore, IntakeStands, ReportStands, GoodUpTo
<1>4. ASSUME UNCHANGED <<source, scaffold, bootReport>>, NEW c \in LogStates,
             installed' = [installed EXCEPT ![AospOrder[capture.at]] = c],
             capture' \in Captures, capture'.pc # "report",
             DisturbIntake, stands' = [intake |-> FALSE, report |-> FALSE]
      PROVE  BspInv'
  <2>1. installed' \in [AllLogs -> LogStates]
    BY <1>0, <1>4
  <2>2. intake' \in Intakes /\ (intake'.pc # "idle" => ~intake'.clean)
    BY <1>0, <1>4, Disturbed
  <2>3. ~stands'.intake /\ ~stands'.report /\ stands' \in [intake : BOOLEAN, report : BOOLEAN]
    BY <1>4
  <2> QED BY <1>0, <1>4, <2>1, <2>2, <2>3
          DEF BspInv, BspTypeOK, ValidatedSoFar, CheckedBefore, IntakeStands, ReportStands
<1>5. CASE BeginStage
  <2>1. capture' = [capture EXCEPT !.pc = "end"]
    BY <1>5 DEF BeginStage
  <2>2. capture' \in Captures /\ capture'.pc # "report"
    <3>1. capture' \in Captures
      BY <1>0, <2>1, CaptureParts
    <3> QED BY <1>0, <2>1, <3>1 DEF Captures
  <2>3. CutShort \in LogStates
    BY DEF LogStates
  <2> QED BY <1>4, <1>5, <2>2, <2>3 DEF BeginStage
<1>6. CASE EndStage
  <2>1. PICK c \in Contents :
         /\ installed' = [installed EXCEPT ![AospOrder[capture.at]] = c]
         /\ capture' = [capture EXCEPT !.failed = @ \/ "status" \notin c,
                          !.at = IF @ < Stages THEN @ + 1 ELSE @,
                          !.pc = IF capture.at < Stages THEN "begin" ELSE "check"]
    BY <1>6 DEF EndStage
  <2>2. Stages \in 0 .. Len(AospOrder)
    BY <1>1, BspAssumption DEF Stages, BspAssumption
  <2>3. /\ (capture.failed \/ "status" \notin c) \in BOOLEAN
        /\ (IF capture.at < Stages THEN capture.at + 1 ELSE capture.at) \in 1 .. Len(AospOrder)
        /\ (IF capture.at < Stages THEN "begin" ELSE "check") \in {"begin", "check"}
    BY <1>1, <2>2
  <2>4. \E f \in BOOLEAN, n \in 1 .. Len(AospOrder), pc \in {"begin", "check"} :
           capture' = [capture EXCEPT !.failed = f, !.at = n, !.pc = pc]
    BY <2>1, <2>3, Zenon
  <2>5. capture' \in Captures /\ capture'.pc # "report"
    BY <1>0, <2>4 DEF Captures
  <2>6. c \in LogStates
    BY DEF LogStates
  <2> QED BY <1>4, <1>6, <2>1, <2>5, <2>6 DEF EndStage
<1>7. CASE CheckCapture
  <2>1. /\ capture.pc = "check" /\ UNCHANGED <<installed, source, scaffold, intake, bootReport, stands>>
        /\ \/ capture.full
              /\ capture' = [capture EXCEPT !.pc = "report", !.failed = @ \/ PlainBspCode({"aosp"}, TRUE) # 0]
           \/ ~capture.full /\ capture' = [capture EXCEPT !.pc = "report"]
           \/ capture' = IdleCapture
    BY <1>7 DEF CheckCapture
  <2>2. capture' \in Captures
        /\ (capture'.pc = "report" /\ capture'.full /\ ~capture'.failed => PlainBspCode({"aosp"}, TRUE) = 0)
    <3>1. CASE /\ capture.full
               /\ capture' = [capture EXCEPT !.pc = "report", !.failed = @ \/ PlainBspCode({"aosp"}, TRUE) # 0]
      <4>1. PICK b \in BOOLEAN : b = (capture.failed \/ PlainBspCode({"aosp"}, TRUE) # 0)
        OBVIOUS
      <4>2. capture' = [capture EXCEPT !.pc = "report", !.failed = b]
        BY <3>1, <4>1, Zenon
      <4>3. capture' \in Captures
        BY <1>0, <4>2, CaptureParts
      <4>4. capture'.failed = b
        BY <1>0, <4>2 DEF Captures
      <4> QED BY <4>1, <4>3, <4>4
    <3>2. CASE ~capture.full /\ capture' = [capture EXCEPT !.pc = "report"]
      <4>1. capture' \in Captures
        BY <1>0, <3>2, CaptureParts
      <4>2. capture'.full = capture.full
        BY <1>0, <3>2 DEF Captures
      <4> QED BY <3>2, <4>1, <4>2
    <3>3. CASE capture' = IdleCapture
      BY <1>1, <3>3
    <3> QED BY <2>1, <3>1, <3>2, <3>3
  <2> QED BY <2>1, <2>2, PlainKept
          DEF BspInv, BspTypeOK, ValidatedSoFar, CheckedBefore, IntakeStands, ReportStands, GoodUpTo
<1>8. CASE ReportCapture
  <2>1. /\ capture.pc = "report" /\ capture' = IdleCapture
        /\ bootReport' = IF ~capture.full THEN "blocked"
                         ELSE IF capture.failed THEN "failed" ELSE "pass"
        /\ stands' = [stands EXCEPT !.report = capture.clean]
        /\ UNCHANGED <<installed, source, scaffold, intake>>
    BY <1>8 DEF ReportCapture
  <2>2. /\ stands'.intake = stands.intake /\ stands'.report = capture.clean
        /\ stands' \in [intake : BOOLEAN, report : BOOLEAN]
    BY <1>0, <2>1 DEF Captures
  <2>3. ReportStands'
    BY <2>1, <2>2, PlainKept DEF BspInv, CheckedBefore, ReportStands
  <2> QED BY <1>1, <2>1, <2>2, <2>3
          DEF BspInv, BspTypeOK, ValidatedSoFar, CheckedBefore, IntakeStands, GoodUpTo
<1>9. CASE CaptureKilled
  BY <1>1, <1>9, PlainKept
  DEF CaptureKilled, BspInv, BspTypeOK, ValidatedSoFar, CheckedBefore, IntakeStands, ReportStands, GoodUpTo
<1> QED BY <1>2, <1>3, <1>5, <1>6, <1>7, <1>8, <1>9

\* ... and of the others keep them.
LEMMA OthersKeep ==
    ASSUME BspInv, ChangeSource \/ WriteLog \/ EditScaffold
    PROVE  BspInv'
<1>0. /\ installed \in [AllLogs -> LogStates] /\ source \in [BspLogs["aosp"] -> Contents \cup {NoEvidence}]
      /\ intake \in Intakes /\ capture \in Captures /\ stands \in [intake : BOOLEAN, report : BOOLEAN]
      /\ BspTypeOK
  BY DEF BspInv, BspTypeOK
<1>1. CASE ChangeSource
  <2>1. /\ \E p \in BspLogs["aosp"], c \in Contents \cup {NoEvidence} : source' = [source EXCEPT ![p] = c]
        /\ DisturbIntake /\ UNCHANGED <<installed, scaffold, capture, bootReport, stands>>
    BY <1>1 DEF ChangeSource
  <2>2. source' \in [BspLogs["aosp"] -> Contents \cup {NoEvidence}]
    BY <1>0, <2>1
  <2>3. intake' \in Intakes /\ (intake'.pc # "idle" => ~intake'.clean)
    BY <1>0, <2>1, Disturbed
  <2> QED BY <2>1, <2>2, <2>3, PlainKept
          DEF BspInv, BspTypeOK, ValidatedSoFar, CheckedBefore, IntakeStands, ReportStands, GoodUpTo
<1>2. CASE WriteLog
  <2>1. /\ \E p \in AllLogs, c \in Contents \cup {NoEvidence} : installed' = [installed EXCEPT ![p] = c]
        /\ DisturbIntake /\ DisturbCapture /\ UNCHANGED <<source, scaffold, bootReport>>
        /\ stands' = [intake |-> FALSE, report |-> FALSE]
    BY <1>2 DEF WriteLog
  <2>2. installed' \in [AllLogs -> LogStates]
    BY <1>0, <2>1 DEF LogStates
  <2>3. /\ intake' \in Intakes /\ (intake'.pc # "idle" => ~intake'.clean)
        /\ capture' \in Captures /\ (capture'.pc # "idle" => ~capture'.clean)
    BY <1>0, <2>1, Disturbed
  <2>4. ~stands'.intake /\ ~stands'.report /\ stands' \in [intake : BOOLEAN, report : BOOLEAN]
    BY <2>1
  <2> QED BY <1>0, <2>1, <2>2, <2>3, <2>4
          DEF BspInv, BspTypeOK, ValidatedSoFar, CheckedBefore, IntakeStands, ReportStands
<1>3. CASE EditScaffold
  <2>1. /\ DisturbCapture /\ stands' = [stands EXCEPT !.report = FALSE]
        /\ UNCHANGED <<installed, source, intake, bootReport>>
    BY <1>3 DEF EditScaffold
  <2>2. capture' \in Captures /\ (capture'.pc # "idle" => ~capture'.clean)
    BY <1>0, <2>1, Disturbed
  <2>3. /\ stands'.intake = stands.intake /\ ~stands'.report
        /\ stands' \in [intake : BOOLEAN, report : BOOLEAN]
    BY <1>0, <2>1
  <2> QED BY <2>1, <2>2, <2>3
          DEF BspInv, BspTypeOK, ValidatedSoFar, CheckedBefore, IntakeStands, ReportStands, GoodUpTo
<1> QED BY <1>1, <1>2, <1>3

LEMMA BspStep == BspInv /\ [BspNext]_bspVars => BspInv'
<1> SUFFICES ASSUME BspInv, [BspNext]_bspVars
             PROVE  BspInv'
  OBVIOUS
<1>1. CASE UNCHANGED bspVars
  BY <1>1, PlainKept
  DEF bspVars, BspInv, BspTypeOK, ValidatedSoFar, CheckedBefore, IntakeStands, ReportStands, GoodUpTo
<1> QED BY <1>1, IntakeKeeps, CaptureKeeps, OthersKeep DEF BspNext

\* What an intake, or a capture whose report says pass, vouches for stands as long as
\* nobody else writes.
THEOREM SuccessAlwaysStands == BspSpec => []SuccessStands
<1>1. BspInit => BspInv
  BY BspStarts
<1>2. BspInv /\ [BspNext]_bspVars => BspInv'
  BY BspStep
<1>3. BspInv => SuccessStands
  BY BspSuffices
<1> QED BY <1>1, <1>2, <1>3, PTL DEF BspSpec

-----------------------------------------------------------------------------
\* -------------------------------------------------------------- NpuRuntime

Kinds3 == {"scalar", "ring", "gemm"}
Ops == {"none", "scalar", "ring", "gemm", "unknown"}
CallRecords ==
    [kind : Kinds3 \cup {"none"}, op : Ops, id : Nat, at : 1 .. 7, polls : Nat, late : BOOLEAN]
AnswerRecords == [kind : Kinds3 \cup {"none"}, op : Ops, id : Nat, verdict : {"none", "ok", "rejected", "timeout", "failed"},
                  got : Nat, late : BOOLEAN, again : BOOLEAN]
Registers == [param : {0, 1}, operands : Nat, opcode : {"scalar", "ring", "gemm", "unknown"}, config : Nat,
              scratch : Nat, ring : [RingRegs -> Nat], queued : BOOLEAN, result : Nat]
Engines == [runs : {"nothing"} \cup Kinds3, of : Nat]
Flags == [done : BOOLEAN, error : BOOLEAN]

NpuTypeOK == regs \in Registers /\ engine \in Engines /\ status \in Flags
RuntimeTypeOK ==
    /\ NpuTypeOK /\ call \in CallRecords /\ answer \in AnswerRecords
    /\ call.kind # "none" => /\ call.id # 0 /\ call.at <= Len(CallSteps[call.kind])
                             /\ call.op \in Opcodes(call.kind)

\* The calls the NPU has seen anything of: none that is not made yet.
Seen == {regs.operands, regs.config, regs.result, regs.ring["base"], engine.of}
Newest == IF call.kind = "none" THEN answer.id ELSE call.id
CallsCount == \A v \in Seen : v <= Newest

\* The step of a call that starts the command.
StartsAt == [scalar |-> 5, ring |-> 4, gemm |-> 5]

\* A scalar command with the GEMM's opcode has nothing of its own in the NPU but the
\* operands, which nobody reads.
Raw(c) == c.kind = "scalar" /\ c.op = "gemm"
Apart(c) == regs.config # c.id /\ regs.result # c.id /\ engine.of # c.id

\* A call that found the NPU at rest and has not started its command: what it has
\* come past is programmed.
Programmed(c) ==
    /\ engine = Resting
    /\ c.kind = "scalar" => /\ c.at > 1 => regs.param = 0
                            /\ c.at > 2 => regs.operands = c.id
                            /\ c.at > 3 => regs.opcode = c.op
                            /\ Raw(c) => Apart(c)
    /\ c.kind = "ring" => /\ c.at > 1 => regs.queued /\ \A r \in RingRegs : regs.ring[r] = c.id
                          /\ c.at > 2 => regs.param = 1
    /\ c.kind = "gemm" => /\ c.at > 1 => regs.scratch = c.id
                          /\ c.at > 2 => regs.config = c.id
                          /\ c.at > 3 => regs.opcode = "gemm"

\* One that has: its command runs, or has ended and left its result.
ItsResult(c) == IF c.kind = "scalar" THEN regs.result = c.id ELSE regs.scratch = c.id
Started(c) ==
    \/ engine = [runs |-> c.kind, of |-> c.id] /\ ~status.done /\ ~status.error
    \/ engine = Resting /\ status.done /\ ~status.error /\ ItsResult(c)
    \/ engine = Resting /\ status.error /\ c.kind = "ring"

Again(c) == c.kind = "gemm" /\ regs.param = 1

\* One whose polls go on, and one whose polls have found done.
Polling(c) == IF Raw(c) THEN Apart(c)
              ELSE IF c.op = "unknown" THEN engine = Resting /\ status.error
              ELSE Started(c)
Answered(c) ==
    IF Raw(c) THEN Apart(c)
    ELSE c.op # "unknown" /\ engine = Resting /\ ~status.error /\ ItsResult(c)

CallOnTrack ==
    call.kind # "none" /\ ~call.late =>
        IF call.at <= StartsAt[call.kind] THEN Programmed(call)
        ELSE \/ Again(call)
             \/ /\ Polling(call)
                /\ call.at = StartsAt[call.kind] + 2 => Answered(call)

RuntimeInv == RuntimeTypeOK /\ CallsCount /\ CallOnTrack /\ OwnResult

\* What the steps of a call are, by their position.
LEMMA StepsAre ==
    /\ DOMAIN CallSteps = Kinds3
    /\ Len(CallSteps["scalar"]) = 7 /\ Len(CallSteps["ring"]) = 6 /\ Len(CallSteps["gemm"]) = 7
    /\ CallSteps["scalar"][1] = "param" /\ CallSteps["scalar"][2] = "operands"
    /\ CallSteps["scalar"][3] = "opcode" /\ CallSteps["scalar"][4] = "clear"
    /\ CallSteps["scalar"][5] = "start" /\ CallSteps["scalar"][6] = "poll"
    /\ CallSteps["scalar"][7] = "read"
    /\ CallSteps["ring"][1] = "ring" /\ CallSteps["ring"][2] = "param"
    /\ CallSteps["ring"][3] = "clear" /\ CallSteps["ring"][4] = "start"
    /\ CallSteps["ring"][5] = "poll" /\ CallSteps["ring"][6] = "read"
    /\ CallSteps["gemm"][1] = "scratch" /\ CallSteps["gemm"][2] = "config"
    /\ CallSteps["gemm"][3] = "opcode" /\ CallSteps["gemm"][4] = "clear"
    /\ CallSteps["gemm"][5] = "start" /\ CallSteps["gemm"][6] = "poll"
    /\ CallSteps["gemm"][7] = "read"
BY DEF CallSteps, Kinds3

LEMMA ScalarStepAt ==
    ASSUME NEW i \in 1 .. 7, NEW s, s = CallSteps["scalar"][i]
    PROVE  \/ (i = 1 /\ s = "param")  \/ (i = 2 /\ s = "operands")
           \/ (i = 3 /\ s = "opcode")  \/ (i = 4 /\ s = "clear")
           \/ (i = 5 /\ s = "start")  \/ (i = 6 /\ s = "poll")
           \/ (i = 7 /\ s = "read")
<1>1. i = 1 \/ i = 2 \/ i = 3 \/ i = 4 \/ i = 5 \/ i = 6 \/ i = 7
  OBVIOUS
<1>2. CASE i = 1
  BY <1>2, StepsAre, Zenon
<1>3. CASE i = 2
  BY <1>3, StepsAre, Zenon
<1>4. CASE i = 3
  BY <1>4, StepsAre, Zenon
<1>5. CASE i = 4
  BY <1>5, StepsAre, Zenon
<1>6. CASE i = 5
  BY <1>6, StepsAre, Zenon
<1>7. CASE i = 6
  BY <1>7, StepsAre, Zenon
<1>8. CASE i = 7
  BY <1>8, StepsAre, Zenon
<1> QED BY <1>1, <1>2, <1>3, <1>4, <1>5, <1>6, <1>7, <1>8, Zenon

LEMMA RingStepAt ==
    ASSUME NEW i \in 1 .. 6, NEW s, s = CallSteps["ring"][i]
    PROVE  \/ (i = 1 /\ s = "ring")  \/ (i = 2 /\ s = "param")
           \/ (i = 3 /\ s = "clear")  \/ (i = 4 /\ s = "start")
           \/ (i = 5 /\ s = "poll")  \/ (i = 6 /\ s = "read")
<1>1. i = 1 \/ i = 2 \/ i = 3 \/ i = 4 \/ i = 5 \/ i = 6
  OBVIOUS
<1>2. CASE i = 1
  BY <1>2, StepsAre, Zenon
<1>3. CASE i = 2
  BY <1>3, StepsAre, Zenon
<1>4. CASE i = 3
  BY <1>4, StepsAre, Zenon
<1>5. CASE i = 4
  BY <1>5, StepsAre, Zenon
<1>6. CASE i = 5
  BY <1>6, StepsAre, Zenon
<1>7. CASE i = 6
  BY <1>7, StepsAre, Zenon
<1> QED BY <1>1, <1>2, <1>3, <1>4, <1>5, <1>6, <1>7, Zenon

LEMMA GemmStepAt ==
    ASSUME NEW i \in 1 .. 7, NEW s, s = CallSteps["gemm"][i]
    PROVE  \/ (i = 1 /\ s = "scratch")  \/ (i = 2 /\ s = "config")
           \/ (i = 3 /\ s = "opcode")  \/ (i = 4 /\ s = "clear")
           \/ (i = 5 /\ s = "start")  \/ (i = 6 /\ s = "poll")
           \/ (i = 7 /\ s = "read")
<1>1. i = 1 \/ i = 2 \/ i = 3 \/ i = 4 \/ i = 5 \/ i = 6 \/ i = 7
  OBVIOUS
<1>2. CASE i = 1
  BY <1>2, StepsAre, Zenon
<1>3. CASE i = 2
  BY <1>3, StepsAre, Zenon
<1>4. CASE i = 3
  BY <1>4, StepsAre, Zenon
<1>5. CASE i = 4
  BY <1>5, StepsAre, Zenon
<1>6. CASE i = 5
  BY <1>6, StepsAre, Zenon
<1>7. CASE i = 6
  BY <1>7, StepsAre, Zenon
<1>8. CASE i = 7
  BY <1>8, StepsAre, Zenon
<1> QED BY <1>1, <1>2, <1>3, <1>4, <1>5, <1>6, <1>7, <1>8, Zenon

LEMMA StepsOfCall ==
    ASSUME RuntimeTypeOK, call.kind # "none", NEW s, s = CallSteps[call.kind][call.at]
    PROVE  /\ call.kind \in Kinds3 /\ call.at \in 1 .. Len(CallSteps[call.kind])
           /\ call.kind = "scalar" =>
                \/ (call.at = 1 /\ s = "param")  \/ (call.at = 2 /\ s = "operands")
                \/ (call.at = 3 /\ s = "opcode") \/ (call.at = 4 /\ s = "clear")
                \/ (call.at = 5 /\ s = "start")  \/ (call.at = 6 /\ s = "poll")
                \/ (call.at = 7 /\ s = "read")
           /\ call.kind = "ring" =>
                \/ (call.at = 1 /\ s = "ring")   \/ (call.at = 2 /\ s = "param")
                \/ (call.at = 3 /\ s = "clear")  \/ (call.at = 4 /\ s = "start")
                \/ (call.at = 5 /\ s = "poll")   \/ (call.at = 6 /\ s = "read")
           /\ call.kind = "gemm" =>
                \/ (call.at = 1 /\ s = "scratch") \/ (call.at = 2 /\ s = "config")
                \/ (call.at = 3 /\ s = "opcode")  \/ (call.at = 4 /\ s = "clear")
                \/ (call.at = 5 /\ s = "start")   \/ (call.at = 6 /\ s = "poll")
                \/ (call.at = 7 /\ s = "read")
<1>1. call.kind \in Kinds3 /\ call.at \in 1 .. 7 /\ call.at <= Len(CallSteps[call.kind])
  BY DEF RuntimeTypeOK, CallRecords
<1>2. call.at \in 1 .. Len(CallSteps[call.kind])
  BY <1>1, StepsAre DEF Kinds3
<1>3. call.kind = "ring" => call.at \in 1 .. 6
  <2>1. PICK len : len = Len(CallSteps[call.kind])
    OBVIOUS
  <2>2. call.at <= len /\ (call.kind = "ring" => len = 6)
    BY <1>1, <2>1, StepsAre, Zenon
  <2> QED BY <1>1, <2>2
<1>4. ASSUME call.kind = "scalar"
      PROVE  \/ (call.at = 1 /\ s = "param") \/ (call.at = 2 /\ s = "operands")
             \/ (call.at = 3 /\ s = "opcode") \/ (call.at = 4 /\ s = "clear")
             \/ (call.at = 5 /\ s = "start") \/ (call.at = 6 /\ s = "poll")
             \/ (call.at = 7 /\ s = "read")
  <2>1. s = CallSteps["scalar"][call.at]
    BY <1>4
  <2> QED BY <1>1, <1>3, <1>4, <2>1, ScalarStepAt, Zenon
<1>5. ASSUME call.kind = "ring"
      PROVE  \/ (call.at = 1 /\ s = "ring") \/ (call.at = 2 /\ s = "param")
             \/ (call.at = 3 /\ s = "clear") \/ (call.at = 4 /\ s = "start")
             \/ (call.at = 5 /\ s = "poll") \/ (call.at = 6 /\ s = "read")
  <2>1. s = CallSteps["ring"][call.at]
    BY <1>5
  <2> QED BY <1>1, <1>3, <1>5, <2>1, RingStepAt, Zenon
<1>6. ASSUME call.kind = "gemm"
      PROVE  \/ (call.at = 1 /\ s = "scratch") \/ (call.at = 2 /\ s = "config")
             \/ (call.at = 3 /\ s = "opcode") \/ (call.at = 4 /\ s = "clear")
             \/ (call.at = 5 /\ s = "start") \/ (call.at = 6 /\ s = "poll")
             \/ (call.at = 7 /\ s = "read")
  <2>1. s = CallSteps["gemm"][call.at]
    BY <1>6
  <2> QED BY <1>1, <1>3, <1>6, <2>1, GemmStepAt, Zenon
<1> QED BY <1>1, <1>2, <1>4, <1>5, <1>6

\* The registers, each written on its own.
LEMMA RegisterParts ==
    ASSUME NEW r \in Registers
    PROVE  /\ \A p \in {0, 1} : [r EXCEPT !.param = p] \in Registers
           /\ \A o \in {"scalar", "ring", "gemm", "unknown"} : [r EXCEPT !.opcode = o] \in Registers
           /\ \A v \in Nat : /\ [r EXCEPT !.operands = v] \in Registers
                            /\ [r EXCEPT !.config = v] \in Registers
                            /\ [r EXCEPT !.scratch = v] \in Registers
                            /\ [r EXCEPT !.result = v] \in Registers
                            /\ [r EXCEPT !.result = v, !.scratch = v, !.queued = FALSE] \in Registers
           /\ \A ring \in [RingRegs -> Nat], b \in BOOLEAN :
                 [r EXCEPT !.ring = ring, !.queued = b] \in Registers
BY DEF Registers

LEMMA EngineParts == Resting \in Engines /\ \A e \in Engines : [e EXCEPT !.of = 0] \in Engines
BY DEF Engines, Resting

LEMMA CallParts ==
    ASSUME NEW c \in CallRecords, NEW i \in 1 .. 7
    PROVE  LET d == [c EXCEPT !.at = i]
           IN  /\ d \in CallRecords /\ d.kind = c.kind /\ d.id = c.id /\ d.late = c.late
               /\ d.at = i /\ d.op = c.op
BY DEF CallRecords

LEMMA CallOnward ==
    ASSUME RuntimeTypeOK, call.kind # "none", Onward, call.at < Len(CallSteps[call.kind])
    PROVE  /\ call' \in CallRecords /\ call'.kind = call.kind /\ call'.id = call.id
           /\ call'.late = call.late /\ call'.at = call.at + 1
           /\ call'.id # 0 /\ call'.at <= Len(CallSteps[call'.kind])
           /\ call'.op = call.op /\ call'.op \in Opcodes(call'.kind)
<1>1. /\ call \in CallRecords /\ call.id # 0 /\ call.kind \in Kinds3
  BY DEF RuntimeTypeOK, CallRecords
<1>2. PICK len \in 1 .. 7 : len = Len(CallSteps[call.kind])
  BY <1>1, StepsAre DEF Kinds3
<1>3. call.at + 1 \in 1 .. 7 /\ call.at + 1 <= len
  <2>1. call.at \in 1 .. 7 /\ call.at < len
    BY <1>1, <1>2 DEF CallRecords
  <2> QED BY <2>1
<1>4. call' = [call EXCEPT !.at = call.at + 1]
  BY Zenon DEF Onward
<1>5. /\ call' \in CallRecords /\ call'.kind = call.kind /\ call'.id = call.id
      /\ call'.late = call.late /\ call'.at = call.at + 1 /\ call'.op = call.op
  BY <1>1, <1>3, <1>4, CallParts, Zenon
<1>6. call'.at <= Len(CallSteps[call'.kind])
  BY <1>2, <1>3, <1>5, Zenon
<1>7. call'.op \in Opcodes(call'.kind)
  BY <1>5 DEF RuntimeTypeOK
<1> QED BY <1>1, <1>5, <1>6, <1>7

LEMMA StartsAre ==
    StartsAt["scalar"] = 5 /\ StartsAt["ring"] = 4 /\ StartsAt["gemm"] = 5
BY DEF StartsAt

LEMMA RuntimeStarts == RuntimeInit => RuntimeInv
<1> SUFFICES ASSUME RuntimeInit
             PROVE  RuntimeInv
  OBVIOUS
<1>1. regs \in Registers
  BY DEF RuntimeInit, Registers, RingRegs
<1>2. engine \in Engines /\ status \in Flags
  BY DEF RuntimeInit, Engines, Flags, Resting
<1>3. call \in CallRecords /\ answer \in AnswerRecords
  BY DEF RuntimeInit, CallRecords, AnswerRecords, Ops, NoCall, NoAnswer
<1>4. call.kind = "none" /\ answer.verdict = "none" /\ answer.id = 0
  BY DEF RuntimeInit, NoCall, NoAnswer
<1>5. CallsCount
  BY <1>4 DEF CallsCount, Seen, Newest, RuntimeInit, Resting, RingRegs
<1> QED BY <1>1, <1>2, <1>3, <1>4, <1>5
        DEF RuntimeInv, RuntimeTypeOK, NpuTypeOK, CallOnTrack, OwnResult

\* What a call leaves behind is of the newest one, as long as the next step only adds
\* something of that.
LEMMA NewestStep ==
    ASSUME CallsCount, Newest' \in Nat, Newest \in Nat, Newest <= Newest',
           Seen' \subseteq Seen \cup {0, Newest'}, \A v \in Seen : v \in Nat
    PROVE  CallsCount'
BY DEF CallsCount

LEMMA SeenAreCalls ==
    ASSUME NpuTypeOK
    PROVE  \A v \in Seen : v \in Nat
BY DEF NpuTypeOK, Registers, Engines, Seen, RingRegs


LEMMA BeginKeeps ==
    ASSUME RuntimeInv, NEW kind \in DOMAIN CallSteps, Begin(kind)
    PROVE  RuntimeInv'
<1>1. /\ kind \in Kinds3 /\ answer.id \in Nat /\ UNCHANGED <<regs, engine, status, answer>>
      /\ call.kind = "none" /\ NpuTypeOK
  BY StepsAre DEF Begin, RuntimeInv, RuntimeTypeOK, AnswerRecords
<1>2. PICK late \in BOOLEAN : late = (engine # Resting)
  OBVIOUS
<1>3. PICK op \in Opcodes(kind) :
        call' = [NoCall EXCEPT !.kind = kind, !.op = op, !.id = answer.id + 1, !.late = late]
  BY <1>2, Zenon DEF Begin
<1>4. call' = [kind |-> kind, op |-> op, id |-> answer.id + 1, at |-> 1, polls |-> 0, late |-> late]
  BY <1>3 DEF NoCall
<1>5. op \in Ops
  BY <1>1 DEF Opcodes, Ops, Kinds3, GemmOp
<1>6. /\ call' \in CallRecords /\ call'.id # 0 /\ call'.at = 1 /\ call'.kind = kind
      /\ call'.late = late /\ call'.op \in Opcodes(call'.kind) /\ call'.id = answer.id + 1
  BY <1>1, <1>4, <1>5 DEF CallRecords
<1>7. 1 <= Len(CallSteps[kind]) /\ 1 <= StartsAt[kind]
  BY <1>1, StepsAre, StartsAre DEF Kinds3
<1>8. RuntimeTypeOK' /\ OwnResult'
  BY <1>1, <1>6, <1>7 DEF RuntimeInv, RuntimeTypeOK, NpuTypeOK, OwnResult
<1>9. CallsCount' /\ Apart(call)'
  <2>1. Seen' = Seen /\ Newest = answer.id /\ Newest' = answer.id + 1
    BY <1>1, <1>6 DEF Seen, Newest, Kinds3
  <2>2. \A v \in Seen : v \in Nat /\ v <= answer.id
    BY <1>1, <2>1, SeenAreCalls DEF RuntimeInv, CallsCount
  <2>3. \A v \in Seen : v <= answer.id + 1 /\ v # answer.id + 1
    BY <1>1, <2>2
  <2>4. CallsCount'
    BY <2>1, <2>3 DEF CallsCount
  <2>5. regs.config \in Seen /\ regs.result \in Seen /\ engine.of \in Seen
    BY DEF Seen
  <2>6. Apart(call)'
    BY <1>1, <1>6, <2>3, <2>5 DEF Apart
  <2> QED BY <2>4, <2>6
<1>10. ~call'.late => Programmed(call)'
  <2>1. ~call'.late => engine' = Resting
    BY <1>1, <1>2, <1>6, Zenon DEF Resting
  <2>2. ~(call'.at > 1) /\ ~(call'.at > 2) /\ ~(call'.at > 3)
    BY <1>6
  <2> QED BY <1>9, <2>1, <2>2, Zenon DEF Programmed
<1>11. CallOnTrack'
  BY <1>6, <1>7, <1>10 DEF CallOnTrack
<1> QED BY <1>8, <1>9, <1>11 DEF RuntimeInv

\* A call that has not started its command programs what Programmed says next.
LEMMA ProgramKeeps ==
    ASSUME RuntimeInv, Program
    PROVE  RuntimeInv'
<1> DEFINE s == CallSteps[call.kind][call.at]
<1>1. /\ RuntimeTypeOK /\ call.kind # "none" /\ Written(s, call.op, call.id) /\ Onward
      /\ UNCHANGED <<status, answer>>
  BY DEF RuntimeInv, Program
<1> HIDE DEF s
<1>2. /\ call.kind \in Kinds3
      /\ call.kind = "scalar" => \/ (call.at = 1 /\ s = "param") \/ (call.at = 2 /\ s = "operands")
                                 \/ (call.at = 3 /\ s = "opcode")
      /\ call.kind = "ring" => \/ (call.at = 1 /\ s = "ring") \/ (call.at = 2 /\ s = "param")
      /\ call.kind = "gemm" => \/ (call.at = 1 /\ s = "scratch") \/ (call.at = 2 /\ s = "config")
                               \/ (call.at = 3 /\ s = "opcode")
  <2>1. s \notin {"clear", "start", "poll", "read"}
    BY <1>1 DEF Written
  <2> QED BY <1>1, <2>1, StepsOfCall DEF s
<1>0. /\ call.kind = "scalar" => call.op \in {"scalar", "gemm", "unknown"}
      /\ call.kind \in {"ring", "gemm"} => call.op = call.kind
  BY <1>1 DEF RuntimeTypeOK, Opcodes, GemmOp
<1>3. call.at \in 1 .. 3 /\ call.at < StartsAt[call.kind] /\ call.at < Len(CallSteps[call.kind])
  BY <1>2, StepsAre, StartsAre DEF Kinds3
<1>4. /\ call' \in CallRecords /\ call'.kind = call.kind /\ call'.id = call.id
      /\ call'.late = call.late /\ call'.at = call.at + 1
      /\ call'.id # 0 /\ call'.at <= Len(CallSteps[call'.kind])
      /\ call'.op = call.op /\ call'.op \in Opcodes(call'.kind)
  BY <1>1, <1>3, CallOnward
<1>5. call.id \in Nat /\ call.id # 0 /\ regs \in Registers /\ engine \in Engines
  BY <1>1 DEF RuntimeTypeOK, NpuTypeOK, CallRecords
<1>6. regs' \in Registers /\ engine' \in Engines
  <2>1. [r \in RingRegs |-> call.id] \in [RingRegs -> Nat]
    BY <1>5
  <2>2. \A what : Mixed(what) \in Engines
    BY <1>5, EngineParts DEF Mixed
  <2>3. /\ engine' = engine \/ \E what : engine' = Mixed(what)
        /\ \/ \E p \in {0, 1} : regs' = [regs EXCEPT !.param = p]
           \/ regs' = [regs EXCEPT !.operands = call.id]
           \/ regs' = [regs EXCEPT !.opcode = call.op]
           \/ regs' = [regs EXCEPT !.ring = [r \in RingRegs |-> call.id], !.queued = TRUE]
           \/ regs' = [regs EXCEPT !.scratch = call.id]
           \/ regs' = [regs EXCEPT !.config = call.id]
    BY <1>1, Zenon DEF Written
  <2>4. engine' \in Engines
    BY <1>5, <2>2, <2>3
  <2>5. call.op \in {"scalar", "ring", "gemm", "unknown"}
    BY <1>2, <1>0 DEF Kinds3
  <2>6. regs' \in Registers
    BY <1>5, <2>1, <2>3, <2>5, RegisterParts, ZenonT(60)
  <2> QED BY <2>4, <2>6
<1>9. CallsCount' /\ (engine = Resting => engine' = Resting)
                  /\ regs'.result = regs.result /\ (call.kind = "scalar" => regs'.config = regs.config)
  <2>1. engine'.of \in {engine.of, 0} /\ (engine = Resting => engine' = Resting)
    <3>1. engine' = engine \/ \E what : engine' = Mixed(what)
      BY <1>1, Zenon DEF Written
    <3>2. \A what : Mixed(what) \in {engine, [engine EXCEPT !.of = 0]}
      BY DEF Mixed
    <3>3. [engine EXCEPT !.of = 0].of = 0
      BY <1>5 DEF Engines
    <3>4. \A what : engine = Resting => Mixed(what) = Resting
      BY DEF Mixed, Resting
    <3> QED BY <3>1, <3>2, <3>3, <3>4
  <2>2. /\ regs'.operands \in {regs.operands, call.id} /\ regs'.config \in {regs.config, call.id}
        /\ regs'.result = regs.result /\ regs'.ring["base"] \in {regs.ring["base"], call.id}
        /\ s # "config" => regs'.config = regs.config
    <3>1. /\ regs = [regs EXCEPT !.param = regs.param]
          /\ DOMAIN regs = {"param", "operands", "opcode", "config", "scratch", "ring", "queued", "result"}
      BY <1>5 DEF Registers
    <3>2. CASE \/ \E p \in {0, 1} : regs' = [regs EXCEPT !.param = p]
               \/ regs' = [regs EXCEPT !.opcode = call.op]
               \/ regs' = [regs EXCEPT !.scratch = call.id]
      BY <3>1, <3>2
    <3>3. CASE regs' = [regs EXCEPT !.operands = call.id]
      BY <3>1, <3>3
    <3>4. CASE regs' = [regs EXCEPT !.ring = [r \in RingRegs |-> call.id], !.queued = TRUE]
      <4>1. regs'.ring = [r \in RingRegs |-> call.id] /\ "base" \in RingRegs
        BY <3>1, <3>4 DEF RingRegs
      <4> QED BY <3>1, <3>4, <4>1
    <3>5. CASE s = "config" /\ regs' = [regs EXCEPT !.config = call.id]
      BY <3>1, <3>5
    <3> QED BY <1>1, <3>2, <3>3, <3>4, <3>5, Zenon DEF Written
  <2>3. Newest = call.id /\ Newest' = call.id
    BY <1>1, <1>4 DEF Newest
  <2>4. Seen' \subseteq Seen \cup {0, call.id}
    BY <2>1, <2>2 DEF Seen
  <2>5. CallsCount'
    <3>1. NpuTypeOK
      BY <1>1 DEF RuntimeTypeOK
    <3> QED BY <1>5, <2>3, <2>4, <3>1, NewestStep, SeenAreCalls DEF RuntimeInv
  <2> QED BY <1>2, <2>1, <2>2, <2>5
<1>7. RuntimeTypeOK' /\ OwnResult'
  BY <1>1, <1>4, <1>6 DEF RuntimeInv, RuntimeTypeOK, NpuTypeOK, OwnResult
<1>8. CallOnTrack'
  <2> SUFFICES ASSUME ~call.late
               PROVE  Programmed(call)'
    <3>1. call'.at <= StartsAt[call'.kind]
      BY <1>2, <1>3, <1>4, StartsAre DEF Kinds3
    <3> QED BY <1>4, <3>1 DEF CallOnTrack
  <2>0. call.at <= StartsAt[call.kind]
    BY <1>2, <1>3, StartsAre DEF Kinds3
  <2>1. Programmed(call) /\ engine = Resting
    BY <1>1, <2>0 DEF RuntimeInv, CallOnTrack, Programmed
  <2>2. engine' = Resting
    BY <1>9, <2>1
  <2>3. CASE call.kind = "scalar"
    <3>1. Raw(call)' => Apart(call)'
      BY <1>4, <1>9, <2>1, <2>2, <2>3 DEF Programmed, Raw, Apart
    <3> QED BY <1>0, <1>1, <1>2, <1>3, <1>4, <1>5, <2>1, <2>2, <2>3, <3>1
            DEF Written, Programmed, Registers
  <2>4. CASE call.kind = "ring"
    <3>1. CASE call.at = 1
      <4>1. regs' = [regs EXCEPT !.ring = [r \in RingRegs |-> call.id], !.queued = TRUE]
        BY <1>1, <1>2, <2>4, <3>1 DEF Written
      <4>2. regs'.queued /\ regs'.ring = [r \in RingRegs |-> call.id]
        BY <1>5, <4>1 DEF Registers
      <4> QED BY <1>4, <2>2, <2>4, <3>1, <4>2 DEF Programmed
    <3>2. CASE call.at = 2
      <4>1. regs' = [regs EXCEPT !.param = 1]
        BY <1>0, <1>1, <1>2, <2>4, <3>2 DEF Written
      <4>2. regs'.param = 1 /\ regs'.queued = regs.queued /\ regs'.ring = regs.ring
        BY <1>5, <4>1 DEF Registers
      <4> QED BY <1>4, <2>1, <2>2, <2>4, <3>2, <4>2 DEF Programmed
    <3> QED BY <1>2, <2>4, <3>1, <3>2
  <2>5. CASE call.kind = "gemm"
    BY <1>0, <1>1, <1>2, <1>3, <1>4, <1>5, <2>1, <2>2, <2>5 DEF Written, Programmed, Registers
  <2> QED BY <1>2, <2>3, <2>4, <2>5 DEF Kinds3
<1> QED BY <1>7, <1>8, <1>9 DEF RuntimeInv

LEMMA ClearKeeps ==
    ASSUME RuntimeInv, ClearEngine
    PROVE  RuntimeInv'
<1> DEFINE s == CallSteps[call.kind][call.at]
<1>1. /\ RuntimeTypeOK /\ call.kind # "none" /\ s = "clear" /\ Onward
      /\ UNCHANGED <<regs, engine, answer>> /\ status' \in Flags
  BY DEF RuntimeInv, ClearEngine, At, Flags
<1> HIDE DEF s
<1>2. call.kind \in Kinds3 /\ call.at = StartsAt[call.kind] - 1
  BY <1>1, StepsOfCall, StartsAre DEF s, Kinds3
<1>3. call.at \in 3 .. 4 /\ call.at < Len(CallSteps[call.kind])
  BY <1>2, StepsAre, StartsAre DEF Kinds3
<1>4. /\ call' \in CallRecords /\ call'.kind = call.kind /\ call'.id = call.id
      /\ call'.late = call.late /\ call'.at = call.at + 1
      /\ call'.id # 0 /\ call'.at <= Len(CallSteps[call'.kind])
      /\ call'.op = call.op /\ call'.op \in Opcodes(call'.kind)
  BY <1>1, <1>3, CallOnward
<1>5. RuntimeTypeOK' /\ OwnResult'
  BY <1>1, <1>4 DEF RuntimeInv, RuntimeTypeOK, NpuTypeOK, OwnResult
<1>7. CallsCount'
  BY <1>1, <1>4 DEF RuntimeInv, CallsCount, Seen, Newest
<1>6. CallOnTrack'
  <2> SUFFICES ASSUME ~call.late
               PROVE  Programmed(call)'
    BY <1>2, <1>3, <1>4 DEF CallOnTrack
  <2>1. Programmed(call)
    BY <1>1, <1>2, <1>3 DEF RuntimeInv, CallOnTrack
  <2>2. (call.kind = "scalar" => call.at = 4) /\ (call.kind = "ring" => call.at = 3)
        /\ (call.kind = "gemm" => call.at = 4)
    BY <1>2, StartsAre
  <2> QED BY <1>1, <1>4, <2>1, <2>2 DEF Programmed, Raw, Apart
<1> QED BY <1>5, <1>6, <1>7 DEF RuntimeInv

\* What starts is of a call the NPU has seen.
LEMMA StartSees ==
    ASSUME NpuTypeOK, StartEngine
    PROVE  engine'.of \in Seen \cup {0}
<1>1. \/ engine' = engine
      \/ engine' = [runs |-> "ring", of |-> RingOf]
      \/ engine' = [runs |-> "gemm", of |-> regs.config]
      \/ engine' = [runs |-> "gemm", of |-> 0]
      \/ engine' = [runs |-> "scalar", of |-> regs.operands]
  <2>1. CASE engine # Resting
    BY <2>1, Zenon DEF StartEngine
  <2>2. CASE engine = Resting /\ Refused
    BY <2>2, Zenon DEF StartEngine
  <2>3. CASE engine = Resting /\ ~Refused
    BY <2>3, Zenon DEF StartEngine
  <2> QED BY <2>1, <2>2, <2>3
<1>2. RingOf \in {regs.ring["base"], 0}
  BY DEF RingOf
<1> QED BY <1>1, <1>2 DEF Seen

LEMMA StartType ==
    ASSUME NpuTypeOK, StartEngine
    PROVE  engine' \in Engines /\ status' \in Flags
<1>1. RingOf \in Nat
  BY DEF RingOf, NpuTypeOK, Registers, RingRegs
<1>2. CASE engine # Resting
  BY <1>2, Zenon DEF StartEngine, NpuTypeOK
<1>3. CASE engine = Resting /\ Refused
  <2>1. engine' = engine /\ status' = [done |-> TRUE, error |-> TRUE]
    BY <1>3, Zenon DEF StartEngine
  <2> QED BY <2>1 DEF NpuTypeOK, Flags
<1>4. CASE engine = Resting /\ ~Refused
  <2>1. /\ status' = [done |-> FALSE, error |-> FALSE]
        /\ \/ engine' = [runs |-> "ring", of |-> RingOf]
           \/ engine' = [runs |-> "gemm", of |-> regs.config]
           \/ engine' = [runs |-> "gemm", of |-> 0]
           \/ engine' = [runs |-> "scalar", of |-> regs.operands]
    BY <1>4, Zenon DEF StartEngine
  <2>2. regs.config \in Nat /\ regs.operands \in Nat
    BY DEF NpuTypeOK, Registers
  <2>3. engine' \in Engines
    BY <1>1, <2>1, <2>2 DEF Engines, Kinds3
  <2>4. status' \in Flags
    BY <2>1 DEF Flags
  <2> QED BY <2>3, <2>4
<1> QED BY <1>2, <1>3, <1>4

\* What starts is what was programmed.
LEMMA StartsWhatIsProgrammed ==
    ASSUME NpuTypeOK, StartEngine, NEW c, c.kind \in Kinds3, c.id # 0,
           c.at = StartsAt[c.kind], Programmed(c), c.op \in Opcodes(c.kind), UNCHANGED regs
    PROVE  Again(c) \/ Polling(c)'
<1>1. engine = Resting
  BY DEF Programmed
<1>2. CASE c.kind = "scalar" /\ c.op = "scalar"
  <2>1. regs.param = 0 /\ regs.operands = c.id /\ regs.opcode = "scalar"
    BY <1>2, StartsAre DEF Programmed
  <2>2. ~Refused
    BY <2>1 DEF Refused, GemmOp
  <2>3. status' = [done |-> FALSE, error |-> FALSE] /\ engine' = [runs |-> "scalar", of |-> c.id]
    BY <1>1, <2>1, <2>2 DEF StartEngine, GemmOp
  <2> QED BY <1>2, <2>3 DEF Polling, Raw, Started
<1>5. CASE c.kind = "scalar" /\ c.op = "unknown"
  <2>1. regs.param = 0 /\ regs.opcode = "unknown"
    BY <1>5, StartsAre DEF Programmed
  <2>2. status' = [done |-> TRUE, error |-> TRUE] /\ engine' = engine
    BY <1>1, <2>1 DEF Refused, StartEngine
  <2> QED BY <1>1, <1>5, <2>2 DEF Polling, Raw
<1>6. CASE Raw(c)
  <2>1. regs.param = 0 /\ regs.opcode = "gemm" /\ Apart(c)
    BY <1>6, StartsAre DEF Programmed, Raw
  <2>2. engine' = engine \/ engine' = [runs |-> "gemm", of |-> regs.config]
                        \/ engine' = [runs |-> "gemm", of |-> 0]
    BY <1>1, <2>1 DEF StartEngine, GemmOp
  <2>3. Apart(c)'
    BY <2>1, <2>2 DEF Apart
  <2> QED BY <1>6, <2>3 DEF Polling, Raw
<1>3. CASE c.kind = "ring"
  <2>1. regs.param = 1 /\ regs.queued /\ \A r \in RingRegs : regs.ring[r] = c.id
    BY <1>3, StartsAre DEF Programmed
  <2>2. ~Refused /\ RingOf = c.id
    BY <2>1 DEF Refused, RingOf, RingRegs
  <2>3. status' = [done |-> FALSE, error |-> FALSE] /\ engine' = [runs |-> "ring", of |-> c.id]
    BY <1>1, <2>1, <2>2 DEF StartEngine
  <2>4. c.op # "unknown"
    BY <1>3 DEF Opcodes
  <2> QED BY <1>3, <2>3, <2>4 DEF Polling, Raw, Started
<1>4. CASE c.kind = "gemm"
  <2>1. regs.scratch = c.id /\ regs.config = c.id /\ regs.opcode = "gemm"
    BY <1>4, StartsAre DEF Programmed
  <2> SUFFICES ASSUME regs.param # 1
               PROVE  Polling(c)'
    BY <1>4 DEF Again
  <2>2. ~Refused
    BY <2>1 DEF Refused, GemmOp
  <2>3. status' = [done |-> FALSE, error |-> FALSE] /\ engine' = [runs |-> "gemm", of |-> c.id]
    BY <1>1, <2>1, <2>2 DEF StartEngine, GemmOp
  <2>4. c.op # "unknown"
    BY <1>4 DEF Opcodes
  <2> QED BY <1>4, <2>3, <2>4 DEF Polling, Raw, Started
<1> QED BY <1>2, <1>3, <1>4, <1>5, <1>6 DEF Kinds3, Opcodes, Raw, GemmOp

LEMMA StartKeeps ==
    ASSUME RuntimeInv, Start
    PROVE  RuntimeInv'
<1> DEFINE s == CallSteps[call.kind][call.at]
<1>1. /\ RuntimeTypeOK /\ call.kind # "none" /\ s = "start" /\ Onward /\ StartEngine
      /\ UNCHANGED <<regs, answer>>
  BY DEF RuntimeInv, Start, At
<1> HIDE DEF s
<1>2. call.kind \in Kinds3 /\ call.at = StartsAt[call.kind]
  BY <1>1, StepsOfCall, StartsAre DEF s, Kinds3
<1>3. call.at \in 4 .. 5 /\ call.at < Len(CallSteps[call.kind])
  BY <1>2, StepsAre, StartsAre DEF Kinds3
<1>4. /\ call' \in CallRecords /\ call'.kind = call.kind /\ call'.id = call.id
      /\ call'.late = call.late /\ call'.at = call.at + 1
      /\ call'.id # 0 /\ call'.at <= Len(CallSteps[call'.kind])
      /\ call'.op = call.op /\ call'.op \in Opcodes(call'.kind)
  BY <1>1, <1>3, CallOnward
<1>5. RuntimeTypeOK' /\ OwnResult'
  BY <1>1, <1>4, StartType DEF RuntimeInv, RuntimeTypeOK, NpuTypeOK, OwnResult
<1>6. CallOnTrack'
  <2> SUFFICES ASSUME ~call.late
               PROVE  Again(call)' \/ Polling(call)'
    BY <1>2, <1>3, <1>4 DEF CallOnTrack
  <2>1. Programmed(call)
    BY <1>1, <1>2, <1>3 DEF RuntimeInv, CallOnTrack
  <2>2. call.id # 0 /\ NpuTypeOK
    BY <1>1 DEF RuntimeTypeOK
  <2> DEFINE c == call
  <2>3. /\ c.kind \in Kinds3 /\ c.id # 0 /\ c.at = StartsAt[c.kind] /\ Programmed(c)
        /\ c.op \in Opcodes(c.kind)
    BY <1>1, <1>2, <2>1, <2>2 DEF RuntimeTypeOK
  <2>4. call'.kind = c.kind /\ call'.id = c.id /\ call'.op = c.op
    BY <1>4
  <2>5. Again(call)' <=> Again(c)
    BY <1>1, <2>4 DEF Again
  <2> SUFFICES ASSUME ~Again(c) PROVE Polling(call)'
    BY <2>5
  <2>6. PICK d : d = call
    OBVIOUS
  <2>7. /\ Polling(d)' /\ call'.kind = d.kind /\ call'.id = d.id /\ call'.op = d.op
    <3>1. /\ d.kind \in Kinds3 /\ d.id # 0 /\ d.at = StartsAt[d.kind] /\ Programmed(d)
          /\ d.op \in Opcodes(d.kind) /\ ~Again(d)
      BY <2>3, <2>6
    <3> QED BY <1>1, <2>2, <2>4, <2>6, <3>1, StartsWhatIsProgrammed
  <2> QED BY <2>7 DEF Polling, Raw, Apart, Started, ItsResult
<1>7. CallsCount'
  <2>1. Newest = call.id /\ Newest' = call.id /\ call.id \in Nat
    BY <1>1, <1>4 DEF Newest, RuntimeTypeOK, CallRecords
  <2>2. NpuTypeOK
    BY <1>1 DEF RuntimeTypeOK
  <2>3. engine'.of \in Seen \cup {0}
    BY <1>1, <2>2, StartSees
  <2>4. Seen' \subseteq Seen \cup {0, call.id}
    BY <1>1, <2>3 DEF Seen
  <2> QED BY <2>1, <2>2, <2>4, NewestStep, SeenAreCalls DEF RuntimeInv
<1> QED BY <1>5, <1>6, <1>7 DEF RuntimeInv

\* A command that ends.
LEMMA FinishType ==
    ASSUME NpuTypeOK, FinishCommand
    PROVE  NpuTypeOK' /\ regs'.param = regs.param
<1>1. regs \in Registers /\ engine \in Engines /\ engine.of \in Nat
  BY DEF NpuTypeOK, Engines
<1>2. engine' \in Engines /\ status' \in Flags
  <2>1. engine' = Resting /\ \E e \in BOOLEAN : status' = [done |-> TRUE, error |-> e]
    BY Zenon DEF FinishCommand
  <2>2. status' \in Flags
    BY <2>1 DEF Flags
  <2> QED BY <2>1, <2>2, EngineParts
<1>3. \/ regs' = [regs EXCEPT !.result = engine.of]
      \/ regs' = [regs EXCEPT !.scratch = engine.of]
      \/ regs' = [regs EXCEPT !.result = engine.of, !.scratch = engine.of, !.queued = FALSE]
  BY Zenon DEF FinishCommand
<1>4. regs' \in Registers
  BY <1>1, <1>3, RegisterParts, Zenon
<1>5. regs'.param = regs.param
  BY <1>1, <1>3 DEF Registers
<1> QED BY <1>2, <1>4, <1>5 DEF NpuTypeOK

LEMMA FinishesItsOwn ==
    ASSUME NpuTypeOK, FinishCommand, NEW c, c.kind \in Kinds3, Started(c)
    PROVE  Started(c)'
<1>1. engine = [runs |-> c.kind, of |-> c.id] /\ engine.runs = c.kind /\ engine.of = c.id
  BY DEF Started, FinishCommand
<1>2. engine' = Resting /\ regs \in Registers
  BY DEF FinishCommand, NpuTypeOK
<1>3. CASE status' = [done |-> TRUE, error |-> TRUE] /\ c.kind = "ring"
  BY <1>2, <1>3 DEF Started
<1>4. CASE /\ status' = [done |-> TRUE, error |-> FALSE]
           /\ regs' = CASE engine.runs = "scalar" -> [regs EXCEPT !.result = engine.of]
                        [] engine.runs = "gemm"   -> [regs EXCEPT !.scratch = engine.of]
                        [] OTHER -> [regs EXCEPT !.result = engine.of, !.scratch = engine.of,
                                                 !.queued = FALSE]
  <2>1. CASE c.kind = "scalar"
    <3>1. regs' = [regs EXCEPT !.result = c.id]
      BY <1>1, <1>4, <2>1
    <3> QED BY <1>2, <1>4, <2>1, <3>1 DEF Started, ItsResult, Registers
  <2>2. CASE c.kind = "gemm"
    <3>1. regs' = [regs EXCEPT !.scratch = c.id]
      BY <1>1, <1>4, <2>2
    <3> QED BY <1>2, <1>4, <2>2, <3>1 DEF Started, ItsResult, Registers
  <2>3. CASE c.kind = "ring"
    <3>1. regs' = [regs EXCEPT !.result = c.id, !.scratch = c.id, !.queued = FALSE]
      BY <1>1, <1>4, <2>3
    <3> QED BY <1>2, <1>4, <2>3, <3>1 DEF Started, ItsResult, Registers
  <2> QED BY <2>1, <2>2, <2>3 DEF Kinds3
<1> QED BY <1>1, <1>3, <1>4, Zenon DEF FinishCommand

\* What it leaves is of a call the NPU has seen.
LEMMA FinishSees ==
    ASSUME NpuTypeOK, FinishCommand
    PROVE  /\ Seen' \subseteq Seen \cup {0} /\ engine'.of = 0
           /\ regs'.config = regs.config /\ regs'.result \in {regs.result, engine.of}
<1>1. regs \in Registers /\ engine' = Resting
  BY DEF NpuTypeOK, FinishCommand
<1>2. \/ regs' = [regs EXCEPT !.result = engine.of]
      \/ regs' = [regs EXCEPT !.scratch = engine.of]
      \/ regs' = [regs EXCEPT !.result = engine.of, !.scratch = engine.of, !.queued = FALSE]
  BY Zenon DEF FinishCommand
<1>3. /\ regs'.operands = regs.operands /\ regs'.config = regs.config
      /\ regs'.result \in {regs.result, engine.of} /\ regs'.ring = regs.ring
  BY <1>1, <1>2 DEF Registers
<1>4. engine'.of = 0
  BY <1>1 DEF Resting
<1> QED BY <1>3, <1>4 DEF Seen

LEMMA FinishKeeps ==
    ASSUME RuntimeInv, Finish
    PROVE  RuntimeInv'
<1>1. RuntimeTypeOK /\ NpuTypeOK /\ FinishCommand /\ UNCHANGED <<call, answer>> /\ engine # Resting
  BY DEF RuntimeInv, RuntimeTypeOK, Finish, FinishCommand
<1>2. RuntimeTypeOK' /\ OwnResult'
  BY <1>1, FinishType DEF RuntimeInv, RuntimeTypeOK, OwnResult
<1>3. CallOnTrack'
  <2> SUFFICES ASSUME call.kind # "none", ~call.late
               PROVE  /\ call.at > StartsAt[call.kind]
                      /\ Again(call)' \/ (Polling(call)' /\ (call.at = StartsAt[call.kind] + 2 => Answered(call)'))
    BY <1>1, StepsOfCall, StartsAre DEF CallOnTrack, Kinds3
  <2>1. call.kind \in Kinds3 /\ call.at \in 1 .. 7 /\ StartsAt[call.kind] \in 4 .. 5
    BY <1>1, StartsAre DEF RuntimeTypeOK, CallRecords, Kinds3
  <2>2. /\ call.at > StartsAt[call.kind]
        /\ \/ Again(call)
           \/ Polling(call) /\ (call.at = StartsAt[call.kind] + 2 => Answered(call))
    BY <1>1, <2>1 DEF RuntimeInv, CallOnTrack, Programmed
  <2>3. Again(call) => Again(call)'
    BY <1>1, FinishType DEF Again
  <2>4. Started(call) => Started(call)'
    BY <1>1, <2>1, FinishesItsOwn
  <2>5. call.id # 0
    BY <1>1 DEF RuntimeTypeOK
  <2>6. Apart(call) => Apart(call)'
    BY <1>1, <2>5, FinishSees DEF Apart
  <2>7. Polling(call) => Polling(call)'
    BY <1>1, <2>4, <2>6 DEF Polling, Raw
  <2>8. Answered(call) => Answered(call)'
    BY <1>1, <2>6 DEF Answered, Raw
  <2> QED BY <2>2, <2>3, <2>7, <2>8
<1>4. CallsCount'
  <2>1. Newest = Newest' /\ Newest \in Nat
    BY <1>1 DEF Newest, RuntimeTypeOK, CallRecords, AnswerRecords
  <2> QED BY <1>1, <2>1, FinishSees, NewestStep, SeenAreCalls DEF RuntimeInv
<1> QED BY <1>2, <1>3, <1>4 DEF RuntimeInv

\* A call that ends.
LEMMA EndKeeps ==
    ASSUME RuntimeInv, call.kind # "none", NEW verdict \in {"ok", "rejected", "timeout", "failed"},
           NEW got \in Nat, End(verdict, got), UNCHANGED <<regs, engine, status>>,
           verdict = "ok" => \/ call.late \/ Again(call)
                             \/ /\ call.op # "unknown"
                                /\ IF Raw(call) THEN got # call.id ELSE got = call.id,
           verdict = "rejected" => \/ call.kind = "ring" \/ call.late \/ Again(call)
                                   \/ Raw(call) \/ call.op = "unknown"
    PROVE  RuntimeInv'
<1>1. PICK again \in BOOLEAN : again <=> Again(call)
  BY DEF Again
<1>2. again = (call.kind = "gemm" /\ regs.param = 1)
  BY <1>1 DEF Again
<1>3. /\ answer' = [kind |-> call.kind, op |-> call.op, id |-> call.id, verdict |-> verdict,
                    got |-> got, late |-> call.late, again |-> again]
      /\ call' = NoCall
  BY <1>2, Zenon DEF End
<1>4. call \in CallRecords /\ call' \in CallRecords /\ call'.kind = "none"
  BY <1>3 DEF RuntimeInv, RuntimeTypeOK, NoCall, CallRecords, Ops
<1>5. answer' \in AnswerRecords
  BY <1>3, <1>4 DEF CallRecords, AnswerRecords
<1>6. OwnResult'
  BY <1>1, <1>3 DEF OwnResult, Raw, GemmOp
<1>8. CallsCount'
  BY <1>3, <1>4 DEF RuntimeInv, CallsCount, Seen, Newest
<1>7. CallOnTrack'
  BY <1>4 DEF CallOnTrack
<1> QED BY <1>4, <1>5, <1>6, <1>7, <1>8 DEF RuntimeInv, RuntimeTypeOK, NpuTypeOK

LEMMA PollKeeps ==
    ASSUME RuntimeInv, Poll
    PROVE  RuntimeInv'
<1> DEFINE s == CallSteps[call.kind][call.at]
<1>1. /\ RuntimeTypeOK /\ call.kind # "none" /\ s = "poll" /\ UNCHANGED <<regs, engine, status>>
      /\ \/ status.error /\ End("rejected", 0)
         \/ ~status.error /\ status.done /\ Onward /\ answer' = answer
         \/ End("timeout", 0)
         \/ call' = [call EXCEPT !.polls = call.polls + 1] /\ answer' = answer
  BY DEF RuntimeInv, Poll, At
<1> HIDE DEF s
<1>2. call.kind \in Kinds3 /\ call.at = StartsAt[call.kind] + 1 /\ call.at \in 5 .. 6
  BY <1>1, StepsOfCall, StartsAre DEF s, Kinds3
<1>3. call.at < Len(CallSteps[call.kind]) /\ StartsAt[call.kind] \in 4 .. 5
  BY <1>2, StepsAre, StartsAre DEF Kinds3
<1>4. ~call.late => Again(call) \/ Polling(call)
  BY <1>1, <1>2, <1>3 DEF RuntimeInv, CallOnTrack
<1>5. CASE status.error /\ End("rejected", 0)
  <2>1. \/ call.kind = "ring" \/ call.late \/ Again(call)
        \/ Raw(call) \/ call.op = "unknown"
    BY <1>4, <1>5 DEF Polling, Started
  <2> QED BY <1>1, <1>5, <2>1, EndKeeps
<1>6. CASE ~status.error /\ status.done /\ Onward /\ answer' = answer
  <2>1. /\ call' \in CallRecords /\ call'.kind = call.kind /\ call'.id = call.id
        /\ call'.late = call.late /\ call'.at = call.at + 1
        /\ call'.id # 0 /\ call'.at <= Len(CallSteps[call'.kind])
        /\ call'.op = call.op /\ call'.op \in Opcodes(call'.kind)
    BY <1>1, <1>3, <1>6, CallOnward
  <2>2. RuntimeTypeOK' /\ OwnResult'
    BY <1>1, <1>6, <2>1 DEF RuntimeInv, RuntimeTypeOK, NpuTypeOK, OwnResult
  <2>3. CallOnTrack'
    <3> SUFFICES ASSUME ~call.late, ~Again(call)
                 PROVE  Polling(call)' /\ Answered(call)'
      <4>1. ~(call'.at <= StartsAt[call'.kind])
        BY <1>2, <1>3, <2>1
      <4> QED BY <1>1, <2>1, <4>1 DEF CallOnTrack, Again
    <3>0. Polling(call)
      BY <1>4
    <3>1. CASE Raw(call)
      BY <1>1, <2>1, <3>0, <3>1 DEF Polling, Answered, Raw, Apart
    <3>2. CASE ~Raw(call)
      <4>1. Started(call) /\ call.op # "unknown"
        BY <1>6, <3>0, <3>2 DEF Polling
      <4>2. engine = Resting /\ status.done /\ ItsResult(call)
        BY <1>6, <4>1 DEF Started
      <4>3. ItsResult(call)'
        BY <1>1, <2>1, <4>2 DEF ItsResult
      <4>4. ~Raw(call)' /\ call'.op # "unknown"
        BY <2>1, <3>2, <4>1 DEF Raw
      <4> QED BY <1>1, <1>6, <2>1, <4>2, <4>3, <4>4 DEF Started, Polling, Answered
    <3> QED BY <3>1, <3>2
  <2>4. CallsCount'
    BY <1>1, <2>1 DEF RuntimeInv, CallsCount, Seen, Newest
  <2> QED BY <2>2, <2>3, <2>4 DEF RuntimeInv
<1>7. CASE End("timeout", 0)
  BY <1>1, <1>7, EndKeeps
<1>8. CASE call' = [call EXCEPT !.polls = call.polls + 1] /\ answer' = answer
  <2>1. /\ call' \in CallRecords /\ call'.kind = call.kind /\ call'.id = call.id
        /\ call'.late = call.late /\ call'.at = call.at /\ call'.op = call.op
    BY <1>1, <1>8 DEF RuntimeTypeOK, CallRecords
  <2>2. RuntimeTypeOK' /\ OwnResult'
    BY <1>1, <1>8, <2>1 DEF RuntimeInv, RuntimeTypeOK, NpuTypeOK, OwnResult
  <2>3. CallOnTrack'
    <3> SUFFICES ASSUME ~call.late
                 PROVE  Again(call)' \/ Polling(call)'
      BY <1>2, <1>3, <2>1 DEF CallOnTrack
    <3> QED BY <1>1, <1>4, <2>1 DEF Again, Polling, Raw, Apart, Started, ItsResult
  <2>4. CallsCount'
    BY <1>1, <2>1 DEF RuntimeInv, CallsCount, Seen, Newest
  <2> QED BY <2>2, <2>3, <2>4 DEF RuntimeInv
<1> QED BY <1>1, <1>5, <1>6, <1>7, <1>8

LEMMA ReadBackKeeps ==
    ASSUME RuntimeInv, ReadBack
    PROVE  RuntimeInv'
<1> DEFINE s == CallSteps[call.kind][call.at]
<1>1. /\ RuntimeTypeOK /\ call.kind # "none" /\ s = "read" /\ UNCHANGED <<regs, engine, status>>
      /\ call.kind = "scalar" => End("ok", regs.result)
      /\ call.kind = "gemm" => End("ok", regs.scratch)
      /\ call.kind = "ring" => End("failed", regs.scratch) \/ End("ok", regs.scratch)
  BY DEF RuntimeInv, ReadBack, At
<1> HIDE DEF s
<1>2. call.kind \in Kinds3 /\ call.at = StartsAt[call.kind] + 2 /\ StartsAt[call.kind] \in 4 .. 5
  BY <1>1, StepsOfCall, StartsAre DEF s, Kinds3
<1>3. Answered(call) \/ call.late \/ Again(call)
  BY <1>1, <1>2 DEF RuntimeInv, CallOnTrack
<1>4. regs.result \in Nat /\ regs.scratch \in Nat
  BY <1>1 DEF RuntimeTypeOK, NpuTypeOK, Registers
<1>5. CASE call.kind = "scalar"
  <2>1. \/ call.late \/ Again(call)
        \/ /\ call.op # "unknown"
           /\ IF Raw(call) THEN regs.result # call.id ELSE regs.result = call.id
    BY <1>3, <1>5 DEF Answered, ItsResult, Apart, Raw
  <2> QED BY <1>1, <1>4, <1>5, <2>1, EndKeeps
<1>6. CASE call.kind = "gemm"
  BY <1>1, <1>3, <1>4, <1>6, EndKeeps DEF Answered, ItsResult, Raw
<1>7. CASE call.kind = "ring"
  BY <1>1, <1>3, <1>4, <1>7, EndKeeps DEF Answered, ItsResult, Raw
<1> QED BY <1>2, <1>5, <1>6, <1>7 DEF Kinds3

LEMMA RuntimeStep == RuntimeInv /\ [RuntimeNext]_runtimeVars => RuntimeInv'
<1> SUFFICES ASSUME RuntimeInv, [RuntimeNext]_runtimeVars
             PROVE  RuntimeInv'
  OBVIOUS
<1>1. CASE UNCHANGED runtimeVars
  BY <1>1 DEF runtimeVars, RuntimeInv, RuntimeTypeOK, NpuTypeOK, CallOnTrack, OwnResult,
              Programmed, Started, Again, ItsResult, Polling, Answered, Raw, Apart,
              CallsCount, Seen, Newest
<1> QED BY <1>1, BeginKeeps, ProgramKeeps, ClearKeeps, StartKeeps, FinishKeeps, PollKeeps,
           ReadBackKeeps DEF RuntimeNext

\* A call of the runtime returns its own result, whatever opcode it is given, or one of
\* the exceptions applies.
THEOREM CallsReturnTheirOwn == RuntimeSpec => []OwnResult
<1>1. RuntimeInit => RuntimeInv
  BY RuntimeStarts
<1>2. RuntimeInv /\ [RuntimeNext]_runtimeVars => RuntimeInv'
  BY RuntimeStep
<1>3. RuntimeInv => OwnResult
  BY DEF RuntimeInv
<1> QED BY <1>1, <1>2, <1>3, PTL DEF RuntimeSpec

\* An element of a matrix of a rows and b columns is one of a * b.
LEMMA ElementIsInside ==
    ASSUME NEW a \in Nat, NEW b \in Nat, NEW i \in 0 .. a - 1, NEW l \in 0 .. b - 1
    PROVE  i * b + l \in Nat /\ i * b + l < a * b /\ a * b \in Nat
<1>1. PICK d \in Nat : a = i + 1 + d
  <2>1. a - 1 - i \in Nat /\ a = i + 1 + (a - 1 - i)
    OBVIOUS
  <2> QED BY <2>1
<1>2. a * b = i * b + b + d * b
  BY <1>1
<1>3. d * b \in Nat /\ i * b \in Nat
  BY <1>1
<1> QED BY <1>1, <1>2, <1>3

LEMMA RoundedUp ==
    ASSUME NEW x \in Nat
    PROVE  (x + 3) \div 4 \in Nat /\ x <= ((x + 3) \div 4) * 4
OBVIOUS

LEMMA TileFits ==
    ASSUME NEW d \in [m : Nat, n : Nat, k : Nat], GemmFits(d),
           NEW i \in 0 .. d.m - 1, NEW j \in 0 .. d.n - 1, NEW l \in 0 .. d.k - 1
    PROVE  InTile(d, i, j, l)
<1> DEFINE P == d.m * d.k
           Q == d.k * d.n
           R == d.m * d.n
           q == (P + Q + 3) \div 4
           e == i * d.n + j
<1>1. d.m \in Nat /\ d.n \in Nat /\ d.k \in Nat
  OBVIOUS
<1>2. P \in Nat /\ i * d.k + l \in Nat /\ i * d.k + l < P
  BY <1>1, ElementIsInside
<1>3. Q \in Nat /\ l * d.n + j \in Nat /\ l * d.n + j < Q
  BY <1>1, ElementIsInside
<1>4. R \in Nat /\ e \in Nat /\ e < R
  BY <1>1, ElementIsInside
<1>5. q \in Nat /\ P + Q <= q * 4
  BY <1>2, <1>3, RoundedUp
<1>6. CBase(d) = q * 4
  BY DEF CBase
<1>7. 4 * d.m * d.n = 4 * R
  BY <1>1
<1>8. q * 4 + 4 * R <= 64
  BY <1>6, <1>7 DEF GemmFits, ScratchSize
<1>9. CBase(d) + i * 4 * d.n + 4 * j = 4 * (q + e)
  <2>1. i * 4 * d.n = 4 * (i * d.n) /\ i * d.n \in Nat
    BY <1>1
  <2> QED BY <1>5, <1>6, <2>1
<1> HIDE DEF P, Q, R, q, e
<1>10. i * d.k + l < 64
  BY <1>2, <1>3, <1>4, <1>5, <1>8
<1>11. P + l * d.n + j < 64
  <2>1. l * d.n \in Nat
    BY <1>1
  <2> QED BY <2>1, <1>2, <1>3, <1>4, <1>5, <1>8
<1>12. 4 * (q + e) + 3 < 64 /\ (4 * (q + e)) % 4 = 0
  BY <1>4, <1>5, <1>8
<1> QED BY <1>9, <1>10, <1>11, <1>12 DEF InTile, ScratchSize, P

\* The runtime's checks of a GEMM and of a stream descriptor are enough for the NPU.
THEOREM ChecksAreEnough == ChecksSuffice
<1>1. ASSUME NEW d \in Dims, GemmFits(d)
      PROVE  \A i \in 0 .. d.m - 1, j \in 0 .. d.n - 1, l \in 0 .. d.k - 1 : InTile(d, i, j, l)
  BY <1>1, TileFits, RuntimeAssumption DEF RuntimeAssumption
<1>2. ASSUME NEW s \in Streams, StreamPacks(s)
      PROVE  StreamRuns(s)
  <2>1. s.offset \in 0 .. 63 /\ s.bytes \in 1 .. 63
    BY <1>2, RuntimeAssumption DEF RuntimeAssumption, StreamPacks
  <2>2. s.offset % 64 = s.offset /\ s.bytes % 64 = s.bytes
    BY <2>1
  <2> QED BY <1>2, <2>1, <2>2 DEF StreamPacks, StreamRuns
<1> QED BY <1>1, <1>2 DEF ChecksSuffice

-----------------------------------------------------------------------------
\* --------------------------------------------------------------- NpuDriver

IoctlRecords ==
    [kind : Kinds3 \cup {"none"}, op : {"none", "scalar", "gemm", "unknown"}, id : Nat,
     at : 1 .. 10, polls : Nat, ret : {"none", "ok", "EIO", "ETIMEDOUT"}, got : Nat,
     late : BOOLEAN, met : BOOLEAN, again : BOOLEAN]

DriverTypeOK ==
    /\ NpuTypeOK /\ holder \subseteq Callers /\ made \in Nat
    /\ ioctl \in [Callers -> IoctlRecords] /\ returned \in IoctlRecords

\* Every ioctl has a number of its own, and the NPU has seen none that is not given yet.
Numbered ==
    /\ \A v \in Seen : v <= made
    /\ \A c \in Callers : Inside(c) => ioctl[c].id \in 1 .. made
    /\ \A c, k \in Callers : Inside(c) /\ Inside(k) /\ c # k => ioctl[c].id # ioctl[k].id

\* Two that are inside, one with a ring, know of each other.
Meeting ==
    \A c, k \in Callers :
        Inside(c) /\ Inside(k) /\ c # k /\ ioctl[k].kind = "ring" => ioctl[c].met /\ ioctl[k].met

\* The mutex is its holder's alone, and none but a ring gets past "lock" without it.
Locking ==
    /\ \A c \in holder : Inside(c) /\ ioctl[c].kind # "ring" /\ ioctl[c].at > 1
    /\ \A c \in Callers : Inside(c) /\ ioctl[c].kind # "ring" /\ ioctl[c].at > 1 => holder = {c}

\* A scalar command that has not written its operands is nowhere in the NPU.
NotYetWritten ==
    \A c \in Callers : ioctl[c].kind = "scalar" /\ ioctl[c].at <= 3 => ioctl[c].id \notin Seen

\* What an ioctl that met nobody and found the NPU at rest relies on: before its
\* command starts, while it runs, and when the polls have ended.
IoctlStarts == [scalar |-> 6, gemm |-> 7, ring |-> 6]
ScalarSet(i) ==
    /\ i.at > 2 => regs.param = 0
    /\ i.at > 3 => regs.operands = i.id /\ regs.config # i.id /\ regs.result # i.id
    /\ i.at > 4 => regs.opcode = i.op /\ i.op # "none"
GemmSet(i) ==
    /\ i.at > 3 => regs.scratch = i.id
    /\ i.at > 4 => regs.config = i.id
    /\ i.at > 5 => regs.opcode = "gemm"
RingSet(i) ==
    /\ i.at > 1 => regs.param = 1
    /\ i.at > 2 => regs.ring["base"] = i.id
    /\ i.at > 3 => regs.ring["head"] = i.id
    /\ i.at > 4 => regs.ring["tail"] = i.id /\ regs.queued
IsSet(i) ==
    /\ engine = Resting
    /\ i.kind = "scalar" => ScalarSet(i)
    /\ i.kind = "gemm" => GemmSet(i)
    /\ i.kind = "ring" => RingSet(i)

Working(i) ==
    IF Raw(i) THEN engine.of # i.id /\ regs.result # i.id
    ELSE IF i.op = "unknown" THEN engine = Resting /\ status.error
    ELSE Again(i) \/ Started(i)
Polled(i) ==
    /\ i.ret = "ok" => IF Raw(i) THEN engine.of # i.id /\ regs.result # i.id
                       ELSE /\ i.op # "unknown"
                            /\ Again(i) \/ (engine = Resting /\ ItsResult(i))
    /\ i.ret = "EIO" => i.kind = "ring" \/ Raw(i) \/ i.op = "unknown" \/ Again(i)
Returns(i) ==
    /\ i.ret = "ok" => IF Raw(i) THEN i.got # i.id
                       ELSE i.op # "unknown" /\ (i.again \/ i.got = i.id)
    /\ i.ret = "EIO" => i.kind = "ring" \/ Raw(i) \/ i.op = "unknown" \/ i.again

OnTrack(i) ==
    LET s == IoctlStarts[i.kind]
    IN  /\ i.at <= s /\ (i.kind = "ring" \/ i.at > 1) => IsSet(i)
        /\ i.at = s + 1 => Working(i)
        /\ i.at = s + 2 => Polled(i)
        /\ i.at = s + 3 => Returns(i)

Excused(i) == i.late \/ i.met
AllOnTrack == \A c \in Callers : Inside(c) /\ ~Excused(ioctl[c]) => OnTrack(ioctl[c])
ReturnedRight == ~Excused(returned) => Returns(returned)

WithinItsSteps == \A c \in Callers : Inside(c) => ioctl[c].at <= Len(IoctlSteps[ioctl[c].kind])
OddIsScalar ==
    /\ \A c \in Callers : ioctl[c].op = "unknown" => ioctl[c].kind = "scalar"
    /\ returned.op = "unknown" => returned.kind = "scalar"

DriverInv ==
    /\ DriverTypeOK /\ Numbered /\ Meeting /\ Locking /\ NotYetWritten
    /\ WithinItsSteps /\ OddIsScalar /\ AllOnTrack /\ ReturnedRight

\* What the steps of an ioctl are, by their position.
LEMMA IoctlStepsAre ==
    /\ DOMAIN IoctlSteps = Kinds3
    /\ Len(IoctlSteps["scalar"]) = 9
    /\ Len(IoctlSteps["gemm"]) = 10
    /\ Len(IoctlSteps["ring"]) = 8
    /\ IoctlSteps["scalar"][1] = "lock" /\ IoctlSteps["scalar"][2] = "param"
    /\ IoctlSteps["scalar"][3] = "operands" /\ IoctlSteps["scalar"][4] = "opcode"
    /\ IoctlSteps["scalar"][5] = "clear" /\ IoctlSteps["scalar"][6] = "start"
    /\ IoctlSteps["scalar"][7] = "poll" /\ IoctlSteps["scalar"][8] = "read"
    /\ IoctlSteps["scalar"][9] = "unlock"
    /\ IoctlSteps["gemm"][1] = "lock" /\ IoctlSteps["gemm"][2] = "clear"
    /\ IoctlSteps["gemm"][3] = "scratch" /\ IoctlSteps["gemm"][4] = "config"
    /\ IoctlSteps["gemm"][5] = "opcode" /\ IoctlSteps["gemm"][6] = "clear"
    /\ IoctlSteps["gemm"][7] = "start" /\ IoctlSteps["gemm"][8] = "poll"
    /\ IoctlSteps["gemm"][9] = "read" /\ IoctlSteps["gemm"][10] = "unlock"
    /\ IoctlSteps["ring"][1] = "param" /\ IoctlSteps["ring"][2] = "base"
    /\ IoctlSteps["ring"][3] = "head" /\ IoctlSteps["ring"][4] = "tail"
    /\ IoctlSteps["ring"][5] = "clear" /\ IoctlSteps["ring"][6] = "start"
    /\ IoctlSteps["ring"][7] = "poll" /\ IoctlSteps["ring"][8] = "read"
BY DEF IoctlSteps, Kinds3

LEMMA ScalarIoctlAt ==
    ASSUME NEW i \in 1 .. 9, NEW s, s = IoctlSteps["scalar"][i]
    PROVE  \/ (i = 1 /\ s = "lock") \/ (i = 2 /\ s = "param")
           \/ (i = 3 /\ s = "operands") \/ (i = 4 /\ s = "opcode")
           \/ (i = 5 /\ s = "clear") \/ (i = 6 /\ s = "start")
           \/ (i = 7 /\ s = "poll") \/ (i = 8 /\ s = "read")
           \/ (i = 9 /\ s = "unlock")
<1>1. i = 1 \/ i = 2 \/ i = 3 \/ i = 4 \/ i = 5 \/ i = 6 \/ i = 7 \/ i = 8 \/ i = 9
  OBVIOUS
<1>2. CASE i = 1
  BY <1>2, IoctlStepsAre, Zenon
<1>3. CASE i = 2
  BY <1>3, IoctlStepsAre, Zenon
<1>4. CASE i = 3
  BY <1>4, IoctlStepsAre, Zenon
<1>5. CASE i = 4
  BY <1>5, IoctlStepsAre, Zenon
<1>6. CASE i = 5
  BY <1>6, IoctlStepsAre, Zenon
<1>7. CASE i = 6
  BY <1>7, IoctlStepsAre, Zenon
<1>8. CASE i = 7
  BY <1>8, IoctlStepsAre, Zenon
<1>9. CASE i = 8
  BY <1>9, IoctlStepsAre, Zenon
<1>10. CASE i = 9
  BY <1>10, IoctlStepsAre, Zenon
<1> QED BY <1>1, <1>2, <1>3, <1>4, <1>5, <1>6, <1>7, <1>8, <1>9, <1>10, Zenon

LEMMA GemmIoctlAt ==
    ASSUME NEW i \in 1 .. 10, NEW s, s = IoctlSteps["gemm"][i]
    PROVE  \/ (i = 1 /\ s = "lock") \/ (i = 2 /\ s = "clear")
           \/ (i = 3 /\ s = "scratch") \/ (i = 4 /\ s = "config")
           \/ (i = 5 /\ s = "opcode") \/ (i = 6 /\ s = "clear")
           \/ (i = 7 /\ s = "start") \/ (i = 8 /\ s = "poll")
           \/ (i = 9 /\ s = "read") \/ (i = 10 /\ s = "unlock")
<1>1. i = 1 \/ i = 2 \/ i = 3 \/ i = 4 \/ i = 5 \/ i = 6 \/ i = 7 \/ i = 8 \/ i = 9 \/ i = 10
  OBVIOUS
<1>2. CASE i = 1
  BY <1>2, IoctlStepsAre, Zenon
<1>3. CASE i = 2
  BY <1>3, IoctlStepsAre, Zenon
<1>4. CASE i = 3
  BY <1>4, IoctlStepsAre, Zenon
<1>5. CASE i = 4
  BY <1>5, IoctlStepsAre, Zenon
<1>6. CASE i = 5
  BY <1>6, IoctlStepsAre, Zenon
<1>7. CASE i = 6
  BY <1>7, IoctlStepsAre, Zenon
<1>8. CASE i = 7
  BY <1>8, IoctlStepsAre, Zenon
<1>9. CASE i = 8
  BY <1>9, IoctlStepsAre, Zenon
<1>10. CASE i = 9
  BY <1>10, IoctlStepsAre, Zenon
<1>11. CASE i = 10
  BY <1>11, IoctlStepsAre, Zenon
<1> QED BY <1>1, <1>2, <1>3, <1>4, <1>5, <1>6, <1>7, <1>8, <1>9, <1>10, <1>11, Zenon

LEMMA RingIoctlAt ==
    ASSUME NEW i \in 1 .. 8, NEW s, s = IoctlSteps["ring"][i]
    PROVE  \/ (i = 1 /\ s = "param") \/ (i = 2 /\ s = "base")
           \/ (i = 3 /\ s = "head") \/ (i = 4 /\ s = "tail")
           \/ (i = 5 /\ s = "clear") \/ (i = 6 /\ s = "start")
           \/ (i = 7 /\ s = "poll") \/ (i = 8 /\ s = "read")
<1>1. i = 1 \/ i = 2 \/ i = 3 \/ i = 4 \/ i = 5 \/ i = 6 \/ i = 7 \/ i = 8
  OBVIOUS
<1>2. CASE i = 1
  BY <1>2, IoctlStepsAre, Zenon
<1>3. CASE i = 2
  BY <1>3, IoctlStepsAre, Zenon
<1>4. CASE i = 3
  BY <1>4, IoctlStepsAre, Zenon
<1>5. CASE i = 4
  BY <1>5, IoctlStepsAre, Zenon
<1>6. CASE i = 5
  BY <1>6, IoctlStepsAre, Zenon
<1>7. CASE i = 6
  BY <1>7, IoctlStepsAre, Zenon
<1>8. CASE i = 7
  BY <1>8, IoctlStepsAre, Zenon
<1>9. CASE i = 8
  BY <1>9, IoctlStepsAre, Zenon
<1> QED BY <1>1, <1>2, <1>3, <1>4, <1>5, <1>6, <1>7, <1>8, <1>9, Zenon

LEMMA StepsOfIoctl ==
    ASSUME DriverTypeOK, WithinItsSteps, NEW c \in Callers, Inside(c),
           NEW i, i = ioctl[c], NEW s, s = IoctlSteps[i.kind][i.at]
    PROVE  /\ i \in IoctlRecords /\ i.kind \in Kinds3
           /\ i.kind = "scalar" =>
                \/ (i.at = 1 /\ s = "lock") \/ (i.at = 2 /\ s = "param")
                \/ (i.at = 3 /\ s = "operands") \/ (i.at = 4 /\ s = "opcode")
                \/ (i.at = 5 /\ s = "clear") \/ (i.at = 6 /\ s = "start")
                \/ (i.at = 7 /\ s = "poll") \/ (i.at = 8 /\ s = "read")
                \/ (i.at = 9 /\ s = "unlock")
           /\ i.kind = "gemm" =>
                \/ (i.at = 1 /\ s = "lock") \/ (i.at = 2 /\ s = "clear")
                \/ (i.at = 3 /\ s = "scratch") \/ (i.at = 4 /\ s = "config")
                \/ (i.at = 5 /\ s = "opcode") \/ (i.at = 6 /\ s = "clear")
                \/ (i.at = 7 /\ s = "start") \/ (i.at = 8 /\ s = "poll")
                \/ (i.at = 9 /\ s = "read") \/ (i.at = 10 /\ s = "unlock")
           /\ i.kind = "ring" =>
                \/ (i.at = 1 /\ s = "param") \/ (i.at = 2 /\ s = "base")
                \/ (i.at = 3 /\ s = "head") \/ (i.at = 4 /\ s = "tail")
                \/ (i.at = 5 /\ s = "clear") \/ (i.at = 6 /\ s = "start")
                \/ (i.at = 7 /\ s = "poll") \/ (i.at = 8 /\ s = "read")
<1>1. i \in IoctlRecords /\ i.kind \in Kinds3 /\ i.at \in 1 .. 10
  BY DEF DriverTypeOK, Inside, IoctlRecords
<1>2. PICK len : len = Len(IoctlSteps[i.kind])
  OBVIOUS
<1>3. /\ i.at <= len /\ (i.kind = "scalar" => len = 9)
      /\ (i.kind = "gemm" => len = 10) /\ (i.kind = "ring" => len = 8)
  BY <1>2, IoctlStepsAre, Zenon DEF WithinItsSteps
<1>4. /\ i.kind = "scalar" => i.at \in 1 .. 9
      /\ i.kind = "gemm" => i.at \in 1 .. 10
      /\ i.kind = "ring" => i.at \in 1 .. 8
  BY <1>1, <1>3
<1>5. ASSUME i.kind = "scalar"
      PROVE  \/ (i.at = 1 /\ s = "lock") \/ (i.at = 2 /\ s = "param")
             \/ (i.at = 3 /\ s = "operands") \/ (i.at = 4 /\ s = "opcode")
             \/ (i.at = 5 /\ s = "clear") \/ (i.at = 6 /\ s = "start")
             \/ (i.at = 7 /\ s = "poll") \/ (i.at = 8 /\ s = "read")
             \/ (i.at = 9 /\ s = "unlock")
  <2>1. s = IoctlSteps["scalar"][i.at]
    BY <1>5
  <2> QED BY <1>4, <1>5, <2>1, ScalarIoctlAt, Zenon
<1>6. ASSUME i.kind = "gemm"
      PROVE  \/ (i.at = 1 /\ s = "lock") \/ (i.at = 2 /\ s = "clear")
             \/ (i.at = 3 /\ s = "scratch") \/ (i.at = 4 /\ s = "config")
             \/ (i.at = 5 /\ s = "opcode") \/ (i.at = 6 /\ s = "clear")
             \/ (i.at = 7 /\ s = "start") \/ (i.at = 8 /\ s = "poll")
             \/ (i.at = 9 /\ s = "read") \/ (i.at = 10 /\ s = "unlock")
  <2>1. s = IoctlSteps["gemm"][i.at]
    BY <1>6
  <2> QED BY <1>4, <1>6, <2>1, GemmIoctlAt, Zenon
<1>7. ASSUME i.kind = "ring"
      PROVE  \/ (i.at = 1 /\ s = "param") \/ (i.at = 2 /\ s = "base")
             \/ (i.at = 3 /\ s = "head") \/ (i.at = 4 /\ s = "tail")
             \/ (i.at = 5 /\ s = "clear") \/ (i.at = 6 /\ s = "start")
             \/ (i.at = 7 /\ s = "poll") \/ (i.at = 8 /\ s = "read")
  <2>1. s = IoctlSteps["ring"][i.at]
    BY <1>7
  <2> QED BY <1>4, <1>7, <2>1, RingIoctlAt, Zenon
<1> QED BY <1>1, <1>5, <1>6, <1>7

LEMMA IoctlStartsAre ==
    IoctlStarts["scalar"] = 6 /\ IoctlStarts["gemm"] = 7 /\ IoctlStarts["ring"] = 6
BY DEF IoctlStarts

\* An ioctl's record, changed in the ways the driver changes it.
LEMMA IoctlParts ==
    ASSUME NEW i \in IoctlRecords
    PROVE  /\ \A n \in 1 .. 10 : [i EXCEPT !.at = n] \in IoctlRecords
           /\ i.kind # "none" => i.kind \in Kinds3
           /\ i.at \in 1 .. 10 /\ i.id \in Nat
BY DEF IoctlRecords

LEMMA NoIoctlIs ==
    /\ NoIoctl \in IoctlRecords
    /\ NoIoctl.kind = "none" /\ NoIoctl.ret = "none" /\ NoIoctl.op = "none"
BY DEF NoIoctl, IoctlRecords, Kinds3

LEMMA GoesParts ==
    ASSUME DriverTypeOK, NEW c \in Callers, NEW new \in IoctlRecords, new.kind \in Kinds3,
           Goes(c, new), new.at <= Len(IoctlSteps[new.kind])
    PROVE  /\ ioctl' \in [Callers -> IoctlRecords] /\ returned' \in IoctlRecords
           /\ \A k \in Callers : k # c => ioctl'[k] = ioctl[k]
           /\ \/ /\ new.at < Len(IoctlSteps[new.kind]) /\ returned' = NoIoctl
                 /\ new.at + 1 \in 1 .. 10
                 /\ ioctl'[c] = [new EXCEPT !.at = new.at + 1]
              \/ /\ new.at = Len(IoctlSteps[new.kind])
                 /\ ioctl'[c] = NoIoctl /\ returned' = new
<1>1. PICK len \in 1 .. 10 : len = Len(IoctlSteps[new.kind])
  BY IoctlStepsAre DEF Kinds3
<1>2. new.at \in 1 .. 10 /\ ioctl \in [Callers -> IoctlRecords]
  BY IoctlParts DEF DriverTypeOK
<1>3. CASE new.at < Len(IoctlSteps[new.kind])
  <2>1. new.at < len
    BY <1>1, <1>3, Zenon
  <2>2. new.at + 1 \in 1 .. 10
    <3>1. len \in 1 .. 10
      OBVIOUS
    <3> QED BY <1>2, <2>1, <3>1
  <2>3. ioctl' = [ioctl EXCEPT ![c] = [new EXCEPT !.at = new.at + 1]] /\ returned' = NoIoctl
    BY <1>3, Zenon DEF Goes
  <2>4. [new EXCEPT !.at = new.at + 1] \in IoctlRecords
    BY <2>2, IoctlParts, Zenon
  <2> QED BY <1>2, <1>3, <2>2, <2>3, <2>4, NoIoctlIs, Zenon
<1>4. CASE ~(new.at < Len(IoctlSteps[new.kind]))
  <2>1. new.at <= len /\ ~(new.at < len)
    BY <1>1, <1>4, Zenon
  <2>2. new.at = len
    BY <1>1, <1>2, <2>1
  <2>3. ioctl' = [ioctl EXCEPT ![c] = NoIoctl] /\ returned' = new
    BY <1>4, Zenon DEF Goes
  <2> QED BY <1>1, <1>2, <2>2, <2>3, NoIoctlIs, Zenon
<1> QED BY <1>3, <1>4

\* Who is past its lock, with a ring or without, and has met nobody, is alone at work.
LEMMA OthersWait ==
    ASSUME DriverTypeOK, Meeting, Locking, NEW c \in Callers, Inside(c),
           ioctl[c].kind = "ring" \/ ioctl[c].at > 1,
           NEW k \in Callers, k # c, Inside(k), ~ioctl[k].met
    PROVE  ioctl[k].kind \in {"scalar", "gemm"} /\ ioctl[k].at = 1
<1>1. ioctl[c].kind # "ring" /\ ioctl[k].kind # "ring"
  BY DEF Meeting
<1>2. holder = {c}
  BY <1>1 DEF Locking
<1>3. ~(ioctl[k].at > 1)
  BY <1>1, <1>2 DEF Locking
<1>4. ioctl[k] \in IoctlRecords
  BY DEF DriverTypeOK
<1>5. ioctl[k].kind \in Kinds3 /\ ioctl[k].at \in 1 .. 10
  BY <1>4, IoctlParts DEF Inside
<1> QED BY <1>1, <1>3, <1>5 DEF Kinds3

LEMMA NextAt ==
    ASSUME NEW i \in IoctlRecords, i.at + 1 \in 1 .. 10, NEW j, j = [i EXCEPT !.at = i.at + 1]
    PROVE  /\ j \in IoctlRecords /\ j.kind = i.kind /\ j.op = i.op /\ j.id = i.id
           /\ j.at = i.at + 1 /\ j.ret = i.ret /\ j.got = i.got
           /\ j.late = i.late /\ j.met = i.met /\ j.again = i.again
<1>1. PICK n \in 1 .. 10 : n = i.at + 1
  OBVIOUS
<1>2. j = [i EXCEPT !.at = n]
  BY <1>1
<1> QED BY <1>1, <1>2 DEF IoctlRecords

\* A step of one ioctl: the others stay where they are.
LEMMA GoesOnce ==
    ASSUME DriverInv, NEW c \in Callers, Inside(c), NEW new \in IoctlRecords,
           new.kind = ioctl[c].kind, new.id = ioctl[c].id, new.at = ioctl[c].at,
           new.met = ioctl[c].met, Goes(c, new)
    PROVE  /\ DriverTypeOK /\ Numbered /\ Meeting /\ Locking /\ NotYetWritten /\ WithinItsSteps
           /\ AllOnTrack /\ made \in Nat /\ holder \subseteq Callers
           /\ new.kind \in Kinds3 /\ new.at \in 1 .. 10 /\ new.id \in 1 .. made
           /\ new.at <= Len(IoctlSteps[new.kind])
           /\ ioctl' \in [Callers -> IoctlRecords] /\ returned' \in IoctlRecords
           /\ \A k \in Callers : k # c => ioctl'[k] = ioctl[k] /\ (Inside(k)' <=> Inside(k))
           /\ Inside(c)' <=> new.at < Len(IoctlSteps[new.kind])
           /\ Inside(c)' => /\ new.at + 1 \in 1 .. 10 /\ returned' = NoIoctl
                            /\ ioctl'[c] = [new EXCEPT !.at = new.at + 1]
                            /\ ioctl'[c].kind = new.kind /\ ioctl'[c].id = new.id
                            /\ ioctl'[c].at = new.at + 1 /\ ioctl'[c].met = new.met
                            /\ ioctl'[c].late = new.late /\ ioctl'[c].op = new.op
           /\ ~Inside(c)' => ioctl'[c] = NoIoctl /\ returned' = new
<1>1. /\ DriverTypeOK /\ Numbered /\ Meeting /\ Locking /\ NotYetWritten /\ WithinItsSteps /\ AllOnTrack
      /\ ioctl \in [Callers -> IoctlRecords] /\ holder \subseteq Callers /\ made \in Nat
      /\ new.kind \in Kinds3 /\ new.at \in 1 .. 10 /\ new.id \in 1 .. made
      /\ new.at <= Len(IoctlSteps[new.kind])
  <2>1. ioctl[c].id \in 1 .. made /\ new.kind # "none"
    BY DEF DriverInv, Numbered, Inside
  <2> QED BY <2>1, IoctlParts DEF DriverInv, DriverTypeOK, WithinItsSteps
<1>2. /\ ioctl' \in [Callers -> IoctlRecords] /\ returned' \in IoctlRecords
      /\ \A k \in Callers : k # c => ioctl'[k] = ioctl[k]
      /\ \/ /\ new.at < Len(IoctlSteps[new.kind]) /\ returned' = NoIoctl
            /\ new.at + 1 \in 1 .. 10
            /\ ioctl'[c] = [new EXCEPT !.at = new.at + 1]
         \/ /\ new.at = Len(IoctlSteps[new.kind])
            /\ ioctl'[c] = NoIoctl /\ returned' = new
  BY <1>1, GoesParts
<1>3. \A k \in Callers : k # c => (Inside(k)' <=> Inside(k))
  BY <1>2 DEF Inside
<1>4. CASE ioctl'[c] = NoIoctl /\ returned' = new /\ new.at = Len(IoctlSteps[new.kind])
  <2>1. ~Inside(c)' /\ ~(new.at < Len(IoctlSteps[new.kind]))
    BY <1>1, <1>4, NoIoctlIs DEF Inside
  <2> QED BY <1>1, <1>2, <1>3, <1>4, <2>1
<1>5. CASE /\ new.at < Len(IoctlSteps[new.kind]) /\ returned' = NoIoctl /\ new.at + 1 \in 1 .. 10
           /\ ioctl'[c] = [new EXCEPT !.at = new.at + 1]
  <2>1. /\ ioctl'[c].kind = new.kind /\ ioctl'[c].id = new.id /\ ioctl'[c].at = new.at + 1
        /\ ioctl'[c].met = new.met /\ ioctl'[c].late = new.late /\ ioctl'[c].op = new.op
    BY <1>5, NextAt
  <2>2. Inside(c)'
    BY <1>1, <2>1 DEF Inside, Kinds3
  <2> QED BY <1>1, <1>2, <1>3, <1>5, <2>1, <2>2
<1> QED BY <1>2, <1>4, <1>5

\* Its numbers, and its own way, are what a step has to show, besides who holds the
\* mutex and that the others' ways are not disturbed.
LEMMA StepOfOne ==
    ASSUME DriverInv, NEW c \in Callers, Inside(c), NEW new \in IoctlRecords,
           new.kind = ioctl[c].kind, new.id = ioctl[c].id, new.at = ioctl[c].at,
           new.met = ioctl[c].met, new.op = "unknown" => new.op = ioctl[c].op \/ new.kind = "scalar",
           Goes(c, new), made' = made, NpuTypeOK',
           Seen' \subseteq Seen \cup {0, new.id},
           new.kind = "scalar" /\ new.at <= 2 => Seen' \subseteq Seen \cup {0},
           ~Excused(new) /\ new.at < Len(IoctlSteps[new.kind])
             => OnTrack([new EXCEPT !.at = new.at + 1])',
           ~Excused(new) /\ new.at = Len(IoctlSteps[new.kind]) => Returns(new),
           holder' \subseteq Callers, Locking',
           \A k \in Callers : k # c /\ Inside(k) /\ ~Excused(ioctl[k]) => OnTrack(ioctl[k])'
    PROVE  DriverInv'
<1>1. /\ DriverTypeOK /\ Numbered /\ Meeting /\ Locking /\ NotYetWritten /\ WithinItsSteps
      /\ AllOnTrack /\ made \in Nat
      /\ new.kind \in Kinds3 /\ new.at \in 1 .. 10 /\ new.id \in 1 .. made
      /\ new.at <= Len(IoctlSteps[new.kind])
  BY GoesOnce
<1>2. /\ ioctl' \in [Callers -> IoctlRecords] /\ returned' \in IoctlRecords
      /\ \A k \in Callers : k # c => ioctl'[k] = ioctl[k]
      /\ ~Inside(c)' => ioctl'[c] = NoIoctl /\ returned' = new /\ new.at = Len(IoctlSteps[new.kind])
  <2>1. ~Inside(c)' => ~(new.at < Len(IoctlSteps[new.kind]))
    BY GoesOnce
  <2>2. ~Inside(c)' => new.at = Len(IoctlSteps[new.kind])
    <3>1. PICK len \in 1 .. 10 : len = Len(IoctlSteps[new.kind])
      BY <1>1, IoctlStepsAre DEF Kinds3
    <3> QED BY <1>1, <2>1, <3>1, SMTT(60)
  <2> QED BY <2>2, GoesOnce
<1>3. \A k \in Callers : k # c => (Inside(k)' <=> Inside(k))
  BY GoesOnce
<1>4. Inside(c)' => /\ new.at < Len(IoctlSteps[new.kind])
                    /\ ioctl'[c] = [new EXCEPT !.at = new.at + 1] /\ returned' = NoIoctl
                    /\ ioctl'[c].kind = new.kind /\ ioctl'[c].id = new.id
                    /\ ioctl'[c].at = new.at + 1 /\ ioctl'[c].met = new.met
                    /\ ioctl'[c].late = new.late /\ ioctl'[c].op = new.op
  BY GoesOnce
<1>5. DriverTypeOK'
  BY <1>1, <1>2 DEF DriverTypeOK
<1>6. Numbered'
  <2>1. \A v \in Seen' : v <= made'
    BY <1>1 DEF Numbered
  <2>2. \A k \in Callers : Inside(k)' => ioctl'[k].id \in 1 .. made' /\ ioctl'[k].id = ioctl[k].id /\ Inside(k)
    BY <1>1, <1>2, <1>3, <1>4 DEF Numbered
  <2> QED BY <1>1, <2>1, <2>2, Zenon DEF Numbered
<1>7. \A k \in Callers : Inside(k)' => Inside(k) /\ ioctl'[k].kind = ioctl[k].kind /\ ioctl'[k].met = ioctl[k].met
  BY <1>2, <1>3, <1>4
<1>8. Meeting'
  BY <1>1, <1>7, Zenon DEF Meeting
<1>9. NotYetWritten'
  <2> SUFFICES ASSUME NEW k \in Callers, ioctl'[k].kind = "scalar", ioctl'[k].at <= 3
               PROVE  ioctl'[k].id \notin Seen'
    BY DEF NotYetWritten
  <2>1. Inside(k)' /\ Inside(k)
    BY <1>7 DEF Inside
  <2>2. CASE k = c
    <3>1. new.kind = "scalar" /\ new.at <= 2 /\ ioctl'[c].id = new.id
      BY <1>1, <1>4, <2>1, <2>2, SMTT(60)
    <3>2. new.id \notin Seen /\ new.id # 0
      <4>1. ioctl[c].at <= 3 /\ new.id # 0
        BY <1>1, <3>1
      <4> QED BY <1>1, <3>1, <4>1, Zenon DEF NotYetWritten
    <3> QED BY <2>2, <3>1, <3>2
  <2>3. CASE k # c
    <3>1. ioctl[k].id \notin Seen /\ ioctl[k].id # new.id /\ ioctl[k].id \in 1 .. made
      BY <1>1, <1>2, <2>1, <2>3 DEF NotYetWritten, Numbered
    <3> QED BY <1>2, <2>3, <3>1
  <2> QED BY <2>2, <2>3
<1>10. WithinItsSteps'
  <2> SUFFICES ASSUME NEW k \in Callers, Inside(k)'
               PROVE  ioctl'[k].at <= Len(IoctlSteps[ioctl'[k].kind])
    BY DEF WithinItsSteps
  <2>1. CASE k = c
    <3>1. PICK len \in 1 .. 10 : len = Len(IoctlSteps[new.kind])
      BY <1>1, IoctlStepsAre DEF Kinds3
    <3>2. new.at < len
      BY <1>4, <2>1, <3>1, Zenon
    <3>3. new.at + 1 <= len
      BY <1>1, <3>1, <3>2, SMTT(60)
    <3> QED BY <1>4, <2>1, <3>1, <3>3, Zenon
  <2>2. CASE k # c
    BY <1>1, <1>2, <1>3, <2>2 DEF WithinItsSteps
  <2> QED BY <2>1, <2>2
<1>11. AllOnTrack'
  <2> SUFFICES ASSUME NEW k \in Callers, Inside(k)', ~Excused(ioctl[k])'
               PROVE  OnTrack(ioctl[k])'
    BY DEF AllOnTrack
  <2>1. CASE k = c
    <3>1. ~Excused(new)
      BY <1>4, <2>1 DEF Excused
    <3> QED BY <1>4, <2>1, <3>1
  <2>2. CASE k # c
    BY <1>2, <1>3, <2>2 DEF Excused
  <2> QED BY <2>1, <2>2
<1>12. ReturnedRight'
  BY <1>2, <1>4, NoIoctlIs DEF ReturnedRight, Returns, Excused, Raw
<1>13. OddIsScalar'
  <2>1. ioctl'[c].op = "unknown" => ioctl'[c].kind = "scalar"
    BY <1>2, <1>4, NoIoctlIs DEF DriverInv, OddIsScalar
  <2>2. returned'.op = "unknown" => returned'.kind = "scalar"
    BY <1>2, <1>4, NoIoctlIs DEF DriverInv, OddIsScalar
  <2> QED BY <1>2, <2>1, <2>2 DEF DriverInv, OddIsScalar
<1> QED BY <1>5, <1>6, <1>8, <1>9, <1>10, <1>11, <1>12, <1>13 DEF DriverInv

\* Past the lock nobody else is disturbed, and the mutex stays until the last step.
LEMMA GoesKeeps ==
    ASSUME DriverInv, NEW c \in Callers, Inside(c), NEW new \in IoctlRecords,
           new.kind = ioctl[c].kind, new.id = ioctl[c].id, new.at = ioctl[c].at,
           new.met = ioctl[c].met, new.op = "unknown" => new.op = ioctl[c].op \/ new.kind = "scalar",
           Goes(c, new), made' = made, NpuTypeOK',
           Seen' \subseteq Seen \cup {0, new.id},
           new.kind = "scalar" /\ new.at <= 2 => Seen' \subseteq Seen \cup {0},
           ~Excused(new) /\ new.at < Len(IoctlSteps[new.kind])
             => OnTrack([new EXCEPT !.at = new.at + 1])',
           ~Excused(new) /\ new.at = Len(IoctlSteps[new.kind]) => Returns(new),
           new.kind = "ring" \/ new.at > 1,
           new.at = Len(IoctlSteps[new.kind]) /\ new.kind # "ring" => holder' = {},
           new.at < Len(IoctlSteps[new.kind]) \/ new.kind = "ring" => holder' = holder
    PROVE  DriverInv'
<1>1. /\ DriverTypeOK /\ Meeting /\ Locking /\ holder \subseteq Callers
      /\ new.kind \in Kinds3 /\ new.at \in 1 .. 10
      /\ new.at <= Len(IoctlSteps[new.kind])
      /\ \A k \in Callers : k # c => ioctl'[k] = ioctl[k] /\ (Inside(k)' <=> Inside(k))
      /\ Inside(c)' <=> new.at < Len(IoctlSteps[new.kind])
      /\ Inside(c)' => ioctl'[c].kind = new.kind /\ ioctl'[c].at = new.at + 1
  BY GoesOnce
<1>2. new.at < Len(IoctlSteps[new.kind]) \/ new.at = Len(IoctlSteps[new.kind])
  <2>1. PICK len \in 1 .. 10 : len = Len(IoctlSteps[new.kind])
    BY <1>1, IoctlStepsAre DEF Kinds3
  <2> QED BY <1>1, <2>1
<1>3. Locking' /\ holder' \subseteq Callers
  <2>1. CASE new.kind = "ring"
    <3>1. holder' = holder /\ c \notin holder
      BY <1>1, <2>1 DEF Locking
    <3> QED BY <1>1, <2>1, <3>1 DEF Locking
  <2>2. CASE new.kind # "ring"
    <3>1. holder = {c}
      BY <1>1, <2>2 DEF Locking
    <3>2. \A k \in Callers : k # c /\ Inside(k) => ~(ioctl[k].kind # "ring" /\ ioctl[k].at > 1)
      BY <1>1, <3>1 DEF Locking
    <3>3. CASE new.at < Len(IoctlSteps[new.kind])
      <4>1. holder' = {c} /\ Inside(c)' /\ ioctl'[c].kind # "ring" /\ ioctl'[c].at > 1
        BY <1>1, <2>2, <3>1, <3>3
      <4> QED BY <1>1, <3>2, <4>1 DEF Locking
    <3>4. CASE ~(new.at < Len(IoctlSteps[new.kind]))
      <4>1. holder' = {} /\ ~Inside(c)'
        BY <1>1, <1>2, <2>2, <3>4
      <4> QED BY <1>1, <3>2, <4>1 DEF Locking
    <3> QED BY <3>3, <3>4
  <2> QED BY <2>1, <2>2
<1>4. \A k \in Callers : k # c /\ Inside(k) /\ ~Excused(ioctl[k]) => OnTrack(ioctl[k])'
  <2> SUFFICES ASSUME NEW k \in Callers, k # c, Inside(k), ~ioctl[k].met
               PROVE  OnTrack(ioctl[k])'
    BY DEF Excused
  <2>1. ioctl[k].kind \in {"scalar", "gemm"} /\ ioctl[k].at = 1
    BY <1>1, OthersWait
  <2>2. ioctl'[k].kind \in {"scalar", "gemm"} /\ ioctl'[k].at = 1
    BY <1>1, <2>1
  <2> QED BY <2>2, IoctlStartsAre DEF OnTrack
<1> QED BY <1>3, <1>4, StepOfOne

\* What is known of an ioctl at one of its steps.
LEMMA AtStep ==
    ASSUME DriverInv, NEW c \in Callers, Inside(c), NEW i, i = ioctl[c],
           NEW s, s = IoctlSteps[i.kind][i.at]
    PROVE  /\ i \in IoctlRecords /\ i.kind \in Kinds3 /\ i.at \in 1 .. 10
           /\ i.id \in 1 .. made /\ i.id \in Nat /\ i.id # 0 /\ made \in Nat
           /\ regs \in Registers /\ engine \in Engines /\ status \in Flags /\ NpuTypeOK
           /\ s # "lock" => i.kind = "ring" \/ i.at > 1
           /\ s # "unlock" /\ ~(i.kind = "ring" /\ s = "read")
                => i.at < Len(IoctlSteps[i.kind]) /\ i.at + 1 \in 1 .. 10
           /\ s = "unlock" \/ (i.kind = "ring" /\ s = "read") => i.at = Len(IoctlSteps[i.kind])
           /\ ~Excused(i) => OnTrack(i)
           /\ (i.kind = "ring" \/ i.at > 1) /\ i.at <= IoctlStarts[i.kind] /\ ~Excused(i) => IsSet(i)
<1>1. /\ DriverTypeOK /\ WithinItsSteps /\ NpuTypeOK /\ made \in Nat
      /\ regs \in Registers /\ engine \in Engines /\ status \in Flags
  BY DEF DriverInv, DriverTypeOK, NpuTypeOK
<1>2. i.id \in 1 .. made /\ (~Excused(i) => OnTrack(i))
  BY DEF DriverInv, Numbered, AllOnTrack
<1>3. i \in IoctlRecords /\ i.kind \in Kinds3 /\ i.at \in 1 .. 10
  BY <1>1, StepsOfIoctl, IoctlParts
<1>4. /\ s # "lock" => i.kind = "ring" \/ i.at > 1
      /\ s # "unlock" /\ ~(i.kind = "ring" /\ s = "read")
           => i.at < Len(IoctlSteps[i.kind]) /\ i.at + 1 \in 1 .. 10
      /\ s = "unlock" \/ (i.kind = "ring" /\ s = "read") => i.at = Len(IoctlSteps[i.kind])
  <2>1. CASE i.kind = "scalar"
    BY <1>1, <1>3, <2>1, StepsOfIoctl, IoctlStepsAre
  <2>2. CASE i.kind = "gemm"
    BY <1>1, <1>3, <2>2, StepsOfIoctl, IoctlStepsAre
  <2>3. CASE i.kind = "ring"
    BY <1>1, <1>3, <2>3, StepsOfIoctl, IoctlStepsAre
  <2> QED BY <1>3, <2>1, <2>2, <2>3 DEF Kinds3
<1>5. (i.kind = "ring" \/ i.at > 1) /\ i.at <= IoctlStarts[i.kind] /\ ~Excused(i) => IsSet(i)
  BY <1>2 DEF OnTrack
<1>6. i.id \in Nat /\ i.id # 0
  BY <1>1, <1>2
<1> QED BY <1>1, <1>2, <1>3, <1>4, <1>5, <1>6

\* A step that programs the command, or clears the status: what was set stays set.
LEMMA SettingKeeps ==
    ASSUME DriverInv, NEW c \in Callers, Inside(c), NEW i, i = ioctl[c],
           NEW new \in IoctlRecords, new.kind = i.kind, new.id = i.id, new.at = i.at,
           new.met = i.met, new.late = i.late, i.kind = "ring" \/ i.at > 1,
           new.op = "unknown" => new.op = i.op \/ new.kind = "scalar",
           i.at < IoctlStarts[i.kind], Goes(c, new), made' = made, holder' = holder, NpuTypeOK',
           Seen' \subseteq Seen \cup {0, new.id},
           new.kind = "scalar" /\ new.at <= 2 => Seen' \subseteq Seen \cup {0},
           NEW j, j = [new EXCEPT !.at = new.at + 1], IsSet(i) => IsSet(j)'
    PROVE  DriverInv'
<1>1. PICK s : s = IoctlSteps[i.kind][i.at]
  OBVIOUS
<1>2. i \in IoctlRecords /\ i.kind \in Kinds3 /\ i.at \in 1 .. 10
  BY <1>1, AtStep
<1>3. /\ i.at <= IoctlStarts[i.kind] /\ i.at + 1 <= IoctlStarts[i.kind] /\ i.at + 1 \in 1 .. 10
      /\ i.at < Len(IoctlSteps[i.kind]) /\ ~(i.at = Len(IoctlSteps[i.kind]))
  <2>1. PICK len, start : len = Len(IoctlSteps[i.kind]) /\ start = IoctlStarts[i.kind]
    OBVIOUS
  <2>2. (start = 6 /\ len \in 8 .. 9) \/ (start = 7 /\ len = 10)
    <3>1. (start = 6 /\ (len = 9 \/ len = 8)) \/ (start = 7 /\ len = 10)
      BY <1>2, <2>1, IoctlStepsAre, IoctlStartsAre, ZenonT(60) DEF Kinds3
    <3> QED BY <3>1
  <2>3. i.at < start
    BY <2>1
  <2>4. i.at <= start /\ i.at + 1 <= start /\ i.at + 1 \in 1 .. 10 /\ i.at < len /\ i.at # len
    BY <1>2, <2>2, <2>3
  <2> QED BY <2>1, <2>4, Zenon
<1>4. ~Excused(i) => IsSet(i)
  BY <1>1, <1>3, AtStep
<1>5. j.kind = i.kind /\ j.at = i.at + 1
  BY <1>3, NextAt
<1>6. ~Excused(new) => OnTrack(j)'
  <2>1. ~Excused(new) => IsSet(j)'
    BY <1>4 DEF Excused
  <2>2. /\ ~(j.at = IoctlStarts[j.kind] + 1) /\ ~(j.at = IoctlStarts[j.kind] + 2)
        /\ ~(j.at = IoctlStarts[j.kind] + 3)
    BY <1>2, <1>3, <1>5, IoctlStartsAre DEF Kinds3
  <2> QED BY <2>1, <2>2 DEF OnTrack
<1> QED BY <1>3, <1>6, GoesKeeps

LEMMA CommandWritten ==
    ASSUME DriverInv, NEW c \in Callers, NEW step \in {"param", "operands", "scratch", "config"},
           StepIs(c, step), Written(step, ioctl[c].kind, ioctl[c].id), UNCHANGED status,
           Goes(c, ioctl[c]), UNCHANGED <<holder, made>>
    PROVE  DriverInv'
<1>1. PICK i, j : i = ioctl[c] /\ j = [i EXCEPT !.at = i.at + 1]
  OBVIOUS
<1>2. Inside(c) /\ step = IoctlSteps[i.kind][i.at] /\ DriverTypeOK /\ WithinItsSteps
  BY <1>1 DEF StepIs, DriverInv
<1>3. /\ i \in IoctlRecords /\ i.kind \in Kinds3 /\ i.at \in 1 .. 10 /\ i.id \in Nat
      /\ regs \in Registers /\ engine \in Engines /\ status \in Flags
      /\ i.kind = "ring" \/ i.at > 1
      /\ i.at + 1 \in 1 .. 10
  BY <1>1, <1>2, AtStep
<1>4. j.kind = i.kind /\ j.op = i.op /\ j.id = i.id /\ j.at = i.at + 1
  BY <1>1, <1>3, NextAt
<1>5. /\ i.kind = "scalar" => (i.at = 2 /\ step = "param") \/ (i.at = 3 /\ step = "operands")
      /\ i.kind = "gemm" => (i.at = 3 /\ step = "scratch") \/ (i.at = 4 /\ step = "config")
      /\ i.kind = "ring" => i.at = 1 /\ step = "param"
  BY <1>1, <1>2, StepsOfIoctl
<1>6. /\ i.at < IoctlStarts[i.kind]
      /\ (i.kind = "scalar" /\ i.at <= 2 => step = "param")
  BY <1>3, <1>5, IoctlStartsAre DEF Kinds3
<1>7. /\ Written(step, i.kind, i.id) /\ Goes(c, i)
      /\ engine' = engine \/ \E what : engine' = Mixed(what)
  BY <1>1, Zenon DEF Written
<1>8. /\ engine' \in Engines /\ engine'.of \in {0, engine.of} /\ (engine = Resting => engine' = Resting)
      /\ status' \in Flags
  <2>1. \A what : Mixed(what) \in {engine, [engine EXCEPT !.of = 0]}
    BY DEF Mixed
  <2>2. [engine EXCEPT !.of = 0].of = 0
    BY <1>3 DEF Engines
  <2>3. \A what : engine = Resting => Mixed(what) = Resting
    BY DEF Mixed, Resting
  <2> QED BY <1>3, <1>7, <2>1, <2>2, <2>3, EngineParts
<1>9. regs' \in Registers
  BY <1>3, <1>7, RegisterParts, ZenonT(60) DEF Written
<1>10. /\ step = "param" => /\ regs'.param = (IF i.kind = "ring" THEN 1 ELSE 0)
                            /\ regs'.operands = regs.operands
       /\ step = "operands" => regs'.operands = i.id /\ regs'.param = regs.param
       /\ step = "scratch" => /\ regs'.scratch = i.id /\ regs'.operands = regs.operands
       /\ step = "config" => regs'.config = i.id /\ regs'.operands = regs.operands
                             /\ regs'.scratch = regs.scratch
       /\ step # "config" => regs'.config = regs.config
       /\ regs'.result = regs.result /\ regs'.ring = regs.ring
  BY <1>3, <1>7 DEF Written, Registers
<1>11. Seen' \subseteq Seen \cup {0, i.id} /\ (step = "param" => Seen' \subseteq Seen \cup {0})
  <2>1. regs'.operands \in {regs.operands, i.id} /\ regs'.config \in {regs.config, i.id}
        /\ (step = "param" => regs'.operands = regs.operands /\ regs'.config = regs.config)
    BY <1>10
  <2> QED BY <1>8, <1>10, <2>1 DEF Seen
<1>12. IsSet(i) => IsSet(j)'
  <2> SUFFICES ASSUME IsSet(i)
               PROVE  IsSet(j)'
    OBVIOUS
  <2>1. engine' = Resting
    BY <1>8 DEF IsSet
  <2>2. CASE i.kind = "scalar" /\ i.at = 2 /\ step = "param"
    BY <1>4, <1>10, <2>1, <2>2 DEF IsSet, ScalarSet
  <2>3. CASE i.kind = "scalar" /\ i.at = 3 /\ step = "operands"
    <3>1. i.id \notin Seen /\ regs.param = 0
      BY <1>1, <2>3 DEF DriverInv, NotYetWritten, IsSet, ScalarSet
    <3>2. regs'.config # i.id /\ regs'.result # i.id
      BY <1>10, <2>3, <3>1 DEF Seen
    <3> QED BY <1>4, <1>10, <2>1, <2>3, <3>1, <3>2 DEF IsSet, ScalarSet
  <2>4. CASE i.kind = "gemm" /\ i.at = 3 /\ step = "scratch"
    BY <1>4, <1>10, <2>1, <2>4 DEF IsSet, GemmSet
  <2>5. CASE i.kind = "gemm" /\ i.at = 4 /\ step = "config"
    BY <1>4, <1>10, <2>1, <2>5 DEF IsSet, GemmSet
  <2>6. CASE i.kind = "ring" /\ i.at = 1 /\ step = "param"
    BY <1>4, <1>10, <2>1, <2>6 DEF IsSet, RingSet
  <2> QED BY <1>3, <1>5, <2>2, <2>3, <2>4, <2>5, <2>6 DEF Kinds3
<1> QED
  <2>1. NpuTypeOK'
    BY <1>8, <1>9 DEF NpuTypeOK
  <2> QED BY <1>1, <1>2, <1>3, <1>6, <1>7, <1>11, <1>12, <2>1, SettingKeeps

LEMMA RingWritten ==
    ASSUME DriverInv, NEW c \in Callers, WriteRing(c), Goes(c, ioctl[c]), UNCHANGED <<holder, made>>
    PROVE  DriverInv'
<1>1. PICK i, j : i = ioctl[c] /\ j = [i EXCEPT !.at = i.at + 1]
  OBVIOUS
<1>2. PICK r \in RingRegs, q \in BOOLEAN :
        LET ring == [regs.ring EXCEPT ![r] = i.id]
        IN  /\ StepIs(c, r)
            /\ ring["head"] = ring["tail"] => q
            /\ regs' = [regs EXCEPT !.ring = ring, !.queued = IF r = "base" THEN regs.queued ELSE q]
  <2>1. PICK r \in RingRegs :
          /\ StepIs(c, r)
          /\ LET ring == [regs.ring EXCEPT ![r] = ioctl[c].id]
             IN \E q \in IF ring["head"] = ring["tail"] THEN {TRUE} ELSE BOOLEAN :
                  regs' = [regs EXCEPT !.ring = ring, !.queued = IF r = "base" THEN @ ELSE q]
    BY Zenon DEF WriteRing
  <2>2. \E q \in IF [regs.ring EXCEPT ![r] = i.id]["head"] = [regs.ring EXCEPT ![r] = i.id]["tail"]
               THEN {TRUE} ELSE BOOLEAN :
            regs' = [regs EXCEPT !.ring = [regs.ring EXCEPT ![r] = i.id],
                                 !.queued = IF r = "base" THEN regs.queued ELSE q]
    BY <1>1, <2>1
  <2>3. PICK q \in BOOLEAN :
            /\ [regs.ring EXCEPT ![r] = i.id]["head"] = [regs.ring EXCEPT ![r] = i.id]["tail"] => q
            /\ regs' = [regs EXCEPT !.ring = [regs.ring EXCEPT ![r] = i.id],
                                    !.queued = IF r = "base" THEN regs.queued ELSE q]
    <3>1. CASE [regs.ring EXCEPT ![r] = i.id]["head"] = [regs.ring EXCEPT ![r] = i.id]["tail"]
      BY <2>2, <3>1, Zenon
    <3>2. CASE [regs.ring EXCEPT ![r] = i.id]["head"] # [regs.ring EXCEPT ![r] = i.id]["tail"]
      BY <2>2, <3>2, Zenon
    <3> QED BY <3>1, <3>2
  <2> QED BY <2>1, <2>3, Zenon
<1>3. Inside(c) /\ r = IoctlSteps[i.kind][i.at] /\ DriverTypeOK /\ WithinItsSteps
  BY <1>1, <1>2 DEF StepIs, DriverInv
<1>4. r \in {"base", "head", "tail"}
  BY DEF RingRegs
<1>5. /\ i \in IoctlRecords /\ i.kind \in Kinds3 /\ i.at \in 1 .. 10 /\ i.id \in Nat
      /\ regs \in Registers /\ engine \in Engines /\ status \in Flags
      /\ i.at + 1 \in 1 .. 10
  BY <1>1, <1>3, <1>4, AtStep
<1>6. j.kind = i.kind /\ j.op = i.op /\ j.id = i.id /\ j.at = i.at + 1
  BY <1>1, <1>5, NextAt
<1>7. /\ i.kind = "ring"
      /\ (i.at = 2 /\ r = "base") \/ (i.at = 3 /\ r = "head") \/ (i.at = 4 /\ r = "tail")
  BY <1>1, <1>3, <1>4, <1>5, StepsOfIoctl DEF Kinds3
<1>8. PICK ring \in [RingRegs -> Nat], b \in BOOLEAN :
        /\ ring = [regs.ring EXCEPT ![r] = i.id]
        /\ ring["head"] = ring["tail"] /\ r # "base" => b
        /\ regs' = [regs EXCEPT !.ring = ring, !.queued = b]
  <2>1. [regs.ring EXCEPT ![r] = i.id] \in [RingRegs -> Nat] /\ regs.queued \in BOOLEAN
    BY <1>5 DEF Registers
  <2>2. CASE r = "base"
    BY <1>2, <2>1, <2>2, Zenon
  <2>3. CASE r # "base"
    BY <1>2, <2>1, <2>3, Zenon
  <2> QED BY <2>2, <2>3
<1>9. /\ regs' \in Registers /\ regs'.ring = ring /\ regs'.queued = b /\ regs'.param = regs.param
      /\ regs'.operands = regs.operands /\ regs'.config = regs.config /\ regs'.result = regs.result
  BY <1>5, <1>8 DEF Registers
<1>10. /\ ring[r] = i.id /\ \A x \in RingRegs : x # r => ring[x] = regs.ring[x]
  BY <1>5, <1>8 DEF Registers
<1>11. /\ engine' \in Engines /\ engine'.of \in {0, engine.of} /\ (engine = Resting => engine' = Resting)
       /\ status' = status
  <2>1. engine' = Mixed("ring") /\ status' = status
    BY DEF WriteRing
  <2>2. engine' \in {engine, [engine EXCEPT !.of = 0]}
    BY <2>1 DEF Mixed
  <2>3. [engine EXCEPT !.of = 0].of = 0
    BY <1>5 DEF Engines
  <2>4. engine = Resting => engine' = Resting
    BY <2>1 DEF Mixed, Resting
  <2> QED BY <1>5, <2>1, <2>2, <2>3, <2>4, EngineParts
<1>12. Seen' \subseteq Seen \cup {0, i.id}
  <2>1. regs'.ring["base"] \in {regs.ring["base"], i.id}
    BY <1>9, <1>10 DEF RingRegs
  <2> QED BY <1>9, <1>11, <2>1 DEF Seen
<1>13. IsSet(i) => IsSet(j)'
  <2> SUFFICES ASSUME IsSet(i)
               PROVE  IsSet(j)'
    OBVIOUS
  <2>1. engine' = Resting /\ RingSet(i)
    BY <1>7, <1>11 DEF IsSet
  <2>2. RingSet(j)'
    <3>1. CASE i.at = 2 /\ r = "base"
      BY <1>6, <1>9, <1>10, <2>1, <3>1 DEF RingSet
    <3>2. CASE i.at = 3 /\ r = "head"
      BY <1>6, <1>9, <1>10, <2>1, <3>2 DEF RingSet, RingRegs
    <3>3. CASE i.at = 4 /\ r = "tail"
      <4>1. regs.ring["base"] = i.id /\ regs.ring["head"] = i.id /\ regs.param = 1
        BY <2>1, <3>3 DEF RingSet
      <4>2. ring["base"] = i.id /\ ring["head"] = i.id /\ ring["tail"] = i.id
        BY <1>10, <3>3, <4>1 DEF RingRegs
      <4>3. b
        BY <1>8, <3>3, <4>2
      <4> QED BY <1>6, <1>9, <4>1, <4>2, <4>3 DEF RingSet
    <3> QED BY <1>7, <3>1, <3>2, <3>3
  <2> QED BY <1>6, <1>7, <2>1, <2>2 DEF IsSet
<1> QED
  <2>1. NpuTypeOK' /\ i.at < IoctlStarts[i.kind]
    BY <1>5, <1>7, <1>9, <1>11, IoctlStartsAre DEF NpuTypeOK
  <2> QED BY <1>1, <1>3, <1>5, <1>7, <1>12, <1>13, <2>1, SettingKeeps

LEMMA Cleared ==
    ASSUME DriverInv, NEW c \in Callers, StepIs(c, "clear"), Goes(c, ioctl[c]),
           status' = [done |-> FALSE, error |-> FALSE], UNCHANGED <<regs, engine, holder, made>>
    PROVE  DriverInv'
<1>1. PICK i, j : i = ioctl[c] /\ j = [i EXCEPT !.at = i.at + 1]
  OBVIOUS
<1>2. Inside(c) /\ "clear" = IoctlSteps[i.kind][i.at] /\ DriverTypeOK /\ WithinItsSteps
  BY <1>1 DEF StepIs, DriverInv
<1>3. /\ i \in IoctlRecords /\ i.kind \in Kinds3 /\ i.at \in 1 .. 10
      /\ NpuTypeOK /\ (i.kind = "ring" \/ i.at > 1)
      /\ i.at + 1 \in 1 .. 10
  BY <1>1, <1>2, AtStep
<1>4. j.kind = i.kind /\ j.op = i.op /\ j.id = i.id /\ j.at = i.at + 1
  BY <1>1, <1>3, NextAt
<1>5. /\ i.kind = "scalar" => i.at = 5
      /\ i.kind = "gemm" => i.at = 2 \/ i.at = 6
      /\ i.kind = "ring" => i.at = 5
  BY <1>1, <1>2, StepsOfIoctl
<1>6. i.at < IoctlStarts[i.kind]
  BY <1>3, <1>5, IoctlStartsAre DEF Kinds3
<1>7. IsSet(i) => IsSet(j)'
  <2>1. IsSet(i) => engine' = Resting
    BY DEF IsSet
  <2>2. ASSUME i.kind = "scalar", ScalarSet(i) PROVE ScalarSet(j)'
    BY <1>4, <1>5, <2>2 DEF ScalarSet
  <2>3. ASSUME i.kind = "gemm", GemmSet(i) PROVE GemmSet(j)'
    BY <1>4, <1>5, <2>3 DEF GemmSet
  <2>4. ASSUME i.kind = "ring", RingSet(i) PROVE RingSet(j)'
    BY <1>4, <1>5, <2>4 DEF RingSet
  <2> QED BY <1>4, <2>1, <2>2, <2>3, <2>4 DEF IsSet
<1>8. NpuTypeOK' /\ Seen' \subseteq Seen \cup {0}
  BY <1>3 DEF NpuTypeOK, Flags, Seen
<1> QED BY <1>1, <1>2, <1>3, <1>6, <1>7, <1>8, SettingKeeps

\* How a start goes on for the ioctl that starts.
LEMMA StartRuns ==
    ASSUME NpuTypeOK, StartEngine, UNCHANGED regs, NEW i \in IoctlRecords, i.kind \in Kinds3,
           i.id # 0, i.at = IoctlStarts[i.kind], IsSet(i), i.op = "unknown" => i.kind = "scalar",
           NEW j, j.kind = i.kind, j.op = i.op, j.id = i.id
    PROVE  Working(j)'
<1>1. engine = Resting /\ engine.of = 0
  BY DEF IsSet, Resting
<1>2. CASE i.kind = "scalar"
  <2>1. /\ regs.param = 0 /\ regs.operands = i.id /\ regs.config # i.id /\ regs.result # i.id
        /\ regs.opcode = i.op /\ i.op \in {"scalar", "gemm", "unknown"}
    BY <1>2, IoctlStartsAre DEF IsSet, ScalarSet, IoctlRecords
  <2>2. CASE i.op = "scalar"
    <3>1. ~Refused
      BY <2>1, <2>2 DEF Refused, GemmOp
    <3>2. status' = [done |-> FALSE, error |-> FALSE] /\ engine' = [runs |-> "scalar", of |-> i.id]
      BY <1>1, <2>1, <2>2, <3>1 DEF StartEngine, GemmOp
    <3>3. Started(j)'
      BY <1>2, <3>2 DEF Started
    <3> QED BY <2>2, <3>3 DEF Working, Raw
  <2>3. CASE i.op = "unknown"
    <3>1. Refused
      BY <2>1, <2>3 DEF Refused
    <3>2. status' = [done |-> TRUE, error |-> TRUE] /\ engine' = engine
      BY <1>1, <3>1 DEF StartEngine
    <3> QED BY <1>1, <1>2, <2>3, <3>2 DEF Working, Raw
  <2>4. CASE i.op = "gemm"
    <3>1. CASE Refused
      <4>1. engine' = engine
        BY <1>1, <3>1 DEF StartEngine
      <4> QED BY <1>1, <1>2, <2>1, <2>4, <4>1 DEF Working, Raw
    <3>2. CASE ~Refused
      <4>1. engine'.of \in {regs.config, 0}
        BY <1>1, <2>1, <2>4, <3>2 DEF StartEngine, GemmOp
      <4> QED BY <1>2, <2>1, <2>4, <4>1 DEF Working, Raw
    <3> QED BY <3>1, <3>2
  <2> QED BY <2>1, <2>2, <2>3, <2>4
<1>3. CASE i.kind = "gemm"
  <2>1. regs.scratch = i.id /\ regs.config = i.id /\ regs.opcode = "gemm"
    BY <1>3, IoctlStartsAre DEF IsSet, GemmSet
  <2>2. ASSUME regs.param # 1 PROVE Started(j)'
    <3>1. ~Refused
      BY <2>1, <2>2 DEF Refused, GemmOp
    <3>2. status' = [done |-> FALSE, error |-> FALSE] /\ engine' = [runs |-> "gemm", of |-> i.id]
      BY <1>1, <2>1, <2>2, <3>1 DEF StartEngine, GemmOp
    <3> QED BY <1>3, <3>2 DEF Started
  <2> QED BY <1>3, <2>2 DEF Working, Raw, Again
<1>4. CASE i.kind = "ring"
  <2>1. regs.param = 1 /\ regs.queued /\ \A r \in RingRegs : regs.ring[r] = i.id
    BY <1>4, IoctlStartsAre DEF IsSet, RingSet, RingRegs
  <2>2. ~Refused /\ RingOf = i.id
    BY <2>1 DEF Refused, RingOf, RingRegs
  <2>3. status' = [done |-> FALSE, error |-> FALSE] /\ engine' = [runs |-> "ring", of |-> i.id]
    BY <1>1, <2>1, <2>2 DEF StartEngine
  <2> QED BY <1>4, <2>3 DEF Working, Raw, Started
<1> QED BY <1>2, <1>3, <1>4 DEF Kinds3

LEMMA StartedByIoctl ==
    ASSUME DriverInv, NEW c \in Callers, StepIs(c, "start"), Goes(c, ioctl[c]), StartEngine,
           UNCHANGED <<regs, holder, made>>
    PROVE  DriverInv'
<1>1. PICK i, j : i = ioctl[c] /\ j = [i EXCEPT !.at = i.at + 1]
  OBVIOUS
<1>2. /\ Inside(c) /\ "start" = IoctlSteps[i.kind][i.at] /\ DriverTypeOK /\ WithinItsSteps
      /\ i.op = "unknown" => i.kind = "scalar"
  BY <1>1 DEF StepIs, DriverInv, OddIsScalar
<1>3. /\ i \in IoctlRecords /\ i.kind \in Kinds3 /\ i.at \in 1 .. 10 /\ i.id # 0
      /\ NpuTypeOK /\ (i.kind = "ring" \/ i.at > 1)
      /\ i.at + 1 \in 1 .. 10 /\ i.at < Len(IoctlSteps[i.kind])
  BY <1>1, <1>2, AtStep
<1>4. j.kind = i.kind /\ j.op = i.op /\ j.id = i.id /\ j.at = i.at + 1
  BY <1>1, <1>3, NextAt
<1>5. i.at = IoctlStarts[i.kind] /\ i.at <= IoctlStarts[i.kind] /\ i.at > 2
  BY <1>1, <1>2, <1>3, StepsOfIoctl, IoctlStartsAre DEF Kinds3
<1>6. ~Excused(i) => OnTrack(j)'
  <2>1. ~Excused(i) => IsSet(i)
    BY <1>1, <1>2, <1>3, <1>5, AtStep, Zenon
  <2>2. ~Excused(i) => Working(j)'
    BY <1>2, <1>3, <1>4, <1>5, <2>1, StartRuns
  <2> QED BY <1>3, <1>4, <1>5, <2>2 DEF OnTrack
<1>7. NpuTypeOK' /\ Seen' \subseteq Seen \cup {0}
  <2>1. engine'.of \in Seen \cup {0} /\ NpuTypeOK'
    BY <1>3, StartType, StartSees DEF NpuTypeOK
  <2> QED BY <2>1 DEF Seen
<1>8. ~(i.at = Len(IoctlSteps[i.kind]))
  BY <1>3
<1> QED BY <1>1, <1>2, <1>3, <1>5, <1>6, <1>7, <1>8, GoesKeeps

LEMMA RegisterWritten ==
    ASSUME DriverInv, NEW c \in Callers, WriteRegister(c)
    PROVE  DriverInv'
<1>1. Goes(c, ioctl[c]) /\ UNCHANGED <<holder, made>>
  BY DEF WriteRegister
<1>2. \/ \E step \in {"param", "operands", "scratch", "config"} :
            StepIs(c, step) /\ Written(step, ioctl[c].kind, ioctl[c].id) /\ UNCHANGED status
      \/ WriteRing(c)
      \/ /\ StepIs(c, "clear")
         /\ status' = [done |-> FALSE, error |-> FALSE] /\ UNCHANGED <<regs, engine>>
      \/ StepIs(c, "start") /\ StartEngine /\ UNCHANGED regs
  BY Zenon DEF WriteRegister
<1> QED BY <1>1, <1>2, CommandWritten, RingWritten, Cleared, StartedByIoctl

LEMMA OpcodeWritten ==
    ASSUME DriverInv, NEW c \in Callers, WriteOpcode(c)
    PROVE  DriverInv'
<1>1. PICK i : i = ioctl[c]
  OBVIOUS
<1>2. PICK op \in {"scalar", "gemm", "unknown"} :
        /\ Written("opcode", op, i.id) /\ Goes(c, [i EXCEPT !.op = op])
        /\ i.kind = "scalar" \/ op = "gemm"
  BY <1>1 DEF WriteOpcode, GemmOp
<1>3. PICK new, j : new = [i EXCEPT !.op = op] /\ j = [new EXCEPT !.at = new.at + 1]
  OBVIOUS
<1>4. /\ Inside(c) /\ "opcode" = IoctlSteps[i.kind][i.at] /\ DriverTypeOK /\ WithinItsSteps
      /\ UNCHANGED <<status, holder, made>>
  BY <1>1 DEF WriteOpcode, StepIs, DriverInv
<1>5. /\ i \in IoctlRecords /\ i.kind \in Kinds3 /\ i.at \in 1 .. 10
      /\ regs \in Registers /\ NpuTypeOK /\ (i.kind = "ring" \/ i.at > 1)
      /\ i.at + 1 \in 1 .. 10
  BY <1>1, <1>4, AtStep
<1>6. /\ new \in IoctlRecords /\ new.kind = i.kind /\ new.id = i.id /\ new.at = i.at
      /\ new.met = i.met /\ new.late = i.late /\ new.op = op
  BY <1>3, <1>5 DEF IoctlRecords
<1>7. j.kind = i.kind /\ j.op = op /\ j.id = i.id /\ j.at = i.at + 1
  BY <1>3, <1>5, <1>6, NextAt
<1>8. (i.kind = "scalar" => i.at = 4) /\ (i.kind = "gemm" => i.at = 5) /\ i.kind # "ring"
  BY <1>1, <1>4, StepsOfIoctl
<1>9. i.at < IoctlStarts[i.kind] /\ ~(new.at <= 2)
  BY <1>5, <1>6, <1>8, IoctlStartsAre DEF Kinds3
<1>10. regs' = [regs EXCEPT !.opcode = op] /\ engine' = engine
  BY <1>2 DEF Written
<1>11. /\ regs' \in Registers /\ regs'.opcode = op /\ regs'.param = regs.param
       /\ regs'.operands = regs.operands /\ regs'.config = regs.config /\ regs'.result = regs.result
       /\ regs'.scratch = regs.scratch /\ regs'.ring = regs.ring
  BY <1>5, <1>10 DEF Registers
<1>12. NpuTypeOK' /\ Seen' \subseteq Seen \cup {0, new.id}
  BY <1>4, <1>5, <1>10, <1>11 DEF NpuTypeOK, Seen
<1>13. IsSet(i) => IsSet(j)'
  <2>1. IsSet(i) => engine' = Resting
    BY <1>10 DEF IsSet
  <2>2. ASSUME i.kind = "scalar", ScalarSet(i) PROVE ScalarSet(j)'
    BY <1>7, <1>8, <1>11, <2>2 DEF ScalarSet
  <2>3. ASSUME i.kind = "gemm", GemmSet(i) PROVE GemmSet(j)'
    BY <1>2, <1>7, <1>8, <1>11, <2>3 DEF GemmSet
  <2> QED BY <1>7, <1>8, <2>1, <2>2, <2>3 DEF IsSet
<1>14. new.op = "unknown" => new.op = i.op \/ new.kind = "scalar"
  BY <1>2, <1>6
<1> QED BY <1>1, <1>2, <1>3, <1>4, <1>5, <1>6, <1>9, <1>12, <1>13, <1>14, SettingKeeps, ZenonT(60)

\* An ioctl that goes on, or ends, by what it read: the NPU is left as it is.
LEMMA ReadingKeeps ==
    ASSUME DriverInv, NEW c \in Callers, Inside(c), NEW i, i = ioctl[c],
           NEW new \in IoctlRecords, new.kind = i.kind, new.id = i.id, new.at = i.at,
           new.met = i.met, new.late = i.late, new.op = i.op, new.kind = "ring" \/ new.at > 1,
           Goes(c, new), UNCHANGED <<regs, engine, status, made>>,
           new.at = Len(IoctlSteps[new.kind]) /\ new.kind # "ring" => holder' = {},
           new.at < Len(IoctlSteps[new.kind]) \/ new.kind = "ring" => holder' = holder,
           ~Excused(new) /\ new.at < Len(IoctlSteps[new.kind])
             => OnTrack([new EXCEPT !.at = new.at + 1]),
           ~Excused(new) /\ new.at = Len(IoctlSteps[new.kind]) => Returns(new)
    PROVE  DriverInv'
<1>1. NpuTypeOK' /\ Seen' = Seen
  BY DEF DriverInv, DriverTypeOK, NpuTypeOK, Seen
<1>2. OnTrack([new EXCEPT !.at = new.at + 1]) => OnTrack([new EXCEPT !.at = new.at + 1])'
  BY DEF OnTrack, IsSet, ScalarSet, GemmSet, RingSet, Working, Polled, Again, Started, ItsResult
<1> QED BY <1>1, <1>2, GoesKeeps

\* The polls end, with an answer that Polled describes.
LEMMA PollsEnd ==
    ASSUME DriverInv, NEW c \in Callers, StepIs(c, "poll"),
           NEW ret \in {"ok", "EIO", "ETIMEDOUT"}, Goes(c, [ioctl[c] EXCEPT !.ret = ret]),
           ret = "EIO" => status.error, ret = "ok" => ~status.error /\ status.done,
           UNCHANGED <<regs, engine, status, holder, made>>
    PROVE  DriverInv'
<1>1. PICK i, new, j : /\ i = ioctl[c] /\ new = [i EXCEPT !.ret = ret]
                       /\ j = [new EXCEPT !.at = new.at + 1]
  OBVIOUS
<1>2. Inside(c) /\ "poll" = IoctlSteps[i.kind][i.at] /\ DriverTypeOK /\ WithinItsSteps
  BY <1>1 DEF StepIs, DriverInv
<1>3. /\ i \in IoctlRecords /\ i.kind \in Kinds3 /\ i.at \in 1 .. 10 /\ (i.kind = "ring" \/ i.at > 1)
      /\ i.at < Len(IoctlSteps[i.kind]) /\ i.at + 1 \in 1 .. 10 /\ (~Excused(i) => OnTrack(i))
  BY <1>1, <1>2, AtStep
<1>4. /\ new \in IoctlRecords /\ new.kind = i.kind /\ new.op = i.op /\ new.id = i.id
      /\ new.at = i.at /\ new.late = i.late /\ new.met = i.met /\ new.ret = ret
  BY <1>1, <1>3 DEF IoctlRecords
<1>5. /\ j.kind = i.kind /\ j.op = i.op /\ j.id = i.id /\ j.at = i.at + 1 /\ j.ret = ret
  <2>1. new.at + 1 \in 1 .. 10
    BY <1>3, <1>4
  <2>2. j.kind = new.kind /\ j.op = new.op /\ j.id = new.id /\ j.at = new.at + 1 /\ j.ret = new.ret
    BY <1>1, <1>4, <2>1, NextAt
  <2> QED BY <1>4, <2>2
<1>6. i.at = IoctlStarts[i.kind] + 1 /\ IoctlStarts[i.kind] \in 6 .. 7
  BY <1>1, <1>2, <1>3, StepsOfIoctl, IoctlStartsAre DEF Kinds3
<1>7. ASSUME OnTrack(i) PROVE Polled(j)
  <2>1. Working(i)
    BY <1>6, <1>7 DEF OnTrack
  <2>2. (Raw(j) <=> Raw(i)) /\ (Again(j) <=> Again(i)) /\ (ItsResult(j) <=> ItsResult(i))
    BY <1>5 DEF Raw, Again, ItsResult
  <2>3. CASE Raw(i)
    BY <1>5, <2>1, <2>2, <2>3 DEF Working, Polled
  <2>4. CASE ~Raw(i) /\ i.op = "unknown"
    BY <1>5, <2>1, <2>2, <2>4 DEF Working, Polled
  <2>5. CASE ~Raw(i) /\ i.op # "unknown"
    <3>1. Again(i) \/ Started(i)
      BY <2>1, <2>5 DEF Working
    <3>2. ret = "EIO" => Again(i) \/ i.kind = "ring"
      BY <3>1 DEF Started
    <3>3. ret = "ok" => Again(i) \/ (engine = Resting /\ ItsResult(i))
      BY <3>1 DEF Started
    <3> QED BY <1>5, <2>2, <2>5, <3>2, <3>3 DEF Polled
  <2> QED BY <2>3, <2>4, <2>5
<1>8. OnTrack(i) => OnTrack(j)
  <2>1. /\ ~(j.at <= IoctlStarts[j.kind]) /\ ~(j.at = IoctlStarts[j.kind] + 1)
        /\ ~(j.at = IoctlStarts[j.kind] + 3)
    BY <1>5, <1>6
  <2> QED BY <1>7, <2>1 DEF OnTrack
<1>9. (Excused(new) <=> Excused(i)) /\ ~(new.at = Len(IoctlSteps[new.kind]))
  BY <1>3, <1>4 DEF Excused
<1>10. ~Excused(new) /\ new.at < Len(IoctlSteps[new.kind]) => OnTrack(j)
  BY <1>3, <1>8, <1>9
<1>11. Goes(c, new)
  BY <1>1
<1> QED BY <1>1, <1>2, <1>3, <1>4, <1>9, <1>10, <1>11, ReadingKeeps, ZenonT(60)

\* How an ioctl got on does not depend on its polls, nor on whom it met.
LEMMA SameWay ==
    ASSUME NEW i, NEW j, j.kind = i.kind, j.op = i.op, j.id = i.id, j.at = i.at,
           j.ret = i.ret, j.got = i.got, j.again = i.again, OnTrack(i)
    PROVE  OnTrack(j)
<1>1. /\ (Raw(j) <=> Raw(i)) /\ (Again(j) <=> Again(i)) /\ (ItsResult(j) <=> ItsResult(i))
      /\ (Started(j) <=> Started(i))
  BY DEF Raw, Again, ItsResult, Started
<1>2. IsSet(j) <=> IsSet(i)
  BY DEF IsSet, ScalarSet, GemmSet, RingSet
<1>3. Working(j) <=> Working(i)
  BY <1>1 DEF Working
<1>4. Polled(j) <=> Polled(i)
  BY <1>1 DEF Polled
<1>5. Returns(j) <=> Returns(i)
  BY <1>1 DEF Returns
<1> QED BY <1>2, <1>3, <1>4, <1>5 DEF OnTrack

\* A poll that finds nothing.
LEMMA PollsOn ==
    ASSUME DriverInv, NEW c \in Callers, StepIs(c, "poll"),
           ioctl' = [ioctl EXCEPT ![c].polls = ioctl[c].polls + 1], returned' = NoIoctl,
           UNCHANGED <<regs, engine, status, holder, made>>
    PROVE  DriverInv'
<1>1. /\ DriverTypeOK /\ ioctl \in [Callers -> IoctlRecords]
      /\ Numbered /\ Meeting /\ Locking /\ NotYetWritten /\ WithinItsSteps /\ OddIsScalar /\ AllOnTrack
  BY DEF DriverInv, DriverTypeOK
<1>2. PICK new : new = [ioctl[c] EXCEPT !.polls = ioctl[c].polls + 1]
  OBVIOUS
<1>3. /\ new \in IoctlRecords /\ new.kind = ioctl[c].kind /\ new.op = ioctl[c].op /\ new.id = ioctl[c].id
      /\ new.at = ioctl[c].at /\ new.late = ioctl[c].late /\ new.met = ioctl[c].met
      /\ new.ret = ioctl[c].ret /\ new.got = ioctl[c].got /\ new.again = ioctl[c].again
  <2>1. PICK i \in IoctlRecords : i = ioctl[c]
    BY <1>1
  <2> QED BY <1>2, <2>1 DEF IoctlRecords
<1>4. ioctl' = [ioctl EXCEPT ![c] = new] /\ ioctl' \in [Callers -> IoctlRecords]
  BY <1>1, <1>2, <1>3
<1>5. \A k \in Callers :
        /\ ioctl'[k].kind = ioctl[k].kind /\ ioctl'[k].op = ioctl[k].op /\ ioctl'[k].id = ioctl[k].id
        /\ ioctl'[k].at = ioctl[k].at /\ ioctl'[k].late = ioctl[k].late /\ ioctl'[k].met = ioctl[k].met
        /\ ioctl'[k].ret = ioctl[k].ret /\ ioctl'[k].got = ioctl[k].got
        /\ ioctl'[k].again = ioctl[k].again
  BY <1>1, <1>3, <1>4
<1>6. \A k \in Callers : Inside(k)' <=> Inside(k)
  BY <1>5 DEF Inside
<1>7. DriverTypeOK'
  BY <1>1, <1>4, NoIoctlIs DEF DriverTypeOK, NpuTypeOK
<1>8. Numbered' /\ NotYetWritten' /\ Seen' = Seen
  BY <1>1, <1>5, <1>6 DEF Numbered, NotYetWritten, Seen
<1>9. Meeting' /\ Locking'
  <2>1. Meeting'
    BY <1>1, <1>5, <1>6 DEF Meeting
  <2>2. Locking'
    BY <1>1, <1>5, <1>6 DEF Locking, DriverTypeOK
  <2> QED BY <2>1, <2>2
<1>10. WithinItsSteps' /\ OddIsScalar' /\ ReturnedRight'
  BY <1>1, <1>5, <1>6, NoIoctlIs DEF WithinItsSteps, OddIsScalar, ReturnedRight, Returns
<1>11. AllOnTrack'
  <2> SUFFICES ASSUME NEW k \in Callers, Inside(k), ~Excused(ioctl[k])
               PROVE  OnTrack(ioctl[k])'
    BY <1>5, <1>6 DEF AllOnTrack, Excused
  <2>1. OnTrack(ioctl[k])
    BY <1>1 DEF AllOnTrack
  <2>2. PICK i, j : i = ioctl[k] /\ j = ioctl'[k]
    OBVIOUS
  <2>3. /\ j.kind = i.kind /\ j.op = i.op /\ j.id = i.id /\ j.at = i.at
        /\ j.ret = i.ret /\ j.got = i.got /\ j.again = i.again
    BY <1>5, <2>2
  <2>4. OnTrack(j)
    BY <2>1, <2>2, <2>3, SameWay
  <2>5. OnTrack(j)'
    BY <2>4 DEF OnTrack, IsSet, ScalarSet, GemmSet, RingSet, Working, Polled, Again, Started,
                ItsResult, Returns, Raw
  <2> QED BY <2>2, <2>5
<1> QED BY <1>7, <1>8, <1>9, <1>10, <1>11 DEF DriverInv

LEMMA WaitKeeps ==
    ASSUME DriverInv, NEW c \in Callers, WaitDone(c)
    PROVE  DriverInv'
<1>1. StepIs(c, "poll") /\ UNCHANGED <<regs, engine, status, holder, made>>
  BY DEF WaitDone
<1>2. \/ status.error /\ Goes(c, [ioctl[c] EXCEPT !.ret = "EIO"])
      \/ ~status.error /\ status.done /\ Goes(c, [ioctl[c] EXCEPT !.ret = "ok"])
      \/ Goes(c, [ioctl[c] EXCEPT !.ret = "ETIMEDOUT"])
      \/ ioctl' = [ioctl EXCEPT ![c].polls = ioctl[c].polls + 1] /\ returned' = NoIoctl
  BY Zenon DEF WaitDone
<1>3. CASE status.error /\ Goes(c, [ioctl[c] EXCEPT !.ret = "EIO"])
  BY <1>1, <1>3, PollsEnd
<1>4. CASE ~status.error /\ status.done /\ Goes(c, [ioctl[c] EXCEPT !.ret = "ok"])
  BY <1>1, <1>4, PollsEnd
<1>5. CASE Goes(c, [ioctl[c] EXCEPT !.ret = "ETIMEDOUT"])
  BY <1>1, <1>5, PollsEnd
<1>6. CASE ioctl' = [ioctl EXCEPT ![c].polls = ioctl[c].polls + 1] /\ returned' = NoIoctl
  BY <1>1, <1>6, PollsOn
<1> QED BY <1>2, <1>3, <1>4, <1>5, <1>6

LEMMA ReadKeepsIoctl ==
    ASSUME DriverInv, NEW c \in Callers, ReadResult(c)
    PROVE  DriverInv'
<1>0. PICK again \in BOOLEAN : again = (ioctl[c].kind = "gemm" /\ regs.param = 1)
  OBVIOUS
<1>1. PICK i : i = ioctl[c]
  OBVIOUS
<1>2. PICK got : got = IF i.kind = "scalar" THEN regs.result ELSE regs.scratch
  OBVIOUS
<1>3. PICK new, j : new = [i EXCEPT !.got = got, !.again = again] /\ j = [new EXCEPT !.at = new.at + 1]
  OBVIOUS
<1>4. /\ Inside(c) /\ "read" = IoctlSteps[i.kind][i.at] /\ DriverTypeOK /\ WithinItsSteps
      /\ Goes(c, new) /\ UNCHANGED <<regs, engine, status, holder, made>>
  BY <1>0, <1>1, <1>2, <1>3, Zenon DEF ReadResult, StepIs, DriverInv
<1>5. /\ i \in IoctlRecords /\ i.kind \in Kinds3 /\ i.at \in 1 .. 10 /\ (i.kind = "ring" \/ i.at > 1)
      /\ i.kind # "ring" => i.at < Len(IoctlSteps[i.kind]) /\ i.at + 1 \in 1 .. 10
      /\ i.kind = "ring" => i.at = Len(IoctlSteps[i.kind])
      /\ ~Excused(i) => OnTrack(i)
      /\ regs \in Registers
  BY <1>1, <1>4, AtStep
<1>6. got \in Nat
  BY <1>2, <1>5 DEF Registers
<1>7. /\ new \in IoctlRecords /\ new.kind = i.kind /\ new.op = i.op /\ new.id = i.id
      /\ new.at = i.at /\ new.late = i.late /\ new.met = i.met /\ new.ret = i.ret
      /\ new.got = got /\ new.again = again
  BY <1>3, <1>5, <1>6 DEF IoctlRecords
<1>8. i.at = IoctlStarts[i.kind] + 2 /\ IoctlStarts[i.kind] \in 6 .. 7
  BY <1>1, <1>4, <1>5, StepsOfIoctl, IoctlStartsAre, SMTT(60) DEF Kinds3
<1>9. OnTrack(i) => Returns(new)
  <2> SUFFICES ASSUME Polled(i)
               PROVE  Returns(new)
    BY <1>8 DEF OnTrack
  <2>1. (Raw(new) <=> Raw(i)) /\ (new.again <=> Again(i))
    BY <1>0, <1>1, <1>7 DEF Raw, Again
  <2>2. Raw(i) => got = regs.result
    BY <1>2 DEF Raw
  <2>3. ItsResult(i) => got = i.id
    BY <1>2 DEF ItsResult
  <2> QED BY <1>7, <2>1, <2>2, <2>3 DEF Polled, Returns
<1>10. Excused(new) <=> Excused(i)
  BY <1>7 DEF Excused
<1>11. CASE i.kind = "ring"
  <2>1. ~(new.at < Len(IoctlSteps[new.kind]))
    BY <1>5, <1>7, <1>11
  <2>2. ~Excused(new) => Returns(new)
    BY <1>5, <1>9, <1>10
  <2> QED BY <1>1, <1>4, <1>7, <1>11, <2>1, <2>2, ReadingKeeps
<1>12. CASE i.kind # "ring"
  <2>1. new.at + 1 \in 1 .. 10 /\ new.at < Len(IoctlSteps[new.kind])
    BY <1>5, <1>7, <1>12
  <2>2. /\ j.kind = new.kind /\ j.op = new.op /\ j.id = new.id /\ j.at = new.at + 1
        /\ j.ret = new.ret /\ j.got = new.got /\ j.again = new.again
    BY <1>3, <1>7, <2>1, NextAt
  <2>3. Returns(new) => OnTrack(j)
    <3>1. /\ ~(j.at <= IoctlStarts[j.kind]) /\ ~(j.at = IoctlStarts[j.kind] + 1)
          /\ ~(j.at = IoctlStarts[j.kind] + 2)
      BY <1>7, <1>8, <2>2
    <3>2. Returns(new) => Returns(j)
      BY <2>2 DEF Returns, Raw
    <3> QED BY <3>1, <3>2 DEF OnTrack
  <2>4. ~(new.at = Len(IoctlSteps[new.kind]))
    BY <1>7, <2>1
  <2>5. ~Excused(new) => OnTrack([new EXCEPT !.at = new.at + 1])
    BY <1>3, <1>5, <1>9, <1>10, <2>3
  <2>6. new.kind # "ring" /\ new.at > 1
    BY <1>5, <1>7, <1>12
  <2> QED BY <1>1, <1>4, <1>7, <2>1, <2>4, <2>5, <2>6, ReadingKeeps
<1> QED BY <1>11, <1>12

LEMMA UnlockKeeps ==
    ASSUME DriverInv, NEW c \in Callers, Unlock(c)
    PROVE  DriverInv'
<1>1. PICK i : i = ioctl[c]
  OBVIOUS
<1>2. /\ Inside(c) /\ "unlock" = IoctlSteps[i.kind][i.at] /\ DriverTypeOK /\ WithinItsSteps
      /\ Goes(c, i) /\ holder' = {} /\ UNCHANGED <<regs, engine, status, made>>
  BY <1>1 DEF Unlock, StepIs, DriverInv
<1>3. /\ i \in IoctlRecords /\ i.kind \in Kinds3 /\ i.at \in 1 .. 10 /\ (i.kind = "ring" \/ i.at > 1)
      /\ i.at = Len(IoctlSteps[i.kind]) /\ (~Excused(i) => OnTrack(i))
  BY <1>1, <1>2, AtStep
<1>4. i.at = IoctlStarts[i.kind] + 3 /\ i.kind # "ring"
  BY <1>1, <1>2, <1>3, StepsOfIoctl, IoctlStartsAre, SMTT(60) DEF Kinds3
<1>5. ~Excused(i) => Returns(i)
  BY <1>3, <1>4 DEF OnTrack
<1>6. ~(i.at < Len(IoctlSteps[i.kind]))
  BY <1>3
<1> QED BY <1>1, <1>2, <1>3, <1>4, <1>5, <1>6, ReadingKeeps

LEMMA LockKeeps ==
    ASSUME DriverInv, NEW c \in Callers, Lock(c)
    PROVE  DriverInv'
<1>0. PICK late \in BOOLEAN : late = (engine # Resting)
  OBVIOUS
<1>1. PICK i : i = ioctl[c]
  OBVIOUS
<1>2. PICK new, j : new = [i EXCEPT !.late = late] /\ j = [new EXCEPT !.at = new.at + 1]
  OBVIOUS
<1>3. /\ Inside(c) /\ "lock" = IoctlSteps[i.kind][i.at] /\ DriverTypeOK /\ WithinItsSteps
      /\ holder = {} /\ holder' = {c} /\ Goes(c, new) /\ UNCHANGED <<regs, engine, status, made>>
  BY <1>0, <1>1, <1>2, Zenon DEF Lock, StepIs, DriverInv
<1>4. /\ i \in IoctlRecords /\ i.kind \in Kinds3 /\ i.at \in 1 .. 10
      /\ i.at < Len(IoctlSteps[i.kind]) /\ i.at + 1 \in 1 .. 10
  BY <1>1, <1>3, AtStep
<1>5. /\ new \in IoctlRecords /\ new.kind = i.kind /\ new.op = i.op /\ new.id = i.id
      /\ new.at = i.at /\ new.late = late /\ new.met = i.met
  BY <1>2, <1>4 DEF IoctlRecords
<1>6. i.at = 1 /\ i.kind \in {"scalar", "gemm"}
  BY <1>1, <1>3, <1>4, StepsOfIoctl DEF Kinds3
<1>7. j.kind = i.kind /\ j.at = 2
  <2>1. new.at + 1 \in 1 .. 10
    BY <1>4, <1>5
  <2>2. j.kind = new.kind /\ j.at = new.at + 1
    BY <1>2, <1>5, <2>1, NextAt
  <2> QED BY <1>5, <1>6, <2>2
<1>8. ~Excused(new) => OnTrack(j)'
  <2> SUFFICES ASSUME ~late
               PROVE  OnTrack(j)'
    BY <1>5 DEF Excused
  <2>1. engine' = Resting
    BY <1>0, <1>3, Zenon
  <2>2. IsSet(j)'
    BY <1>6, <1>7, <2>1 DEF IsSet, ScalarSet, GemmSet
  <2>3. IoctlStarts[j.kind] \in 6 .. 7
    BY <1>6, <1>7, IoctlStartsAre
  <2> QED BY <1>7, <2>2, <2>3 DEF OnTrack
<1>9. /\ \A k \in Callers : k # c => ioctl'[k] = ioctl[k] /\ (Inside(k)' <=> Inside(k))
      /\ Inside(c)' /\ ioctl'[c].kind = new.kind /\ ioctl'[c].at = new.at + 1
  <2>1. new.at < Len(IoctlSteps[new.kind])
    BY <1>4, <1>5
  <2> QED BY <1>1, <1>3, <1>5, <2>1, GoesOnce
<1>10. Locking'
  <2>1. ioctl'[c].kind # "ring" /\ ioctl'[c].at > 1
    BY <1>5, <1>6, <1>9
  <2>2. \A k \in Callers : Inside(k) => ioctl[k].kind = "ring" \/ ~(ioctl[k].at > 1)
    BY <1>3 DEF DriverInv, Locking
  <2> QED BY <1>3, <1>9, <2>1, <2>2 DEF Locking
<1>11. \A k \in Callers : k # c /\ Inside(k) /\ ~Excused(ioctl[k]) => OnTrack(ioctl[k])'
  <2> SUFFICES ASSUME NEW k \in Callers, k # c, Inside(k), ~Excused(ioctl[k])
               PROVE  OnTrack(ioctl[k])'
    OBVIOUS
  <2>1. OnTrack(ioctl[k]) /\ ioctl'[k] = ioctl[k]
    BY <1>9 DEF DriverInv, AllOnTrack
  <2> QED BY <1>3, <2>1
          DEF OnTrack, IsSet, ScalarSet, GemmSet, RingSet, Working, Polled, Again, Started, ItsResult
<1>12. NpuTypeOK' /\ Seen' = Seen /\ holder' \subseteq Callers
  BY <1>3 DEF DriverTypeOK, NpuTypeOK, Seen
<1>13. ~(new.at = Len(IoctlSteps[new.kind])) /\ (new.op = "unknown" => new.op = ioctl[c].op)
  BY <1>1, <1>4, <1>5
<1>14. NpuTypeOK' /\ Seen' \subseteq Seen \cup {0} /\ Seen' \subseteq Seen \cup {0, new.id}
  BY <1>12
<1> QED BY <1>1, <1>2, <1>3, <1>5, <1>8, <1>10, <1>11, <1>12, <1>13, <1>14, StepOfOne

\* An ioctl begins: it has a number nobody has had, and the others learn of it.
LEMMA EnterKeeps ==
    ASSUME DriverInv, NEW c \in Callers, NEW kind \in Kinds3, Enter(c, kind)
    PROVE  DriverInv'
<1> DEFINE Meets(k) == k # c /\ Inside(k) /\ "ring" \in {kind, ioctl[k].kind}
<1>1. PICK late \in BOOLEAN : late = (kind = "ring" /\ engine # Resting)
  OBVIOUS
<1>2. PICK met \in BOOLEAN : met = \E o \in Callers : Meets(o)
  OBVIOUS
<1>3. PICK m \in [Callers -> BOOLEAN] : \A k \in Callers : m[k] = (ioctl[k].met \/ Meets(k))
  <2>1. \A k \in Callers : (ioctl[k].met \/ Meets(k)) \in BOOLEAN
    BY Zenon
  <2>2. [k \in Callers |-> ioctl[k].met \/ Meets(k)] \in [Callers -> BOOLEAN]
    BY <2>1, Zenon
  <2> HIDE DEF Meets
  <2> QED BY <2>2, Zenon
<1>4. PICK new : new = [NoIoctl EXCEPT !.kind = kind, !.id = made + 1, !.late = late, !.met = met]
  OBVIOUS
<1>5. /\ DriverTypeOK /\ Numbered /\ Meeting /\ Locking /\ NotYetWritten /\ WithinItsSteps
      /\ OddIsScalar /\ AllOnTrack /\ made \in Nat /\ ioctl \in [Callers -> IoctlRecords]
      /\ ~Inside(c)
  BY DEF DriverInv, DriverTypeOK, Enter
<1>6. /\ new \in IoctlRecords /\ new.kind = kind /\ new.op = "none" /\ new.id = made + 1
      /\ new.at = 1 /\ new.late = late /\ new.met = met
  <2>1. PICK n \in Nat : n = made + 1
    BY <1>5
  <2>2. new = [kind |-> kind, op |-> "none", id |-> n, at |-> 1, polls |-> 0, ret |-> "none",
               got |-> 0, late |-> late, met |-> met, again |-> FALSE]
    BY <1>4, <2>1 DEF NoIoctl
  <2>3. /\ new \in IoctlRecords /\ new.kind = kind /\ new.op = "none" /\ new.id = n
        /\ new.at = 1 /\ new.late = late /\ new.met = met
    BY <2>2 DEF IoctlRecords
  <2> QED BY <2>1, <2>3
<1>7. /\ made' = made + 1 /\ returned' = NoIoctl /\ UNCHANGED <<regs, engine, status, holder>>
      /\ ioctl' = [k \in Callers |-> IF k = c THEN new ELSE [ioctl[k] EXCEPT !.met = m[k]]]
  <2>1. \A k \in Callers : [ioctl[k] EXCEPT !.met = @ \/ Meets(k)] = [ioctl[k] EXCEPT !.met = m[k]]
    BY <1>3, Zenon
  <2>2. [NoIoctl EXCEPT !.kind = kind, !.id = made + 1, !.late = kind = "ring" /\ engine # Resting,
                   !.met = \E o \in Callers : Meets(o)] = new
    BY <1>1, <1>2, <1>4, Zenon
  <2>3. ioctl' = [k \in Callers |-> IF k = c
                    THEN [NoIoctl EXCEPT !.kind = kind, !.id = made + 1, !.late = kind = "ring" /\ engine # Resting,
                            !.met = \E o \in Callers : Meets(o)]
                    ELSE [ioctl[k] EXCEPT !.met = @ \/ Meets(k)]]
    BY Zenon DEF Enter
  <2> QED BY <2>1, <2>2, <2>3, ZenonT(60) DEF Enter
<1>8. \A k \in Callers : k # c =>
        /\ ioctl'[k] \in IoctlRecords
        /\ ioctl'[k].kind = ioctl[k].kind /\ ioctl'[k].op = ioctl[k].op /\ ioctl'[k].id = ioctl[k].id
        /\ ioctl'[k].at = ioctl[k].at /\ ioctl'[k].late = ioctl[k].late /\ ioctl'[k].met = m[k]
        /\ ioctl'[k].ret = ioctl[k].ret /\ ioctl'[k].got = ioctl[k].got
        /\ ioctl'[k].again = ioctl[k].again
  <2> SUFFICES ASSUME NEW k \in Callers, k # c
               PROVE  /\ ioctl'[k] \in IoctlRecords
                      /\ ioctl'[k].kind = ioctl[k].kind /\ ioctl'[k].op = ioctl[k].op
                      /\ ioctl'[k].id = ioctl[k].id /\ ioctl'[k].at = ioctl[k].at
                      /\ ioctl'[k].late = ioctl[k].late /\ ioctl'[k].met = m[k]
                      /\ ioctl'[k].ret = ioctl[k].ret /\ ioctl'[k].got = ioctl[k].got
                      /\ ioctl'[k].again = ioctl[k].again
    OBVIOUS
  <2>1. PICK i \in IoctlRecords : i = ioctl[k]
    BY <1>5
  <2>2. PICK b \in BOOLEAN : b = m[k]
    OBVIOUS
  <2>3. ioctl'[k] = [i EXCEPT !.met = b]
    BY <1>7, <2>1, <2>2
  <2> QED BY <2>1, <2>2, <2>3 DEF IoctlRecords
<1>9. ioctl'[c] = new
  BY <1>7
<1>10. ioctl' \in [Callers -> IoctlRecords]
  BY <1>6, <1>7, <1>8, <1>9
<1>11. Inside(c)' /\ \A k \in Callers : k # c => (Inside(k)' <=> Inside(k))
  BY <1>6, <1>8, <1>9 DEF Inside, Kinds3
<1>12. \A k \in Callers : k # c /\ Inside(k) => (ioctl[k].met => ioctl'[k].met)
  BY <1>3, <1>8
<1>13. \A k \in Callers : k # c /\ Inside(k) /\ (kind = "ring" \/ ioctl[k].kind = "ring")
         => ioctl'[k].met /\ ioctl'[c].met
  <2> SUFFICES ASSUME NEW k \in Callers, k # c, Inside(k), kind = "ring" \/ ioctl[k].kind = "ring"
               PROVE  ioctl'[k].met /\ ioctl'[c].met
    OBVIOUS
  <2>1. Meets(k)
    OBVIOUS
  <2>2. m[k] /\ met
    BY <1>2, <1>3, <2>1, Zenon
  <2> QED BY <1>6, <1>8, <1>9, <2>2
<1>14. DriverTypeOK'
  BY <1>5, <1>7, <1>10, NoIoctlIs DEF DriverTypeOK, NpuTypeOK
<1>15. \A v \in Seen : v \in Nat /\ v <= made
  BY <1>5 DEF Numbered, Seen, DriverTypeOK, NpuTypeOK, Registers, Engines, RingRegs
<1>16. Seen' = Seen
  BY <1>7 DEF Seen
<1>17. Numbered'
  <2>1. \A v \in Seen' : v <= made'
    BY <1>5, <1>7, <1>15, <1>16
  <2>2. \A k \in Callers : k # c /\ Inside(k)' => ioctl'[k].id \in 1 .. made /\ ioctl'[k].id = ioctl[k].id /\ Inside(k)
    BY <1>5, <1>8, <1>11 DEF Numbered
  <2>3. ioctl'[c].id = made + 1
    BY <1>6, <1>9
  <2>4. \A k \in Callers : Inside(k)' => ioctl'[k].id \in 1 .. made'
    BY <1>5, <1>7, <2>2, <2>3
  <2>5. ASSUME NEW a \in Callers, NEW b \in Callers, Inside(a)', Inside(b)', a # b
        PROVE  ioctl'[a].id # ioctl'[b].id
    <3>1. CASE a # c /\ b # c
      BY <1>5, <2>2, <2>5, <3>1 DEF Numbered
    <3>2. CASE a = c
      BY <1>5, <2>2, <2>3, <2>5, <3>2
    <3>3. CASE b = c
      BY <1>5, <2>2, <2>3, <2>5, <3>3
    <3> QED BY <3>1, <3>2, <3>3
  <2> QED BY <2>1, <2>4, <2>5 DEF Numbered
<1>18. Meeting'
  <2> SUFFICES ASSUME NEW a \in Callers, NEW b \in Callers, Inside(a)', Inside(b)', a # b,
                      ioctl'[b].kind = "ring"
               PROVE  ioctl'[a].met /\ ioctl'[b].met
    BY DEF Meeting
  <2>1. CASE a # c /\ b # c
    <3>1. ioctl[a].met /\ ioctl[b].met
      BY <1>5, <1>8, <1>11, <2>1 DEF Meeting
    <3> QED BY <1>11, <1>12, <2>1, <3>1
  <2>2. CASE a = c
    BY <1>8, <1>11, <1>13, <2>2
  <2>3. CASE b = c
    BY <1>6, <1>9, <1>11, <1>13, <2>3
  <2> QED BY <2>1, <2>2, <2>3
<1>19. Locking'
  <2>1. c \notin holder
    BY <1>5 DEF Locking
  <2>2. holder' = holder /\ holder \subseteq Callers /\ ~(ioctl'[c].at > 1)
    BY <1>5, <1>6, <1>7, <1>9 DEF DriverTypeOK
  <2> QED BY <1>5, <1>8, <1>11, <2>1, <2>2 DEF Locking
<1>20. NotYetWritten'
  <2> SUFFICES ASSUME NEW k \in Callers, ioctl'[k].kind = "scalar", ioctl'[k].at <= 3
               PROVE  ioctl'[k].id \notin Seen
    BY <1>16 DEF NotYetWritten
  <2>1. CASE k = c
    BY <1>5, <1>6, <1>9, <1>15, <2>1
  <2>2. CASE k # c
    BY <1>5, <1>8, <2>2 DEF NotYetWritten
  <2> QED BY <2>1, <2>2
<1>21. WithinItsSteps'
  <2>1. 1 <= Len(IoctlSteps[kind])
    BY IoctlStepsAre DEF Kinds3
  <2>2. ioctl'[c].at <= Len(IoctlSteps[ioctl'[c].kind])
    BY <1>6, <1>9, <2>1
  <2> QED BY <1>5, <1>8, <1>11, <2>2 DEF WithinItsSteps
<1>22. OddIsScalar' /\ ReturnedRight'
  BY <1>5, <1>6, <1>7, <1>8, <1>9, NoIoctlIs DEF OddIsScalar, ReturnedRight, Returns
<1>23. AllOnTrack'
  <2> SUFFICES ASSUME NEW k \in Callers, Inside(k)', ~Excused(ioctl'[k])
               PROVE  OnTrack(ioctl[k])'
    BY DEF AllOnTrack, Excused
  <2>1. CASE k # c
    <3>1. OnTrack(ioctl[k])
      BY <1>5, <1>8, <1>11, <1>12, <2>1 DEF AllOnTrack, Excused
    <3>2. PICK i, j : i = ioctl[k] /\ j = ioctl'[k]
      OBVIOUS
    <3>3. /\ j.kind = i.kind /\ j.op = i.op /\ j.id = i.id /\ j.at = i.at
          /\ j.ret = i.ret /\ j.got = i.got /\ j.again = i.again
      BY <1>8, <2>1, <3>2
    <3>4. OnTrack(j)
      BY <3>1, <3>2, <3>3, SameWay
    <3>5. OnTrack(j)'
      BY <1>7, <3>4 DEF OnTrack, IsSet, ScalarSet, GemmSet, RingSet, Working, Polled, Again, Started,
                  ItsResult, Returns, Raw
    <3> QED BY <3>2, <3>5
  <2>2. CASE k = c
    <3>1. ~late
      BY <1>6, <1>9, <2>2 DEF Excused
    <3>2. kind = "ring" => engine' = Resting
      BY <1>1, <1>7, <3>1, Zenon
    <3>3. new.kind = "ring" => IsSet(new)'
      BY <1>6, <3>2 DEF IsSet, RingSet
    <3>4. IoctlStarts[new.kind] \in 6 .. 7
      BY <1>6, IoctlStartsAre DEF Kinds3
    <3>5. OnTrack(new)'
      BY <1>6, <3>3, <3>4 DEF OnTrack
    <3> QED BY <1>9, <2>2, <3>5
  <2> QED BY <2>1, <2>2
<1> QED BY <1>14, <1>17, <1>18, <1>19, <1>20, <1>21, <1>22, <1>23 DEF DriverInv

\* The NPU ends a command: whoever started it finds it done, and nobody who still
\* programs one is concerned, since the NPU was at rest for them.
LEMMA NpuEndsKeeps ==
    ASSUME DriverInv, NpuEnds
    PROVE  DriverInv'
<1>1. /\ DriverTypeOK /\ NpuTypeOK /\ Numbered /\ Meeting /\ Locking /\ NotYetWritten /\ WithinItsSteps
      /\ OddIsScalar /\ AllOnTrack /\ made \in Nat
      /\ FinishCommand /\ engine # Resting /\ returned' = NoIoctl /\ UNCHANGED <<holder, ioctl, made>>
  BY DEF DriverInv, DriverTypeOK, NpuEnds, FinishCommand
<1>2. NpuTypeOK' /\ regs'.param = regs.param /\ DriverTypeOK'
  BY <1>1, FinishType, NoIoctlIs DEF DriverTypeOK
<1>3. /\ regs'.operands = regs.operands /\ regs'.config = regs.config /\ regs'.ring = regs.ring
      /\ regs'.result \in {regs.result, engine.of} /\ engine' = Resting /\ engine'.of = 0
  <2>1. \/ regs' = [regs EXCEPT !.result = engine.of]
        \/ regs' = [regs EXCEPT !.scratch = engine.of]
        \/ regs' = [regs EXCEPT !.result = engine.of, !.scratch = engine.of, !.queued = FALSE]
    BY <1>1, Zenon DEF FinishCommand
  <2>2. regs \in Registers /\ engine' = Resting
    BY <1>1 DEF NpuTypeOK, FinishCommand
  <2>3. engine'.of = 0
    BY <2>2 DEF Resting
  <2>4. /\ regs'.operands = regs.operands /\ regs'.config = regs.config /\ regs'.ring = regs.ring
        /\ regs'.result \in {regs.result, engine.of}
    BY <2>1, <2>2 DEF Registers
  <2> QED BY <2>2, <2>3, <2>4
<1>4. Seen' \subseteq Seen \cup {0}
  BY <1>3 DEF Seen
<1>5. \A k \in Callers : (Inside(k)' <=> Inside(k)) /\ ioctl'[k] = ioctl[k]
  BY <1>1 DEF Inside
<1>6. Numbered'
  <2>1. \A v \in Seen' : v <= made'
    BY <1>1, <1>4 DEF Numbered
  <2>2. /\ \A k \in Callers : Inside(k)' => ioctl'[k].id \in 1 .. made'
        /\ \A a, b \in Callers : Inside(a)' /\ Inside(b)' /\ a # b => ioctl'[a].id # ioctl'[b].id
    BY <1>1, <1>5 DEF Numbered
  <2> QED BY <2>1, <2>2 DEF Numbered
<1>7. Meeting' /\ Locking' /\ WithinItsSteps' /\ OddIsScalar' /\ ReturnedRight'
  <2>1. Meeting' /\ Locking' /\ WithinItsSteps'
    BY <1>1, <1>5 DEF Meeting, Locking, WithinItsSteps, DriverTypeOK
  <2>2. OddIsScalar' /\ ReturnedRight'
    BY <1>1, NoIoctlIs DEF OddIsScalar, ReturnedRight, Returns
  <2> QED BY <2>1, <2>2
<1>8. NotYetWritten'
  <2> SUFFICES ASSUME NEW k \in Callers, ioctl[k].kind = "scalar", ioctl[k].at <= 3
               PROVE  ioctl[k].id \notin Seen'
    BY <1>1 DEF NotYetWritten
  <2>1. Inside(k)
    BY DEF Inside
  <2>2. ioctl[k].id \notin Seen /\ ioctl[k].id # 0
    BY <1>1, <2>1 DEF NotYetWritten, Numbered
  <2> QED BY <1>4, <2>2
<1>9. AllOnTrack'
  <2> SUFFICES ASSUME NEW k \in Callers, Inside(k), ~Excused(ioctl[k])
               PROVE  OnTrack(ioctl[k])'
    BY <1>5 DEF AllOnTrack
  <2>1. PICK i : i = ioctl[k]
    OBVIOUS
  <2>2. /\ OnTrack(i) /\ i.id # 0 /\ i \in IoctlRecords /\ i.kind \in Kinds3
    <3>1. ioctl[k] \in IoctlRecords /\ OnTrack(ioctl[k]) /\ ioctl[k].id \in 1 .. made
      BY <1>1 DEF AllOnTrack, DriverTypeOK, Numbered
    <3>2. i.kind \in Kinds3
      BY <2>1, <3>1, IoctlParts DEF Inside
    <3> QED BY <1>1, <2>1, <3>1, <3>2
  <2>3. (Again(i) => Again(i)') /\ (Started(i) => Started(i)')
    <3>1. Again(i) => Again(i)'
      BY <1>2 DEF Again
    <3> QED BY <1>1, <2>2, <3>1, FinishesItsOwn
  <2>4. ~IsSet(i)
    BY <1>1 DEF IsSet
  <2>5. engine.of # i.id /\ regs.result # i.id => (engine.of # i.id /\ regs.result # i.id)'
    BY <1>3, <2>2
  <2>6. Working(i) => Working(i)'
    <3>1. CASE Raw(i)
      BY <2>5, <3>1 DEF Working, Raw
    <3>2. CASE ~Raw(i) /\ i.op = "unknown"
      BY <1>1, <3>2 DEF Working, Raw
    <3>3. CASE ~Raw(i) /\ i.op # "unknown"
      BY <2>3, <3>3 DEF Working, Raw
    <3> QED BY <3>1, <3>2, <3>3
  <2>7. Polled(i) => Polled(i)'
    <3>1. CASE Raw(i)
      BY <2>5, <3>1 DEF Polled, Raw
    <3>2. CASE ~Raw(i)
      BY <1>1, <2>3, <3>2 DEF Polled, Raw
    <3> QED BY <3>1, <3>2
  <2>8. Returns(i) => Returns(i)'
    BY DEF Returns, Raw
  <2>9. OnTrack(i)'
    BY <2>2, <2>4, <2>6, <2>7, <2>8 DEF OnTrack
  <2> QED BY <1>5, <2>1, <2>9
<1> QED BY <1>2, <1>6, <1>7, <1>8, <1>9 DEF DriverInv

LEMMA DriverStarts == DriverInit => DriverInv
<1> SUFFICES ASSUME DriverInit PROVE DriverInv
  OBVIOUS
<1>1. RuntimeInv /\ NpuTypeOK
  BY RuntimeStarts DEF DriverInit, RuntimeInv, RuntimeTypeOK
<1>2. /\ holder = {} /\ returned = NoIoctl /\ made = 0 /\ ioctl \in [Callers -> IoctlRecords]
      /\ \A c \in Callers : ioctl[c] = NoIoctl /\ ~Inside(c)
  BY NoIoctlIs DEF DriverInit, Inside
<1>3. DriverTypeOK
  BY <1>1, <1>2, NoIoctlIs DEF DriverTypeOK
<1>4. Numbered
  BY <1>2 DEF Numbered, Seen, DriverInit, RuntimeInit, Resting, RingRegs
<1>5. Meeting /\ Locking /\ NotYetWritten /\ WithinItsSteps /\ AllOnTrack
  BY <1>2, NoIoctlIs DEF Meeting, Locking, NotYetWritten, WithinItsSteps, AllOnTrack
<1>6. OddIsScalar /\ ReturnedRight
  BY <1>2, NoIoctlIs DEF OddIsScalar, ReturnedRight, Returns
<1> QED BY <1>3, <1>4, <1>5, <1>6 DEF DriverInv

LEMMA DriverStep == DriverInv /\ [DriverNext]_driverVars => DriverInv'
<1> SUFFICES ASSUME DriverInv, [DriverNext]_driverVars PROVE DriverInv'
  OBVIOUS
<1>1. ASSUME NEW c \in Callers, NEW kind \in DOMAIN IoctlSteps, Enter(c, kind) PROVE DriverInv'
  BY <1>1, IoctlStepsAre, EnterKeeps
<1>2. ASSUME NEW c \in Callers, Lock(c) PROVE DriverInv'
  BY <1>2, LockKeeps
<1>3. ASSUME NEW c \in Callers, Unlock(c) PROVE DriverInv'
  BY <1>3, UnlockKeeps
<1>4. ASSUME NEW c \in Callers, WriteRegister(c) PROVE DriverInv'
  BY <1>4, RegisterWritten
<1>5. ASSUME NEW c \in Callers, WriteOpcode(c) PROVE DriverInv'
  BY <1>5, OpcodeWritten
<1>6. ASSUME NEW c \in Callers, WaitDone(c) PROVE DriverInv'
  BY <1>6, WaitKeeps
<1>7. ASSUME NEW c \in Callers, ReadResult(c) PROVE DriverInv'
  BY <1>7, ReadKeepsIoctl
<1>8. CASE NpuEnds
  BY <1>8, NpuEndsKeeps
<1>9. CASE UNCHANGED driverVars
  <2>1. DriverTypeOK' /\ Numbered' /\ Meeting' /\ Locking' /\ NotYetWritten' /\ WithinItsSteps' /\ OddIsScalar'
    BY <1>9 DEF driverVars, DriverInv, DriverTypeOK, NpuTypeOK, Numbered, Meeting, Locking, NotYetWritten,
                WithinItsSteps, OddIsScalar, Inside, Seen
  <2>2. AllOnTrack' /\ ReturnedRight'
    BY <1>9 DEF driverVars, DriverInv, AllOnTrack, ReturnedRight, Inside, OnTrack, IsSet, ScalarSet, GemmSet,
                RingSet, Working, Polled, Again, Started, ItsResult, Returns, Raw, Excused
  <2> QED BY <2>1, <2>2 DEF DriverInv
<1> QED BY <1>1, <1>2, <1>3, <1>4, <1>5, <1>6, <1>7, <1>8, <1>9, Zenon DEF DriverNext

LEMMA DriverSuffices == DriverInv => OwnIoctl
<1> SUFFICES ASSUME DriverInv PROVE OwnIoctl
  OBVIOUS
<1>1. /\ \A c \in holder : Inside(c)
      /\ returned.late \/ returned.met \/ Returns(returned)
      /\ returned.op = "unknown" => returned.kind = "scalar"
  BY DEF DriverInv, Locking, ReturnedRight, Excused, OddIsScalar
<1>2. CASE returned.late \/ returned.met \/ returned.again
  BY <1>1, <1>2, Zenon DEF OwnIoctl
<1>3. CASE ~(returned.late \/ returned.met \/ returned.again)
  <2>1. Returns(returned) /\ ~returned.again
    BY <1>1, <1>3
  <2>2. Raw(returned) <=> returned.kind = "scalar" /\ returned.op = GemmOp
    BY DEF Raw, GemmOp
  <2>3. returned.ret = "ok" =>
          IF Raw(returned) THEN returned.got # returned.id
          ELSE returned.op # "unknown" /\ returned.got = returned.id
    BY <2>1, Zenon DEF Returns
  <2>4. returned.ret = "EIO" => returned.kind = "ring" \/ Raw(returned) \/ returned.op = "unknown"
    BY <2>1, Zenon DEF Returns
  <2>5. Raw(returned) => returned.op # "unknown"
    BY DEF Raw
  <2> QED BY <1>1, <2>2, <2>3, <2>4, <2>5, Zenon DEF OwnIoctl
<1> QED BY <1>2, <1>3

\* Whatever the number of callers and of polls, an ioctl of e1-npu.c that returns 0
\* returns what its own command computed, and none but a ring or an unknown command
\* fails with -EIO: unless a submission, which takes no lock, was in the driver at the
\* same time, a command was given up before, or a GEMM started an old ring again.
THEOREM IoctlsReturnTheirOwn == DriverSpec => []OwnIoctl
<1>1. DriverInit => DriverInv
  BY DriverStarts
<1>2. DriverInv /\ [DriverNext]_driverVars => DriverInv'
  BY DriverStep
<1>3. DriverInv => OwnIoctl
  BY DriverSuffices
<1> QED BY <1>1, <1>2, <1>3, PTL DEF DriverSpec

-----------------------------------------------------------------------------
\* --------------------------------------------------------------- MCEvidence

\* A behaviour is of one unit, so each property of MCEvidence is one of that
\* unit's module.
mcVars == <<unit, vars, pdVars, launchVars, releaseVars, simVars, statusVars, bspVars, npuVars>>

\* A step is one of the unit's own module, or leaves its variables as they were.
LEMMA UnitSteps ==
    ASSUME [MCNext]_mcVars
    PROVE  /\ unit' = unit
           /\ unit = "cpu" => [CpuApNext]_vars
           /\ unit = "pd" => [PdNext]_pdVars
           /\ unit = "launch" => [LaunchNext]_launchVars
           /\ unit = "release" => [ReleaseNext]_releaseVars
           /\ unit = "aggregate" => [SimNext]_simVars
           /\ unit = "table" => [StatusNext]_statusVars
           /\ unit = "bsp" => [BspNext]_bspVars
           /\ unit = "runtime" => [RuntimeNext]_runtimeVars
           /\ unit = "driver" => [DriverNext]_driverVars
<1>1. CASE UNCHANGED mcVars
  BY <1>1 DEF mcVars, npuVars, ioctlVars, driverVars, runtimeVars
<1>2. CASE MCNext
  BY <1>2 DEF MCNext, CpuApUnit, PdUnit, LaunchUnit, ReleaseUnit, AggregateUnit, TableUnit,
              BspUnit, RuntimeUnit, DriverUnit
<1> QED BY <1>1, <1>2

\* What the section of the CPU's evidence shows to be kept by every step.
CpuApInv == CpuApTypeOK /\ WrittenAfter /\ FirstHalfHolds /\ ImportedTogether

LEMMA CpuApStarts == CpuApInit => CpuApInv
BY CpuApTypeStarts
DEF CpuApInit, CpuApInv, WrittenAfter, FirstHalfHolds, ImportedTogether, SameGeneration,
    NoFile, NoManifest, Artifacts

LEMMA CpuApStep == CpuApInv /\ [CpuApNext]_vars => CpuApInv'
BY CpuApTypeStep, WrittenAfterStep, FirstHalfStep, ImportedTogetherStep DEF CpuApInv

\* The inductive invariant: each unit's own.
UnitInv ==
    /\ unit = "cpu" => CpuApInv
    /\ unit = "pd" => ArchiveInv
    /\ unit = "launch" => LaunchTypeOK /\ LaunchInv
    /\ unit = "release" => ReleaseInv
    /\ unit = "aggregate" => SimInv
    /\ unit = "table" => StatusInv
    /\ unit = "bsp" => BspInv
    /\ unit = "runtime" => RuntimeInv
    /\ unit = "driver" => DriverInv

LEMMA UnitStarts == MCInit => UnitInv
<1>1. MCInit => /\ unit = "cpu" => CpuApInv
                /\ unit = "pd" => ArchiveInv
                /\ unit = "launch" => LaunchTypeOK /\ LaunchInv
                /\ unit = "release" => ReleaseInv
  BY CpuApStarts, ArchiveStarts, LaunchStarts, ReleaseStarts DEF MCInit
<1>2. MCInit => /\ unit = "aggregate" => SimInv
                /\ unit = "table" => StatusInv
                /\ unit = "bsp" => BspInv
                /\ unit = "runtime" => RuntimeInv
                /\ unit = "driver" => DriverInv
  BY SimStarts, StatusStarts, BspStarts, RuntimeStarts, DriverStarts DEF MCInit
<1> QED BY <1>1, <1>2 DEF UnitInv

LEMMA UnitStep == UnitInv /\ [MCNext]_mcVars => UnitInv'
<1> SUFFICES ASSUME UnitInv, [MCNext]_mcVars
             PROVE  UnitInv'
  OBVIOUS
<1>1. unit = "cpu" => CpuApInv'
  BY UnitSteps, CpuApStep DEF UnitInv
<1>2. unit = "pd" => ArchiveInv'
  BY UnitSteps, ArchiveStep DEF UnitInv
<1>3. unit = "launch" => LaunchTypeOK' /\ LaunchInv'
  BY UnitSteps, LaunchTypeStep, LaunchInvStep DEF UnitInv
<1>4. unit = "release" => ReleaseInv'
  BY UnitSteps, ReleaseStep DEF UnitInv
<1>5. unit = "table" => StatusInv'
  BY UnitSteps, StatusStep DEF UnitInv
<1>6. unit = "bsp" => BspInv'
  BY UnitSteps, BspStep DEF UnitInv
<1>7. unit = "runtime" => RuntimeInv'
  BY UnitSteps, RuntimeStep DEF UnitInv
<1>8. unit = "driver" => DriverInv'
  BY UnitSteps, DriverStep DEF UnitInv
<1>9. unit = "aggregate" => SimInv'
  BY UnitSteps, SimStep DEF UnitInv
<1> QED BY UnitSteps, <1>1, <1>2, <1>3, <1>4, <1>5, <1>6, <1>7, <1>8, <1>9 DEF UnitInv

\* Whichever chain a behaviour is of keeps its invariant, and the others stand still.
THEOREM UnitInvariant == MCSpec => []UnitInv
BY UnitStarts, UnitStep, PTL DEF MCSpec, mcVars
-----------------------------------------------------------------------------
\* Launchers of OpenLane: one flow at a time, no lock without a kill.
THEOREM LaunchersAlwaysExclude == MCSpec => []LaunchersExclude
<1>1. UnitInv => LaunchersExclude
  BY LaunchInvSuffices DEF UnitInv, LaunchersExclude
<1> QED BY <1>1, UnitInvariant, PTL

\* Manufacturing evidence: acceptance is of the contents that were judged.
THEOREM AcceptanceAlwaysCurrent == MCSpec => AcceptanceIsCurrent
<1>1. UnitInv /\ [MCNext]_mcVars => [unit = "release" => TakenBack /\ ListsAccepted /\ NeverOlder']_<<unit, releaseVars>>
  BY UnitSteps, ReleaseStep DEF UnitInv
<1> QED BY <1>1, UnitInvariant, PTL DEF MCSpec, mcVars, AcceptanceIsCurrent

\* The application processor's evidence: files that the completion gate accepts are of
\* one generation and the gates agree, ...
THEOREM CpuGatesAlwaysAgree == MCSpec => []CpuGatesAgree
<1>1. UnitInv => CpuGatesAgree
  BY ManifestOfGeneration, GatesDoAgree DEF UnitInv, CpuApInv, CpuGatesAgree
<1> QED BY <1>1, UnitInvariant, PTL

\* ... and a PASS of the completion gate is always a race: what an operator records last
\* leaves the evidence gate refusing.
THEOREM CpuPassAlwaysRaced == MCSpec => CpuPassIsRaced
<1>1. UnitInv => (unit = "cpu" => RacedIfPassed /\ RecordingUnbinds)
  BY NoCircle, SecondHalfIsRaced, RecordingDoesUnbind DEF UnitInv, CpuApInv
<1> QED BY <1>1, UnitInvariant, PTL DEF CpuPassIsRaced

\* Signoff of the physical design: an archive that verifies and says it is ready is,
\* wherever the archiver was killed, and the gates do not contradict each other, ...
THEOREM PdEvidenceAlwaysAgrees == MCSpec => []PdEvidenceAgrees
<1>1. UnitInv => PdEvidenceAgrees
  BY ArchiveSuffices, PdGatesDoAgree DEF UnitInv, PdEvidenceAgrees
<1> QED BY <1>1, UnitInvariant, PTL

\* ... and what happens to later runs changes the verdict neither way.
THEOREM PdVerdictAlwaysKept == MCSpec => PdVerdictKept
<1>1. [unit = "pd" => VerdictKept]_<<unit, pdVars>>
  BY VerdictIsKept
<1> QED BY <1>1, PTL DEF PdVerdictKept

\* The aggregate of the simulators: the claim of Linux and the NPU together rests on
\* one log, whoever else writes logs and reports meanwhile, and its readers agree.
THEOREM AggregateAlwaysHonest == MCSpec => []AggregateHonest
<1>1. UnitInv => AggregateHonest
  BY TranscriptSuffices, ReadersSuffice DEF UnitInv, AggregateHonest
<1> QED BY <1>1, UnitInvariant, PTL

\* The table of check_mvp_status.py: every pass of the pipeline has its evidence.
THEOREM TableAlwaysHonest == MCSpec => []TableHonest
<1>1. UnitInv => TableHonest
  BY StatusSuffices DEF UnitInv, TableHonest
<1> QED BY <1>1, UnitInvariant, PTL

\* The evidence of the BSPs: a success that was reported stands on logs that pass, and
\* the ways to ask for it agree as far as they can.
THEOREM BspAlwaysHonest == MCSpec => []BspHonest
<1>1. UnitInv => BspHonest
  BY BspSuffices, BspGatesDoAgree DEF UnitInv, BspHonest
<1> QED BY <1>1, UnitInvariant, PTL

\* The runtime and the Linux driver of the NPU: a call, or an ioctl, that ends well has
\* its own command's result, and what the runtime lets through stays in the scratchpad.
THEOREM RuntimeAlwaysHonest == MCSpec => []RuntimeHonest
<1>1. RuntimeInv => OwnResult
  BY DEF RuntimeInv
<1>2. UnitInv => RuntimeHonest
  BY <1>1, DriverSuffices, ChecksAreEnough DEF UnitInv, RuntimeHonest
<1> QED BY <1>2, UnitInvariant, PTL
-----------------------------------------------------------------------------
\* ----------------------------------------------------------- ChipyardSmoke

SmokeLogs ==
    [there : BOOLEAN, ino : Nat, begun : BOOLEAN, level : 0 .. 5,
     bad : SUBSET {"rule", "fatal", "simfail"}, end : BOOLEAN,
     exit : {"none", "zero", "nonzero"}, late : BOOLEAN]
SmokeMetadata ==
    [begun : BOOLEAN, end : BOOLEAN, late : BOOLEAN, bad : SUBSET {"rule", "fatal", "simfail"},
     exit : {"none", "zero", "nonzero"}, loaded : BOOLEAN]
SmokeTrees == [dir : BOOLEAN, mk : BOOLEAN, zero : BOOLEAN,
               root : {"host", "container", "embedded"}]
SmokePcs == {"idle", "repair", "header", "make", "run", "close", "exit", "after"}

SmokeFiles ==
    /\ tree \in SmokeTrees /\ gsim \in {"none", "plain", "exec"}
    /\ asim \in {"none", "plain", "exec"} /\ repaired \in 0 .. 2
    /\ smokeLog \in SmokeLogs /\ smokeReport \in {"none", "pass", "blocked"}
SmokeProcesses ==
    /\ wrap \in [pc : SmokePcs, n : 0 .. MaxAttempts, att : {1, 2}, rc : {0, 1, 124}]
    /\ sims \in [1 .. MaxAttempts -> [live : BOOLEAN, level : 0 .. 5, ino : Nat]]
    /\ fix \in {"idle", "archive"}
    /\ chk \in [pc : {"idle", "meta", "tree", "text"}, md : SmokeMetadata,
                clear : BOOLEAN, raced : BOOLEAN]

\* A wrapper at work has a header left for every attempt it may still make.
HeadersLeft ==
    /\ wrap.pc \in {"repair", "header"} => wrap.n + 3 <= MaxAttempts + wrap.att
    /\ wrap.pc \in {"make", "run", "close", "exit", "after"} =>
         wrap.n + 2 <= MaxAttempts + wrap.att /\ wrap.n >= 1

\* A file that an append made is no simulator's: what is printed stands under a
\* header.
PrintedUnderHeader ==
    /\ ~smokeLog.there => smokeLog = NoSmokeLog
    /\ smokeLog.there => smokeLog.ino \in 1 .. MaxAttempts + wrap.n
    /\ smokeLog.level > 0 => smokeLog.begun
    /\ smokeLog.there /\ ~smokeLog.begun => smokeLog.ino = MaxAttempts + wrap.n
    /\ \A a \in 1 .. MaxAttempts :
         /\ sims[a].live => sims[a].ino > 0
         /\ sims[a].ino # 0 => sims[a].ino < MaxAttempts + wrap.n
    /\ wrap.pc = "make" => sims[wrap.n].ino > 0

\* What the gate still knows of its first look when it takes the second.
LookedOnce ==
    /\ chk.pc \in {"tree", "text"} /\ ~chk.raced => chk.md = Metadata(smokeLog)
    /\ chk.pc = "text" /\ chk.clear => env.var # "nofile"

\* After one repair only complete output may be left, of this host's paths;
\* after two nothing is.
RepairedOnce == repaired = 1 => ~Rewrites(tree, "host")
SmokeInv ==
    /\ SmokeFiles /\ SmokeProcesses /\ HeadersLeft /\ PrintedUnderHeader
    /\ env.var \in {"unset", "file", "nofile"}
    /\ LookedOnce /\ RepairedOnce /\ RepairConverges

\* What a repair of the generated tree leaves is a tree and a simulator.
LEMMA StaleRepairsType ==
    ASSUME NEW t \in SmokeTrees, NEW g \in {"none", "plain", "exec"}, NEW busy \in BOOLEAN,
           NEW r \in StaleRepairs(t, g, busy)
    PROVE  r.tree \in SmokeTrees /\ r.gsim \in {"none", "plain", "exec"}
<1> DEFINE u == RewriteTree(t, "host")
<1>1. u \in SmokeTrees
  BY DEF SmokeTrees, RewriteTree
<1>2. [u EXCEPT !.mk = FALSE] \in SmokeTrees /\ NoTree \in SmokeTrees
  BY <1>1 DEF SmokeTrees, NoTree
<1>3. r = [tree |-> u, gsim |-> g, rc |-> 0] \/ r \in Removals(u, g, busy)
  BY DEF StaleRepairs
<1> HIDE DEF u
<1>4. CASE r = [tree |-> u, gsim |-> g, rc |-> 0]
  BY <1>1, <1>4
<1>5. CASE r \in Removals(u, g, busy)
  <2>1. r = [tree |-> NoTree, gsim |-> "none", rc |-> 0]
          \/ r = [tree |-> [u EXCEPT !.mk = FALSE], gsim |-> g, rc |-> 2]
    BY <1>5 DEF Removals
  <2>2. r.tree \in {NoTree, [u EXCEPT !.mk = FALSE]} /\ r.gsim \in {"none", g}
    BY <2>1
  <2> QED  BY <1>2, <2>2
<1> QED  BY <1>3, <1>4, <1>5

\* A repair while nothing builds leaves no path of another machine behind that
\* it could have rewritten; and where none was, it leaves nothing to say.
LEMMA QuietRepair ==
    ASSUME NEW t \in SmokeTrees, NEW g \in {"none", "plain", "exec"},
           NEW r \in StaleRepairs(t, g, FALSE)
    PROVE  /\ ~Rewrites(r.tree, "host")
           /\ ~Rewrites(t, "host") => GeneratedPathBlockers(r.tree, r.gsim) = {}
<1> DEFINE u == RewriteTree(t, "host")
<1>1. u \in SmokeTrees /\ ~Rewrites(u, "host") /\ (~Rewrites(t, "host") => u = t)
  BY DEF SmokeTrees, RewriteTree, Rewrites
<1>2. ~Rewrites(NoTree, "host") /\ GeneratedPathBlockers(NoTree, "none") = {}
  BY DEF Rewrites, NoTree, GeneratedPathBlockers, StaleRoots
<1>3. \/ Rewrites(t, "host") /\ r = [tree |-> u, gsim |-> g, rc |-> 0]
      \/ ~Repairable(t, g) /\ r = [tree |-> u, gsim |-> g, rc |-> 0]
      \/ r = [tree |-> NoTree, gsim |-> "none", rc |-> 0]
  BY DEF StaleRepairs, Removals
<1>4. ~Repairable(t, g) => GeneratedPathBlockers(t, g) = {}
  BY DEF Repairable
<1> HIDE DEF u
<1>5. CASE Rewrites(t, "host") /\ r = [tree |-> u, gsim |-> g, rc |-> 0]
  <2> r.tree = u  BY <1>5
  <2> QED  BY <1>1, <1>5
<1>6. CASE ~Repairable(t, g) /\ r = [tree |-> u, gsim |-> g, rc |-> 0]
  <2> r.tree = u /\ r.gsim = g  BY <1>6
  <2> QED  BY <1>1, <1>4, <1>6
<1>7. CASE r = [tree |-> NoTree, gsim |-> "none", rc |-> 0]
  <2> r.tree = NoTree /\ r.gsim = "none"  BY <1>7
  <2> QED  BY <1>2
<1> QED  BY <1>3, <1>5, <1>6, <1>7

\* What the actions do to the tree: they leave it, or they start the count of
\* repairs again, or they repair.
LEMMA SmokeTreeMoves ==
    ASSUME SmokeFiles, SmokeProcesses, SmokeNext
    PROVE  \/ UNCHANGED treeVars
           \/ /\ tree' \in SmokeTrees /\ gsim' \in {"none", "plain", "exec"}
              /\ repaired' = 0 /\ UNCHANGED asim
           \/ RepairStale
<1> DEFINE Renewed == /\ tree' \in SmokeTrees /\ gsim' \in {"none", "plain", "exec"}
                      /\ repaired' = 0 /\ UNCHANGED asim
<1> USE DEF SmokeFiles
<1>0. SomeSim \in BOOLEAN
  BY DEF SomeSim
<1>1. WrapperRepair \/ Retry => Renewed
  <2> SUFFICES ASSUME WrapperRepair \/ Retry PROVE Renewed
    OBVIOUS
  <2>1. PICK r \in StaleRepairs(tree, gsim, SomeSim) :
          (tree' = [r.tree EXCEPT !.dir = TRUE] \/ tree' = r.tree) /\ gsim' = r.gsim
    BY DEF WrapperRepair, Retry
  <2>4. repaired' = 0 /\ UNCHANGED asim
    BY DEF WrapperRepair, Retry
  <2>2. r.tree \in SmokeTrees /\ r.gsim \in {"none", "plain", "exec"}
    BY <1>0, StaleRepairsType
  <2>3. [r.tree EXCEPT !.dir = TRUE] \in SmokeTrees
    BY <2>2 DEF SmokeTrees
  <2> QED  BY <2>1, <2>2, <2>3, <2>4
<1>2. Build \/ BuildFails => Renewed
  <2>1. Build => tree' \in SmokeTrees /\ gsim' = "exec" /\ repaired' = 0 /\ UNCHANGED asim
    BY DEF Build, SmokeTrees
  <2>2. ASSUME BuildFails, NEW z \in BOOLEAN,
               tree' = [tree EXCEPT !.dir = TRUE, !.mk = FALSE, !.zero = z]
        PROVE  tree' \in SmokeTrees
    BY <2>2 DEF SmokeTrees
  <2>3. BuildFails => gsim' = "none" /\ repaired' = 0 /\ UNCHANGED asim
    BY DEF BuildFails
  <2>4. BuildFails => tree' \in SmokeTrees
    BY <2>2 DEF BuildFails
  <2> QED  BY <2>1, <2>3, <2>4
<1>3. RewriteForContainer => Renewed
  BY DEF RewriteForContainer, RewriteTree, SmokeTrees
<1>4. \/ WriteHeader \/ SimulatorExits \/ Timeout \/ CloseTranscript \/ WriteExitCode
      \/ GiveUp \/ HandToGate \/ StartWrapper \/ Interrupt \/ InspectAttempt \/ ArchiveAttempt
      => UNCHANGED treeVars
  BY DEF WriteHeader, SimulatorExits, Timeout, CloseTranscript, WriteExitCode, GiveUp,
         HandToGate, StartWrapper, Interrupt, InspectAttempt, ArchiveAttempt
<1>5. Simulator \/ Gate \/ StartGate => UNCHANGED treeVars
  BY DEF Simulator, Boot, LingererDies, Gate, ReadMetadata, ReadTree, WriteSmokeReport, StartGate
<1> HIDE DEF Renewed
<1> QED
  <2>1. Wrapper => UNCHANGED treeVars \/ Renewed
    BY <1>1, <1>2, <1>4 DEF Wrapper
  <2>2. Operator => UNCHANGED treeVars \/ Renewed \/ RepairStale
    BY <1>3, <1>4, <1>5 DEF Operator
  <2> QED  BY <1>5, <2>1, <2>2 DEF SmokeNext, Renewed

\* Whoever repairs, builds or rewrites the generated tree: after one repair no path
\* of the container is left, after two nothing blocks, and a new build counts anew.
LEMMA SmokeTreeKept ==
    ASSUME SmokeFiles, SmokeProcesses, RepairedOnce, RepairConverges, SmokeNext
    PROVE  /\ tree' \in SmokeTrees /\ gsim' \in {"none", "plain", "exec"}
           /\ asim' = asim /\ repaired' \in 0 .. 2
           /\ RepairedOnce' /\ RepairConverges'
<1> USE DEF SmokeFiles
<1>1. CASE UNCHANGED treeVars
  BY <1>1 DEF treeVars, RepairedOnce, RepairConverges, Rewrites, GeneratedPathBlockers, StaleRoots
<1>2. CASE /\ tree' \in SmokeTrees /\ gsim' \in {"none", "plain", "exec"}
           /\ repaired' = 0 /\ UNCHANGED asim
  BY <1>2 DEF RepairedOnce, RepairConverges
<1>3. CASE RepairStale
  <2>1. asim' = asim /\ repaired' \in 0 .. 2
    BY <1>3 DEF RepairStale
  <2>2. PICK r \in StaleRepairs(tree, gsim, SomeSim \/ wrap.pc = "make") :
          tree' = r.tree /\ gsim' = r.gsim
    BY <1>3 DEF RepairStale
  <2>3. (SomeSim \/ wrap.pc = "make") \in BOOLEAN
    BY DEF SomeSim
  <2>4. tree' \in SmokeTrees /\ gsim' \in {"none", "plain", "exec"}
    BY <2>2, <2>3, StaleRepairsType
  <2>5. CASE SomeSim \/ wrap.pc # "idle"
    <3>1. repaired' = 0
      BY <1>3, <2>5 DEF RepairStale
    <3> QED  BY <2>1, <2>4, <3>1 DEF RepairedOnce, RepairConverges
  <2>6. CASE ~(SomeSim \/ wrap.pc # "idle")
    <3>1. repaired' = IF repaired < 2 THEN repaired + 1 ELSE 2
      BY <1>3, <2>6 DEF RepairStale
    <3>2. r \in StaleRepairs(tree, gsim, FALSE)
      <4>1. (SomeSim \/ wrap.pc = "make") = FALSE
        BY <2>6
      <4> QED  BY <2>2, <4>1
    <3>3. /\ ~Rewrites(r.tree, "host")
          /\ ~Rewrites(tree, "host") => GeneratedPathBlockers(r.tree, r.gsim) = {}
      BY <3>2, QuietRepair
    <3>4. repaired' = 2 => ~Rewrites(tree, "host")
      <4>1. repaired' = 2 => repaired = 1 \/ repaired = 2
        BY <3>1
      <4>2. repaired = 2 => ~tree.dir
        <5>1. ASSUME tree.dir  PROVE "stale paths" \in GeneratedPathBlockers(tree, gsim)
                                      \/ "partial output" \in GeneratedPathBlockers(tree, gsim)
          BY <5>1 DEF GeneratedPathBlockers
        <5> QED  BY <5>1 DEF RepairConverges
      <4> QED  BY <4>1, <4>2 DEF RepairedOnce, Rewrites
    <3>5. RepairedOnce'
      BY <2>2, <3>3 DEF RepairedOnce, Rewrites
    <3>6. RepairConverges'
      BY <2>2, <3>3, <3>4 DEF RepairConverges, GeneratedPathBlockers, StaleRoots
    <3> QED  BY <2>1, <2>4, <3>5, <3>6
  <2> QED  BY <2>5, <2>6
<1> QED  BY <1>1, <1>2, <1>3, SmokeTreeMoves

\* What every action does to the wrapper: it goes from one command to another, with
\* its count of headers and the number of its attempt.
Wraps == [pc : SmokePcs, n : 0 .. MaxAttempts, att : {1, 2}, rc : {0, 1, 124}]
WrapGoes(from, to, n, att) ==
    wrap.pc \in from /\ wrap'.pc \in to /\ wrap'.n = n /\ wrap'.att = att
WrapperMoves ==
    \/ wrap' = wrap
    \/ wrap.n + 2 <= MaxAttempts /\ WrapGoes({"idle"}, {"repair"}, wrap.n, 1)
    \/ WrapGoes({"repair"}, {"header", "idle"}, wrap.n, wrap.att)
    \/ WriteHeader /\ WrapGoes({"header"}, {"make"}, wrap.n + 1, wrap.att)
    \/ WrapGoes({"make", "run", "close", "exit", "after"}, {"run", "close", "exit", "after", "idle"},
                wrap.n, wrap.att)
    \/ wrap.att = 1 /\ WrapGoes({"after"}, {"repair"}, wrap.n, 2)

\* What one update of the wrapper changes, for each form the actions write.
LEMMA WrapTo ==
    ASSUME wrap \in Wraps, NEW p \in SmokePcs, wrap' = [wrap EXCEPT !.pc = p]
    PROVE  wrap' \in Wraps /\ wrap'.pc = p /\ wrap'.n = wrap.n /\ wrap'.att = wrap.att
BY DEF Wraps

\* The same when a make has ended with an exit code.
LEMMA WrapReturns ==
    ASSUME wrap \in Wraps, NEW p \in SmokePcs, NEW c \in {0, 1, 124},
           wrap' = [wrap EXCEPT !.pc = p, !.rc = c]
    PROVE  wrap' \in Wraps /\ wrap'.pc = p /\ wrap'.n = wrap.n /\ wrap'.att = wrap.att
BY DEF Wraps

\* The same when another attempt begins.
LEMMA WrapAttempts ==
    ASSUME wrap \in Wraps, NEW p \in SmokePcs, NEW t \in {1, 2},
           wrap' = [wrap EXCEPT !.pc = p, !.att = t]
    PROVE  wrap' \in Wraps /\ wrap'.pc = p /\ wrap'.n = wrap.n /\ wrap'.att = t
BY DEF Wraps

\* The same when a header has been written.
LEMMA WrapCounts ==
    ASSUME wrap \in Wraps, NEW p \in SmokePcs, NEW n \in 0 .. MaxAttempts,
           wrap' = [wrap EXCEPT !.pc = p, !.n = n]
    PROVE  wrap' \in Wraps /\ wrap'.pc = p /\ wrap'.n = n /\ wrap'.att = wrap.att
BY DEF Wraps

\* Every step moves the wrapper as its script does, and the headers suffice.
LEMMA WrapperMovesSo ==
    ASSUME SmokeProcesses, HeadersLeft, SmokeNext
    PROVE  wrap' \in Wraps /\ WrapperMoves
<1> DEFINE Kept == wrap' \in Wraps /\ WrapperMoves
<1>0. wrap \in Wraps /\ wrap.n \in 0 .. MaxAttempts /\ MaxAttempts \in Nat
  BY SmokeAssumption DEF SmokeProcesses, Wraps
<1>a. SmokePcs = {"idle", "repair", "header", "make", "run", "close", "exit", "after"}
  BY DEF SmokePcs
<1> USE DEF WrapperMoves, WrapGoes
<1>1. ASSUME StartWrapper PROVE Kept
  <2>1. /\ wrap.pc = "idle" /\ wrap.n + 2 <= MaxAttempts
        /\ wrap' = [wrap EXCEPT !.pc = "repair", !.att = 1]
    BY <1>1 DEF StartWrapper
  <2>2. wrap' \in Wraps /\ wrap'.pc = "repair" /\ wrap'.n = wrap.n /\ wrap'.att = 1
    BY <1>0, <1>a, <2>1, WrapAttempts
  <2> QED  BY <2>1, <2>2
<1>2. ASSUME WrapperRepair PROVE Kept
  <2>1. wrap.pc = "repair" /\ \E p \in {"header", "idle"} : wrap' = [wrap EXCEPT !.pc = p]
    BY <1>2 DEF WrapperRepair
  <2>2. PICK p \in {"header", "idle"} : wrap' = [wrap EXCEPT !.pc = p]
    BY <2>1
  <2>3. wrap' \in Wraps /\ wrap'.pc = p /\ wrap'.n = wrap.n /\ wrap'.att = wrap.att
    BY <1>0, <1>a, <2>2, WrapTo
  <2> QED  BY <2>1, <2>3
<1>3. ASSUME WriteHeader PROVE Kept
  <2>1. wrap.pc = "header" /\ wrap' = [wrap EXCEPT !.pc = "make", !.n = wrap.n + 1]
    BY <1>3 DEF WriteHeader
  <2>2. wrap.n + 1 \in 0 .. MaxAttempts
    <3>1. wrap.att \in {1, 2}
      BY <1>0 DEF Wraps
    <3> QED  BY <1>0, <2>1, <3>1 DEF HeadersLeft
  <2>3. wrap' \in Wraps /\ wrap'.pc = "make" /\ wrap'.n = wrap.n + 1 /\ wrap'.att = wrap.att
    BY <1>0, <1>a, <2>1, <2>2, WrapCounts
  <2> QED  BY <1>3, <2>1, <2>3
<1>4. ASSUME Build \/ CloseTranscript \/ WriteExitCode \/ GiveUp \/ HandToGate \/ Interrupt
      PROVE  Kept
  <2>1. wrap.pc \in {"make", "run", "close", "exit", "after"}
    BY <1>4 DEF Build, CloseTranscript, WriteExitCode, GiveUp, HandToGate, Interrupt
  <2>2. PICK p \in {"run", "exit", "after", "idle"} : wrap' = [wrap EXCEPT !.pc = p]
    BY <1>4 DEF Build, CloseTranscript, WriteExitCode, GiveUp, HandToGate, Interrupt
  <2>3. wrap' \in Wraps /\ wrap'.pc = p /\ wrap'.n = wrap.n /\ wrap'.att = wrap.att
    BY <1>0, <1>a, <2>2, WrapTo
  <2> QED  BY <2>1, <2>3
<1>5. ASSUME BuildFails \/ SimulatorExits \/ Timeout PROVE Kept
  <2>1. wrap.pc \in {"make", "run"}
    BY <1>5 DEF BuildFails, SimulatorExits, Timeout
  <2>2. PICK c \in {0, 1, 124} : wrap' = [wrap EXCEPT !.pc = "close", !.rc = c]
    BY <1>5 DEF BuildFails, SimulatorExits, Timeout
  <2>3. wrap' \in Wraps /\ wrap'.pc = "close" /\ wrap'.n = wrap.n /\ wrap'.att = wrap.att
    BY <1>0, <1>a, <2>2, WrapReturns
  <2> QED  BY <2>1, <2>3
<1>6. ASSUME Retry PROVE Kept
  <2>1. /\ wrap' = [wrap EXCEPT !.pc = "repair", !.att = 2] \/ wrap' = [wrap EXCEPT !.pc = "idle"]
        /\ wrap.pc = "after" /\ wrap.att = 1
    BY <1>6 DEF Retry
  <2>2. CASE wrap' = [wrap EXCEPT !.pc = "repair", !.att = 2]
    <3>1. wrap' \in Wraps /\ wrap'.pc = "repair" /\ wrap'.n = wrap.n /\ wrap'.att = 2
      BY <1>0, <1>a, <2>2, WrapAttempts
    <3> QED  BY <2>1, <3>1
  <2>3. CASE wrap' = [wrap EXCEPT !.pc = "idle"]
    <3>1. wrap' \in Wraps /\ wrap'.pc = "idle" /\ wrap'.n = wrap.n /\ wrap'.att = wrap.att
      BY <1>0, <1>a, <2>3, WrapTo
    <3> QED  BY <2>1, <3>1
  <2> QED  BY <2>1, <2>2, <2>3
<1>7. RepairStale \/ RewriteForContainer \/ InspectAttempt \/ ArchiveAttempt => wrap' = wrap
  BY DEF RepairStale, RewriteForContainer, InspectAttempt, ArchiveAttempt
<1>8. Simulator \/ Gate \/ StartGate => wrap' = wrap
  BY DEF Simulator, Boot, LingererDies, Gate, ReadMetadata, ReadTree, WriteSmokeReport, StartGate
<1>9. wrap' = wrap => Kept
  BY <1>0
<1> HIDE DEF Kept
<1>10. Kept
  BY <1>1, <1>2, <1>3, <1>4, <1>5, <1>6, <1>7, <1>8, <1>9 DEF SmokeNext, Wrapper, Operator
<1> QED  BY <1>10 DEF Kept

\* The wrapper keeps its counts.
LEMMA SmokeWrapperKept ==
    ASSUME SmokeProcesses, HeadersLeft, SmokeNext
    PROVE  HeadersLeft'
<1>1. wrap.n \in Nat /\ wrap.att \in {1, 2} /\ MaxAttempts \in Nat
  BY SmokeAssumption DEF SmokeProcesses
<1> QED  BY <1>1, WrapperMovesSo DEF HeadersLeft, WrapperMoves, WrapGoes

\* What the actions do to the log, to the simulators and to what the gate knows.
Untouched == UNCHANGED <<smokeLog, sims, chk>>
GateMoves ==
    /\ UNCHANGED <<smokeLog, sims>>
    /\ \/ chk' = [chk EXCEPT !.pc = "meta", !.raced = FALSE]
       \/ ReadMetadata \/ ReadTree \/ WriteSmokeReport
SimsMove ==
    /\ UNCHANGED <<smokeLog, chk>>
    /\ \E a \in 1 .. MaxAttempts :
         \/ sims' = [sims EXCEPT ![a].live = FALSE]
         \/ Build /\ a = wrap.n /\ sims' = [sims EXCEPT ![a].live = TRUE]

\* Who writes the transcript: the wrapper, a simulator that has it open, and the
\* archiving of an attempt; a line of a simulator goes to the file it opened.
LEMMA SmokeLogMoves ==
    ASSUME SmokeProcesses, HeadersLeft, SmokeNext
    PROVE  /\ \/ UNCHANGED <<smokeLog, sims, chk>> \/ GateMoves \/ SimsMove
              \/ WriteHeader \/ BuildFails \/ CloseTranscript \/ WriteExitCode \/ ArchiveAttempt
              \/ \E a \in 1 .. MaxAttempts : Boot(a)
           /\ WriteHeader \/ wrap'.n = wrap.n
           /\ wrap'.pc = "make" => WriteHeader \/ wrap.pc = "make"
           /\ env' = env /\ fix' \in {"idle", "archive"}
<1>0. MaxAttempts \in Nat /\ DOMAIN sims = 1 .. MaxAttempts
  BY SmokeAssumption DEF SmokeProcesses
<1>1. ASSUME Build PROVE SimsMove
  <2>1. wrap.n \in 1 .. MaxAttempts
    <3>1. wrap.n \in 0 .. MaxAttempts /\ wrap.pc = "make"
      BY <1>1 DEF Build, SmokeProcesses
    <3> QED  BY <1>0, <3>1 DEF HeadersLeft
  <2>2. sims' = [sims EXCEPT ![wrap.n].live = TRUE] /\ UNCHANGED <<smokeLog, chk>>
    BY <1>1 DEF Build
  <2> QED  BY <1>1, <2>1, <2>2 DEF SimsMove
<1>2. ASSUME SimulatorExits \/ Timeout PROVE SimsMove \/ Untouched
  <2>1. wrap.n \in 1 .. MaxAttempts
    <3>1. wrap.n \in 0 .. MaxAttempts /\ wrap.pc = "run"
      BY <1>2 DEF SimulatorExits, Timeout, SmokeProcesses
    <3> QED  BY <1>0, <3>1 DEF HeadersLeft
  <2>2. /\ sims' = sims \/ sims' = [sims EXCEPT ![wrap.n].live = FALSE]
        /\ UNCHANGED <<smokeLog, chk>>
    BY <1>2 DEF SimulatorExits, Timeout
  <2> QED  BY <2>1, <2>2 DEF SimsMove, Untouched
<1>3. ASSUME NEW a \in 1 .. MaxAttempts, LingererDies(a)  PROVE SimsMove
  <2>1. sims' = [sims EXCEPT ![a].live = FALSE] /\ UNCHANGED <<smokeLog, chk>>
    BY <1>3 DEF LingererDies
  <2> QED  BY <2>1 DEF SimsMove
<1>4. \/ WrapperRepair \/ Retry \/ GiveUp \/ StartWrapper \/ Interrupt
      \/ RepairStale \/ RewriteForContainer \/ InspectAttempt
      => Untouched
  BY DEF WrapperRepair, Retry, GiveUp, StartWrapper, Interrupt, RepairStale,
         RewriteForContainer, InspectAttempt, Untouched
<1>5. HandToGate \/ StartGate \/ Gate => GateMoves
  BY DEF HandToGate, StartGate, Gate, ReadMetadata, ReadTree, WriteSmokeReport, GateMoves
<1>6. Simulator => SimsMove \/ \E a \in 1 .. MaxAttempts : Boot(a)
  BY <1>0, <1>3 DEF Simulator
<1>7. \/ Untouched \/ GateMoves \/ SimsMove
      \/ WriteHeader \/ BuildFails \/ CloseTranscript \/ WriteExitCode \/ ArchiveAttempt
      \/ \E a \in 1 .. MaxAttempts : Boot(a)
  <2>1. Wrapper => \/ Untouched \/ GateMoves \/ SimsMove
                   \/ WriteHeader \/ BuildFails \/ CloseTranscript \/ WriteExitCode
    BY <1>1, <1>2, <1>4, <1>5 DEF Wrapper
  <2>2. Operator => Untouched \/ GateMoves \/ ArchiveAttempt
    BY <1>4, <1>5 DEF Operator
  <2> QED  BY <1>5, <1>6, <2>1, <2>2 DEF SmokeNext
<1>8. /\ WriteHeader \/ wrap'.n = wrap.n
      /\ wrap'.pc = "make" => WriteHeader \/ wrap.pc = "make"
  BY WrapperMovesSo DEF WrapperMoves, WrapGoes
<1>10. env' = env /\ fix' \in {"idle", "archive"}
  <2>1. Wrapper => env' = env /\ fix' = fix
    BY DEF Wrapper, WrapperRepair, WriteHeader, Build, BuildFails, SimulatorExits, Timeout,
           CloseTranscript, WriteExitCode, Retry, GiveUp, HandToGate
  <2>2. Operator => env' = env /\ fix' \in {fix, "idle", "archive"}
    BY DEF Operator, StartWrapper, Interrupt, StartGate, RepairStale, RewriteForContainer,
           InspectAttempt, ArchiveAttempt
  <2>3. Simulator \/ Gate => env' = env /\ fix' = fix
    BY DEF Simulator, Boot, LingererDies, Gate, ReadMetadata, ReadTree, WriteSmokeReport
  <2> QED  BY <2>1, <2>2, <2>3 DEF SmokeNext, SmokeProcesses
<1> QED  BY <1>7, <1>8, <1>10 DEF Untouched

Sims == [1 .. MaxAttempts -> [live : BOOLEAN, level : 0 .. 5, ino : Nat]]

\* Lines appended, and lines printed, keep a log a log.
LEMMA LogUpdates ==
    /\ NoSmokeLog \in SmokeLogs
    /\ \A i \in Nat : [NoSmokeLog EXCEPT !.there = TRUE, !.ino = i] \in SmokeLogs
    /\ \A i \in Nat : [NoSmokeLog EXCEPT !.there = TRUE, !.begun = TRUE, !.ino = i] \in SmokeLogs
    /\ \A l \in SmokeLogs, b \in {"rule", "fatal", "simfail"} :
         [l EXCEPT !.bad = @ \cup {b}] \in SmokeLogs
    /\ \A l \in SmokeLogs : [l EXCEPT !.end = TRUE] \in SmokeLogs
    /\ \A l \in SmokeLogs, x \in {"zero", "nonzero"} : [l EXCEPT !.exit = x] \in SmokeLogs
    /\ \A l \in SmokeLogs, n \in 0 .. 5, d \in BOOLEAN :
         [l EXCEPT !.level = n, !.late = d] \in SmokeLogs
<1>1. NoSmokeLog \in SmokeLogs
  BY DEF SmokeLogs, NoSmokeLog
<1>2. ASSUME NEW i \in Nat  PROVE [NoSmokeLog EXCEPT !.there = TRUE, !.ino = i] \in SmokeLogs
  BY <1>1 DEF SmokeLogs
<1>3. ASSUME NEW i \in Nat
      PROVE  [NoSmokeLog EXCEPT !.there = TRUE, !.begun = TRUE, !.ino = i] \in SmokeLogs
  BY <1>1 DEF SmokeLogs
<1>4. ASSUME NEW l \in SmokeLogs, NEW b \in {"rule", "fatal", "simfail"}
      PROVE  [l EXCEPT !.bad = @ \cup {b}] \in SmokeLogs
  <2>1. (l.bad \cup {b}) \in SUBSET {"rule", "fatal", "simfail"}
    BY DEF SmokeLogs
  <2> QED  BY <2>1 DEF SmokeLogs
<1>5. ASSUME NEW l \in SmokeLogs  PROVE [l EXCEPT !.end = TRUE] \in SmokeLogs
  BY DEF SmokeLogs
<1>6. ASSUME NEW l \in SmokeLogs, NEW x \in {"zero", "nonzero"}
      PROVE  [l EXCEPT !.exit = x] \in SmokeLogs
  BY DEF SmokeLogs
<1>7. ASSUME NEW l \in SmokeLogs, NEW n \in 0 .. 5, NEW d \in BOOLEAN
      PROVE  [l EXCEPT !.level = n, !.late = d] \in SmokeLogs
  BY DEF SmokeLogs
<1> QED  BY <1>1, <1>2, <1>3, <1>4, <1>5, <1>6, <1>7

\* An attempt begins: its simulator's file is the one with the header.
LEMMA HeaderWritten ==
    ASSUME smokeLog \in SmokeLogs, SmokeProcesses, HeadersLeft,
           PrintedUnderHeader, WriteHeader
    PROVE  smokeLog' \in SmokeLogs /\ sims' \in Sims /\ PrintedUnderHeader'
<1>1. /\ wrap.n \in 0 .. MaxAttempts /\ wrap.n + 1 \in 1 .. MaxAttempts /\ MaxAttempts \in Nat \ {0}
      /\ sims \in Sims
  BY SmokeAssumption DEF SmokeProcesses, HeadersLeft, WriteHeader, Sims
<1> DEFINE i == IF smokeLog.there THEN smokeLog.ino ELSE wrap.n + 1
<1>2. i \in 1 .. MaxAttempts + wrap.n
  BY <1>1 DEF PrintedUnderHeader, SmokeLogs
<1>3. i \in Nat /\ i > 0 /\ i < MaxAttempts + (wrap.n + 1) /\ i # 0
  BY <1>1, <1>2
<1>4. smokeLog' = [NoSmokeLog EXCEPT !.there = TRUE, !.begun = TRUE, !.ino = i]
  BY DEF WriteHeader, Header
<1>5. /\ smokeLog'.there /\ smokeLog'.begun /\ smokeLog'.ino = i /\ smokeLog' \in SmokeLogs
      /\ smokeLog'.level = 0
  BY <1>3, <1>4, LogUpdates DEF NoSmokeLog
<1>6. sims' = [sims EXCEPT ![wrap.n + 1].ino = i] /\ wrap' = [wrap EXCEPT !.pc = "make", !.n = wrap.n + 1]
  BY <1>5 DEF WriteHeader
<1>7. wrap'.n = wrap.n + 1
  BY <1>6 DEF SmokeProcesses
<1> HIDE DEF i
<1>8. /\ sims' \in Sims
      /\ sims'[wrap.n + 1].ino = i
      /\ \A a \in 1 .. MaxAttempts : sims'[a].live = sims[a].live /\ (a # wrap.n + 1 => sims'[a] = sims[a])
  BY <1>1, <1>3, <1>6 DEF Sims
<1>9. ASSUME NEW a \in 1 .. MaxAttempts
      PROVE  /\ sims'[a].live => sims'[a].ino > 0
             /\ sims'[a].ino # 0 => sims'[a].ino < MaxAttempts + wrap'.n
  <2>1. CASE a = wrap.n + 1
    BY <1>3, <1>7, <1>8, <2>1
  <2>2. CASE a # wrap.n + 1
    <3>1. sims'[a] = sims[a] /\ sims[a].ino \in Nat
      BY <1>1, <1>8, <2>2 DEF Sims
    <3>2. sims[a].ino # 0 => sims[a].ino < MaxAttempts + wrap.n
      BY DEF PrintedUnderHeader
    <3>3. sims[a].live => sims[a].ino > 0
      BY DEF PrintedUnderHeader
    <3> QED  BY <1>1, <1>7, <3>1, <3>2, <3>3
  <2> QED  BY <2>1, <2>2
<1>10. i \in 1 .. MaxAttempts + wrap'.n
  BY <1>1, <1>2, <1>7
<1> QED  BY <1>3, <1>5, <1>7, <1>8, <1>9, <1>10 DEF PrintedUnderHeader

\* Everything else that writes the log leaves the file its number.
LEMMA LogPatched ==
    ASSUME smokeLog \in SmokeLogs, SmokeProcesses, HeadersLeft, PrintedUnderHeader, SmokeNext,
           \/ BuildFails \/ CloseTranscript \/ WriteExitCode \/ ArchiveAttempt
           \/ \E a \in 1 .. MaxAttempts : Boot(a)
    PROVE  /\ smokeLog' \in SmokeLogs
           /\ ~smokeLog'.there => smokeLog' = NoSmokeLog
           /\ smokeLog'.there => smokeLog'.ino \in 1 .. MaxAttempts + wrap.n
           /\ smokeLog'.level > 0 => smokeLog'.begun
           /\ smokeLog'.there /\ ~smokeLog'.begun => smokeLog'.ino = MaxAttempts + wrap.n
<1> DEFINE Fine(l) == /\ l \in SmokeLogs
                      /\ ~l.there => l = NoSmokeLog
                      /\ l.there => l.ino \in 1 .. MaxAttempts + wrap.n
                      /\ l.level > 0 => l.begun
                      /\ l.there /\ ~l.begun => l.ino = MaxAttempts + wrap.n
<1>0. /\ Fine(smokeLog) /\ MaxAttempts \in Nat \ {0} /\ wrap.n \in 0 .. MaxAttempts /\ sims \in Sims
      /\ NoSmokeLog.ino = 0 /\ NoSmokeLog.there = FALSE /\ NoSmokeLog.level = 0
      /\ Fine(NoSmokeLog)
  <2>1. MaxAttempts \in Nat \ {0} /\ wrap.n \in 0 .. MaxAttempts /\ sims \in Sims
    BY SmokeAssumption DEF SmokeProcesses, Sims
  <2>2. NoSmokeLog.ino = 0 /\ NoSmokeLog.there = FALSE /\ NoSmokeLog.level = 0
    BY DEF NoSmokeLog
  <2>3. Fine(smokeLog)
    BY DEF PrintedUnderHeader
  <2>4. Fine(NoSmokeLog)
    <3>1. NoSmokeLog \in SmokeLogs
      BY LogUpdates
    <3>2. ~NoSmokeLog.there /\ ~(NoSmokeLog.level > 0)
      BY <2>2
    <3> QED  BY <3>1, <3>2
  <2> QED  BY <2>1, <2>2, <2>3, <2>4
<1>1. ASSUME NEW l, Fine(l), l.there,
             NEW k, k \in SmokeLogs, k.there, k.ino = l.ino, k.begun = l.begun, k.level = l.level
      PROVE  Fine(k)
  BY <1>1
<1>2. ASSUME BuildFails PROVE Fine(smokeLog')
  <2>1. wrap.pc = "make" /\ sims[wrap.n].ino > 0
    BY <1>2 DEF BuildFails, PrintedUnderHeader
  <2>2. PICK b \in {"rule", "fatal", "simfail"} :
          smokeLog' = IF smokeLog.ino = sims[wrap.n].ino
                      THEN [smokeLog EXCEPT !.bad = @ \cup {b}] ELSE smokeLog
    BY <1>2 DEF BuildFails
  <2>3. CASE smokeLog.ino = sims[wrap.n].ino
    <3>1. smokeLog.there
      BY <1>0, <2>1, <2>3
    <3>2. smokeLog' = [smokeLog EXCEPT !.bad = @ \cup {b}] /\ smokeLog' \in SmokeLogs
      BY <1>0, <2>2, <2>3, LogUpdates
    <3>3. /\ smokeLog'.there /\ smokeLog'.ino = smokeLog.ino
          /\ smokeLog'.begun = smokeLog.begun /\ smokeLog'.level = smokeLog.level
      BY <3>1, <3>2 DEF SmokeLogs
    <3> HIDE DEF Fine
    <3> QED  BY <1>0, <1>1, <3>1, <3>2, <3>3
  <2>4. CASE smokeLog.ino # sims[wrap.n].ino
    BY <1>0, <2>2, <2>4
  <2> QED  BY <2>3, <2>4
<1>3. ASSUME CloseTranscript \/ WriteExitCode PROVE Fine(smokeLog')
  <2> DEFINE l == Appended(smokeLog, MaxAttempts + wrap.n)
  <2>1. Fine(l) /\ l.there
    <3>1. CASE smokeLog.there
      BY <1>0, <3>1 DEF Appended
    <3>2. CASE ~smokeLog.there
      <4>1. l = [NoSmokeLog EXCEPT !.there = TRUE, !.ino = MaxAttempts + wrap.n] /\ l \in SmokeLogs
        <5>1. MaxAttempts + wrap.n \in Nat
          BY <1>0
        <5>2. l = [NoSmokeLog EXCEPT !.there = TRUE, !.ino = MaxAttempts + wrap.n]
          BY <3>2 DEF Appended
        <5> QED  BY <5>1, <5>2, LogUpdates
      <4>2. l.there /\ l.ino = MaxAttempts + wrap.n /\ l.level = 0
        BY <4>1 DEF NoSmokeLog
      <4> HIDE DEF l
      <4> QED  BY <1>0, <4>1, <4>2
    <3> QED  BY <3>1, <3>2
  <2>2. \/ smokeLog' = [l EXCEPT !.end = TRUE]
        \/ \E x \in {"zero", "nonzero"} : smokeLog' = [l EXCEPT !.exit = x]
    BY <1>3 DEF CloseTranscript, WriteExitCode
  <2> HIDE DEF l
  <2>3. smokeLog' \in SmokeLogs
    BY <2>1, <2>2, LogUpdates
  <2>4. /\ smokeLog'.there /\ smokeLog'.ino = l.ino
        /\ smokeLog'.begun = l.begun /\ smokeLog'.level = l.level
    BY <2>1, <2>2 DEF SmokeLogs
  <2> HIDE DEF Fine
  <2> QED  BY <1>1, <2>1, <2>3, <2>4
<1>4. ASSUME ArchiveAttempt PROVE Fine(smokeLog')
  <2>1. smokeLog' = NoSmokeLog
    BY <1>4 DEF ArchiveAttempt
  <2> QED  BY <1>0, <2>1
<1>5. ASSUME NEW a \in 1 .. MaxAttempts, Boot(a) PROVE Fine(smokeLog')
  <2>1. CASE smokeLog.ino # sims[a].ino
    <3>1. smokeLog' = smokeLog
      BY <1>5, <2>1 DEF Boot
    <3> QED  BY <1>0, <3>1
  <2>2. CASE smokeLog.ino = sims[a].ino
    <3>1. sims[a].ino > 0 /\ sims[a].ino < MaxAttempts + wrap.n /\ sims[a].ino \in Nat
      <4>1. sims[a].live
        BY <1>5 DEF Boot, Running
      <4>2. sims[a].ino > 0 /\ sims[a].ino \in Nat
        BY <1>0, <4>1 DEF PrintedUnderHeader, Sims
      <4> QED  BY <4>2 DEF PrintedUnderHeader
    <3>2. smokeLog.there /\ smokeLog.begun /\ smokeLog \in SmokeLogs
      BY <1>0, <2>2, <3>1
    <3>3. PICK n : smokeLog' = [smokeLog EXCEPT !.level = n, !.late = smokeLog.late \/ smokeLog.end]
                   /\ n \in 0 .. 5
      <4>1. PICK m \in Levels : sims' = [sims EXCEPT ![a].level = m]
        BY <1>5 DEF Boot
      <4>2. sims'[a].level = m /\ m \in 1 .. 5
        BY <1>0, <4>1, SmokeAssumption DEF Sims
      <4>3. smokeLog' = [smokeLog EXCEPT
                 !.level = IF sims'[a].level > smokeLog.level THEN sims'[a].level ELSE smokeLog.level,
                 !.late = smokeLog.late \/ smokeLog.end]
        BY <1>5, <2>2 DEF Boot
      <4>4. (IF sims'[a].level > smokeLog.level THEN sims'[a].level ELSE smokeLog.level) \in 0 .. 5
        BY <3>2, <4>2 DEF SmokeLogs
      <4> QED  BY <4>3, <4>4
    <3>4. (smokeLog.late \/ smokeLog.end) \in BOOLEAN
      OBVIOUS
    <3>5. smokeLog' \in SmokeLogs
      BY <3>2, <3>3, <3>4, LogUpdates
    <3>6. smokeLog'.there /\ smokeLog'.ino = smokeLog.ino /\ smokeLog'.begun
      BY <3>2, <3>3 DEF SmokeLogs
    <3> QED  BY <1>0, <3>2, <3>5, <3>6
  <2> QED  BY <2>1, <2>2
<1> HIDE DEF Fine
<1>6. Fine(smokeLog')
  BY <1>2, <1>3, <1>4, <1>5
<1> QED  BY <1>6 DEF Fine

\* The simulators and their files.
LEMMA SimsKept ==
    ASSUME smokeLog \in SmokeLogs, SmokeProcesses, HeadersLeft, PrintedUnderHeader, SmokeNext
    PROVE  smokeLog' \in SmokeLogs /\ sims' \in Sims /\ PrintedUnderHeader'
<1>0. sims \in Sims
  BY DEF SmokeProcesses, Sims
<1>1. CASE WriteHeader
  BY <1>1, HeaderWritten
<1>2. CASE ~WriteHeader
  <2>1. wrap'.n = wrap.n /\ (wrap'.pc = "make" => wrap.pc = "make")
    BY <1>2, SmokeLogMoves
  <2> DEFINE SimOK(s) == /\ s \in Sims
                         /\ \A a \in 1 .. MaxAttempts :
                              /\ s[a].live => s[a].ino > 0
                              /\ s[a].ino # 0 => s[a].ino < MaxAttempts + wrap.n
                         /\ wrap'.pc = "make" => s[wrap.n].ino > 0
  <2>2. SimOK(sims)
    BY <1>0, <2>1 DEF PrintedUnderHeader
  <2>3. ASSUME SimOK(sims')
        PROVE  /\ sims' \in Sims
               /\ \A a \in 1 .. MaxAttempts :
                    /\ sims'[a].live => sims'[a].ino > 0
                    /\ sims'[a].ino # 0 => sims'[a].ino < MaxAttempts + wrap'.n
               /\ wrap'.pc = "make" => sims'[wrap'.n].ino > 0
    BY <2>1, <2>3
  <2>4. ASSUME NEW a \in 1 .. MaxAttempts, sims' \in Sims,
               \A b \in 1 .. MaxAttempts : sims'[b].ino = sims[b].ino,
               \A b \in 1 .. MaxAttempts : sims'[b].live => sims[b].live \/ sims[b].ino > 0,
               wrap.pc = "make" => wrap.n \in 1 .. MaxAttempts
        PROVE  SimOK(sims')
    BY <2>1, <2>2, <2>4
  <2>5. wrap.pc = "make" => wrap.n \in 1 .. MaxAttempts
    BY SmokeAssumption DEF SmokeProcesses, HeadersLeft
  <2>6. SimsMove => SimOK(sims')
    <3> SUFFICES ASSUME SimsMove PROVE SimOK(sims')
      OBVIOUS
    <3>1. PICK a \in 1 .. MaxAttempts :
            \/ sims' = [sims EXCEPT ![a].live = FALSE]
            \/ Build /\ a = wrap.n /\ sims' = [sims EXCEPT ![a].live = TRUE]
      BY DEF SimsMove
    <3>2. sims' \in Sims /\ \A b \in 1 .. MaxAttempts : sims'[b].ino = sims[b].ino
      <4>1. PICK d \in BOOLEAN : sims' = [sims EXCEPT ![a].live = d]
        BY <3>1
      <4> QED  BY <1>0, <4>1 DEF Sims
    <3>3. \A b \in 1 .. MaxAttempts : sims'[b].live => sims[b].live \/ sims[b].ino > 0
      <4>1. CASE sims' = [sims EXCEPT ![a].live = FALSE]
        BY <1>0, <4>1 DEF Sims
      <4>2. CASE Build /\ a = wrap.n /\ sims' = [sims EXCEPT ![a].live = TRUE]
        <5>1. sims[a].ino > 0
          BY <4>2 DEF Build, PrintedUnderHeader
        <5> QED  BY <1>0, <4>2, <5>1 DEF Sims
      <4> QED  BY <3>1, <4>1, <4>2
    <3> QED  BY <2>4, <2>5, <3>2, <3>3
  <2>7. ASSUME NEW a \in 1 .. MaxAttempts, Boot(a)
        PROVE  SimOK(sims')
    <3>1. PICK m \in Levels : sims' = [sims EXCEPT ![a].level = m]
      BY <2>7 DEF Boot
    <3>2. m \in 0 .. 5
      BY SmokeAssumption
    <3>3. /\ sims' \in Sims
          /\ \A b \in 1 .. MaxAttempts : sims'[b].ino = sims[b].ino /\ sims'[b].live = sims[b].live
      BY <1>0, <3>1, <3>2 DEF Sims
    <3> QED  BY <2>4, <2>5, <3>3
  <2>8. BuildFails \/ CloseTranscript \/ WriteExitCode \/ ArchiveAttempt => sims' = sims
    BY DEF BuildFails, CloseTranscript, WriteExitCode, ArchiveAttempt
  <2> DEFINE LogOK == /\ smokeLog' \in SmokeLogs
                      /\ ~smokeLog'.there => smokeLog' = NoSmokeLog
                      /\ smokeLog'.there => smokeLog'.ino \in 1 .. MaxAttempts + wrap.n
                      /\ smokeLog'.level > 0 => smokeLog'.begun
                      /\ smokeLog'.there /\ ~smokeLog'.begun => smokeLog'.ino = MaxAttempts + wrap.n
  <2>9. smokeLog' = smokeLog => LogOK
    BY DEF PrintedUnderHeader
  <2>10. LogOK \/ smokeLog' = smokeLog
    <3>1. \/ BuildFails \/ CloseTranscript \/ WriteExitCode \/ ArchiveAttempt
          \/ \E a \in 1 .. MaxAttempts : Boot(a)
          \/ smokeLog' = smokeLog
      BY <1>2, SmokeLogMoves DEF GateMoves, SimsMove
    <3> QED  BY <3>1, LogPatched
  <2> HIDE DEF LogOK, SimOK
  <2>11. LogOK
    BY <2>9, <2>10
  <2>12. SimOK(sims')
    <3>1. sims' = sims => SimOK(sims')
      BY <2>2
    <3> QED  BY <1>2, <2>6, <2>7, <2>8, <3>1, SmokeLogMoves DEF GateMoves
  <2>13. PrintedUnderHeader'
    BY <2>1, <2>3, <2>11, <2>12 DEF PrintedUnderHeader, LogOK
  <2> QED  BY <2>3, <2>11, <2>12, <2>13 DEF LogOK
<1> QED  BY <1>1, <1>2

\* The gate: what it knows, and what it reports.
LEMMA GateKept ==
    ASSUME smokeLog \in SmokeLogs, SmokeProcesses, HeadersLeft, LookedOnce, SmokeNext,
           smokeReport \in {"none", "pass", "blocked"}
    PROVE  /\ chk' \in [pc : {"idle", "meta", "tree", "text"}, md : SmokeMetadata,
                         clear : BOOLEAN, raced : BOOLEAN]
           /\ smokeReport' \in {"none", "pass", "blocked"}
           /\ LookedOnce'
<1> DEFINE Chks == [pc : {"idle", "meta", "tree", "text"}, md : SmokeMetadata,
                    clear : BOOLEAN, raced : BOOLEAN]
<1>0. chk \in Chks /\ env' = env
  BY SmokeLogMoves DEF SmokeProcesses
<1>m. Metadata(smokeLog) \in SmokeMetadata /\ Metadata(NoSmokeLog) \in SmokeMetadata
  BY DEF Metadata, SmokeMetadata, SmokeLogs, NoSmokeLog
<1>1. smokeReport' = smokeReport \/ WriteSmokeReport
  <2>1. Wrapper => smokeReport' = smokeReport
    BY DEF Wrapper, WrapperRepair, WriteHeader, Build, BuildFails, SimulatorExits, Timeout,
           CloseTranscript, WriteExitCode, Retry, GiveUp, HandToGate
  <2>2. Operator => smokeReport' = smokeReport
    BY DEF Operator, StartWrapper, Interrupt, StartGate, RepairStale, RewriteForContainer,
           InspectAttempt, ArchiveAttempt
  <2>3. Simulator \/ Gate => smokeReport' = smokeReport \/ WriteSmokeReport
    BY DEF Simulator, Boot, LingererDies, Gate, ReadMetadata, ReadTree
  <2> QED  BY <2>1, <2>2, <2>3 DEF SmokeNext
<1>2. smokeReport' \in {"none", "pass", "blocked"}
  BY <1>1 DEF WriteSmokeReport, Verdict
<1>3. \/ UNCHANGED <<smokeLog, chk>>
      \/ LogWritten
      \/ smokeLog' = smokeLog /\ chk' = [chk EXCEPT !.pc = "meta", !.raced = FALSE]
      \/ ReadMetadata \/ ReadTree \/ WriteSmokeReport
  BY SmokeLogMoves DEF GateMoves, SimsMove, WriteHeader, BuildFails, CloseTranscript,
     WriteExitCode, ArchiveAttempt, Boot
<1>4. CASE UNCHANGED <<smokeLog, chk>>
  BY <1>0, <1>2, <1>4 DEF LookedOnce
<1>5. CASE LogWritten
  <2>1. /\ chk' \in Chks /\ chk'.pc = chk.pc /\ chk'.clear = chk.clear
        /\ chk.pc # "idle" => chk'.raced
    BY <1>0, <1>5 DEF LogWritten
  <2> QED  BY <1>0, <1>2, <2>1 DEF LookedOnce
<1>6. CASE smokeLog' = smokeLog /\ chk' = [chk EXCEPT !.pc = "meta", !.raced = FALSE]
  <2>1. chk' \in Chks /\ chk'.pc = "meta"
    BY <1>0, <1>6
  <2> QED  BY <1>2, <2>1 DEF LookedOnce
<1>7. CASE ReadMetadata
  <2>1. /\ chk' = [chk EXCEPT !.pc = "tree", !.md = Metadata(smokeLog), !.raced = FALSE]
        /\ smokeLog' = smokeLog
    BY <1>7 DEF ReadMetadata
  <2>2. chk' \in Chks /\ chk'.pc = "tree" /\ chk'.md = Metadata(smokeLog)
    BY <1>0, <1>m, <2>1
  <2>3. Metadata(smokeLog)' = Metadata(smokeLog)
    BY <2>1 DEF Metadata
  <2> QED  BY <1>2, <2>2, <2>3 DEF LookedOnce
<1>8. CASE ReadTree
  <2> DEFINE c == /\ GeneratedPathBlockers(tree, gsim) = {}
                  /\ SimulatorBlockers(gsim, asim) = {}
                  /\ PayloadBlockers(chk.md.begun) = {}
  <2>1. chk' = [chk EXCEPT !.pc = "text", !.clear = c] /\ chk.pc = "tree" /\ smokeLog' = smokeLog
    BY <1>8 DEF ReadTree
  <2>2. c \in BOOLEAN /\ (c => env.var # "nofile")
    <3>1. ASSUME env.var = "nofile" PROVE PayloadBlockers(chk.md.begun) # {}
      <4>1. PayloadOf(chk.md.begun) = "nofile"
        BY <3>1 DEF PayloadOf
      <4>2. PayloadBlockers(chk.md.begun) = {"payload missing"}
        BY <4>1 DEF PayloadBlockers
      <4> QED  BY <4>2
    <3> QED  BY <3>1
  <2> HIDE DEF c
  <2>3. /\ chk' \in Chks /\ chk'.pc = "text" /\ chk'.md = chk.md /\ chk'.raced = chk.raced
        /\ chk'.clear = c
    BY <1>0, <2>1, <2>2
  <2>4. Metadata(smokeLog)' = Metadata(smokeLog)
    BY <2>1 DEF Metadata
  <2> QED  BY <1>0, <1>2, <2>1, <2>2, <2>3, <2>4 DEF LookedOnce
<1>9. CASE WriteSmokeReport
  <2>1. chk' = [chk EXCEPT !.pc = "idle", !.clear = TRUE, !.md = Metadata(NoSmokeLog),
                           !.raced = FALSE]
    BY <1>9 DEF WriteSmokeReport
  <2>2. chk' \in Chks /\ chk'.pc = "idle"
    BY <1>0, <1>m, <2>1
  <2> QED  BY <1>2, <2>2 DEF LookedOnce
<1> QED  BY <1>3, <1>4, <1>5, <1>6, <1>7, <1>8, <1>9

\* Every step of the smoke's processes keeps the whole invariant.
LEMMA SmokeInvKept ==
    ASSUME SmokeInv, SmokeNext
    PROVE  SmokeInv'
<1>1. SmokeFiles /\ SmokeProcesses /\ HeadersLeft /\ PrintedUnderHeader /\ LookedOnce
      /\ RepairedOnce /\ RepairConverges
  BY DEF SmokeInv
<1>2. SmokeFiles'
  BY <1>1, SmokeTreeKept, SimsKept, GateKept DEF SmokeFiles
<1>3. SmokeProcesses'
  BY <1>1, WrapperMovesSo, SimsKept, GateKept, SmokeLogMoves DEF SmokeFiles, SmokeProcesses, Wraps, Sims
<1>4. HeadersLeft' /\ PrintedUnderHeader' /\ LookedOnce'
  BY <1>1, SmokeWrapperKept, SimsKept, GateKept DEF SmokeFiles
<1>5. RepairedOnce' /\ RepairConverges' /\ env' = env
  BY <1>1, SmokeTreeKept, SmokeLogMoves
<1> QED  BY <1>2, <1>3, <1>4, <1>5 DEF SmokeInv

\* The invariant holds of what a first run finds, repaired or not.
LEMMA SmokeInvStarts ==
    ASSUME SmokeInit  PROVE SmokeInv
<1>1. SmokeFiles
  <2>1. tree \in SmokeTrees
    <3>1. CASE tree = NoTree
      BY <3>1 DEF SmokeTrees, NoTree
    <3>2. CASE tree # NoTree
      BY <3>2 DEF SmokeInit, SmokeTrees
    <3> QED  BY <3>1, <3>2
  <2>2. smokeLog \in SmokeLogs
    BY LogUpdates DEF SmokeInit
  <2> QED  BY <2>1, <2>2, SmokeAssumption DEF SmokeInit, SmokeFiles
<1>2. SmokeProcesses
  <2>1. Metadata(NoSmokeLog) \in SmokeMetadata
    BY DEF Metadata, NoSmokeLog, SmokeMetadata
  <2>2. chk \in [pc : {"idle", "meta", "tree", "text"}, md : SmokeMetadata,
                clear : BOOLEAN, raced : BOOLEAN]
    BY <2>1 DEF SmokeInit
  <2>3. wrap \in [pc : SmokePcs, n : 0 .. MaxAttempts, att : {1, 2}, rc : {0, 1, 124}]
    BY SmokeAssumption DEF SmokeInit, SmokePcs
  <2>4. sims \in [1 .. MaxAttempts -> [live : BOOLEAN, level : 0 .. 5, ino : Nat]]
    BY DEF SmokeInit, NoSim
  <2> QED  BY <2>2, <2>3, <2>4 DEF SmokeInit, SmokeProcesses
<1>3. HeadersLeft
  BY DEF SmokeInit, HeadersLeft
<1>4. PrintedUnderHeader
  BY DEF SmokeInit, PrintedUnderHeader, NoSim, NoSmokeLog
<1>5. env.var \in {"unset", "file", "nofile"} /\ LookedOnce
  BY SmokeAssumption DEF SmokeInit, LookedOnce
<1>6. RepairedOnce /\ RepairConverges
  BY DEF SmokeInit, RepairedOnce, RepairConverges
<1> QED  BY <1>1, <1>2, <1>3, <1>4, <1>5, <1>6 DEF SmokeInv

\* A PASS of the gate is earned.
LEMMA PassIsEarned ==
    ASSUME SmokeInv, SmokeNext
    PROVE  EarnedIfPassed
<1> SUFFICES ASSUME chk.pc = "text", chk'.pc = "idle", smokeReport' = "pass"
             PROVE  /\ Stage(smokeLog, trace, chk.md) = "linux_boot"
                    /\ PayloadOf(smokeLog.begun) = "file"
                    /\ ~chk.raced =>
                         /\ smokeLog.begun => smokeLog.end
                         /\ smokeLog.exit # "nonzero" /\ ~smokeLog.late
                         /\ smokeLog.bad \cap {"fatal", "simfail"} = {}
  BY DEF EarnedIfPassed
<1>0. chk \in [pc : {"idle", "meta", "tree", "text"}, md : SmokeMetadata,
                clear : BOOLEAN, raced : BOOLEAN] /\ smokeLog \in SmokeLogs
  BY DEF SmokeInv, SmokeProcesses, SmokeFiles
<1>1. WriteSmokeReport
  <2>1. chk' # chk
    OBVIOUS
  <2>2. ~LogWritten
    <3>1. LogWritten => chk'.pc = chk.pc
      BY <1>0 DEF LogWritten
    <3> QED  BY <3>1
  <2>3. ~ReadMetadata /\ ~ReadTree
    BY DEF ReadMetadata, ReadTree
  <2>4. chk' # [chk EXCEPT !.pc = "meta", !.raced = FALSE]
    BY <1>0
  <2> QED  BY <2>1, <2>2, <2>3, <2>4, SmokeLogMoves DEF SmokeInv, GateMoves, SimsMove, WriteHeader,
     BuildFails, CloseTranscript, WriteExitCode, ArchiveAttempt, Boot
<1>2. chk.clear /\ LogBlockers(smokeLog, chk.md, trace) = {}
  BY <1>1 DEF WriteSmokeReport, Verdict
<1> DEFINE md == chk.md
<1>3. smokeLog.there
  BY <1>2 DEF LogBlockers
<1>4. /\ smokeLog.begun => md.end
      /\ ~md.late /\ md.bad \cap {"fatal", "simfail"} = {} /\ md.exit # "nonzero"
      /\ smokeLog.level = 5
  <2> DEFINE parts == {
        IF smokeLog.begun /\ ~md.end THEN {"interrupted"} ELSE {},
        IF md.late THEN {"late lines"} ELSE {},
        IF md.bad \cap {"fatal", "simfail"} # {} THEN {"build or simulator failure"} ELSE {},
        IF md.exit = "nonzero" THEN {"exit code"} ELSE {},
        TraceBlockers(smokeLog, trace),
        IF smokeLog.level < 4 THEN {"missing marker"} ELSE {},
        IF smokeLog.level >= 2 /\ ~AcceptedOpenSBI(smokeLog) THEN {"no handoff marker"} ELSE {},
        IF smokeLog.level >= 4 /\ ~AcceptedLinux(smokeLog) THEN {"no userland marker"} ELSE {}}
  <2>1. UNION parts = {}
    BY <1>2, <1>3 DEF LogBlockers
  <2>2. \A p \in parts : p = {}
    <3> HIDE DEF parts
    <3> QED  BY <2>1
  <2>3. (IF smokeLog.begun /\ ~md.end THEN {"interrupted"} ELSE {}) = {}
    BY <2>2
  <2>4. (IF md.late THEN {"late lines"} ELSE {}) = {}
    BY <2>2
  <2>5. (IF md.bad \cap {"fatal", "simfail"} # {} THEN {"build or simulator failure"} ELSE {}) = {}
    BY <2>2
  <2>6. (IF md.exit = "nonzero" THEN {"exit code"} ELSE {}) = {}
    BY <2>2
  <2>7. (IF smokeLog.level < 4 THEN {"missing marker"} ELSE {}) = {}
    BY <2>2
  <2>8. (IF smokeLog.level >= 4 /\ ~AcceptedLinux(smokeLog) THEN {"no userland marker"} ELSE {}) = {}
    BY <2>2
  <2> HIDE DEF md, parts
  <2>9. smokeLog.level \in 0 .. 5
    BY <1>0 DEF SmokeLogs
  <2>10. ~(smokeLog.level < 4)
    BY <2>7
  <2>11. ~(smokeLog.level >= 4 /\ ~(smokeLog.level >= 5))
    BY <2>8 DEF AcceptedLinux
  <2>12. smokeLog.level = 5
    BY <2>9, <2>10, <2>11
  <2> QED  BY <2>3, <2>4, <2>5, <2>6, <2>12
<1>5. Stage(smokeLog, trace, chk.md) = "linux_boot"
  BY <1>3, <1>4 DEF Stage
<1>6. PayloadOf(smokeLog.begun) = "file"
  <2>1. env.var \in {"unset", "file"} /\ smokeLog.begun
    BY <1>2, <1>4 DEF SmokeInv, LookedOnce, PrintedUnderHeader
  <2> QED  BY <2>1 DEF PayloadOf
<1>7. ASSUME ~chk.raced
      PROVE  /\ smokeLog.begun => smokeLog.end
             /\ smokeLog.exit # "nonzero" /\ ~smokeLog.late
             /\ smokeLog.bad \cap {"fatal", "simfail"} = {}
  <2>1. md = Metadata(smokeLog)
    BY <1>7 DEF SmokeInv, LookedOnce
  <2>2. /\ md.end = smokeLog.end /\ md.late = smokeLog.late
        /\ md.bad = smokeLog.bad /\ md.exit = smokeLog.exit
    BY <2>1 DEF Metadata
  <2> QED  BY <1>4, <2>2
<1> QED  BY <1>5, <1>6, <1>7

-----------------------------------------------------------------------------
\* ----------------------------------------------------------- CocotbEvidence

Xmls == [of : CocotbTargets \cup {"none"}, id : Nat, rev : Nat, ok : BOOLEAN, fresh : BOOLEAN]
CocotbEntries == [CocotbTargets -> [sha : Nat, rev : Nat]]
CocotbTypeOK ==
    /\ job \in [Jobs -> [pc : InSection \cup {"idle", "clean", "lock", "lockresults"},
                         t : CocotbTargets, n : Nat, draft : CocotbEntries]]
    /\ shared \in Xmls /\ result \in [CocotbTargets -> Xmls] /\ archive \in [CocotbTargets -> Xmls]
    /\ manifest \in CocotbEntries /\ rev \in Nat /\ simulations \in Nat
    /\ excuse \subseteq {"clean", "term", "kill", "edit"}

\* A file has the number of the job that made it.
Genuine(x) == x = NoXml \/ x.id > 0
FilesAreOfJobs ==
    /\ \A j \in Jobs : job[j].pc # "idle" => job[j].n > 0
    /\ Genuine(shared) /\ \A t \in CocotbTargets : Genuine(result[t]) /\ Genuine(archive[t])

\* Nobody was terminated: one job at most is past its locks, and what it is
\* about to save is its own.
On(j, pcs) == job[j].pc \in pcs
OneInSection ==
    /\ \A j \in Jobs : On(j, InSection) => "results" \in locked
    /\ \A j, k \in Jobs : On(j, InSection) /\ On(k, InSection) => j = k
OfItsTarget(x, t) == x = NoXml \/ x.of = t
FilesInPlace ==
    /\ \A j \in Jobs : On(j, {"save"}) => shared.of = job[j].t /\ shared # NoXml
    /\ \A t \in CocotbTargets : OfItsTarget(result[t], t) /\ OfItsTarget(archive[t], t)

\* Nor was a round begun in the middle of a job: nothing is older than the round.
OfThisRound(x) == x = NoXml \/ x.fresh
FilesAreFresh ==
    /\ \A j \in Jobs : On(j, {"save"}) => OfThisRound(shared)
    /\ \A t \in CocotbTargets : OfThisRound(result[t]) /\ OfThisRound(archive[t])

\* Nothing at all happened: the manifest says of each archived file what it is,
\* but for the one file that a job has archived and not yet entered.
Describes(e, x) ==
    IF x = NoXml THEN e = NoEntry ELSE e = [sha |-> x.id, rev |-> x.rev]
ManifestInStep ==
    /\ \A j \in Jobs :
         /\ On(j, {"save"}) => shared.rev = rev
         /\ On(j, {"archive"}) => result[job[j].t].rev = rev
         /\ On(j, {"load"}) => archive[job[j].t] # NoXml /\ archive[job[j].t].rev = rev
         /\ On(j, {"write"}) => \A t \in CocotbTargets : Describes(job[j].draft[t], archive[t])
    /\ \A t \in CocotbTargets :
         Describes(manifest[t], archive[t]) \/ \E j \in Jobs : On(j, {"load", "write"}) /\ job[j].t = t


\* The jobs at work have numbers of their own.
JobsNumbered ==
    /\ \A j \in Jobs : job[j].pc # "idle" => job[j].n \in 1 .. simulations
    /\ \A j, k \in Jobs : j # k /\ job[j].pc # "idle" /\ job[k].pc # "idle" => job[j].n # job[k].n

\* And so have the files: what a job has archived and not yet entered, no entry
\* is of.
FileNumbers ==
    /\ \A j \in Jobs :
         /\ On(j, {"save"}) => shared.id = job[j].n
         /\ On(j, {"archive"}) => result[job[j].t].id = job[j].n
         /\ On(j, {"load", "write"}) => manifest[job[j].t].sha # archive[job[j].t].id
         /\ On(j, {"clean", "lock", "lockresults", "simulate", "save", "archive"}) =>
              \A t \in CocotbTargets : archive[t].id # job[j].n
    /\ \A t \in CocotbTargets : archive[t].id <= simulations

CocotbInv ==
    /\ JobsNumbered
    /\ excuse = {} => FileNumbers
    /\ CocotbTypeOK /\ FilesAreOfJobs
    /\ "term" \notin excuse => OneInSection /\ FilesInPlace
    /\ excuse \cap {"term", "clean"} = {} => FilesAreFresh
    /\ excuse = {} => ManifestInStep

JobPcs == InSection \cup {"idle", "clean", "lock", "lockresults"}
JobStates == [pc : JobPcs, t : CocotbTargets, n : Nat, draft : CocotbEntries]

\* ---- what an action does to the jobs
LEMMA JobSteps ==
    ASSUME CocotbTypeOK, NEW j \in Jobs, NEW from, NEW to \in JobPcs, JobStep(j, from, to)
    PROVE  /\ job' \in [Jobs -> JobStates] /\ job[j].pc = from
           /\ job'[j].pc = to /\ job'[j].t = job[j].t
           /\ job'[j].n = job[j].n /\ job'[j].draft = job[j].draft
           /\ \A k \in Jobs \ {j} : job'[k] = job[k]
<1>1. job \in [Jobs -> JobStates]
  BY DEF CocotbTypeOK, JobStates, JobPcs
<1>2. job' = [job EXCEPT ![j].pc = to]
  BY DEF JobStep
<1> QED  BY <1>1, <1>2 DEF JobStates, JobStep

\* A step that replaces the record of one job leaves the others'.
LEMMA JobReplaced ==
    ASSUME CocotbTypeOK, NEW j \in Jobs, NEW s \in JobStates, job' = [job EXCEPT ![j] = s]
    PROVE  /\ job' \in [Jobs -> JobStates] /\ job'[j] = s
           /\ \A k \in Jobs \ {j} : job'[k] = job[k]
<1>1. job \in [Jobs -> JobStates]
  BY DEF CocotbTypeOK, JobStates, JobPcs
<1> QED  BY <1>1

\* The states in which a job and its draft begin.
LEMMA IdleJobIsAJob ==
    IdleJob \in JobStates /\ IdleJob.pc = "idle" /\ NoEntries \in CocotbEntries
BY CocotbAssumption DEF IdleJob, JobStates, JobPcs, NoEntries, NoEntry, CocotbEntries

\* A results file stays one when it is aged, and its number stays.
LEMMA XmlUpdates ==
    /\ NoXml \in Xmls /\ Genuine(NoXml) /\ NoXml.ok = FALSE
    /\ \A x \in Xmls : Stale(x) \in Xmls /\ (Genuine(x) => Genuine(Stale(x)))
<1>1. NoXml \in Xmls /\ NoXml.ok = FALSE /\ Genuine(NoXml)
  BY DEF NoXml, Xmls, Genuine
<1>2. ASSUME NEW x \in Xmls  PROVE Stale(x) \in Xmls /\ (Genuine(x) => Genuine(Stale(x)))
  <2>1. Stale(x) \in Xmls /\ Stale(x).id = x.id
    <3>1. Stale(x) = [x EXCEPT !.fresh = FALSE]
      BY DEF Stale
    <3> QED  BY <3>1 DEF Xmls
  <2>2. Stale(NoXml) = NoXml
    <3>1. ASSUME NEW y \in Xmls, NEW z \in Xmls,
                 y.of = z.of, y.id = z.id, y.rev = z.rev, y.ok = z.ok, y.fresh = z.fresh
          PROVE  y = z
      BY <3>1 DEF Xmls
    <3> DEFINE z == Stale(NoXml)
    <3>2. z = [NoXml EXCEPT !.fresh = FALSE]
      BY DEF Stale
    <3>3. z \in Xmls /\ z.of = NoXml.of /\ z.id = NoXml.id /\ z.rev = NoXml.rev /\ z.ok = NoXml.ok
          /\ z.fresh = FALSE
      BY <1>1, <3>2 DEF Xmls
    <3>4. NoXml.fresh = FALSE
      BY DEF NoXml
    <3> HIDE DEF z
    <3>5. z = NoXml
      BY <1>1, <3>1, <3>3, <3>4
    <3> QED  BY <3>5 DEF z
  <2> QED  BY <2>1, <2>2 DEF Genuine
<1> QED  BY <1>1, <1>2

\* ---- types, and the numbers of the files
FilesTyped ==
    /\ shared \in Xmls /\ result \in [CocotbTargets -> Xmls] /\ archive \in [CocotbTargets -> Xmls]
    /\ manifest \in CocotbEntries /\ rev \in Nat /\ simulations \in Nat
    /\ excuse \subseteq {"clean", "term", "kill", "edit"}
    /\ Genuine(shared) /\ \A t \in CocotbTargets : Genuine(result[t]) /\ Genuine(archive[t])
JobsTyped == job \in [Jobs -> JobStates] /\ \A j \in Jobs : job[j].pc # "idle" => job[j].n > 0

\* The type invariant splits into the jobs' part and the files' part.
LEMMA TypedTogether == CocotbTypeOK /\ FilesAreOfJobs <=> JobsTyped /\ FilesTyped
BY DEF CocotbTypeOK, FilesAreOfJobs, JobsTyped, FilesTyped, JobStates, JobPcs

\* Every step of a job writes files of jobs there have been.
LEMMA CocotbTypesKept ==
    ASSUME CocotbTypeOK, FilesAreOfJobs, CocotbNext
    PROVE  CocotbTypeOK' /\ FilesAreOfJobs'
<1> DEFINE Kept == JobsTyped' /\ FilesTyped'
<1>0. JobsTyped /\ FilesTyped
  BY TypedTogether
<1>1. ASSUME NEW j \in Jobs, NEW from, NEW to \in JobPcs, from # "idle", JobStep(j, from, to)
      PROVE  JobsTyped' /\ job[j] \in JobStates /\ job[j].t \in CocotbTargets /\ job[j].n \in Nat
             /\ job[j].n > 0
  BY <1>0, <1>1, JobSteps DEF JobsTyped, JobStates
<1>i. {"lock", "lockresults", "simulate", "save", "archive", "load", "write", "unlock"} \subseteq JobPcs
  BY DEF JobPcs, InSection
<1>2. ASSUME NEW j \in Jobs, NEW s \in JobStates, s.pc # "idle" => s.n > 0, job' = [job EXCEPT ![j] = s]
      PROVE  JobsTyped'
  BY <1>0, <1>2, JobReplaced DEF JobsTyped
<1>3. ASSUME NEW j \in Jobs, Clean(j) PROVE Kept
  <2>1. JobsTyped'
    BY <1>1, <1>3, <1>i DEF Clean
  <2>2. /\ manifest' = NoEntries /\ archive' = [t \in CocotbTargets |-> NoXml]
        /\ result' = [t \in CocotbTargets |-> NoXml] /\ shared' = Stale(shared)
        /\ excuse' \subseteq excuse \cup {"clean"} /\ rev' = rev /\ simulations' = simulations
    BY <1>3 DEF Clean
  <2> QED  BY <1>0, <2>1, <2>2, XmlUpdates, IdleJobIsAJob DEF FilesTyped
<1>4. ASSUME NEW j \in Jobs, LockTarget(j) PROVE Kept
  <2>1. JobsTyped'
    BY <1>1, <1>4, <1>i DEF LockTarget
  <2>2. UNCHANGED <<shared, result, archive, manifest, rev, simulations, excuse>>
    BY <1>4 DEF LockTarget
  <2> QED  BY <1>0, <2>1, <2>2 DEF FilesTyped
<1>5. ASSUME NEW j \in Jobs, LockResults(j) PROVE Kept
  <2>1. JobsTyped' /\ job[j].t \in CocotbTargets
    BY <1>1, <1>5, <1>i DEF LockResults
  <2>2. /\ shared' = NoXml /\ result' = [result EXCEPT ![job[j].t] = NoXml]
        /\ UNCHANGED <<archive, manifest, rev, simulations, excuse>>
    BY <1>5 DEF LockResults
  <2> QED  BY <1>0, <2>1, <2>2, XmlUpdates DEF FilesTyped
<1>6. ASSUME NEW j \in Jobs, Simulate(j) PROVE Kept
  <2>1. JobsTyped' /\ job[j].t \in CocotbTargets /\ job[j].n \in Nat /\ job[j].n > 0
    BY <1>1, <1>6, <1>i DEF Simulate
  <2>2. /\ \/ \E ok \in BOOLEAN :
              shared' = [of |-> job[j].t, id |-> job[j].n, rev |-> rev, ok |-> ok, fresh |-> TRUE]
           \/ shared' = shared
        /\ UNCHANGED <<result, archive, manifest, rev, simulations, excuse>>
    BY <1>6 DEF Simulate
  <2>3. shared' \in Xmls /\ Genuine(shared')
    <3>1. CASE shared' = shared
      BY <1>0, <3>1 DEF FilesTyped
    <3>2. ASSUME NEW ok \in BOOLEAN,
                 shared' = [of |-> job[j].t, id |-> job[j].n, rev |-> rev, ok |-> ok, fresh |-> TRUE]
          PROVE  shared' \in Xmls /\ Genuine(shared')
      BY <1>0, <2>1, <3>2 DEF FilesTyped, Xmls, Genuine
    <3> QED  BY <2>2, <3>1, <3>2
  <2> QED  BY <1>0, <2>1, <2>2, <2>3 DEF FilesTyped
<1>7. ASSUME NEW j \in Jobs, Save(j) PROVE Kept
  <2>1. JobsTyped' /\ job[j].t \in CocotbTargets
    BY <1>1, <1>7, <1>i DEF Save
  <2>2. /\ result' = [result EXCEPT ![job[j].t] = IF shared = NoXml THEN @ ELSE shared]
        /\ UNCHANGED <<shared, archive, manifest, rev, simulations, excuse>>
    BY <1>7 DEF Save
  <2> QED  BY <1>0, <2>1, <2>2 DEF FilesTyped
<1>8. ASSUME NEW j \in Jobs, Archive(j) PROVE Kept
  <2>1. JobsTyped' /\ job[j].t \in CocotbTargets
    BY <1>1, <1>8, <1>i DEF Archive
  <2>2. /\ archive' = [archive EXCEPT ![job[j].t] = IF result[job[j].t].ok THEN result[job[j].t] ELSE @]
        /\ UNCHANGED <<shared, result, manifest, rev, simulations, excuse>>
    BY <1>8 DEF Archive
  <2> QED  BY <1>0, <2>1, <2>2 DEF FilesTyped
<1>9. ASSUME NEW j \in Jobs, Load(j) PROVE Kept
  <2>1. job[j] \in JobStates /\ job[j].pc = "load" /\ job[j].n > 0
    BY <1>0, <1>9 DEF Load, JobsTyped
  <2> DEFINE d == [Rebuilt EXCEPT ![job[j].t] = [sha |-> archive[job[j].t].id, rev |-> rev]]
             p == IF archive[job[j].t] = NoXml THEN "unlock" ELSE "write"
  <2>2. d \in CocotbEntries
    <3>1. Rebuilt \in CocotbEntries
      BY <1>0 DEF Rebuilt, FilesTyped, CocotbEntries, Xmls, NoEntry
    <3>2. [sha |-> archive[job[j].t].id, rev |-> rev] \in [sha : Nat, rev : Nat]
      BY <1>0, <2>1 DEF FilesTyped, Xmls, JobStates
    <3> QED  BY <3>1, <3>2 DEF CocotbEntries
  <2>3. p \in JobPcs
    BY <1>i
  <2>4. job' = [job EXCEPT ![j].pc = p, ![j].draft = d]
    BY <1>9 DEF Load
  <2> HIDE DEF d, p
  <2>5. JobsTyped'
    BY <1>0, <2>1, <2>2, <2>3, <2>4 DEF JobsTyped, JobStates
  <2>6. UNCHANGED <<shared, result, archive, manifest, rev, simulations, excuse>>
    BY <1>9 DEF Load
  <2> QED  BY <1>0, <2>5, <2>6 DEF FilesTyped
<1>10. ASSUME NEW j \in Jobs, WriteCocotbManifest(j) PROVE Kept
  <2>1. JobsTyped' /\ job[j] \in JobStates
    BY <1>1, <1>10, <1>i DEF WriteCocotbManifest
  <2>2. manifest' = job[j].draft /\ UNCHANGED <<shared, result, archive, rev, simulations, excuse>>
    BY <1>10 DEF WriteCocotbManifest
  <2> QED  BY <1>0, <2>1, <2>2 DEF FilesTyped, JobStates
<1>11. ASSUME NEW j \in Jobs, RemoveLocks(j) \/ Killed(j) PROVE Kept
  <2>1. JobsTyped'
    BY <1>2, <1>11, IdleJobIsAJob DEF RemoveLocks, Killed
  <2>2. UNCHANGED <<shared, result, archive, manifest, rev, simulations>>
        /\ excuse' \subseteq excuse \cup {"kill"}
    BY <1>11 DEF RemoveLocks, Killed
  <2> QED  BY <1>0, <2>1, <2>2 DEF FilesTyped
<1>12. ASSUME NEW j \in Jobs, Terminated(j) PROVE Kept
  <2>1. UNCHANGED <<job, shared, result, archive, manifest, rev, simulations>>
        /\ excuse' \subseteq excuse \cup {"term"}
    BY <1>12 DEF Terminated
  <2> QED  BY <1>0, <2>1 DEF FilesTyped, JobsTyped
<1>13. ASSUME NEW j \in Jobs, NEW t \in CocotbTargets, StartJob(j, t) PROVE Kept
  <2> DEFINE s == [IdleJob EXCEPT !.pc = IF t = Top THEN "clean" ELSE "lock",
                                  !.t = t, !.n = simulations + 1]
  <2>1. s \in JobStates /\ s.n > 0
    <3>1. simulations + 1 \in Nat /\ simulations + 1 > 0
      BY <1>0 DEF FilesTyped
    <3>2. (IF t = Top THEN "clean" ELSE "lock") \in JobPcs
      BY DEF JobPcs
    <3> QED  BY <3>1, <3>2, IdleJobIsAJob DEF JobStates
  <2>2. job' = [job EXCEPT ![j] = s] /\ simulations' = simulations + 1
        /\ UNCHANGED <<shared, result, archive, manifest, rev, excuse>>
    BY <1>13 DEF StartJob
  <2> HIDE DEF s
  <2>3. JobsTyped'
    BY <1>2, <2>1, <2>2
  <2> QED  BY <1>0, <2>2, <2>3 DEF FilesTyped
<1>14. EditSources => Kept
  <2> SUFFICES ASSUME EditSources PROVE Kept
    OBVIOUS
  <2>1. UNCHANGED <<job, shared, result, archive, manifest, simulations>> /\ rev' = rev + 1
        /\ excuse' \subseteq excuse \cup {"edit"}
    BY DEF EditSources
  <2> QED  BY <1>0, <2>1 DEF FilesTyped, JobsTyped
<1> HIDE DEF Kept
<1>15. Kept
  BY <1>3, <1>4, <1>5, <1>6, <1>7, <1>8, <1>9, <1>10, <1>11, <1>12, <1>13, <1>14 DEF CocotbNext, Work
<1> QED  BY <1>15 DEF Kept, CocotbTypeOK, FilesAreOfJobs, JobsTyped, FilesTyped, JobStates, JobPcs

\* What nobody's accident has yet excused.
Sections == "term" \notin excuse => OneInSection /\ FilesInPlace
Freshness == excuse \cap {"term", "clean"} = {} => FilesAreFresh
InStep == excuse = {} => ManifestInStep
Guarded == Sections /\ Freshness /\ InStep
Typed == CocotbTypeOK /\ FilesAreOfJobs

\* An action of j moves j from one command to another and nobody else.
Others(j) == \A k \in Jobs : k # j => job'[k] = job[k]
Move(j, from, to) ==
    /\ job[j].pc = from /\ job'[j].pc = to /\ Others(j)
    /\ job'[j].t = job[j].t /\ job'[j].draft = job[j].draft /\ job[j].t \in CocotbTargets
LEMMA Gone ==
    ASSUME Typed, NEW j \in Jobs, NEW from, NEW to \in JobPcs, JobStep(j, from, to)
    PROVE  Move(j, from, to)
BY JobSteps DEF Typed, Move, Others, CocotbTypeOK

\* Whoever does not enter the section, and removes no lock, leaves it exclusive.
LEMMA SectionKept ==
    ASSUME OneInSection, "results" \in locked => "results" \in locked',
           \A k \in Jobs : job'[k].pc \in InSection => job[k].pc \in InSection
    PROVE  OneInSection'
BY DEF OneInSection, On

\* Nobody else is in the section of a job that is, unless one was terminated.
LEMMA Alone ==
    ASSUME Sections, "term" \notin excuse, NEW j \in Jobs, job[j].pc \in InSection
    PROVE  \A k \in Jobs : k # j => job[k].pc \notin InSection
BY DEF Sections, OneInSection, On

\* The round begins: nothing is left of the one before.
LEMMA CleanKeeps ==
    ASSUME Typed, Guarded, NEW j \in Jobs, Clean(j)
    PROVE  Guarded'
<1>1. Move(j, "clean", "lock")
  BY Gone DEF Clean, JobPcs
<1>2. /\ manifest' = NoEntries /\ archive' = [t \in CocotbTargets |-> NoXml]
      /\ result' = [t \in CocotbTargets |-> NoXml] /\ shared' = Stale(shared)
      /\ excuse \subseteq excuse' /\ rev' = rev /\ locked' = locked
      /\ (\E k \in Jobs : job[k].pc \in InSection) => "clean" \in excuse'
  BY DEF Clean
<1>3. /\ \A t \in CocotbTargets : archive'[t] = NoXml /\ result'[t] = NoXml /\ manifest'[t] = NoEntry
  BY <1>2 DEF NoEntries
<1>4. \A k \in Jobs : job'[k].pc \in InSection => job[k].pc \in InSection /\ job'[k] = job[k]
  BY <1>1 DEF Move, Others, InSection
<1>5. Sections'
  <2> SUFFICES ASSUME "term" \notin excuse' PROVE OneInSection' /\ FilesInPlace'
    BY DEF Sections
  <2>1. OneInSection /\ FilesInPlace
    BY <1>2 DEF Guarded, Sections
  <2>2. OneInSection'
    BY <1>2, <1>4, <2>1, SectionKept
  <2>3. shared # NoXml => shared' # NoXml /\ shared'.of = shared.of
    <3>1. shared \in Xmls /\ Genuine(shared)
      BY DEF Typed, CocotbTypeOK, FilesAreOfJobs
    <3>2. shared'.id = shared.id /\ shared'.of = shared.of
      BY <1>2, <3>1 DEF Stale, Xmls
    <3>3. NoXml.id = 0
      BY DEF NoXml
    <3> QED  BY <3>1, <3>2, <3>3 DEF Genuine
  <2>4. FilesInPlace'
    BY <1>3, <1>4, <2>1, <2>3 DEF FilesInPlace, On, OfItsTarget, InSection
  <2> QED  BY <2>2, <2>4
<1>6. Freshness'
  <2> SUFFICES ASSUME "clean" \notin excuse' PROVE FilesAreFresh'
    BY DEF Freshness
  <2>1. \A k \in Jobs : job'[k].pc # "save"
    BY <1>2, <1>4 DEF InSection
  <2> QED  BY <1>3, <2>1 DEF FilesAreFresh, On, OfThisRound
<1>7. InStep'
  <2> SUFFICES ASSUME excuse' = {} PROVE ManifestInStep'
    BY DEF InStep
  <2>1. \A k \in Jobs : job'[k].pc \notin InSection
    BY <1>2, <1>4
  <2> QED  BY <1>3, <2>1 DEF ManifestInStep, On, Describes, InSection
<1> QED  BY <1>5, <1>6, <1>7 DEF Guarded

\* Before the section nothing changes hands.
LEMMA OutsideKeeps ==
    ASSUME Typed, Guarded, NEW j \in Jobs, Others(j),
           job'[j].pc \notin InSection, job[j].pc \notin InSection \/ "kill" \in excuse',
           "results" \in locked => "results" \in locked', excuse \subseteq excuse',
           UNCHANGED <<shared, result, archive, manifest, rev>>
    PROVE  Guarded'
<1>1. \A k \in Jobs : job'[k].pc \in InSection => job[k].pc \in InSection /\ job'[k] = job[k]
  BY DEF Others
<1>2. Sections'
  <2>1. ASSUME "term" \notin excuse' PROVE OneInSection /\ FilesInPlace
    BY <2>1 DEF Guarded, Sections
  <2>2. ASSUME OneInSection PROVE OneInSection'
    BY <1>1, <2>2, SectionKept
  <2>3. ASSUME FilesInPlace PROVE FilesInPlace'
    BY <1>1, <2>3 DEF FilesInPlace, On, InSection
  <2> QED  BY <2>1, <2>2, <2>3 DEF Sections
<1>3. Freshness'
  <2>1. ASSUME excuse' \cap {"term", "clean"} = {} PROVE FilesAreFresh
    BY <2>1 DEF Guarded, Freshness
  <2>2. ASSUME FilesAreFresh PROVE FilesAreFresh'
    BY <1>1, <2>2 DEF FilesAreFresh, On, InSection
  <2> QED  BY <2>1, <2>2 DEF Freshness
<1>4. InStep'
  <2> SUFFICES ASSUME excuse' = {} PROVE ManifestInStep'
    BY DEF InStep
  <2>1. ManifestInStep /\ job[j].pc \notin InSection
    BY DEF Guarded, InStep
  <2>2. \A k \in Jobs : job[k].pc \in InSection => job'[k] = job[k]
    BY <2>1 DEF Others
  <2> QED  BY <1>1, <2>1, <2>2 DEF ManifestInStep, On, InSection
<1> QED  BY <1>2, <1>3, <1>4 DEF Guarded

\* A job outside the locks changes no file the invariant speaks of.
LEMMA BeforeTheSection ==
    ASSUME Typed, Guarded, NEW j \in Jobs,
           LockTarget(j) \/ Killed(j) \/ \E t \in CocotbTargets : StartJob(j, t)
    PROVE  Guarded'
<1>1. job \in [Jobs -> JobStates]
  BY DEF Typed, CocotbTypeOK, JobStates, JobPcs
<1>2. CASE LockTarget(j)
  <2>1. Move(j, "lock", "lockresults")
    BY <1>2, Gone DEF LockTarget, JobPcs
  <2>2. locked' = locked \cup {job[j].t} /\ UNCHANGED <<shared, result, archive, manifest, rev, excuse>>
    BY <1>2 DEF LockTarget
  <2> QED  BY <2>1, <2>2, OutsideKeeps DEF Move, InSection
<1>3. CASE Killed(j)
  <2>1. job' = [job EXCEPT ![j] = IdleJob] /\ excuse' = excuse \cup {"kill"}
        /\ UNCHANGED <<locked, shared, result, archive, manifest, rev>>
    BY <1>3 DEF Killed
  <2>2. Others(j) /\ job'[j].pc = "idle"
    BY <1>1, <2>1, IdleJobIsAJob DEF Others
  <2> QED  BY <2>1, <2>2, OutsideKeeps DEF InSection
<1>4. ASSUME NEW t \in CocotbTargets, StartJob(j, t) PROVE Guarded'
  <2>1. /\ job' = [job EXCEPT ![j] = [IdleJob EXCEPT !.pc = IF t = Top THEN "clean" ELSE "lock",
                                             !.t = t, !.n = simulations + 1]]
        /\ job[j].pc = "idle" /\ UNCHANGED <<locked, shared, result, archive, manifest, rev, excuse>>
    BY <1>4 DEF StartJob
  <2>2. Others(j) /\ job'[j].pc \in {"clean", "lock"}
    BY <1>1, <2>1, IdleJobIsAJob DEF Others, JobStates
  <2> QED  BY <2>1, <2>2, OutsideKeeps DEF InSection
<1> QED  BY <1>2, <1>3, <1>4

\* The section is entered when nobody is in it, and with nothing in the way.
LEMMA LockResultsKeeps ==
    ASSUME Typed, Guarded, NEW j \in Jobs, LockResults(j)
    PROVE  Guarded'
<1>1. Move(j, "lockresults", "simulate")
  BY Gone DEF LockResults, JobPcs, InSection
<1>2. /\ "results" \notin locked /\ locked' = locked \cup {"results"}
      /\ shared' = NoXml /\ result' = [result EXCEPT ![job[j].t] = NoXml]
      /\ UNCHANGED <<archive, manifest, rev, excuse>>
  BY DEF LockResults
<1>3. /\ job[j].t \in CocotbTargets
      /\ \A t \in CocotbTargets : result'[t] = NoXml \/ result'[t] = result[t]
  BY <1>1, <1>2 DEF Move, Typed, CocotbTypeOK
<1>4. "term" \notin excuse => \A k \in Jobs : job[k].pc \notin InSection
  BY <1>2 DEF Guarded, Sections, OneInSection, On
<1>5. "term" \notin excuse => \A k \in Jobs : job'[k].pc \in InSection => k = j
  BY <1>1, <1>4 DEF Move, Others
<1>6. "term" \notin excuse => \A k \in Jobs : job'[k].pc \notin {"save", "archive", "load", "write"}
  BY <1>1, <1>5 DEF Move, InSection
<1>7. Sections'
  <2> SUFFICES ASSUME "term" \notin excuse' PROVE OneInSection' /\ FilesInPlace'
    BY DEF Sections
  <2>1. OneInSection'
    BY <1>2, <1>5 DEF OneInSection, On
  <2>2. FilesInPlace'
    BY <1>2, <1>3, <1>6 DEF FilesInPlace, On, OfItsTarget, Guarded, Sections
  <2> QED  BY <2>1, <2>2
<1>8. Freshness'
  BY <1>2, <1>3, <1>6 DEF Freshness, FilesAreFresh, On, OfThisRound, Guarded
<1>9. InStep'
  <2> SUFFICES ASSUME excuse' = {} PROVE ManifestInStep'
    BY DEF InStep
  <2>1. ManifestInStep
    BY <1>2 DEF Guarded, InStep
  <2>2. \A k \in Jobs : job[k].pc \notin {"load", "write"} /\ job'[k].pc \notin {"save", "archive", "load", "write"}
    BY <1>2, <1>4, <1>6 DEF InSection
  <2> QED  BY <1>2, <2>1, <2>2 DEF ManifestInStep, On
<1> QED  BY <1>7, <1>8, <1>9 DEF Guarded

\* make simulates into the results file that all targets share, under its lock.
LEMMA SimulateKeeps ==
    ASSUME Typed, Guarded, NEW j \in Jobs, Simulate(j)
    PROVE  Guarded'
<1>0. PICK to \in {"save", "unlock"} : JobStep(j, "simulate", to)
  BY DEF Simulate
<1>1. Move(j, "simulate", to)
  BY <1>0, Gone DEF JobPcs, InSection
<1>2. /\ \/ \E ok \in BOOLEAN :
              shared' = [of |-> job[j].t, id |-> job[j].n, rev |-> rev, ok |-> ok, fresh |-> TRUE]
         \/ to = "unlock"
      /\ UNCHANGED <<locked, result, archive, manifest, rev, excuse>>
  <2>1. job[j].pc = "simulate" /\ job'[j].pc = to
    BY <1>1 DEF Move
  <2>2. JobStep(j, "simulate", "unlock") => job'[j].pc = "unlock"
    BY Gone DEF Move, JobPcs, InSection
  <2> QED  BY <2>1, <2>2 DEF Simulate
<1>3. to = "save" => /\ shared'.of = job[j].t /\ shared'.id = job[j].n
                     /\ shared'.rev = rev /\ shared'.fresh = TRUE
  BY <1>2
<1>4. "term" \notin excuse => \A k \in Jobs : k # j => job'[k] = job[k] /\ job[k].pc \notin InSection
  BY <1>1, Alone DEF Move, Others, InSection, Guarded
<1>5. Sections'
  <2> SUFFICES ASSUME "term" \notin excuse' PROVE OneInSection' /\ FilesInPlace'
    BY DEF Sections
  <2>1. OneInSection /\ FilesInPlace
    BY <1>2 DEF Guarded, Sections
  <2>2. \A k \in Jobs : job'[k].pc \in InSection => job[k].pc \in InSection
    BY <1>1 DEF Move, Others, InSection
  <2>3. OneInSection'
    BY <1>2, <2>1, <2>2, SectionKept
  <2>4. to = "save" => shared' # NoXml
    <3>1. job[j].n > 0
      BY <1>1 DEF Move, Typed, FilesAreOfJobs
    <3>2. NoXml.id = 0
      BY DEF NoXml
    <3> QED  BY <1>3, <3>1, <3>2
  <2>5. FilesInPlace'
    BY <1>1, <1>2, <1>3, <1>4, <2>1, <2>4 DEF FilesInPlace, On, Move, InSection
  <2> QED  BY <2>3, <2>5
<1>6. Freshness'
  BY <1>1, <1>2, <1>3, <1>4 DEF Freshness, FilesAreFresh, On, OfThisRound, Move, InSection, Guarded
<1>7. InStep'
  <2> SUFFICES ASSUME excuse' = {} PROVE ManifestInStep'
    BY DEF InStep
  <2>1. ManifestInStep
    BY <1>2 DEF Guarded, InStep
  <2> QED  BY <1>1, <1>2, <1>3, <1>4, <2>1 DEF ManifestInStep, On, Move, InSection
<1> QED  BY <1>5, <1>6, <1>7 DEF Guarded

\* The shared results become the target's, of the job that holds both locks.
LEMMA SaveKeeps ==
    ASSUME Typed, Guarded, NEW j \in Jobs, Save(j)
    PROVE  Guarded'
<1> DEFINE to == IF shared = NoXml THEN "unlock" ELSE "archive"
<1>1. Move(j, "save", to)
  BY Gone DEF JobPcs, InSection, Save
<1>2. /\ result' = [result EXCEPT ![job[j].t] = IF shared = NoXml THEN @ ELSE shared]
      /\ UNCHANGED <<locked, shared, archive, manifest, rev, excuse>>
  BY DEF Save
<1>3. /\ job[j].t \in CocotbTargets /\ shared # NoXml => result'[job[j].t] = shared
      /\ \A t \in CocotbTargets : \/ result'[t] = result[t]
                                  \/ t = job[j].t /\ result'[t] = shared
  <2>1. job[j].t \in CocotbTargets /\ result \in [CocotbTargets -> Xmls]
    BY <1>1 DEF Move, Typed, CocotbTypeOK
  <2>2. \A t \in CocotbTargets :
          result'[t] = IF t = job[j].t THEN IF shared = NoXml THEN result[t] ELSE shared ELSE result[t]
    BY <1>2, <2>1
  <2> QED  BY <2>1, <2>2
<1>4. "term" \notin excuse => \A k \in Jobs : k # j => job'[k] = job[k] /\ job[k].pc \notin InSection
  BY <1>1, Alone DEF Move, Others, InSection, Guarded
<1>5. "term" \notin excuse => shared.of = job[j].t /\ shared # NoXml
  BY <1>1 DEF Guarded, Sections, FilesInPlace, On, Move
<1>6. Sections'
  <2> SUFFICES ASSUME "term" \notin excuse' PROVE OneInSection' /\ FilesInPlace'
    BY DEF Sections
  <2>1. OneInSection /\ FilesInPlace
    BY <1>2 DEF Guarded, Sections
  <2>2. \A k \in Jobs : job'[k].pc \in InSection => job[k].pc \in InSection
    BY <1>1 DEF Move, Others, InSection
  <2>3. OneInSection'
    BY <1>2, <2>1, <2>2, SectionKept
  <2>4. FilesInPlace'
    BY <1>1, <1>2, <1>3, <1>4, <1>5, <2>1 DEF FilesInPlace, On, Move, InSection, OfItsTarget
  <2> QED  BY <2>3, <2>4
<1>7. Freshness'
  <2> SUFFICES ASSUME excuse' \cap {"term", "clean"} = {} PROVE FilesAreFresh'
    BY DEF Freshness
  <2>1. FilesAreFresh /\ OfThisRound(shared)
    BY <1>1, <1>2 DEF Guarded, Freshness, FilesAreFresh, On, Move
  <2>2. \A k \in Jobs : job'[k].pc # "save"
    BY <1>1, <1>2, <1>4 DEF Move, InSection
  <2> QED  BY <1>2, <1>3, <2>1, <2>2 DEF FilesAreFresh, On, OfThisRound
<1>8. InStep'
  <2> SUFFICES ASSUME excuse' = {} PROVE ManifestInStep'
    BY DEF InStep
  <2>1. ManifestInStep
    BY <1>2 DEF Guarded, InStep
  <2>2. shared.rev = rev
    BY <1>1, <2>1 DEF ManifestInStep, On, Move
  <2> QED  BY <1>1, <1>2, <1>3, <1>4, <1>5, <2>1, <2>2 DEF ManifestInStep, On, Move, InSection
<1> QED  BY <1>6, <1>7, <1>8 DEF Guarded

\* The target's results are archived; until the manifest is written it may disagree.
LEMMA ArchiveKeeps ==
    ASSUME Typed, Guarded, NEW j \in Jobs, Archive(j)
    PROVE  Guarded'
<1> DEFINE t == job[j].t
           to == IF result[t].ok THEN "load" ELSE "unlock"
<1>1. Move(j, "archive", to)
  BY Gone DEF JobPcs, InSection, Archive
<1>2. /\ archive' = [archive EXCEPT ![t] = IF result[t].ok THEN result[t] ELSE @]
      /\ UNCHANGED <<locked, shared, result, manifest, rev, excuse>>
  BY DEF Archive
<1>3. /\ t \in CocotbTargets /\ archive'[t] = IF result[t].ok THEN result[t] ELSE archive[t]
      /\ \A u \in CocotbTargets : u # t => archive'[u] = archive[u]
  BY <1>1, <1>2 DEF Move, Typed, CocotbTypeOK
<1>4. "term" \notin excuse => \A k \in Jobs : k # j => job'[k] = job[k] /\ job[k].pc \notin InSection
  BY <1>1, Alone DEF Move, Others, InSection, Guarded
<1>5. job'[j].t = t /\ job[j].pc = "archive" /\ job'[j].pc = to
  BY <1>1 DEF Move
<1>6. result[t].ok => result[t] # NoXml
  BY DEF NoXml
<1> HIDE DEF t, to
<1>7. Sections'
  <2> SUFFICES ASSUME "term" \notin excuse' PROVE OneInSection' /\ FilesInPlace'
    BY DEF Sections
  <2>1. OneInSection /\ FilesInPlace
    BY <1>2 DEF Guarded, Sections
  <2>2. \A k \in Jobs : job'[k].pc \in InSection => job[k].pc \in InSection
    BY <1>1 DEF Move, Others, InSection
  <2>3. OneInSection'
    BY <1>2, <2>1, <2>2, SectionKept
  <2>4. \A k \in Jobs : job'[k].pc # "save"
    BY <1>2, <1>4, <1>5 DEF InSection, to
  <2>5. FilesInPlace'
    BY <1>2, <1>3, <2>1, <2>4 DEF FilesInPlace, On, OfItsTarget
  <2> QED  BY <2>3, <2>5
<1>8. Freshness'
  <2> SUFFICES ASSUME excuse' \cap {"term", "clean"} = {} PROVE FilesAreFresh'
    BY DEF Freshness
  <2>1. FilesAreFresh
    BY <1>2 DEF Guarded, Freshness
  <2>2. \A k \in Jobs : job'[k].pc # "save"
    BY <1>2, <1>4, <1>5 DEF InSection, to
  <2> QED  BY <1>2, <1>3, <2>1, <2>2 DEF FilesAreFresh, On, OfThisRound
<1>9. InStep'
  <2> SUFFICES ASSUME excuse' = {} PROVE ManifestInStep'
    BY DEF InStep
  <2>1. ManifestInStep
    BY <1>2 DEF Guarded, InStep
  <2>2. \A k \in Jobs : k # j => job[k].pc \notin InSection /\ job'[k].pc \notin InSection
    BY <1>2, <1>4
  <2>3. \A u \in CocotbTargets : Describes(manifest[u], archive[u])
    BY <1>5, <2>1, <2>2 DEF ManifestInStep, On, InSection
  <2>4. result[t].rev = rev
    BY <1>5, <2>1 DEF ManifestInStep, On, t
  <2>5. to = "load" => archive'[t] # NoXml /\ archive'[t].rev = rev
    BY <1>3, <1>6, <2>4 DEF to
  <2>6. ASSUME NEW k \in Jobs
        PROVE  /\ On(k, {"save"})' => shared'.rev = rev'
               /\ On(k, {"archive"})' => result'[job'[k].t].rev = rev'
               /\ On(k, {"load"})' => archive'[job'[k].t] # NoXml /\ archive'[job'[k].t].rev = rev'
               /\ On(k, {"write"})' => \A u \in CocotbTargets : Describes(job'[k].draft[u], archive'[u])
    BY <1>2, <1>5, <2>2, <2>5 DEF On, InSection, to
  <2>7. ASSUME NEW u \in CocotbTargets
        PROVE  Describes(manifest'[u], archive'[u])
                 \/ \E k \in Jobs : On(k, {"load", "write"})' /\ job'[k].t = u
    <3>1. CASE archive'[u] = archive[u]
      BY <1>2, <2>3, <3>1
    <3>2. CASE archive'[u] # archive[u]
      BY <1>3, <1>5, <3>2 DEF On, to
    <3> QED  BY <3>1, <3>2
  <2> QED  BY <2>6, <2>7 DEF ManifestInStep, On, Describes
<1> QED  BY <1>7, <1>8, <1>9 DEF Guarded

\* The manifest is rebuilt from the archives as they are at this moment.
LEMMA LoadKeeps ==
    ASSUME Typed, Guarded, NEW j \in Jobs, Load(j)
    PROVE  Guarded'
<1> DEFINE t == job[j].t
           to == IF archive[t] = NoXml THEN "unlock" ELSE "write"
           d == [Rebuilt EXCEPT ![t] = [sha |-> archive[t].id, rev |-> rev]]
<1>1. /\ job' = [job EXCEPT ![j].pc = to, ![j].draft = d] /\ job[j].pc = "load"
      /\ UNCHANGED <<locked, shared, result, archive, manifest, rev, excuse>>
  BY DEF Load
<1>2. job \in [Jobs -> JobStates] /\ t \in CocotbTargets
  BY DEF Typed, CocotbTypeOK, JobStates, JobPcs
<1>e. /\ manifest \in CocotbEntries /\ archive \in [CocotbTargets -> Xmls]
      /\ \A u \in CocotbTargets : Genuine(archive[u])
  BY DEF Typed, CocotbTypeOK, FilesAreOfJobs
<1>3. d[t] = [sha |-> archive[t].id, rev |-> rev] /\ \A u \in CocotbTargets : u # t => d[u] = Rebuilt[u]
  BY <1>2 DEF Rebuilt
<1> HIDE DEF d, to
<1>4. job'[j].pc = to /\ job'[j].t = t /\ job'[j].draft = d /\ Others(j)
  BY <1>1, <1>2 DEF JobStates, Others
<1>t. to \in {"unlock", "write"} /\ (to = "write" => archive[t] # NoXml)
  BY DEF to
<1> HIDE DEF t
<1>5. "term" \notin excuse => \A k \in Jobs : k # j => job'[k] = job[k] /\ job[k].pc \notin InSection
  BY <1>1, <1>4, Alone DEF Others, InSection, Guarded
<1>6. \A k \in Jobs : job'[k].pc \in InSection => job[k].pc \in InSection
  BY <1>1, <1>4 DEF Others, InSection
<1>7. \A k \in Jobs : On(k, {"save"})' => On(k, {"save"}) /\ job'[k] = job[k]
  BY <1>4, <1>t DEF Others, On
<1>8. Sections'
  <2> SUFFICES ASSUME "term" \notin excuse' PROVE OneInSection' /\ FilesInPlace'
    BY DEF Sections
  <2>1. OneInSection /\ FilesInPlace
    BY <1>1 DEF Guarded, Sections
  <2>2. OneInSection'
    BY <1>1, <1>6, <2>1, SectionKept
  <2>3. FilesInPlace'
    BY <1>1, <1>7, <2>1 DEF FilesInPlace
  <2> QED  BY <2>2, <2>3
<1>9. Freshness'
  BY <1>1, <1>7 DEF Freshness, FilesAreFresh, Guarded
<1>10. InStep'
  <2> SUFFICES ASSUME excuse' = {} PROVE ManifestInStep'
    BY DEF InStep
  <2>1. ManifestInStep
    BY <1>1 DEF Guarded, InStep
  <2>2. \A k \in Jobs : k # j => job[k].pc \notin InSection /\ job'[k].pc \notin InSection
    BY <1>1, <1>5
  <2>3. archive[t] # NoXml /\ archive[t].rev = rev
    BY <1>1, <2>1 DEF ManifestInStep, On, t
  <2>4. to = "write"
    BY <2>3 DEF to
  <2>5. ASSUME NEW u \in CocotbTargets PROVE Describes(d[u], archive[u])
    <3>1. CASE u = t
      BY <1>3, <2>3, <3>1 DEF Describes
    <3>2. CASE u # t
      <4>1. Describes(manifest[u], archive[u])
        BY <1>1, <2>1, <2>2, <3>2 DEF ManifestInStep, On, InSection, t
      <4>2. d[u] = IF archive[u] # NoXml /\ manifest[u] # NoEntry
                   THEN [manifest[u] EXCEPT !.sha = archive[u].id] ELSE NoEntry
        BY <1>3, <3>2 DEF Rebuilt
      <4>3. CASE archive[u] = NoXml
        BY <4>2, <4>3 DEF Describes
      <4>4. CASE archive[u] # NoXml
        <5>1. manifest[u] = [sha |-> archive[u].id, rev |-> archive[u].rev] /\ archive[u].id > 0
          BY <1>e, <4>1, <4>4 DEF Describes, Genuine
        <5>2. manifest[u].sha # 0
          BY <5>1
        <5>3. manifest[u] # NoEntry
          BY <5>2 DEF NoEntry
        <5>4. d[u] = [manifest[u] EXCEPT !.sha = archive[u].id]
          BY <4>2, <4>4, <5>3
        <5>5. d[u] = [sha |-> archive[u].id, rev |-> archive[u].rev]
          BY <5>1, <5>4
        <5> QED  BY <4>4, <5>5 DEF Describes
      <4> QED  BY <4>3, <4>4
    <3> QED  BY <3>1, <3>2
  <2>6. ASSUME NEW k \in Jobs
        PROVE  /\ On(k, {"save"})' => shared'.rev = rev'
               /\ On(k, {"archive"})' => result'[job'[k].t].rev = rev'
               /\ On(k, {"load"})' => archive'[job'[k].t] # NoXml /\ archive'[job'[k].t].rev = rev'
               /\ On(k, {"write"})' => \A u \in CocotbTargets : Describes(job'[k].draft[u], archive'[u])
    <3>1. CASE k = j
      BY <1>1, <1>4, <2>4, <2>5, <3>1 DEF On
    <3>2. CASE k # j
      BY <2>2, <3>2 DEF On, InSection
    <3> QED  BY <3>1, <3>2
  <2>7. ASSUME NEW u \in CocotbTargets
        PROVE  Describes(manifest'[u], archive'[u])
                 \/ \E k \in Jobs : On(k, {"load", "write"})' /\ job'[k].t = u
    <3>1. CASE u = t
      BY <1>4, <2>4, <3>1 DEF On
    <3>2. CASE u # t
      <4>1. Describes(manifest[u], archive[u])
        BY <1>1, <2>1, <2>2, <3>2 DEF ManifestInStep, On, InSection, t
      <4> QED  BY <1>1, <4>1
    <3> QED  BY <3>1, <3>2
  <2> QED  BY <2>6, <2>7 DEF ManifestInStep, On, Describes
<1> QED  BY <1>8, <1>9, <1>10 DEF Guarded

\* The manifest is written as drafted: nobody has archived in between.
LEMMA WriteManifestKeeps ==
    ASSUME Typed, Guarded, NEW j \in Jobs, WriteCocotbManifest(j)
    PROVE  Guarded'
<1>1. Move(j, "write", "unlock")
  BY Gone DEF JobPcs, InSection, WriteCocotbManifest
<1>2. manifest' = job[j].draft /\ UNCHANGED <<locked, shared, result, archive, rev, excuse>>
  BY DEF WriteCocotbManifest
<1>3. "term" \notin excuse => \A k \in Jobs : k # j => job'[k] = job[k] /\ job[k].pc \notin InSection
  BY <1>1, Alone DEF Move, Others, InSection, Guarded
<1>4. \A k \in Jobs : On(k, {"save"})' => On(k, {"save"}) /\ job'[k] = job[k]
  BY <1>1 DEF Move, Others, On
<1>5. Sections'
  <2> SUFFICES ASSUME "term" \notin excuse' PROVE OneInSection' /\ FilesInPlace'
    BY DEF Sections
  <2>1. OneInSection /\ FilesInPlace
    BY <1>2 DEF Guarded, Sections
  <2>2. \A k \in Jobs : job'[k].pc \in InSection => job[k].pc \in InSection
    BY <1>1 DEF Move, Others, InSection
  <2>3. OneInSection'
    BY <1>2, <2>1, <2>2, SectionKept
  <2>4. FilesInPlace'
    BY <1>2, <1>4, <2>1 DEF FilesInPlace
  <2> QED  BY <2>3, <2>4
<1>6. Freshness'
  BY <1>2, <1>4 DEF Freshness, FilesAreFresh, Guarded
<1>7. InStep'
  <2> SUFFICES ASSUME excuse' = {} PROVE ManifestInStep'
    BY DEF InStep
  <2>1. ManifestInStep
    BY <1>2 DEF Guarded, InStep
  <2>2. \A k \in Jobs : job'[k].pc \notin {"save", "archive", "load", "write"}
    BY <1>1, <1>2, <1>3 DEF Move, InSection
  <2>3. \A u \in CocotbTargets : Describes(manifest'[u], archive'[u])
    BY <1>1, <1>2, <2>1 DEF ManifestInStep, On, Move
  <2> QED  BY <2>2, <2>3 DEF ManifestInStep, On, Describes
<1> QED  BY <1>5, <1>6, <1>7 DEF Guarded

\* The locks are removed once the manifest agrees with the archives again.
LEMMA RemoveLocksKeeps ==
    ASSUME Typed, Guarded, NEW j \in Jobs, RemoveLocks(j)
    PROVE  Guarded'
<1>1. /\ job[j].pc = "unlock" /\ job' = [job EXCEPT ![j] = IdleJob]
      /\ UNCHANGED <<shared, result, archive, manifest, rev, excuse>>
  BY DEF RemoveLocks
<1>2. job \in [Jobs -> JobStates]
  BY DEF Typed, CocotbTypeOK, JobStates, JobPcs
<1>3. job'[j].pc = "idle" /\ Others(j)
  BY <1>1, <1>2, IdleJobIsAJob DEF Others
<1>4. "term" \notin excuse => \A k \in Jobs : job'[k].pc \notin InSection
  BY <1>1, <1>3, Alone DEF Others, InSection, Guarded
<1>5. \A k \in Jobs : On(k, {"save"})' => On(k, {"save"}) /\ job'[k] = job[k]
  BY <1>3 DEF Others, On
<1>6. Sections'
  BY <1>1, <1>4, <1>5 DEF Sections, OneInSection, FilesInPlace, On, Guarded
<1>7. Freshness'
  BY <1>1, <1>5 DEF Freshness, FilesAreFresh, Guarded
<1>8. InStep'
  <2> SUFFICES ASSUME excuse' = {} PROVE ManifestInStep'
    BY DEF InStep
  <2>1. ManifestInStep
    BY <1>1 DEF Guarded, InStep
  <2>2. \A k \in Jobs : job[k].pc \notin {"save", "archive", "load", "write"}
    BY <1>1, Alone DEF InSection, Guarded
  <2> QED  BY <1>1, <1>4, <2>1, <2>2 DEF ManifestInStep, On, InSection, Describes
<1> QED  BY <1>6, <1>7, <1>8 DEF Guarded

\* A kill is excused from then on, and an edit makes only the files stale.
LEMMA AccidentsKeep ==
    ASSUME Typed, Guarded, EditSources \/ \E j \in Jobs : Terminated(j)
    PROVE  Guarded'
<1>1. ASSUME NEW j \in Jobs, Terminated(j) PROVE Guarded'
  <2>1. "term" \in excuse'
    BY <1>1 DEF Terminated
  <2> QED  BY <2>1 DEF Guarded, Sections, Freshness, InStep
<1>2. CASE EditSources
  <2>1. /\ UNCHANGED <<job, locked, shared, result, archive, manifest>> /\ excuse = {}
        /\ (\E j \in Jobs : job[j].pc \in InSection) => excuse' # {}
    BY <1>2 DEF EditSources
  <2>2. Sections' /\ Freshness'
    BY <2>1 DEF Guarded, Sections, Freshness, OneInSection, FilesInPlace, FilesAreFresh, On
  <2>3. InStep'
    <3> SUFFICES ASSUME excuse' = {} PROVE ManifestInStep'
      BY DEF InStep
    <3>1. \A k \in Jobs : job[k].pc \notin InSection
      BY <2>1
    <3> QED  BY <2>1, <3>1 DEF Guarded, InStep, ManifestInStep, On, InSection, Describes
  <2> QED  BY <2>2, <2>3 DEF Guarded
<1> QED  BY <1>1, <1>2

\* ---- the numbers of the files
LEMMA JobsNumberedKept ==
    ASSUME Typed, JobsNumbered, CocotbNext
    PROVE  JobsNumbered'
<1>1. job \in [Jobs -> JobStates] /\ simulations \in Nat
  BY DEF Typed, CocotbTypeOK, JobStates, JobPcs
<1>2. ASSUME UNCHANGED simulations,
             \A k \in Jobs : job'[k].pc # "idle" => job[k].pc # "idle" /\ job'[k].n = job[k].n
      PROVE  JobsNumbered'
  BY <1>2 DEF JobsNumbered
<1>3. ASSUME NEW j \in Jobs, NEW from, NEW to \in JobPcs, from # "idle", JobStep(j, from, to),
             UNCHANGED simulations
      PROVE  JobsNumbered'
  <2>1. /\ job[j].pc = from /\ job'[j].n = job[j].n /\ \A k \in Jobs \ {j} : job'[k] = job[k]
    BY <1>3, JobSteps DEF Typed
  <2> QED  BY <1>2, <1>3, <2>1
<1>i. {"lock", "lockresults", "simulate", "save", "archive", "load", "write", "unlock"} \subseteq JobPcs
  BY DEF JobPcs, InSection
<1>4. ASSUME NEW j \in Jobs, Clean(j) \/ LockTarget(j) \/ LockResults(j) PROVE JobsNumbered'
  BY <1>3, <1>4, <1>i DEF Clean, LockTarget, LockResults
<1>5. ASSUME NEW j \in Jobs, Simulate(j) \/ Save(j) \/ Archive(j) PROVE JobsNumbered'
  BY <1>3, <1>5, <1>i DEF Simulate, Save, Archive
<1>6. ASSUME NEW j \in Jobs, WriteCocotbManifest(j) PROVE JobsNumbered'
  BY <1>3, <1>6, <1>i DEF WriteCocotbManifest
<1>7. ASSUME NEW j \in Jobs, Load(j) PROVE JobsNumbered'
  <2>1. PICK p, d : job' = [job EXCEPT ![j].pc = p, ![j].draft = d]
    BY <1>7 DEF Load
  <2>2. job[j].pc = "load" /\ UNCHANGED simulations
    BY <1>7 DEF Load
  <2>3. \A k \in Jobs : job'[k].pc # "idle" => job[k].pc # "idle" /\ job'[k].n = job[k].n
    BY <1>1, <2>1, <2>2 DEF JobStates
  <2> QED  BY <1>2, <2>2, <2>3
<1>8. ASSUME NEW j \in Jobs, RemoveLocks(j) \/ Killed(j) PROVE JobsNumbered'
  <2>1. job' = [job EXCEPT ![j] = IdleJob] /\ UNCHANGED simulations
    BY <1>8 DEF RemoveLocks, Killed
  <2>2. \A k \in Jobs : job'[k].pc # "idle" => job[k].pc # "idle" /\ job'[k].n = job[k].n
    BY <1>1, <2>1, IdleJobIsAJob
  <2> QED  BY <1>2, <2>1, <2>2
<1>9. (\E j \in Jobs : Terminated(j)) \/ EditSources => JobsNumbered'
  BY <1>2 DEF Terminated, EditSources
<1>10. ASSUME NEW j \in Jobs, NEW t \in CocotbTargets, StartJob(j, t) PROVE JobsNumbered'
  <2> DEFINE s == [IdleJob EXCEPT !.pc = IF t = Top THEN "clean" ELSE "lock",
                                  !.t = t, !.n = simulations + 1]
  <2>1. job' = [job EXCEPT ![j] = s] /\ simulations' = simulations + 1
    BY <1>10 DEF StartJob
  <2>2. s.n = simulations + 1
    BY IdleJobIsAJob DEF JobStates
  <2> HIDE DEF s
  <2>3. job'[j].n = simulations + 1 /\ \A k \in Jobs : k # j => job'[k] = job[k]
    BY <1>1, <2>1, <2>2
  <2>4. \A k \in Jobs : k # j /\ job'[k].pc # "idle" => job'[k].n \in 1 .. simulations
    BY <2>3 DEF JobsNumbered
  <2>5. \A k \in Jobs : job'[k].pc # "idle" => job'[k].n \in 1 .. simulations'
    BY <1>1, <2>1, <2>3, <2>4
  <2>6. ASSUME NEW k \in Jobs, NEW l \in Jobs, k # l, job'[k].pc # "idle", job'[l].pc # "idle"
        PROVE  job'[k].n # job'[l].n
    BY <1>1, <2>3, <2>4, <2>6 DEF JobsNumbered
  <2> QED  BY <2>5, <2>6 DEF JobsNumbered
<1> QED
  <2>1. ASSUME NEW j \in Jobs, Work(j) PROVE JobsNumbered'
    BY <1>4, <1>5, <1>6, <1>7, <1>8, <2>1 DEF Work
  <2> QED  BY <1>8, <1>9, <1>10, <2>1 DEF CocotbNext

Unharmed == excuse = {} => FileNumbers
\* While nothing has happened, the number of a file tells which job wrote it.
LEMMA FileNumbersKept ==
    ASSUME Typed, Guarded, JobsNumbered, Unharmed, CocotbNext
    PROVE  Unharmed'
<1> SUFFICES ASSUME excuse' = {} PROVE FileNumbers'
  BY DEF Unharmed
<1>0. job \in [Jobs -> JobStates] /\ simulations \in Nat /\ archive \in [CocotbTargets -> Xmls]
      /\ result \in [CocotbTargets -> Xmls]
  BY DEF Typed, CocotbTypeOK, JobStates, JobPcs
<1>i. {"lock", "lockresults", "simulate", "save", "archive", "load", "write", "unlock"} \subseteq JobPcs
  BY DEF JobPcs, InSection
<1> DEFINE AllAt(pcs) == \A k \in Jobs : On(k, pcs)' => On(k, pcs) /\ job'[k] = job[k]
           Ahead == {"clean", "lock", "lockresults", "simulate", "save", "archive"}
\* Whoever saves, archives or enters was there before, and files are as they were.
<1>1. ASSUME excuse = {}, UNCHANGED archive, simulations' >= simulations, simulations' \in Nat,
             \A k \in Jobs : On(k, {"save"})' => shared'.id = job'[k].n,
             \A k \in Jobs : On(k, {"archive"})' => result'[job'[k].t].id = job'[k].n,
             \A k \in Jobs : On(k, {"load", "write"})' => manifest'[job'[k].t].sha # archive[job'[k].t].id,
             \A k \in Jobs : On(k, Ahead)' => \/ On(k, Ahead) /\ job'[k].n = job[k].n
                                             \/ job'[k].n = simulations + 1
      PROVE  FileNumbers'
  <2>1. FileNumbers
    BY <1>1 DEF Unharmed
  <2>2. \A u \in CocotbTargets : archive[u].id \in Nat /\ archive[u].id <= simulations
    BY <1>0, <2>1 DEF FileNumbers, Xmls
  <2>3. \A u \in CocotbTargets : archive[u].id <= simulations'
    BY <1>0, <1>1, <2>2
  <2>4. \A k \in Jobs : On(k, Ahead)' => \A u \in CocotbTargets : archive[u].id # job'[k].n
    BY <1>0, <1>1, <2>1, <2>2 DEF FileNumbers
  <2> QED  BY <1>1, <2>3, <2>4 DEF FileNumbers, On
<1>2. ASSUME NEW j \in Jobs, job[j].pc \in InSection, excuse = {}
      PROVE  \A k \in Jobs : k # j => job[k].pc \notin InSection
  BY <1>2, Alone DEF Guarded
<1>3. ASSUME NEW j \in Jobs, Clean(j) PROVE FileNumbers'
  <2>1. /\ JobStep(j, "clean", "lock") /\ UNCHANGED simulations
        /\ archive' = [t \in CocotbTargets |-> NoXml] /\ excuse = {}
        /\ \A k \in Jobs : job[k].pc \notin InSection
    BY <1>3 DEF Clean
  <2>2. Move(j, "clean", "lock") /\ Typed'
    BY <1>3, <1>i, <2>1, Gone, CocotbTypesKept DEF Typed
  <2>3. \A k \in Jobs : job'[k].pc \notin {"save", "archive", "load", "write"}
    BY <2>1, <2>2 DEF Move, Others, InSection
  <2>4. \A u \in CocotbTargets : archive'[u].id = 0
    BY <2>1 DEF NoXml
  <2>5. \A k \in Jobs : job'[k].pc # "idle" => job'[k].n > 0
    BY <2>2 DEF Typed, FilesAreOfJobs
  <2> QED  BY <1>0, <2>1, <2>3, <2>4, <2>5 DEF FileNumbers, On
<1>4. ASSUME NEW j \in Jobs, LockTarget(j) PROVE FileNumbers'
  <2>1. /\ JobStep(j, "lock", "lockresults")
        /\ UNCHANGED <<shared, result, archive, manifest, simulations, excuse>>
    BY <1>4 DEF LockTarget
  <2>2. Move(j, "lock", "lockresults") /\ job'[j].n = job[j].n
    BY <1>i, <2>1, Gone, JobSteps DEF Typed
  <2>3. FileNumbers
    BY <2>1 DEF Unharmed
  <2> QED  BY <1>0, <1>1, <2>1, <2>2, <2>3 DEF FileNumbers, Move, Others, On
<1>5. ASSUME NEW j \in Jobs, LockResults(j) PROVE FileNumbers'
  <2>1. /\ JobStep(j, "lockresults", "simulate") /\ "results" \notin locked
        /\ UNCHANGED <<archive, manifest, simulations, excuse>>
    BY <1>5 DEF LockResults
  <2>2. Move(j, "lockresults", "simulate") /\ job'[j].n = job[j].n
    BY <1>i, <2>1, Gone, JobSteps DEF Typed
  <2>3. \A k \in Jobs : job[k].pc \notin InSection
    BY <2>1 DEF Guarded, Sections, OneInSection, On
  <2>4. \A k \in Jobs : job'[k].pc \notin {"save", "archive", "load", "write"}
    BY <2>2, <2>3 DEF Move, Others, InSection
  <2> QED  BY <1>0, <1>1, <2>1, <2>2, <2>4 DEF Move, Others, On
<1>6. ASSUME NEW j \in Jobs, Simulate(j) PROVE FileNumbers'
  <2>1. PICK to \in {"save", "unlock"} : JobStep(j, "simulate", to)
    BY <1>6 DEF Simulate
  <2>2. Move(j, "simulate", to) /\ job'[j].n = job[j].n
    BY <1>i, <2>1, Gone, JobSteps DEF Typed
  <2>3. UNCHANGED <<result, archive, manifest, simulations, excuse>>
    BY <1>6 DEF Simulate
  <2>4. \A k \in Jobs : k # j => job'[k].pc \notin InSection
    BY <1>2, <2>2, <2>3 DEF Move, Others, InSection
  <2>5. to = "save" => shared'.id = job[j].n
    <3>1. job'[j].pc = to /\ (JobStep(j, "simulate", "unlock") => job'[j].pc = "unlock")
      BY <1>i, <2>2, Gone DEF Move
    <3> QED  BY <1>6, <3>1 DEF Simulate
  <2>6. \A k \in Jobs : On(k, {"save"})' => shared'.id = job'[k].n
    BY <2>2, <2>4, <2>5 DEF On, Move, InSection
  <2>7. \A k \in Jobs : ~On(k, {"archive", "load", "write"})'
    BY <2>2, <2>4 DEF On, Move, InSection
  <2> QED  BY <1>0, <1>1, <2>2, <2>3, <2>4, <2>6, <2>7 DEF On, Move, Others
<1>7. ASSUME NEW j \in Jobs, Save(j) PROVE FileNumbers'
  <2>1. /\ JobStep(j, "save", IF shared = NoXml THEN "unlock" ELSE "archive")
        /\ result' = [result EXCEPT ![job[j].t] = IF shared = NoXml THEN @ ELSE shared]
        /\ UNCHANGED <<shared, archive, manifest, simulations, excuse>>
    BY <1>7 DEF Save
  <2>2. PICK to \in {"unlock", "archive"} : to = IF shared = NoXml THEN "unlock" ELSE "archive"
    OBVIOUS
  <2>3. Move(j, "save", to) /\ job'[j].n = job[j].n
    BY <1>i, <2>1, <2>2, Gone, JobSteps DEF Typed
  <2>4. \A k \in Jobs : k # j => job'[k].pc \notin InSection
    BY <1>2, <2>1, <2>3 DEF Move, Others, InSection
  <2>5. shared.id = job[j].n
    BY <2>1, <2>3 DEF Unharmed, FileNumbers, On, Move
  <2>6. to = "archive" => result'[job[j].t] = shared
    BY <1>0, <2>1, <2>2, <2>3 DEF Move
  <2>7. \A k \in Jobs : On(k, {"archive"})' => result'[job'[k].t].id = job'[k].n
    BY <2>3, <2>4, <2>5, <2>6 DEF On, Move, InSection
  <2>8. \A k \in Jobs : ~On(k, {"save", "load", "write"})'
    BY <2>3, <2>4 DEF On, Move, InSection
  <2> QED  BY <1>0, <1>1, <2>1, <2>3, <2>4, <2>7, <2>8 DEF On, Move, Others
<1>8. ASSUME NEW j \in Jobs, Archive(j) PROVE FileNumbers'
  <2> DEFINE t == job[j].t
             to == IF result[t].ok THEN "load" ELSE "unlock"
  <2>1. /\ JobStep(j, "archive", to)
        /\ archive' = [archive EXCEPT ![t] = IF result[t].ok THEN result[t] ELSE @]
        /\ UNCHANGED <<shared, result, manifest, simulations, excuse>>
    BY <1>8 DEF Archive
  <2>2. to \in {"load", "unlock"}
    OBVIOUS
  <2>3. Move(j, "archive", to) /\ job'[j].n = job[j].n /\ t \in CocotbTargets
    BY <1>0, <1>i, <2>1, <2>2, Gone, JobSteps DEF Typed, JobStates
  <2>4. \A k \in Jobs : k # j => job'[k] = job[k] /\ job[k].pc \notin InSection
    BY <1>2, <2>1, <2>3 DEF Move, Others, InSection
  <2>5. FileNumbers /\ ManifestInStep
    BY <2>1 DEF Unharmed, Guarded, InStep
  <2>6. result[t].id = job[j].n /\ \A u \in CocotbTargets : archive[u].id # job[j].n
    BY <2>3, <2>5 DEF FileNumbers, On, Move
  <2>7. \A u \in CocotbTargets : archive'[u] = IF u = t /\ result[t].ok THEN result[t] ELSE archive[u]
    BY <1>0, <2>1, <2>3
  <2>8. job[j].n \in 1 .. simulations
        /\ \A k \in Jobs : k # j /\ job[k].pc # "idle" => job[k].n # job[j].n
    BY <2>3 DEF JobsNumbered, Move
  <2>9. manifest[t].sha # job[j].n
    <3>1. Describes(manifest[t], archive[t])
      BY <2>3, <2>4, <2>5 DEF ManifestInStep, On, Move, InSection
    <3>2. manifest[t].sha \in {0, archive[t].id}
      BY <3>1 DEF Describes, NoEntry
    <3> QED  BY <2>3, <2>6, <2>8, <3>2
  <2>10. \A u \in CocotbTargets : archive'[u].id \in {archive[u].id, job[j].n}
    BY <2>6, <2>7
  <2>f. job'[j].t = t /\ job'[j].pc = to /\ job[j].pc = "archive"
    BY <2>3 DEF Move
  <2>g. to = "load" => archive'[t].id = job[j].n
    BY <2>3, <2>6, <2>7
  <2> HIDE DEF t, to
  <2>11. ASSUME NEW k \in Jobs, On(k, Ahead)', NEW u \in CocotbTargets
         PROVE  archive'[u].id # job'[k].n
    <3>1. k # j
      BY <2>2, <2>f, <2>11 DEF On
    <3>2. job'[k] = job[k] /\ On(k, Ahead)
      BY <2>4, <2>11, <3>1 DEF On
    <3>3. archive[u].id # job[k].n
      BY <2>5, <3>2 DEF FileNumbers
    <3>4. job[k].n # job[j].n
      BY <2>8, <3>1, <3>2 DEF On
    <3> QED  BY <2>10, <3>2, <3>3, <3>4
  <2>12. \A u \in CocotbTargets : archive'[u].id <= simulations'
    BY <1>0, <2>1, <2>5, <2>8, <2>10 DEF FileNumbers
  <2>13. ASSUME NEW k \in Jobs
         PROVE  /\ On(k, {"save"})' => shared'.id = job'[k].n
                /\ On(k, {"archive"})' => result'[job'[k].t].id = job'[k].n
                /\ On(k, {"load", "write"})' => manifest'[job'[k].t].sha # archive'[job'[k].t].id
    <3>1. CASE k = j
      BY <2>1, <2>2, <2>9, <2>f, <2>g, <3>1 DEF On
    <3>2. CASE k # j
      BY <2>4, <3>2 DEF On, InSection
    <3> QED  BY <3>1, <3>2
  <2> QED  BY <2>11, <2>12, <2>13 DEF FileNumbers, On
<1>9. ASSUME NEW j \in Jobs, Load(j) PROVE FileNumbers'
  <2>1. PICK d : job' = [job EXCEPT ![j].pc = IF archive[job[j].t] = NoXml THEN "unlock" ELSE "write",
                                    ![j].draft = d]
    BY <1>9 DEF Load
  <2>2. job[j].pc = "load" /\ UNCHANGED <<shared, result, archive, manifest, simulations, excuse>>
    BY <1>9 DEF Load
  <2>3. /\ job'[j].pc \in {"unlock", "write"} /\ job'[j].n = job[j].n /\ job'[j].t = job[j].t
        /\ \A k \in Jobs : k # j => job'[k] = job[k]
    BY <1>0, <2>1 DEF JobStates
  <2>4. FileNumbers
    BY <2>2 DEF Unharmed
  <2>5. \A k \in Jobs : On(k, {"load", "write"})' => manifest'[job'[k].t].sha # archive[job'[k].t].id
    BY <2>2, <2>3, <2>4 DEF FileNumbers, On
  <2> QED  BY <1>0, <1>1, <2>2, <2>3, <2>4, <2>5 DEF FileNumbers, On
<1>10. ASSUME NEW j \in Jobs, WriteCocotbManifest(j) PROVE FileNumbers'
  <2>1. JobStep(j, "write", "unlock") /\ UNCHANGED <<shared, result, archive, simulations, excuse>>
    BY <1>10 DEF WriteCocotbManifest
  <2>2. Move(j, "write", "unlock") /\ job'[j].n = job[j].n
    BY <1>i, <2>1, Gone, JobSteps DEF Typed
  <2>3. \A k \in Jobs : job'[k].pc \notin {"save", "archive", "load", "write"}
    BY <1>2, <2>1, <2>2 DEF Move, Others, InSection
  <2> QED  BY <1>0, <1>1, <2>1, <2>2, <2>3 DEF Move, Others, On
<1>11. ASSUME NEW j \in Jobs, RemoveLocks(j) PROVE FileNumbers'
  <2>1. /\ job[j].pc = "unlock" /\ job' = [job EXCEPT ![j] = IdleJob]
        /\ UNCHANGED <<shared, result, archive, manifest, simulations, excuse>>
    BY <1>11 DEF RemoveLocks
  <2>2. job'[j].pc = "idle" /\ \A k \in Jobs : k # j => job'[k] = job[k]
    BY <1>0, <2>1, IdleJobIsAJob
  <2>3. \A k \in Jobs : job'[k].pc \notin {"save", "archive", "load", "write"}
    BY <1>2, <2>1, <2>2 DEF InSection
  <2> QED  BY <1>0, <1>1, <2>1, <2>2, <2>3 DEF On
<1>12. ASSUME NEW j \in Jobs, NEW t \in CocotbTargets, StartJob(j, t) PROVE FileNumbers'
  <2> DEFINE s == [IdleJob EXCEPT !.pc = IF t = Top THEN "clean" ELSE "lock",
                                  !.t = t, !.n = simulations + 1]
  <2>1. /\ job' = [job EXCEPT ![j] = s] /\ simulations' = simulations + 1
        /\ UNCHANGED <<shared, result, archive, manifest, excuse>>
    BY <1>12 DEF StartJob
  <2>2. s.n = simulations + 1 /\ s.pc \in {"clean", "lock"}
    BY IdleJobIsAJob DEF JobStates
  <2> HIDE DEF s
  <2>3. /\ job'[j].n = simulations + 1 /\ job'[j].pc \in {"clean", "lock"}
        /\ \A k \in Jobs : k # j => job'[k] = job[k]
    BY <1>0, <2>1, <2>2
  <2>4. FileNumbers /\ simulations' >= simulations /\ simulations' \in Nat
    BY <1>0, <2>1 DEF Unharmed
  <2> QED  BY <1>1, <2>1, <2>3, <2>4 DEF FileNumbers, On
<1>13. EditSources => FileNumbers'
  BY DEF EditSources, Unharmed, FileNumbers, On
<1>14. ASSUME NEW j \in Jobs PROVE ~Terminated(j) /\ ~Killed(j)
  BY DEF Terminated, Killed
<1> QED
  <2>1. ASSUME NEW j \in Jobs, Work(j) PROVE FileNumbers'
    BY <1>3, <1>4, <1>5, <1>6, <1>7, <1>8, <1>9, <1>10, <1>11, <2>1 DEF Work
  <2> QED  BY <1>12, <1>13, <1>14, <2>1 DEF CocotbNext

\* Every step of the jobs keeps the whole invariant.
LEMMA CocotbInvKept ==
    ASSUME CocotbInv, CocotbNext
    PROVE  CocotbInv'
<1>1. Typed /\ Guarded /\ JobsNumbered /\ Unharmed
  BY DEF CocotbInv, Typed, Guarded, Sections, Freshness, InStep, Unharmed
<1>2. Typed' /\ JobsNumbered' /\ Unharmed'
  BY <1>1, CocotbTypesKept, JobsNumberedKept, FileNumbersKept DEF Typed
<1>3. ASSUME NEW j \in Jobs, Work(j) \/ Terminated(j) \/ Killed(j) \/ \E t \in CocotbTargets : StartJob(j, t)
      PROVE  Guarded'
  <2>1. CASE Work(j)
    BY <1>1, <2>1, CleanKeeps, BeforeTheSection, LockResultsKeeps, SimulateKeeps, SaveKeeps,
       ArchiveKeeps, LoadKeeps, WriteManifestKeeps, RemoveLocksKeeps DEF Work
  <2>2. CASE ~Work(j)
    BY <1>1, <1>3, <2>2, BeforeTheSection, AccidentsKeep
  <2> QED  BY <2>1, <2>2
<1>4. Guarded'
  BY <1>1, <1>3, AccidentsKeep DEF CocotbNext
<1> QED  BY <1>2, <1>4 DEF CocotbInv, Typed, Guarded, Sections, Freshness, InStep, Unharmed

\* The invariant holds of an empty results directory.
LEMMA CocotbInvStarts ==
    ASSUME CocotbInit  PROVE CocotbInv
<1>1. CocotbTypeOK /\ FilesAreOfJobs
  BY XmlUpdates, IdleJobIsAJob DEF CocotbInit, CocotbTypeOK, FilesAreOfJobs, JobStates, JobPcs
<1>2. \A j \in Jobs : job[j].pc = "idle"
  BY IdleJobIsAJob DEF CocotbInit
<1>3. \A t \in CocotbTargets : archive[t] = NoXml /\ result[t] = NoXml /\ manifest[t] = NoEntry
  BY DEF CocotbInit, NoEntries
<1>4. NoXml.id = 0 /\ simulations = 0
  BY DEF NoXml, CocotbInit
<1> QED  BY <1>1, <1>2, <1>3, <1>4 DEF CocotbInv, OneInSection, FilesInPlace, FilesAreFresh,
            ManifestInStep, On, InSection, OfItsTarget, OfThisRound, Describes, JobsNumbered, FileNumbers

\* What the pipeline accepts has a file and an entry for every target.
LEMMA AcceptedIsTrue ==
    ASSUME CocotbInv  PROVE AcceptedEvidence
<1> SUFFICES ASSUME PipelineAccepts
             PROVE  /\ CocotbStatus = "PASS"
                    /\ "term" \notin excuse => \A t \in CocotbTargets : archive[t].of = t
                    /\ excuse = {} => \A t \in CocotbTargets : manifest[t].rev = archive[t].rev
                    /\ excuse \cap {"term", "clean"} = {} => \A t \in CocotbTargets : archive[t].fresh
  BY DEF AcceptedEvidence
<1>1. \A t \in CocotbTargets : archive[t] # NoXml /\ manifest[t].sha = archive[t].id /\ archive[t].ok
  BY DEF PipelineAccepts
<1>2. CocotbStatus = "PASS"
  <2>1. \A t \in CocotbTargets : archive[t].id > 0
    BY <1>1 DEF CocotbInv, FilesAreOfJobs, Genuine
  <2>2. \A t \in CocotbTargets : manifest[t] # NoEntry
    BY <1>1, <2>1 DEF NoEntry
  <2>3. /\ ~(\E t \in CocotbTargets : manifest[t] = NoEntry)
        /\ ~(\E t \in CocotbTargets :
               (IF archive[t] # NoXml THEN archive[t] ELSE result[t]) = NoXml)
        /\ ~(\E t \in CocotbTargets : ~(IF archive[t] # NoXml THEN archive[t] ELSE result[t]).ok)
    BY <1>1, <2>2
  <2> QED  BY <2>3 DEF CocotbStatus
<1>3. "term" \notin excuse => \A t \in CocotbTargets : archive[t].of = t
  BY <1>1 DEF CocotbInv, FilesInPlace, OfItsTarget
<1>4. excuse \cap {"term", "clean"} = {} => \A t \in CocotbTargets : archive[t].fresh
  BY <1>1 DEF CocotbInv, FilesAreFresh, OfThisRound
<1>5. ASSUME excuse = {}, NEW t \in CocotbTargets PROVE manifest[t].rev = archive[t].rev
  <2>1. ManifestInStep /\ FileNumbers
    BY <1>5 DEF CocotbInv
  <2>2. CASE Describes(manifest[t], archive[t])
    BY <1>1, <2>2 DEF Describes
  <2>3. ASSUME NEW j \in Jobs, On(j, {"load", "write"}), job[j].t = t PROVE FALSE
    BY <1>1, <2>1, <2>3 DEF FileNumbers
  <2> QED  BY <2>1, <2>2, <2>3 DEF ManifestInStep
<1> QED  BY <1>2, <1>3, <1>4, <1>5

-----------------------------------------------------------------------------
\* ------------------------------------------------------- the two captures
CaptureInv == (subject = "smoke" => SmokeInv) /\ (subject = "cocotb" => CocotbInv)
\* The invariant of the capture under study holds at the start.
LEMMA CaptureInvStarts ==
    ASSUME CaptureInit  PROVE CaptureInv
BY SmokeInvStarts, CocotbInvStarts DEF CaptureInit, CaptureInv

\* A step is a step of the capture under study, and keeps its invariant.
LEMMA CaptureInvKept ==
    ASSUME CaptureInv, [CaptureNext]_captureVars  PROVE CaptureInv'
<1>1. CASE InSmoke(SmokeNext)
  <2>1. subject = "smoke" /\ SmokeNext /\ subject' = subject
    BY <1>1 DEF InSmoke
  <2> QED  BY <2>1, SmokeInvKept DEF CaptureInv
<1>2. CASE InCocotb(CocotbNext)
  <2>1. subject = "cocotb" /\ CocotbNext /\ subject' = subject
    BY <1>2 DEF InCocotb
  <2> QED  BY <2>1, CocotbInvKept DEF CaptureInv
<1>3. CASE UNCHANGED captureVars
  <2>1. UNCHANGED subject /\ UNCHANGED smokeVars /\ UNCHANGED cocotbVars
    BY <1>3 DEF captureVars
  <2>2. SmokeInv => SmokeInv'
    <3>1. /\ tree' = tree /\ gsim' = gsim /\ asim' = asim /\ smokeLog' = smokeLog
          /\ wrap' = wrap /\ sims' = sims /\ env' = env /\ chk' = chk
          /\ smokeReport' = smokeReport /\ fix' = fix /\ repaired' = repaired
      BY <2>1 DEF smokeVars
    <3>2. /\ SmokeFiles => SmokeFiles'
          /\ SmokeProcesses => SmokeProcesses'
      BY <3>1 DEF SmokeFiles, SmokeProcesses
    <3>3. /\ HeadersLeft => HeadersLeft'
          /\ PrintedUnderHeader => PrintedUnderHeader'
      BY <3>1 DEF HeadersLeft, PrintedUnderHeader
    <3>4. LookedOnce => LookedOnce'
      BY <3>1 DEF LookedOnce, Metadata
    <3>5. /\ RepairedOnce => RepairedOnce'
          /\ RepairConverges => RepairConverges'
      BY <3>1 DEF RepairedOnce, RepairConverges, Rewrites, GeneratedPathBlockers, StaleRoots
    <3> QED  BY <3>1, <3>2, <3>3, <3>4, <3>5 DEF SmokeInv
  <2>3. CocotbInv => CocotbInv'
    <3>1. UNCHANGED <<job, locked, shared, result, archive, manifest, rev, simulations, excuse>>
      BY <2>1 DEF cocotbVars
    <3>2. /\ CocotbTypeOK => CocotbTypeOK'
          /\ FilesAreOfJobs => FilesAreOfJobs'
      BY <3>1 DEF CocotbTypeOK, FilesAreOfJobs
    <3>3. /\ JobsNumbered => JobsNumbered'
          /\ FileNumbers => FileNumbers'
      BY <3>1 DEF JobsNumbered, FileNumbers, On
    <3>4. /\ OneInSection => OneInSection'
          /\ FilesInPlace => FilesInPlace'
          /\ FilesAreFresh => FilesAreFresh'
      BY <3>1 DEF OneInSection, FilesInPlace, FilesAreFresh, On
    <3>5. ManifestInStep => ManifestInStep'
      BY <3>1 DEF ManifestInStep, On, Describes
    <3> QED  BY <3>1, <3>2, <3>3, <3>4, <3>5 DEF CocotbInv
  <2> QED  BY <2>1, <2>2, <2>3 DEF CaptureInv
<1> QED  BY <1>1, <1>2, <1>3 DEF CaptureNext

\* For every number of attempts, of jobs and of targets the invariants hold of all
\* that a capture of the smoke, or of the simulations, reaches.
THEOREM CaptureInvariant == CaptureSpec => []CaptureInv
<1>1. CaptureInit => CaptureInv
  BY CaptureInvStarts
<1>2. CaptureInv /\ [CaptureNext]_captureVars => CaptureInv'
  BY CaptureInvKept
<1> QED  BY <1>1, <1>2, PTL DEF CaptureSpec

\* Two repairs of the generated tree leave a tree the gate accepts
\* (check_chipyard_verilator_linux_smoke.py, --repair-stale-generated).
THEOREM SmokeRepairsConverge == CaptureSpec => []SmokeRepairConverges
<1>1. CaptureInv => SmokeRepairConverges
  BY DEF CaptureInv, SmokeInv, SmokeRepairConverges
<1> QED  BY <1>1, CaptureInvariant, PTL

\* Cocotb evidence that the pipeline accepts is what it says it is
\* (run_cocotb.sh, check_cocotb_results.py, pipeline_check.py).
THEOREM CocotbEvidenceIsTrue == CaptureSpec => []CocotbEvidenceAccepted
<1>1. CaptureInv => CocotbEvidenceAccepted
  BY AcceptedIsTrue DEF CaptureInv, CocotbEvidenceAccepted
<1> QED  BY <1>1, CaptureInvariant, PTL

\* A PASS of the smoke gate is earned, whatever is written between its two looks
\* at the log (check_chipyard_verilator_linux_smoke.py, main).
THEOREM SmokePassesAreEarned == CaptureSpec => SmokePassEarned
<1>1. CaptureInv /\ [CaptureNext]_captureVars =>
        [subject = "smoke" => EarnedIfPassed]_<<subject, smokeVars>>
  <2> SUFFICES ASSUME CaptureInv, [CaptureNext]_captureVars, subject = "smoke",
                      ~UNCHANGED <<subject, smokeVars>>
               PROVE  EarnedIfPassed
    OBVIOUS
  <2>1. SmokeNext
    BY DEF CaptureNext, InSmoke, InCocotb, captureVars
  <2> QED  BY <2>1, PassIsEarned DEF CaptureInv
<1> QED  BY <1>1, CaptureInvariant, PTL DEF CaptureSpec, SmokePassEarned
=============================================================================
