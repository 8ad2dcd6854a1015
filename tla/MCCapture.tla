------------------------------ MODULE MCCapture ------------------------------
(***************************************************************************)
(* The two captures that run simulators, one at a time: a behaviour is of  *)
(* the smoke boot or of the cocotb jobs, and the other keeps nothing.      *)
(* Smoke: two headers, a run and its retry, or a run whose simulator       *)
(* lingers.  Cocotb: three jobs, two at a time.                            *)
(***************************************************************************)
EXTENDS ChipyardSmoke, CocotbEvidence

VARIABLE subject      \* the capture this behaviour is of

MCCandidates == {<<"missing", "bare">>, <<"notelf", "runnable">>}

Nothing == "none"
NoSmoke ==
    /\ tree = Nothing /\ gsim = Nothing /\ asim = Nothing /\ smokeLog = Nothing
    /\ trace = Nothing /\ wrap = Nothing /\ sims = Nothing /\ env = Nothing /\ chk = Nothing
    /\ smokeReport = Nothing /\ fix = Nothing /\ repaired = Nothing
NoCocotb ==
    /\ job = Nothing /\ locked = Nothing /\ shared = Nothing /\ result = Nothing
    /\ archive = Nothing /\ manifest = Nothing /\ rev = Nothing /\ simulations = Nothing
    /\ excuse = Nothing

CaptureInit ==
    /\ subject \in {"smoke", "cocotb"}
    /\ IF subject = "smoke" THEN SmokeInit ELSE NoSmoke
    /\ IF subject = "cocotb" THEN CocotbInit ELSE NoCocotb

captureVars == <<subject, smokeVars, cocotbVars>>
InSmoke(A) == subject = "smoke" /\ A /\ UNCHANGED <<subject, cocotbVars>>
InCocotb(A) == subject = "cocotb" /\ A /\ UNCHANGED <<subject, smokeVars>>
CaptureNext == InSmoke(SmokeNext) \/ InCocotb(CocotbNext)

\* What SmokeSpec and CocotbSpec say, of the capture that runs.
CaptureFairness ==
    /\ WF_smokeVars(InSmoke(Wrapper)) /\ SF_smokeVars(InSmoke(HandToGate))
    /\ WF_smokeVars(InSmoke(Gate))
    /\ \A j \in Jobs : WF_cocotbVars(InCocotb(Work(j)))
CaptureSpec == CaptureInit /\ [][CaptureNext]_captureVars /\ CaptureFairness
-----------------------------------------------------------------------------
\* A PASS of the smoke gate is earned: see ChipyardSmoke.
SmokePassEarned == [][subject = "smoke" => EarnedIfPassed]_<<subject, smokeVars>>
\* Two repairs leave a tree the gate accepts: see ChipyardSmoke.
SmokeRepairConverges == subject = "smoke" => RepairConverges
\* Accepted cocotb evidence is what it says it is: see CocotbEvidence.
CocotbEvidenceAccepted == subject = "cocotb" => AcceptedEvidence
\* The wrapper of the smoke always comes back, and the cocotb jobs come to rest
\* unless one was killed: see ChipyardSmoke and CocotbEvidence.
CapturesEnd == []<>(IF subject = "smoke" THEN WrapperIdle ELSE JobsRest)
=============================================================================
