SPECIFICATION CaptureSpec
CONSTANTS
    \* ChipyardSmoke
    MaxAttempts = 2
    Targets = {"run-binary", "run-binary-fast"}
    LockHeld = FALSE
    AllowContainer = FALSE
    Levels = {3, 5}
    Archived = {"exec"}
    Payloads = {"unset", "nofile"}
    Candidates <- MCCandidates
    \* CocotbEvidence
    Jobs = {1, 2}
    CocotbTargets = {"top", "npu"}
    Top = "top"
    MaxSims = 3
    MaxRevs = 2
INVARIANTS SmokeRepairConverges CocotbEvidenceAccepted
PROPERTIES SmokePassEarned CapturesEnd
CHECK_DEADLOCK FALSE
