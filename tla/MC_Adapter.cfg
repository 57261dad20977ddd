CONSTANTS
    f1 = f1
    f2 = f2
    v1 = v1
    absent = absent
    t1 = t1
    Files <- MC_Files
    Versions <- MC_Versions
    Absent <- absent
    Texts <- MC_Texts
    MaxEvents = 2
    MaxAgentSteps = 2
    GitMayFail = TRUE
    AgentMayCommit = TRUE
    OutputReused = TRUE
    ChownMayFail = TRUE
    RepoStates = {"none", "clean", "dirty", "unborn"}

SPECIFICATION Spec
SYMMETRY MC_Symmetry

INVARIANTS
    TypeOK
    ManifestOnSessionExit
    OutcomeNotContradicted
    PatchFromBaseline
    HostOwnsOutput
    EvidenceOfThisRun

PROPERTY
    SessionRefined
