\* A run of every runtime with its watcher, a relaunch, and a crash, a
\* cancellation, an import by hand or a failing import.
SPECIFICATION Spec
CONSTANTS
    Kinds <- MCAllKinds
    Races <- MCNoRaces
    Target = 2
    MaxContinuations = 1
    MaxArtifacts = 2
    MaxLaunches = 2
    MaxIncidents = 1
INVARIANTS
    WorkingIsReported
    ImportComplete
PROPERTIES
    ImportStands
    RunSettles
CHECK_DEADLOCK FALSE
