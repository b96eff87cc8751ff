CONSTANTS
    c1 = c1
    c2 = c2
    None = None
    Cmd = {c1, c2}
    Requests <- MCRequests
    Edits <- MCEdits
    UserConfigs <- MCUserConfigs
    Legacies <- MCLegacies
    Preset <- MCPreset
    Var <- MCVar
SYMMETRY Symmetry
SPECIFICATION Spec
INVARIANTS
    WrittenLoads
    LoadedIsRunnable
