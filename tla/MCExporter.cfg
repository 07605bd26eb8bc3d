\* Every mode, with failing sources and signals, slow cycles and, in some behaviours, interrupts.
SPECIFICATION FairSpec
CONSTANTS
    FastSources = {contention}
    VolumeSource = volumes
    Signals = {metrics, logs}
    Interval = 2
    VolumeInterval = 5
    Modes = {"loop", "once", "dry_run"}
    None = None
INVARIANTS TypeOK ExitTellsFailure
PROPERTIES CyclesDoNotOverlap VolumeCadence KeepsMeasuring
