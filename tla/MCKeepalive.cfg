SPECIFICATION Spec
CONSTANTS
    Off = Off
    Slots = {s1, s2}
    Configs <- MCConfigs
CHECK_DEADLOCK FALSE
INVARIANTS DroppedInTime StalledPeerCut ProbeSparesBound
SYMMETRY MCSymmetry
