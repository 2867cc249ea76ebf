SPECIFICATION Spec
CONSTANTS
    Guests = {g1, g2}
    None = None
    Gpu = Gpu
    NumPages = 3
    WindowPages = 2
    ImagePages <- TwoPages
    GuestRanges <- Touched
    GpuRanges <- Bound
SYMMETRY Symmetry
INVARIANTS
    WatchersAgree
    GpuWritesSurvive
    StaleIsMarked
    NoWaitCycle
