CONSTANTS
    i1 = i1  i2 = i2  i3 = i3  i4 = i4
    None = None  Never = Never
    FIF = 3
    MaxFrame = 4
    Image = {i1, i2, i3, i4}
    Policies = {TRUE, FALSE}
    MaxSwapchains = 1
SPECIFICATION FairSpec
INVARIANTS BuildsOnQuietSlot CompleteHasFinished ImagesAccounted
PROPERTY ShutdownLeaves
CHECK_DEADLOCK FALSE
