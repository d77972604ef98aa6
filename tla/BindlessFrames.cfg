CONSTANTS
    t1 = t1  t2 = t2  t3 = t3
    None = None  Never = Never
    FIF = 2
    MaxFrame = 5
    Capacity = 2
    Texture = {t1, t2}
    MaxGen = 4
    StagingCapacity = 2
SPECIFICATION Spec
INVARIANTS SampledAlive ShowsOwnTexture ShownIsUploaded
SYMMETRY TextureSymmetry
CHECK_DEADLOCK FALSE
