\* Two frames in flight: a built-in pass and one that comes and goes, two sizes, three generations
\* of transients, one edit of the shader.
SPECIFICATION Spec
SYMMETRY Symmetry
CHECK_DEADLOCK FALSE
CONSTANTS
    Never = Never
    None = None
    FIF = 2
    MaxFrame = 4
    Pass = {p0, p1}
    BuiltIn = {p0}
    Extent = {small, large}
    MaxGen = 3
    MaxVersion = 1
INVARIANTS
    TransientsAlive
    PassesAlive
    PipelinesAlive
    ExecutesModel
    BuiltWhenExecuted
