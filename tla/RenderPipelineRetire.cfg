\* Three frames, the default, in flight: a built-in pass and one that comes and goes, two sizes, two generations
\* of transients, one edit of the shader.
SPECIFICATION Spec
CHECK_DEADLOCK FALSE
CONSTANTS
    Never = Never
    None = None
    FIF = 3
    MaxFrame = 4
    Pass = {p0, p1}
    BuiltIn = {p0}
    Extent = {small, large}
    MaxGen = 2
    MaxVersion = 1
INVARIANT TransientsAlive
