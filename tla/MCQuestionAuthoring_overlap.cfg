SPECIFICATION Spec
CONSTANTS
    OptionIds = {o1, o2, o3, o4}
    Requests = {r1, r2}
    Overlap = TRUE
    None = None
SYMMETRY Renamings
INVARIANT TypeOK
INVARIANT OneCorrectOption
PROPERTY SingleKeyIsFixed
