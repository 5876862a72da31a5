\* A builder that is used again after build.
CONSTANTS
    Entities = {e1}
    Lists = {l1}
    Null = Null
    MaxEdits = 1
    MaxList = 1
SPECIFICATION Spec
INVARIANT BuiltIsWellFormed
