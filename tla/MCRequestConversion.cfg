\* Two entities and two changes by the application, before or during the call.
CONSTANTS
    Entities = {e1, e2}
    Lists = {l1, l2}
    Null = Null
    MaxEdits = 2
    MaxList = 2
SPECIFICATION Spec
INVARIANTS TypeOK FaithfulUnlessEdited EngineSeesNoNull NothingInvented
