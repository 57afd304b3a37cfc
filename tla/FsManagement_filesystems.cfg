SPECIFICATION Spec
CONSTANTS
    Procs = {p1, p2, p3}
    Component = fxfs
    Tasks = {t1}
    Paths = {a}
    Faults = {"crash", "refuse"}
INVARIANTS OneUser BindingsAreOwn RunningIsManaged
PROPERTIES CallsReturn
