\* Three writers of one package of three files; any number of failures.
SPECIFICATION Spec
CONSTANTS
    Writers = {u, v, w}
    Files = {f, g, h}
    Layout = Layout
    Commit = Commit
    None = None
SYMMETRY Symmetry
INVARIANTS ReadableIsChecked PublishedSurvives
PROPERTIES NeverRepaired
