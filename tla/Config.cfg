SPECIFICATION Spec
CONSTANTS
    t = t
    a = a
    b = b
    Pods = {p1}
    Calls = {c1}
    Targets <- MCTargets
    Refs <- MCRefs
    Docs <- MCDocs
    HistoryLimit = 2
    MaxRev = 3
INVARIANTS
    SecretLostOnlyByReload
    RevisionIdentifies
PROPERTY
    CatchesUp
