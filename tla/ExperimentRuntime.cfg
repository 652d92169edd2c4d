\* Two requests at a time, up to three runtimes, two revisions.
SPECIFICATION Spec
CONSTANTS
    Request = {r1, r2}
    MaxRuntimes = 2
    MaxRevision = 2
SYMMETRY Symmetry
INVARIANTS
    RuntimeIsSound
    NobodyIsStuck
