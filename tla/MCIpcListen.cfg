\* Three getds: one that unlinks late, one whose file is unlinked, one more.
CONSTANTS
    Daemons = {d1, d2, d3}
    None = None
    Stale = Stale
SYMMETRY Symmetry
SPECIFICATION Spec
INVARIANTS TypeOK AloneListens ListenerHasFile
