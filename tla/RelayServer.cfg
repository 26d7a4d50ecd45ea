\* Two clients and one agent: sessions come and go beside one that is joined, and a
\* code that is free again may be given to the second client.
CONSTANTS
    Client = {c1, c2}
    Agent = {a1}
    Code = {k1, k2}
    None = None
SYMMETRY Alike
SPECIFICATION Spec
INVARIANTS
    ApprovedBeforeRelay
    ProbeExcludesRelay
    DoneMeansClean
PROPERTIES
    OnlyStaleRemovalsOrphan
    IsLinks
