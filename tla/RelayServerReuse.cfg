\* Two clients, the second of which is given the code the first one had.
CONSTANTS
    Client = {c1, c2}
    Agent = {a1}
    Code = {k1}
    None = None
SPECIFICATION Spec
INVARIANTS
    LiveSessionIsTracked
