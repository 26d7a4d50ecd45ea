\* Two agents race for one client, with the records of the audit log.
CONSTANTS
    Client = {c1}
    Agent = {a1, a2}
    Code = {k1}
    None = None
SPECIFICATION AuditFairSpec
INVARIANTS
    OneAgentPerSession
    GrantsAreOnRecord
PROPERTIES
    GoneClientIsReaped
    LostSessionEnds
    ConsentIsResolved
