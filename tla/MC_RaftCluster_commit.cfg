CONSTANTS
    n1 = n1
    n2 = n2
    n3 = n3
    Voters <- ThreeVoters
    BatchSize = 3
    Campaigns <- OneTerm
    MaxProposals = 1
    MaxMessages = 10
    MaxRestarts = 1
SPECIFICATION Spec
SYMMETRY Symmetry3
INVARIANTS CommittedAcknowledged ElectionSafety
CHECK_DEADLOCK FALSE
