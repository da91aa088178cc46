CONSTANTS
    n1 = n1
    n2 = n2
    n3 = n3
    Voters <- ThreeVoters
    BatchSize = 3
    Campaigns <- TwoTerms
    MaxProposals = 0
    MaxMessages = 14
    MaxRestarts = 0
SPECIFICATION Spec
SYMMETRY Symmetry3
INVARIANT LeaderCompleteness
CHECK_DEADLOCK FALSE
