CONSTANTS
    n1 = n1
    n2 = n2
    n3 = n3
    Voters <- TwoVoters
    BatchSize = 3
    Campaigns <- TwoTerms
    MaxProposals = 1
    MaxMessages = 13
    MaxRestarts = 0
SPECIFICATION Spec
SYMMETRY Symmetry2
INVARIANT LogsAgree
PROPERTIES LeaderAppendOnly AnsweredApplied
CHECK_DEADLOCK FALSE
