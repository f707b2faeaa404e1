SPECIFICATION FairSpec
CONSTANTS
    Tabs = {1,2}
    Users = {u1,u2}
    Numbered = {u1}
    MaxTokens = 2
    MaxProjects = 1
    MaxFlows = 2
INVARIANTS
    OwnProject
PROPERTIES
    FreshTokenStays
    NoLoginTrap
CHECK_DEADLOCK FALSE
