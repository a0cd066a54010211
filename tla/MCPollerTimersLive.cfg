SPECIFICATION FairSpec
CONSTANTS
    Chains = {"sweep"}
    Slots = {s1, s2, s3, s4}
    MaxGeneration = 3
PROPERTIES
    ChainsKeepTicking
    ConfigurationTakesEffect
CHECK_DEADLOCK FALSE
