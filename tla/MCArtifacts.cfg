SPECIFICATION Spec
CONSTANTS
    Campaign = {"a", "b"}
    TestsOf <- MCTestsOf
    MaxSuite = 2
    MaxSeconds = 1
INVARIANTS
    FilesShowTheirTest
PROPERTIES
    CampaignsEnd
CHECK_DEADLOCK FALSE
