SPECIFICATION BreedSpec
CONSTANTS
    Counts <- MCCounts
    Gene <- MCGene
    Ends <- MCEnds
    SegmentChoices = {1, 2}
    Sides = {1}
    Unplaceable <- MCUnplaceable
    Cutting <- MCCutting
    ElitePerNiche = 1
    ImmigrantShare = 5
    MaxGenerations = 1
INVARIANTS
    BredByTheRules
CHECK_DEADLOCK FALSE
