CONSTANTS
    Ids = {1, 2, 3, 4, 5, 6, 7, 8, 9}
    Repos = {1, 2, 3, 4}
    Image <- MCImage
    NoRepo = 0
    NoDigest = 0
    NoLayer = 0
    NoImage = 0
    Estates <- MCEstates
    Options <- MCOptions
    Tags <- MCTags
    Strengths = {0, 3}
SPECIFICATION Spec
INVARIANTS ProofIsLayers NearestBase ProvenAcyclic EveryImageIsPlaced
    NoDependentMissed
