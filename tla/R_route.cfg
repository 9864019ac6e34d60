CONSTANTS
    Backend <- Backends
    Heuristic = "heuristic"
    Tag <- AllTags
    Declared <- DeclaredTags
    Tier <- Tiers
    Rank <- Ranks
    Gated = {"deepforest_tree", "changeformer", "dlinknet_road", "dynamic_world"}
    Inactive = {"changeformer", "dlinknet_road", "dynamic_world"}
    Construction = {"urban_growth", "new_construction"}
    UrbanClasses = {"new_construction", "vegetation_loss"}
    StandardClasses = {"urban_growth", "vegetation_loss", "bare_soil"}
    Request <- Requests
    Star = "*"
    Null = Null
SPECIFICATION Spec
INVARIANTS TypeOK OnlyRequestedTags ProvenanceIsTrue CloudNeedsConsent FailuresAreContained
CHECK_DEADLOCK FALSE
