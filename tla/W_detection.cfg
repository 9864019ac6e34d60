CONSTANTS
    None = None
    s1 = s1
    s2 = s2
    s3 = s3
    s4 = s4
    Scene <- FourScenes
    When <- Whens
    Cloud <- Clouds
    Date = {0, 1, 2, 3, 4}
    CloudLimit = {50, 100}
    Algorithm = {"image_diff", "vegetation"}
    Default = "image_diff"
    Model = {"m"}
    Category <- Categories
    Construction <- Constructions
    UrbanGrowth = "urban_growth"
    Color = {"own", "edited"}
    ClassColor <- Palette
    Tour <- Tours
SPECIFICATION MapSpec
INVARIANTS MapFollowsPage DatesKeepOrder ReportAddsUp
PROPERTIES ReopenedAsLeft
CHECK_DEADLOCK FALSE
