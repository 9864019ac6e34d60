CONSTANTS
    None = None
    Text = {"good", "bad"}
    Invalid = "bad"
    Point <- Corners
    MaxPoints = 4
    MaxOlder = 2
SPECIFICATION FormsSpec
INVARIANTS ShapeIsSeen
PROPERTIES NothingSentTwice
CHECK_DEADLOCK FALSE
