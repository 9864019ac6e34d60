----------------------------- MODULE ClassStyle -----------------------------
(***************************************************************************)
(* The change classes a user ticks and colours, by category.  The          *)
(* detection page and the form of a watch area each hold such a style.     *)
(***************************************************************************)
CONSTANTS
    Category,     \* the categories, each the set of its classes
    Construction, \* the first of them
    UrbanGrowth,  \* its class that every classifier may find
    Color,
    ClassColor    \* the colour of each class in the shared palette

Class == UNION Category

ASSUME ClassAssumption ==
    /\ Construction \in Category
    /\ UrbanGrowth \in Construction
    /\ ClassColor \in [Class -> Color]

Style == [Class -> [color : Color, on : BOOLEAN]]

\* Every class is ticked and has the colour of the palette.
Initial == [c \in Class |-> [color |-> ClassColor[c], on |-> TRUE]]

SetColor(style, c, color) == [style EXCEPT ![c].color = color]
Toggle(style, c) == [style EXCEPT ![c].on = ~@]

Enabled(style) == {c \in Class : style[c].on}

\* The box of a category ticks all of it, or clears it when all is ticked.
ToggleCategory(style, cat) ==
    [c \in Class |->
        IF c \in cat THEN [style[c] EXCEPT !.on = ~(cat \subseteq Enabled(style))]
                     ELSE style[c]]

\* What one use of the control may make of a style.
Edits(style) ==
    {SetColor(style, c, k) : c \in Class, k \in Color}
       \cup {Toggle(style, c) : c \in Class}
       \cup {ToggleCategory(style, cat) : cat \in Category}
       \cup {Initial}

\* The classes that ask for the urban classifier: those of construction but
\* urban growth.
NeedsUrban(enabled) == (enabled \cap Construction) \ {UrbanGrowth} # {}

=============================================================================
