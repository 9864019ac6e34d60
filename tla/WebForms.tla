------------------------------ MODULE WebForms ------------------------------
(***************************************************************************)
(* The forms of the web application, one at a time: what the user types    *)
(* lives in the page, a modal only shows it, and a press of the button     *)
(* sends it.  The form of a watch area also holds a map to draw on, which  *)
(* lives as long as the modal is open and reports the shape drawn.         *)
(* Messages are left out, and what the answers do to the cache is in       *)
(* WebQueries.                                                             *)
(***************************************************************************)
EXTENDS Naturals, Sequences

CONSTANTS
    Text,      \* what may be typed into a field
    Invalid,   \* the text among it that is not JSON
    Point,     \* where the user may click: pairs of numbers
    MaxPoints, \* bound on the points drawn
    MaxOlder,  \* bound on the requests a page no longer follows
    None

ASSUME FormAssumption ==
    /\ Point \subseteq Nat \X Nat
    /\ MaxPoints \in Nat /\ MaxOlder \in Nat
    /\ None \notin Text /\ Invalid \in Text

VARIABLES
    form,     \* the form this behaviour is about
    fields,   \* what the page holds of it; None in a field left as it was
    open,     \* it is shown: always, but for a modal
    pending,  \* the last request is under way
    older,    \* earlier ones are too: how many
    reading,  \* a file chosen for the form is being read
    map,      \* the map to draw on: "none", "loading" or "loaded"
    mode, points,
    picture,  \* the points the map shows
    sent,     \* history: the fields are as they were last sent, without error
    seen      \* history: the map has drawn since it was loaded

formVars == <<form, fields, open, pending, older, reading, map, mode, points,
              picture, sent, seen>>

drawing == <<map, mode, points, picture, seen>>

requests == <<pending, older>>

------------------------------------------------------------------------------
(* The forms *)

\* A raster to ingest (library).
IngestForm == [modal |-> TRUE, required |-> {"uri", "collection"},
               optional |-> {"date"}, kept |-> {}]

ProjectForm == [modal |-> TRUE, required |-> {"name"},
                optional |-> {"description", "picked"}, kept |-> {}]

\* The role stays as it was chosen when the key has been created.
ApiKeyForm == [modal |-> FALSE, required |-> {"name"},
               optional |-> {"role"}, kept |-> {"role"}]

PermitsForm == [modal |-> FALSE, required |-> {"text"},
                optional |-> {}, kept |-> {}]

\* The settings are priority, threshold, clouds, cadence and classes.
AreaForm == [modal |-> TRUE, required |-> {"name", "geom"},
             optional |-> {"settings"}, kept |-> {}]

Forms == [ingest |-> IngestForm, project |-> ProjectForm,
          apiKey |-> ApiKeyForm, permits |-> PermitsForm, area |-> AreaForm]

Form == DOMAIN Forms
Fields(f) == Forms[f].required \cup Forms[f].optional
Untouched(f) == [x \in Fields(f) |-> None]

------------------------------------------------------------------------------
(* Shapes *)

\* The ring of a rectangle with two given corners, or of a polygon of three
\* points at least, closed; None while there are too few points.
Ring(p, mo) ==
    IF mo = "rect" /\ Len(p) = 2
    THEN <<p[1], <<p[2][1], p[1][2]>>, p[2], <<p[1][1], p[2][2]>>, p[1]>>
    ELSE IF mo = "poly" /\ Len(p) >= 3 THEN Append(p, p[1])
    ELSE None

\* A third click begins a new rectangle.
Clicked(p, pt) ==
    IF mode = "rect" /\ Len(p) >= 2 THEN <<pt>> ELSE Append(p, pt)

FormsTypeOK ==
    /\ form \in Form
    /\ DOMAIN fields = Fields(form)
    /\ \A x \in Fields(form) \ {"geom"} : fields[x] \in Text \cup {None}
    /\ form = "area" => fields["geom"] \in Seq(Nat \X Nat) \cup {None}
    /\ open \in BOOLEAN /\ (~Forms[form].modal => open)
    /\ pending \in BOOLEAN /\ older \in 0 .. MaxOlder
    /\ reading \in BOOLEAN
    /\ map \in {"none", "loading", "loaded"}
    /\ map # "none" <=> form = "area" /\ open
    /\ mode \in {"rect", "poly"}
    /\ points \in Seq(Point) /\ picture \in Seq(Point)
    /\ sent \in BOOLEAN /\ seen \in BOOLEAN

FormsInit ==
    /\ form \in Form
    /\ fields = Untouched(form)
    /\ open = ~Forms[form].modal
    /\ pending = FALSE /\ older = 0
    /\ reading = FALSE
    /\ map = "none" /\ mode = "rect" /\ points = <<>> /\ picture = <<>>
    /\ sent = FALSE /\ seen = FALSE

------------------------------------------------------------------------------
(* Opening, closing, typing *)

\* The modal opens on what the page holds; a map in it is new.
Open ==
    /\ ~open
    /\ open' = TRUE
    /\ map' = IF form = "area" THEN "loading" ELSE "none"
    /\ mode' = "rect" /\ points' = <<>> /\ picture' = <<>> /\ seen' = FALSE
    /\ UNCHANGED <<form, fields, requests, reading, sent>>

Closed ==
    /\ open' = ~Forms[form].modal
    /\ map' = "none" /\ mode' = "rect" /\ points' = <<>> /\ picture' = <<>>
    /\ seen' = FALSE

\* The button to cancel, the cross, the backdrop or the escape key: what was
\* typed, and the shape reported, stay in the page.
Cancel ==
    /\ open /\ Forms[form].modal
    /\ Closed
    /\ UNCHANGED <<form, fields, requests, reading, sent>>

\* The user opens another page and comes back: requests under way end unseen.
LeavePage ==
    /\ fields' = Untouched(form)
    /\ pending' = FALSE /\ older' = 0
    /\ reading' = FALSE
    /\ sent' = FALSE
    /\ Closed
    /\ UNCHANGED form

Type(x, v) ==
    /\ open
    /\ x # "geom"
    /\ fields' = [fields EXCEPT ![x] = v]
    /\ sent' = FALSE
    /\ UNCHANGED <<form, open, requests, reading, drawing>>

\* A file is chosen as the text of the permits.
ChooseFile ==
    /\ form = "permits"
    /\ reading' = TRUE
    /\ UNCHANGED <<form, fields, open, requests, sent, drawing>>

\* It has been read, whatever has been typed or sent meanwhile.
FileRead(v) ==
    /\ reading
    /\ reading' = FALSE
    /\ fields' = [fields EXCEPT !["text"] = v]
    /\ sent' = FALSE
    /\ UNCHANGED <<form, open, requests, drawing>>

------------------------------------------------------------------------------
(* Drawing *)

MapLoads ==
    /\ map = "loading"
    /\ map' = "loaded"
    /\ UNCHANGED <<form, fields, open, requests, reading, mode, points, picture,
                   sent, seen>>

\* redraw and emit: the points are shown if the map is loaded, and their shape
\* is reported in any case.
Draw(p, mo) ==
    /\ map # "none"
    /\ points' = p /\ mode' = mo
    /\ picture' = IF map = "loaded" THEN p ELSE picture
    /\ seen' = (seen \/ map = "loaded")
    /\ fields' = [fields EXCEPT !["geom"] = Ring(p, mo)]
    /\ sent' = FALSE
    /\ UNCHANGED <<form, open, requests, reading, map>>

\* A double click is two of these, and reports the same shape once more.
Click(pt) ==
    /\ Len(points) < MaxPoints \/ mode = "rect"
    /\ Draw(Clicked(points, pt), mode)

\* Faulty variant: the shape drawn in the other mode stays reported.
SetDrawMode_Unreported(mo) ==
    /\ map # "none"
    /\ points' = <<>> /\ mode' = mo
    /\ picture' = IF map = "loaded" THEN <<>> ELSE picture
    /\ seen' = (seen \/ map = "loaded")
    /\ UNCHANGED <<form, fields, open, requests, reading, map, sent>>

SetDrawMode(mo) == Draw(<<>>, mo)

Clear == Draw(<<>>, mode)

------------------------------------------------------------------------------
(* Sending *)

\* One more request, which the page follows from now on: one that is still under
\* way keeps its handlers, but whether the button is enabled no longer depends on it.
Send ==
    /\ pending => older < MaxOlder
    /\ pending' = TRUE
    /\ older' = IF pending THEN older + 1 ELSE older
    /\ sent' = TRUE

Filled == open /\ \A x \in Forms[form].required : fields[x] # None

\* Faulty variant: the button stays enabled while a request is under way.
Enabled_Always == Filled

\* The button of a form (upload, create, save) is disabled while a required field
\* is empty or the request under way.
Enabled == Filled /\ ~pending

\* A text of permits that is not JSON is refused at once.
SubmitForm ==
    /\ Enabled
    /\ ~(form = "permits" /\ fields["text"] = Invalid)
    /\ Send
    /\ UNCHANGED <<form, fields, open, reading, drawing>>

\* The form of an area holds the style control, whose buttons to reset the classes
\* and to expand a category send the form too, a request under way or not.  The
\* reset comes first: it may leave the settings as they were at the beginning.
SubmitByStyle ==
    /\ form = "area" /\ Filled
    /\ Send
    /\ fields' \in {fields, [fields EXCEPT !["settings"] = None]}
    /\ UNCHANGED <<form, open, reading, drawing>>

\* Faulty variant: the optional fields only are emptied.
Emptied_Optional ==
    [x \in Fields(form) |->
        IF x \in Forms[form].optional THEN None ELSE fields[x]]

Emptied ==
    [x \in Fields(form) |->
        IF x \in Forms[form].kept THEN fields[x] ELSE None]

\* The last request has succeeded: the form is emptied and closed, also when it
\* was cancelled or typed in meanwhile.
Succeeds ==
    /\ pending
    /\ pending' = FALSE
    /\ fields' = Emptied
    /\ Closed
    /\ UNCHANGED <<form, older, reading, sent>>

\* It has failed: the form stays as it is, for another attempt.
Fails ==
    /\ pending
    /\ pending' = FALSE
    /\ sent' = FALSE
    /\ UNCHANGED <<form, fields, open, older, reading, drawing>>

\* An earlier one has succeeded: its handler does what that of the last one does.
OlderSucceeds ==
    /\ older > 0
    /\ older' = older - 1
    /\ fields' = Emptied
    /\ Closed
    /\ UNCHANGED <<form, pending, reading, sent>>

OlderFails ==
    /\ older > 0
    /\ older' = older - 1
    /\ UNCHANGED <<form, fields, open, pending, reading, sent, drawing>>

FormsNext ==
    \/ Open \/ Cancel \/ LeavePage
    \/ \E x \in Fields(form), v \in Text \cup {None} : Type(x, v)
    \/ ChooseFile
    \/ \E v \in Text : FileRead(v)
    \/ MapLoads
    \/ \E pt \in Point : Click(pt)
    \/ \E mo \in {"rect", "poly"} : SetDrawMode(mo)
    \/ Clear
    \/ SubmitForm \/ SubmitByStyle
    \/ Succeeds \/ Fails \/ OlderSucceeds \/ OlderFails

FormsSpec == FormsInit /\ [][FormsNext]_formVars

------------------------------------------------------------------------------
(* Properties *)

\* The shape a user saves is the one on the map, once the map has drawn: in
\* either mode, cleared or begun anew, with the modal closed and reopened and
\* requests, several perhaps, that end meanwhile.  Clicks on a map that has not
\* loaded are not drawn until the next one, and a shape outlives the modal it was
\* drawn in: in both cases the map has not drawn yet.
ShapeIsSeen ==
    form = "area" /\ open /\ seen => fields["geom"] = Ring(picture, mode)

UnderWay == IF pending THEN older + 1 ELSE older

\* A form with one button sends nothing twice: between two requests of one visit
\* with nothing typed between them, the first has failed.  The form of an area does
\* send again, by its style control, what is under way or what failed only once;
\* and a request that failed may have been executed all the same.
NothingSentTwice ==
    [][form # "area" /\ UnderWay' > UnderWay => ~sent]_formVars

=============================================================================
