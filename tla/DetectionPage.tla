---------------------------- MODULE DetectionPage ----------------------------
(***************************************************************************)
(* The page for a detection on demand, in one browser tab: choosing two    *)
(* scenes by name or by date, choosing what to look for, running, and      *)
(* reading or exporting the result.  The style of the classes outlives the *)
(* page in local storage, which other tabs write too.  The scenes come     *)
(* from the cache of WebQueries and may change while the page is open; the *)
(* answer to a run is that of ModelRouter, by its classes.                 *)
(*                                                                         *)
(* The threshold and the smallest area go with the algorithm: all three    *)
(* are settings that a run takes with it.  A behaviour follows a user who  *)
(* touches the controls of one tour.                                       *)
(***************************************************************************)
EXTENDS Integers, Sequences, ClassStyle

CONSTANTS
    Tour,       \* the choices of controls to touch and of answers to a search
    Scene,
    When,       \* When[s]: the date of scene s, None for a scene without one
    Cloud,      \* Cloud[s]: its cloud cover, None when it is not known
    Date,       \* the dates a user may choose
    CloudLimit, \* the positions of the cloud slider
    Algorithm, Model,
    Default,    \* the algorithm the page begins with
    None

Controls == {"mode", "scene", "date", "cloud", "settings", "models", "classes",
             "categories", "colours", "run", "map", "pages"}

ASSUME PageAssumption ==
    /\ \A t \in Tour : t.touches \subseteq Controls
                      /\ t.catalogs \subseteq Seq(Scene)
    /\ When \in [Scene -> Nat \cup {None}]
    /\ Date \subseteq Nat
    /\ Default \in Algorithm
    /\ None \notin Nat \cup Scene \cup Style

VARIABLES
    tour,      \* the controls and the answers of this behaviour
    open,      \* the page is open
    items,     \* the scenes of the last search that was answered
    pick,      \* the controls that choose the two scenes
    algorithm,
    modelOf,   \* modelOf[cat]: the model chosen for a category, or "auto"
    style, 
    stored,    \* the style in local storage, None before the first edit
    run,       \* the run under way from this visit of the page, or None
    result,    \* the classes of the result shown, or None
    wanted,    \* history: the classes ticked when that run was started
    foreign,   \* history: another tab was the last to write local storage
    left       \* history: the style last left in place, None if foreign

vars == <<tour, open, items, pick, algorithm, modelOf, style, stored, run,
          result, wanted, foreign, left>>

------------------------------------------------------------------------------
(* Choosing two scenes *)

NoPick == [mode |-> "scene", beforeId |-> None, afterId |-> None,
           beforeDate |-> None, afterDate |-> None, maxCloud |-> 100]

Distance(s, target) ==
    IF When[s] > target THEN When[s] - target ELSE target - When[s]

\* The places in the list of scenes that have a date and, as far as that is
\* known, few enough clouds.
Candidates ==
    {i \in DOMAIN items : /\ When[items[i]] # None
                          /\ Cloud[items[i]] # None
                                => Cloud[items[i]] <= pick.maxCloud}

\* Faulty variant: the last scene on or before the target is taken for the
\* nearest, the first of the list when there is none.
IsNearest_Before(i, target) ==
    LET Early == {j \in Candidates : When[items[j]] <= target}
    IN  IF Early = {}
        THEN i \in Candidates /\ \A j \in Candidates : i <= j
        ELSE i \in Early /\ \A j \in Early : When[items[j]] >= When[items[i]]

\* The scene at place i is the first of the closest to the target.
IsNearest(i, target) ==
    /\ i \in Candidates
    /\ \A j \in Candidates :
          /\ Distance(items[i], target) <= Distance(items[j], target)
          /\ j < i => Distance(items[i], target) < Distance(items[j], target)

NearestScene(target) ==
    IF target # None /\ \E i \in DOMAIN items : IsNearest(i, target)
    THEN items[CHOOSE i \in DOMAIN items : IsNearest(i, target)]
    ELSE None

\* The scene with a name, while the search still finds it.
Named(id) == IF \E i \in DOMAIN items : items[i] = id THEN id ELSE None

Before == IF pick.mode = "date" THEN NearestScene(pick.beforeDate)
                                ELSE Named(pick.beforeId)
After == IF pick.mode = "date" THEN NearestScene(pick.afterDate)
                               ELSE Named(pick.afterId)

------------------------------------------------------------------------------
(* What the page shows and sends *)

\* The model chosen for the category of each class that is ticked.
BuildModels ==
    [c \in {d \in Enabled(style) :
              \E cat \in Category : d \in cat /\ modelOf[cat] # "auto"} |->
        modelOf[CHOOSE cat \in Category : c \in cat]]

Request ==
    [before |-> Before, after |-> After, algorithm |-> algorithm,
     classifier |-> IF NeedsUrban(Enabled(style)) THEN "urban" ELSE "standard",
     tags |-> Enabled(style), models |-> BuildModels]

\* The classes that the map, the list of the result and the exported files
\* show: of those found, the ones that are ticked.
Shown == IF result = None THEN {} ELSE result \cap Enabled(style)

\* The report as exportPdf takes it: the scenes and settings chosen now, the
\* totals of the run, a bar for each class shown.
Report == [scenes |-> <<Before, After>>, settings |-> algorithm,
           totals |-> result, bars |-> Shown]

TypeOK ==
    /\ tour \in Tour /\ tour.touches \subseteq Controls
    /\ open \in BOOLEAN
    /\ items \in tour.catalogs \cup {<<>>}
    /\ pick \in [mode : {"scene", "date"},
                 beforeId : Scene \cup {None}, afterId : Scene \cup {None},
                 beforeDate : Date \cup {None}, afterDate : Date \cup {None},
                 maxCloud : CloudLimit \cup {100}]
    /\ algorithm \in Algorithm
    /\ modelOf \in [Category -> Model \cup {"auto"}]
    /\ style \in Style
    /\ stored \in Style \cup {None}
    /\ run # None => /\ {run.req.before, run.req.after} \subseteq Scene
                     /\ run.req.tags \cup run.ticked \subseteq Class
    /\ result = None \/ result \subseteq Class
    /\ wanted \subseteq Class
    /\ foreign \in BOOLEAN
    /\ left \in Style \cup {None}

Init ==
    /\ tour \in Tour
    /\ open = FALSE
    /\ items = <<>>
    /\ pick = NoPick
    /\ algorithm = Default
    /\ modelOf = [cat \in Category |-> "auto"]
    /\ style = Initial
    /\ stored = None
    /\ run = None
    /\ result = None
    /\ wanted = {}
    /\ foreign = FALSE
    /\ left = None

------------------------------------------------------------------------------
(* Visiting the page *)

Touched(control) == open /\ control \in tour.touches

\* The page is mounted: its state is new but for the scenes in the cache and
\* the style in local storage, which an effect reads before the user can act.
Open ==
    /\ ~open
    /\ open' = TRUE
    /\ pick' = NoPick
    /\ algorithm' = Default
    /\ modelOf' = [cat \in Category |-> "auto"]
    /\ style' = IF stored = None THEN Initial ELSE stored
    /\ result' = None
    /\ wanted' = {}
    /\ UNCHANGED <<tour, items, stored, run, foreign, left>>

\* It is left: a run under way goes on, and its answer finds nobody.
Leave ==
    /\ Touched("pages")
    /\ open' = FALSE
    /\ run' = None
    /\ left' = IF foreign THEN None ELSE style
    /\ UNCHANGED <<tour, items, pick, algorithm, modelOf, style, stored,
                   result, wanted, foreign>>

\* The search for scenes is answered.
ScenesArrive(s) ==
    /\ open /\ s # items
    /\ items' = s
    /\ UNCHANGED <<tour, open, pick, algorithm, modelOf, style, stored, run,
                   result, wanted, foreign, left>>

\* Another tab edits its style, and so writes the whole of it.
OtherTabEdits(s) ==
    /\ "colours" \in tour.touches
    /\ stored' = s
    /\ foreign' = TRUE
    /\ left' = None
    /\ UNCHANGED <<tour, open, items, pick, algorithm, modelOf, style, run,
                   result, wanted>>

------------------------------------------------------------------------------
(* The controls *)

Pick(p) ==
    /\ pick' = p
    /\ UNCHANGED <<tour, open, items, algorithm, modelOf, style, stored, run,
                   result, wanted, foreign, left>>

SetMode(mode) == Touched("mode") /\ Pick([pick EXCEPT !.mode = mode])

\* The lists of scenes, shown in the mode "scene", offer the scenes found.
SetScene(id) ==
    /\ Touched("scene") /\ pick.mode = "scene"
    /\ \/ Pick([pick EXCEPT !.beforeId = id])
       \/ Pick([pick EXCEPT !.afterId = id])

SetDate(d) ==
    /\ Touched("date") /\ pick.mode = "date"
    /\ \/ Pick([pick EXCEPT !.beforeDate = d])
       \/ Pick([pick EXCEPT !.afterDate = d])

SetMaxCloud(n) ==
    /\ Touched("cloud") /\ pick.mode = "date"
    /\ Pick([pick EXCEPT !.maxCloud = n])

SetAlgorithm(a) ==
    /\ Touched("settings")
    /\ algorithm' = a
    /\ UNCHANGED <<tour, open, items, pick, modelOf, style, stored, run,
                   result, wanted, foreign, left>>

SetModel(cat, m) ==
    /\ Touched("models")
    /\ modelOf' = [modelOf EXCEPT ![cat] = m]
    /\ UNCHANGED <<tour, open, items, pick, algorithm, style, stored, run,
                   result, wanted, foreign, left>>

\* Faulty variant: what is edited is shown and not stored.
Persist_ShowOnly(s) ==
    /\ style' = s
    /\ foreign' = FALSE
    /\ UNCHANGED <<tour, open, items, pick, algorithm, modelOf, stored, run,
                   result, wanted, left>>

\* The whole style is stored with each edit, whatever another tab has stored
\* (an error of a full storage, which is dropped, is left out).
Persist(s) ==
    /\ style' = s
    /\ stored' = s
    /\ foreign' = FALSE
    /\ UNCHANGED <<tour, open, items, pick, algorithm, modelOf, run, result,
                   wanted, left>>

\* The boxes, the colours and the reset button of the class control.
EditStyle ==
    \/ Touched("classes") /\ \E c \in Class : Persist(Toggle(style, c))
    \/ /\ Touched("categories")
       /\ \E cat \in Category : Persist(ToggleCategory(style, cat))
    \/ /\ Touched("colours")
       /\ \/ \E c \in Class, k \in Color : Persist(SetColor(style, c, k))
          \/ Persist(Initial)

------------------------------------------------------------------------------
(* Running *)

\* Faulty variant: the run asks for every class, whatever is ticked.
Run_EveryClass ==
    /\ Touched("run")
    /\ Before # None /\ After # None /\ run = None
    /\ run' = [req |-> [Request EXCEPT !.tags = Class],
               ticked |-> Enabled(style)]
    /\ UNCHANGED <<tour, open, items, pick, algorithm, modelOf, style,
                   stored, result, wanted, foreign, left>>

\* The button, disabled without two scenes and while a run is under way.
Run ==
    /\ Touched("run")
    /\ Before # None /\ After # None /\ run = None
    /\ run' = [req |-> Request, ticked |-> Enabled(style)]
    /\ UNCHANGED <<tour, open, items, pick, algorithm, modelOf, style,
                   stored, result, wanted, foreign, left>>

\* The control plane has found features of some of the classes asked for; of
\* any class when none was.
RunAnswers ==
    /\ run # None
    /\ \E found \in SUBSET (IF run.req.tags = {} THEN Class ELSE run.req.tags) :
          result' = found
    /\ wanted' = run.ticked
    /\ run' = None
    /\ UNCHANGED <<tour, open, items, pick, algorithm, modelOf, style,
                   stored, foreign, left>>

\* It fails: the last result stays.
RunFails ==
    /\ run # None
    /\ run' = None
    /\ UNCHANGED <<tour, open, items, pick, algorithm, modelOf, style,
                   stored, result, wanted, foreign, left>>

------------------------------------------------------------------------------

Choose ==
    \/ \E mode \in {"scene", "date"} : SetMode(mode)
    \/ \E i \in DOMAIN items : SetScene(items[i])
    \/ SetScene(None)
    \/ \E d \in Date \cup {None} : SetDate(d)
    \/ \E n \in CloudLimit : SetMaxCloud(n)
    \/ \E a \in Algorithm : SetAlgorithm(a)
    \/ \E cat \in Category, m \in Model \cup {"auto"} : SetModel(cat, m)

Next ==
    \/ Open \/ Leave
    \/ \E s \in tour.catalogs : ScenesArrive(s)
    \/ \E s \in {Initial} \cup Edits(Initial) : OtherTabEdits(s)
    \/ Choose \/ EditStyle
    \/ Run \/ RunAnswers \/ RunFails

Spec == Init /\ [][Next]_vars

------------------------------------------------------------------------------
(* Properties *)

\* Two scenes chosen by date are in the order of the dates asked for, whatever
\* the catalog holds and in whatever order: the earlier target never gets the
\* later scene, ties between two equally close scenes included.
DatesKeepOrder ==
    LET asked == pick.beforeDate # None /\ pick.afterDate # None
    IN  pick.mode = "date" /\ asked /\ Before # None /\ After # None
          => /\ pick.beforeDate <= pick.afterDate => When[Before] <= When[After]
             /\ pick.beforeDate >= pick.afterDate => When[Before] >= When[After]

\* The bars of a report add up to its totals as long as the classes ticked
\* when the run was started are still ticked: edits, failed runs and answers
\* meanwhile do not make them disagree.  A run with no class ticked is left
\* out: the detector then looks for all, and the page shows none.
ReportAddsUp ==
    result # None /\ wanted # {} /\ wanted \subseteq Enabled(style)
       => Report.bars = Report.totals

\* The style a user left is the one found on the next visit, unless another
\* tab stored its own last.
ReopenedAsLeft ==
    [][~open /\ open' /\ left # None => style' = left]_vars

=============================================================================
