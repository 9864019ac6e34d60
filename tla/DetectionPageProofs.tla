------------------------- MODULE DetectionPageProofs -------------------------
(***************************************************************************)
(* Proofs about DetectionPage, for any catalog, any dates and classes, and *)
(* a user who touches any controls; and about DetectionMap: what the maps  *)
(* of the page show, and that they leave it to its own specification.      *)
(***************************************************************************)
EXTENDS DetectionMap, TLAPS

\* The style found when the page opens.
Stored == IF stored = None THEN Initial ELSE stored

\* While no other tab has written, the page shows what is stored, and what was
\* left is stored while the page is closed.
StyleIsStored ==
    /\ open /\ ~foreign => style = Stored
    /\ ~open /\ left # None => left = Stored

\* A run asks for the classes ticked when it was started, and finds no others.
FindsWhatWasTicked ==
    /\ run # None => run.req.tags = run.ticked
    /\ result # None /\ wanted # {} => result \subseteq wanted

Inv == TypeOK /\ StyleIsStored /\ FindsWhatWasTicked

------------------------------------------------------------------------------
(* Lemmas about the operators *)

LEMMA InitialIsStyle == Initial \in Style
  BY ClassAssumption DEF Initial, Style

LEMMA EditsAreStyles ==
  ASSUME NEW s \in Style
  PROVE  /\ \A c \in Class, k \in Color : SetColor(s, c, k) \in Style
         /\ \A c \in Class : Toggle(s, c) \in Style
         /\ \A cat \in Category : ToggleCategory(s, cat) \in Style
<1>1. \A c \in Class, k \in Color : SetColor(s, c, k) \in Style
  BY DEF Style, SetColor
<1>2. \A c \in Class : Toggle(s, c) \in Style
  BY DEF Style, Toggle
<1>3. ASSUME NEW cat \in Category PROVE ToggleCategory(s, cat) \in Style
  BY DEF Style, ToggleCategory
<1>4. QED
  BY <1>1, <1>2, <1>3

\* The list of scenes is a sequence of scenes.
LEMMA ItemsAreScenes == TypeOK => items \in Seq(Scene)
<1> SUFFICES ASSUME TypeOK PROVE items \in Seq(Scene)
  OBVIOUS
<1>1. CASE items = <<>>
  BY <1>1
<1>2. CASE items \in tour.catalogs
  BY <1>2, PageAssumption DEF TypeOK
<1>3. QED
  BY <1>1, <1>2 DEF TypeOK

\* A scene picked by its date is a scene of the list that has a date.
LEMMA NearestIsListed ==
  ASSUME TypeOK, NEW target, NearestScene(target) # None
  PROVE  \E i \in DOMAIN items : /\ IsNearest(i, target)
                                 /\ NearestScene(target) = items[i]
                                 /\ items[i] \in Scene
<1>1. \E i \in DOMAIN items : IsNearest(i, target)
  BY DEF NearestScene
<1> DEFINE i == CHOOSE j \in DOMAIN items : IsNearest(j, target)
<1>2. i \in DOMAIN items /\ IsNearest(i, target)
  BY <1>1
<1>3. NearestScene(target) = items[i]
  BY <1>1 DEF NearestScene
<1>4. items[i] \in Scene
  BY <1>2, ItemsAreScenes
<1>5. QED
  BY <1>2, <1>3, <1>4

LEMMA PicksAreScenes ==
  TypeOK => Before \in Scene \cup {None} /\ After \in Scene \cup {None}
<1> SUFFICES ASSUME TypeOK
             PROVE  Before \in Scene \cup {None} /\ After \in Scene \cup {None}
  OBVIOUS
<1>1. ASSUME NEW target PROVE NearestScene(target) \in Scene \cup {None}
  BY NearestIsListed
<1>2. ASSUME NEW id \in Scene \cup {None} PROVE Named(id) \in Scene \cup {None}
  BY DEF Named
<1>3. QED
  BY <1>1, <1>2 DEF Before, After, TypeOK

\* The closest scene to an earlier target is not later than the closest to a
\* later one (nearestScene in report.ts).
LEMMA NearestKeepsOrder ==
  ASSUME TypeOK,
         NEW i \in DOMAIN items, NEW j \in DOMAIN items,
         NEW d \in Nat, NEW e \in Nat, d <= e,
         IsNearest(i, d), IsNearest(j, e)
  PROVE  When[items[i]] <= When[items[j]]
<1>1. items[i] \in Scene /\ items[j] \in Scene
  BY ItemsAreScenes
<1>2. When[items[i]] \in Nat /\ When[items[j]] \in Nat
  BY <1>1, PageAssumption DEF IsNearest, Candidates
<1>3. /\ Distance(items[i], d) <= Distance(items[j], d)
      /\ Distance(items[j], e) <= Distance(items[i], e)
  BY DEF IsNearest
<1>4. CASE d < e
  BY <1>2, <1>3, <1>4 DEF Distance
<1>5. CASE d = e
  <2>1. j < i => Distance(items[i], d) < Distance(items[j], d)
    BY DEF IsNearest
  <2>2. i < j => Distance(items[j], e) < Distance(items[i], e)
    BY DEF IsNearest
  <2>3. i \in Int /\ j \in Int
    BY ItemsAreScenes
  <2>4. Distance(items[i], d) \in Int /\ Distance(items[j], d) \in Int
    BY <1>2 DEF Distance
  <2>5. i = j
    BY <1>3, <1>5, <2>1, <2>2, <2>3, <2>4
  <2>6. QED
    BY <1>2, <2>5
<1>6. QED
  BY <1>4, <1>5

LEMMA OrderKept == TypeOK => DatesKeepOrder
<1> SUFFICES ASSUME TypeOK, pick.mode = "date",
                    pick.beforeDate # None, pick.afterDate # None,
                    Before # None, After # None
             PROVE  /\ pick.beforeDate <= pick.afterDate
                          => When[Before] <= When[After]
                    /\ pick.beforeDate >= pick.afterDate
                          => When[Before] >= When[After]
  BY DEF DatesKeepOrder
<1> DEFINE b == pick.beforeDate
           a == pick.afterDate
<1>1. b \in Nat /\ a \in Nat
  BY PageAssumption DEF TypeOK
<1>2. PICK i \in DOMAIN items : /\ IsNearest(i, b)
                                /\ Before = items[i] /\ items[i] \in Scene
  BY NearestIsListed DEF Before
<1>3. PICK j \in DOMAIN items : /\ IsNearest(j, a)
                                /\ After = items[j] /\ items[j] \in Scene
  BY NearestIsListed DEF After
<1>4. When[items[i]] \in Nat /\ When[items[j]] \in Nat
  BY <1>2, <1>3, PageAssumption DEF IsNearest, Candidates
<1>5. b <= a => When[items[i]] <= When[items[j]]
  BY <1>1, <1>2, <1>3, NearestKeepsOrder
<1>6. a <= b => When[items[j]] <= When[items[i]]
  BY <1>1, <1>2, <1>3, NearestKeepsOrder
<1>7. QED
  BY <1>1, <1>2, <1>3, <1>4, <1>5, <1>6

------------------------------------------------------------------------------
(* The invariant *)

LEMMA InitInv == Init => Inv
<1> SUFFICES ASSUME Init PROVE Inv
  OBVIOUS
<1>1. TypeOK
  BY PageAssumption, InitialIsStyle DEF Init, TypeOK, NoPick
<1>2. StyleIsStored /\ FindsWhatWasTicked
  BY DEF Init, StyleIsStored, FindsWhatWasTicked
<1>3. QED
  BY <1>1, <1>2 DEF Inv

\* Choosing scenes and settings touches neither style nor result.
LEMMA ChooseInv == ASSUME Inv, Choose PROVE Inv'
<1> USE DEF Inv, Choose
<1>1. \A i \in DOMAIN items : items[i] \in Scene
  BY ItemsAreScenes
<1>2. TypeOK'
  BY <1>1, PageAssumption
     DEF TypeOK, SetMode, SetScene, SetDate, SetMaxCloud, SetAlgorithm,
         SetModel, Pick
<1>3. UNCHANGED <<open, style, stored, run, result, wanted, foreign, left>>
  BY DEF SetMode, SetScene, SetDate, SetMaxCloud, SetAlgorithm, SetModel, Pick
<1>4. StyleIsStored' /\ FindsWhatWasTicked'
  BY <1>3 DEF StyleIsStored, FindsWhatWasTicked, Stored
<1>5. QED
  BY <1>2, <1>4

\* An edit shows and stores one and the same style.
LEMMA EditInv == ASSUME Inv, EditStyle PROVE Inv'
<1>1. PICK s \in Style : Persist(s)
  BY InitialIsStyle, EditsAreStyles DEF EditStyle, Inv, TypeOK
<1>2. open
  BY DEF EditStyle, Touched
<1>3. s # None
  BY PageAssumption
<1>4. TypeOK'
  BY <1>1 DEF Inv, TypeOK, Persist
<1>5. StyleIsStored'
  BY <1>1, <1>2, <1>3 DEF StyleIsStored, Stored, Persist
<1>6. FindsWhatWasTicked'
  BY <1>1 DEF Inv, FindsWhatWasTicked, Persist
<1>7. QED
  BY <1>4, <1>5, <1>6 DEF Inv

LEMMA VisitInv ==
  ASSUME Inv, \/ Open \/ Leave
              \/ \E s \in tour.catalogs : ScenesArrive(s)
              \/ \E s \in {Initial} \cup Edits(Initial) : OtherTabEdits(s)
  PROVE  Inv'
<1> USE DEF Inv
<1>1. CASE Open
  <2>1. Stored \in Style
    BY InitialIsStyle DEF Stored, TypeOK
  <2>2. TypeOK'
    BY <1>1, <2>1, PageAssumption DEF Open, TypeOK, NoPick, Stored
  <2>3. StyleIsStored' /\ FindsWhatWasTicked'
    BY <1>1 DEF Open, StyleIsStored, FindsWhatWasTicked, Stored
  <2>4. QED
    BY <2>2, <2>3
<1>2. CASE Leave
  <2>1. TypeOK'
    BY <1>2 DEF Leave, TypeOK
  <2>2. StyleIsStored' /\ FindsWhatWasTicked'
    BY <1>2 DEF Leave, Touched, StyleIsStored, FindsWhatWasTicked, Stored
  <2>3. QED
    BY <2>1, <2>2
<1>3. ASSUME NEW s \in tour.catalogs, ScenesArrive(s) PROVE Inv'
  <2>1. TypeOK'
    BY <1>3 DEF ScenesArrive, TypeOK
  <2>2. StyleIsStored' /\ FindsWhatWasTicked'
    BY <1>3 DEF ScenesArrive, StyleIsStored, FindsWhatWasTicked, Stored
  <2>3. QED
    BY <2>1, <2>2
<1>4. ASSUME NEW s \in {Initial} \cup Edits(Initial), OtherTabEdits(s)
      PROVE  Inv'
  <2>1. s \in Style
    BY InitialIsStyle, EditsAreStyles DEF Edits
  <2>2. TypeOK'
    BY <1>4, <2>1 DEF OtherTabEdits, TypeOK
  <2>3. StyleIsStored' /\ FindsWhatWasTicked'
    BY <1>4 DEF OtherTabEdits, StyleIsStored, FindsWhatWasTicked
  <2>4. QED
    BY <2>2, <2>3
<1>5. QED
  BY <1>1, <1>2, <1>3, <1>4

LEMMA RunInv == ASSUME Inv, Run \/ RunAnswers \/ RunFails PROVE Inv'
<1> USE DEF Inv
<1>1. CASE Run
  <2>1. Before \in Scene /\ After \in Scene
    BY <1>1, PicksAreScenes DEF Run
  <2>2. run'.req = Request /\ run'.ticked = Enabled(style)
    BY <1>1 DEF Run
  <2>3. TypeOK'
    <3>1. /\ {run'.req.before, run'.req.after} \subseteq Scene
          /\ run'.req.tags \cup run'.ticked \subseteq Class
      BY <2>1, <2>2 DEF Request, Enabled
    <3>2. QED
      BY <1>1, <3>1 DEF Run, TypeOK
  <2>4. FindsWhatWasTicked'
    BY <1>1, <2>2 DEF Run, FindsWhatWasTicked, Request
  <2>5. StyleIsStored'
    BY <1>1 DEF Run, StyleIsStored, Stored
  <2>6. QED
    BY <2>3, <2>4, <2>5
<1>2. CASE RunAnswers
  <2>1. PICK found \in SUBSET (IF run.req.tags = {} THEN Class
                                                  ELSE run.req.tags) :
           result' = found
    BY <1>2 DEF RunAnswers
  <2>2. run # None /\ wanted' = run.ticked /\ run' = None
    BY <1>2 DEF RunAnswers
  <2>3. found \subseteq Class
    BY <2>1, <2>2 DEF TypeOK
  <2>4. TypeOK'
    BY <1>2, <2>1, <2>2, <2>3 DEF RunAnswers, TypeOK
  <2>5. FindsWhatWasTicked'
    BY <2>1, <2>2 DEF FindsWhatWasTicked
  <2>6. StyleIsStored'
    BY <1>2 DEF RunAnswers, StyleIsStored, Stored
  <2>7. QED
    BY <2>4, <2>5, <2>6
<1>3. CASE RunFails
  BY <1>3
     DEF RunFails, TypeOK, StyleIsStored, FindsWhatWasTicked, Stored
<1>4. QED
  BY <1>1, <1>2, <1>3

LEMMA NextInv == Inv /\ [Next]_vars => Inv'
<1> SUFFICES ASSUME Inv, [Next]_vars PROVE Inv'
  OBVIOUS
<1>1. CASE UNCHANGED vars
  BY <1>1
     DEF vars, Inv, TypeOK, StyleIsStored, FindsWhatWasTicked, Stored
<1>2. QED
  BY <1>1, ChooseInv, EditInv, VisitInv, RunInv DEF Next

LEMMA PageInvariant == Spec => []Inv
<1>1. QED
  BY InitInv, NextInv, PTL DEF Spec

------------------------------------------------------------------------------
(* The theorems *)

THEOREM PageTyped == Spec => []TypeOK
<1>1. Inv => TypeOK
  BY DEF Inv
<1>2. QED
  BY <1>1, PageInvariant, PTL

\* Scenes chosen by date come in the order of the dates asked for, in every
\* catalog (nearestScene in report.ts, the memo in detection/page.tsx).
THEOREM ScenesInOrder == Spec => []DatesKeepOrder
<1>1. Inv => DatesKeepOrder
  BY OrderKept DEF Inv
<1>2. QED
  BY <1>1, PageInvariant, PTL

\* The bars of a report add up to its totals while the classes ticked for the
\* run still are (shown and exportPdf in detection/page.tsx).
THEOREM ReportsAddUp == Spec => []ReportAddsUp
<1>1. Inv => ReportAddsUp
  BY DEF Inv, FindsWhatWasTicked, ReportAddsUp, Report, Shown
<1>2. QED
  BY <1>1, PageInvariant, PTL

\* The page reopens in the style it was left in, unless another tab wrote its
\* own (useClassStyle in ClassStyleControl.tsx).
THEOREM StyleSurvives == Spec => ReopenedAsLeft
<1>1. ASSUME Inv, [Next]_vars
      PROVE  [~open /\ open' /\ left # None => style' = left]_vars
  <2> SUFFICES ASSUME Next, ~open, open', left # None PROVE style' = left
    BY <1>1
  <2>1. Open
    BY DEF Next, Leave, ScenesArrive, OtherTabEdits, Choose, SetMode, SetScene,
           SetDate, SetMaxCloud, SetAlgorithm, SetModel, Touched, EditStyle,
           Run, RunAnswers, RunFails
  <2>2. left = Stored
    BY <1>1 DEF Inv, StyleIsStored
  <2>3. QED
    BY <2>1, <2>2 DEF Open, Stored
<1>2. QED
  BY <1>1, PageInvariant, PTL DEF Spec, ReopenedAsLeft

------------------------------------------------------------------------------
(* The maps of the page *)

\* The map mounted is the one the page asks for; one that has been rendered
\* since it loaded is there, has loaded and shows what the page shows.
MapsInv ==
    /\ kind = Kind
    /\ rendered => kind # "none" /\ "after" \in loaded
    /\ MapFollowsPage

LEMMA MapInitInv == MapInit => MapsInv
  BY DEF Init, MapInit, MapsInv, Kind, Touched, MapFollowsPage

\* A behaviour keeps to its tour.
LEMMA SameTour == Next => tour' = tour
<1>1. Choose => tour' = tour
  BY DEF Choose, SetMode, SetScene, SetDate, SetMaxCloud, SetAlgorithm,
         SetModel, Pick
<1>2. EditStyle => tour' = tour
  BY DEF EditStyle, Persist
<1>3. QED
  BY <1>1, <1>2 DEF Next, Open, Leave, ScenesArrive, OtherTabEdits, Run,
                    RunAnswers, RunFails

\* What is shown depends on nothing but what the page is rendered from.
LEMMA SamePage ==
  ASSUME UNCHANGED pageVars, tour' = tour
  PROVE  Kind' = Kind /\ Shown' = Shown /\ After' = After
<1>1. Shown' = Shown
  BY DEF pageVars, Shown, Enabled
<1>2. After' = After /\ Before' = Before
  BY DEF pageVars, After, Before, NearestScene, IsNearest, Candidates, Named
<1>3. QED
  BY <1>1, <1>2 DEF pageVars, Kind, Touched

\* The effects of one rendering draw what is shown.
LEMMA RedrawInv == ASSUME MapsInv, Redraw PROVE MapsInv'
<1>1. kind' = Kind' /\ (rendered' => kind' # "none" /\ "after" \in loaded')
  BY DEF Redraw
<1>2. ASSUME "after" \in loaded PROVE overlay' = Shown'
  BY <1>2 DEF Redraw, Overlaid
<1>3. ASSUME "after" \in loaded, kind = "view" PROVE raster'["after"] = After'
  BY <1>3 DEF Redraw, Side, Scenes
<1>4. MapFollowsPage'
  BY <1>2, <1>3 DEF Redraw, MapFollowsPage
<1>5. QED
  BY <1>1, <1>4 DEF MapsInv

LEMMA StepInv == ASSUME MapsInv, Step PROVE MapsInv'
<1>1. CASE Remount
  BY <1>1 DEF Remount, MapsInv, MapFollowsPage
<1>2. CASE Redraw
  BY <1>2, RedrawInv
<1>3. CASE Stay
  BY <1>3 DEF Stay, mapVars, MapsInv, MapFollowsPage
<1>4. CASE UNCHANGED pageVars /\ UNCHANGED mapVars
  BY <1>4, SameTour, SamePage DEF Step, mapVars, MapsInv, MapFollowsPage
<1>5. QED
  BY <1>1, <1>2, <1>3, <1>4 DEF Step

\* A map that loads has not been rendered since.
LEMMA LoadInv == ASSUME MapsInv, NEW s \in Side, MapLoads(s) PROVE MapsInv'
<1>1. UNCHANGED <<vars, kind, rendered>>
  BY DEF MapLoads
<1>2. Kind' = Kind /\ Shown' = Shown /\ After' = After
  BY <1>1, SamePage DEF vars, pageVars
<1>3. CASE s = "after"
  BY <1>1, <1>2, <1>3 DEF MapLoads, MapsInv, MapFollowsPage
<1>4. CASE s = "before"
  BY <1>1, <1>2, <1>4 DEF MapLoads, MapsInv, MapFollowsPage
<1>5. QED
  BY <1>3, <1>4 DEF Side

LEMMA MapNextInv == MapsInv /\ [MapNext]_allVars => MapsInv'
<1> SUFFICES ASSUME MapsInv, [MapNext]_allVars PROVE MapsInv'
  OBVIOUS
<1>1. CASE UNCHANGED allVars
  <2>1. Kind' = Kind /\ Shown' = Shown /\ After' = After
    BY <1>1, SamePage DEF allVars, vars, pageVars
  <2>2. QED
    BY <1>1, <2>1 DEF allVars, mapVars, MapsInv, MapFollowsPage
<1>2. CASE MapNext
  BY <1>2, StepInv, LoadInv, RedrawInv DEF MapNext, Rerender
<1>3. QED
  BY <1>1, <1>2

------------------------------------------------------------------------------
(* The theorems about the maps *)

\* Once the page has been rendered after its map had loaded, the map shows the
\* classes and, if single, the scene of the page (MapView.tsx, SwipeMap.tsx).
THEOREM MapsFollow == MapSpec => []MapFollowsPage
<1>1. MapsInv => MapFollowsPage
  BY DEF MapsInv
<1>2. QED
  BY MapInitInv, MapNextInv, <1>1, PTL DEF MapSpec

\* The page with its maps does what the page does: what is proved of Spec holds
\* of MapSpec, and the maps never disturb the page.
THEOREM MapsLeaveThePage == MapSpec => Spec
<1>1. [MapNext]_allVars => [Next]_vars
  BY DEF MapNext, Step, Rerender, MapLoads, allVars
<1>2. MapInit => Init
  BY DEF MapInit
<1>3. QED
  BY <1>1, <1>2, PTL DEF MapSpec, Spec

=============================================================================
