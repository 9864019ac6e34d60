---------------------------- MODULE DetectionMap ----------------------------
(***************************************************************************)
(* The detection page with its map.  With two scenes chosen the page shows *)
(* a pair of maps under a divider (SwipeMap), else a single one (MapView). *)
(* A map draws in its own time: what is to be drawn when it has loaded was *)
(* fixed when it was mounted, and what changes later is drawn by effects   *)
(* that run with each rendering of the page: after each of its steps that  *)
(* change it, and when a query it observes is answered.  maplibre-gl is    *)
(* external, modelled by the calls the code makes.                         *)
(***************************************************************************)
EXTENDS DetectionPage

VARIABLES
    kind,     \* the map mounted: "none", "view" or "swipe"
    mounted,  \* the scenes and the classes it was mounted with
    loaded,   \* those of its maps, "before" and "after", that have loaded
    raster,   \* the scene each map draws, or None
    overlay,  \* the classes the map "after" draws
    rendered  \* history: the page was rendered since "after" has loaded

mapVars == <<kind, mounted, loaded, raster, overlay, rendered>>

Side == {"before", "after"}

\* A tour that does not name the map leaves it out.
Kind == IF ~Touched("map") THEN "none"
        ELSE IF Before # None /\ After # None THEN "swipe" ELSE "view"

\* The single map draws the later scene only.
Scenes == [before |-> IF Kind = "swipe" THEN Before ELSE None, after |-> After]

MapTypeOK ==
    /\ kind = Kind
    /\ loaded \subseteq (IF kind = "swipe" THEN Side
                         ELSE IF kind = "view" THEN {"after"} ELSE {})
    /\ raster \in [Side -> Scene \cup {None}]
    /\ overlay \subseteq Class
    /\ rendered => "after" \in loaded

Blank == [s \in Side |-> None]

MapInit ==
    /\ Init
    /\ kind = "none" /\ loaded = {} /\ raster = Blank /\ overlay = {}
    /\ mounted = [scenes |-> Blank, shown |-> {}]
    /\ rendered = FALSE

\* The page comes to show another map, or none: the old one is removed.
Remount ==
    /\ Kind' # kind
    /\ kind' = Kind'
    /\ mounted' = [scenes |-> Scenes', shown |-> Shown']
    /\ loaded' = {} /\ raster' = Blank /\ overlay' = {}
    /\ rendered' = FALSE

\* Faulty variant: the effect depends on the result alone.
Overlaid_ResultOnly ==
    IF "after" \in loaded /\ result' # result THEN Shown' ELSE overlay

\* setData on the overlay, if it exists.
Overlaid == IF "after" \in loaded THEN Shown' ELSE overlay

\* The effects after a rendering with the same map.  SwipeMap skips a raster
\* while its style is not loaded, tiles under way included; MapView does not.
Redraw ==
    /\ Kind' = kind
    /\ kind # "none"
    /\ \E idle \in SUBSET Side :
          /\ kind = "view" => idle = Side
          /\ raster' = [s \in Side |->
                           IF s \in loaded \cap idle THEN Scenes'[s] ELSE raster[s]]
    /\ overlay' = Overlaid
    /\ rendered' = ("after" \in loaded)
    /\ UNCHANGED <<kind, mounted, loaded>>

Stay == Kind' = "none" /\ kind = "none" /\ UNCHANGED mapVars

\* A map has loaded: it draws what the page showed when it was mounted.
MapLoads(s) ==
    /\ s \in (IF kind = "swipe" THEN Side ELSE {"after"}) \ loaded
    /\ kind # "none"
    /\ loaded' = loaded \cup {s}
    /\ raster' = [raster EXCEPT ![s] = mounted.scenes[s]]
    /\ overlay' = IF s = "after" THEN mounted.shown ELSE overlay
    /\ UNCHANGED <<vars, kind, mounted, rendered>>

\* What the page is rendered from.  Another tab's edits are not among it.
pageVars == <<open, items, pick, algorithm, modelOf, style, run, result>>

Step ==
    /\ Next
    /\ \/ pageVars' # pageVars /\ (Remount \/ Redraw \/ Stay)
       \/ UNCHANGED pageVars /\ UNCHANGED mapVars

\* The list of models or the compliance arrives, or a style is reset to itself.
Rerender == UNCHANGED vars /\ Redraw

MapNext ==
    \/ Step
    \/ Rerender
    \/ \E s \in Side : MapLoads(s)

allVars == <<vars, mapVars>>

MapSpec == MapInit /\ [][MapNext]_allVars

\* The map draws the classes the page shows, and a single map the later scene
\* too, as soon as the page has been rendered after the map had loaded: through
\* changes of the scenes, that swap one map for the other, visits and results.
\* Until then, or when SwipeMap has skipped a raster, it may draw old ones.
MapFollowsPage ==
    rendered => /\ overlay = Shown
                /\ kind = "view" => raster["after"] = After

=============================================================================
