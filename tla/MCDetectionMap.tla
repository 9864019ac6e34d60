--------------------------- MODULE MCDetectionMap ---------------------------
(* Three scenes of which two are as far from a date between them, one      *)
(* without a date and a cloudy one; three classes in two categories.       *)
EXTENDS DetectionMap, TLC

CONSTANTS s1, s2, s3, s4

FourScenes == {s1, s2, s3, s4}
Whens == (s1 :> 1) @@ (s2 :> 3) @@ (s3 :> 4) @@ (s4 :> None)
Clouds == (s1 :> 20) @@ (s2 :> None) @@ (s3 :> 60) @@ (s4 :> 0)
Categories == {{"excavation", "urban_growth"}, {"water_change"}}
Constructions == {"excavation", "urban_growth"}
Palette == [c \in UNION Categories |-> "own"]

T(touches, catalogs) == [touches |-> touches, catalogs |-> catalogs]

Tours ==
    {T({"mode", "scene", "date", "cloud", "pages"},
       {<<s1, s2, s3>>, <<s3, s2, s1>>, <<s4, s1>>}),
     T({"scene", "classes", "categories", "run"}, {<<s1, s2>>}),
     T({"scene", "pages", "map"}, {<<s1, s2>>, <<s2>>}),
     T({"scene", "categories", "run", "map"}, {<<s1>>}),
     T({"scene", "models", "settings", "run", "pages"}, {<<s1, s2>>, <<s2>>}),
     T({"classes", "categories", "colours", "pages"}, {<<s1>>})}
=============================================================================
