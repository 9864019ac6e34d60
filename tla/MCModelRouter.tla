--------------------------- MODULE MCModelRouter ----------------------------
(* Instances of ModelRouter for TLC: a part of the registry with a backend   *)
(* of every kind (always there, gated, cloud, universal, stub) and classes   *)
(* of every kind (in both modes of the heuristic, in one, in none).          *)
EXTENDS ModelRouter, TLC

Backends == {"heuristic", "veg_index", "deepforest_tree", "changeformer",
             "dlinknet_road", "dynamic_world"}

AllTags == {"urban_growth", "new_construction", "vegetation_loss", "bare_soil", "road"}

DeclaredTags ==
    [b \in Backends |->
       CASE b = "heuristic" -> AllTags \ {"road"}
         [] b \in {"veg_index", "deepforest_tree"} -> {"vegetation_loss"}
         [] b = "changeformer" -> {"change"}
         [] b = "dlinknet_road" -> {"road"}
         [] b = "dynamic_world" -> {}]

Tiers ==
    [b \in Backends |->
       CASE b \in {"heuristic", "veg_index"} -> "index"
         [] b = "deepforest_tree" -> "cpu"
         [] b \in {"changeformer", "dlinknet_road"} -> "gpu"
         [] b = "dynamic_world" -> "cloud"]

Ranks ==
    [b \in Backends |->
       CASE b = "heuristic" -> 30
         [] b = "veg_index" -> 40
         [] b = "deepforest_tree" -> 20
         [] b = "changeformer" -> 90
         [] b = "dlinknet_road" -> 75
         [] b = "dynamic_world" -> 80]

\* At most one preference, for the first tag or for vegetation.
NoModels == [t \in AllTags |-> Null]

Preferences ==
    {NoModels, [NoModels EXCEPT !["vegetation_loss"] = "deepforest_tree"],
     [NoModels EXCEPT !["vegetation_loss"] = "dynamic_world"],
     [NoModels EXCEPT !["bare_soil"] = "veg_index"]}

TagLists ==
    {<<>>, <<"urban_growth">>, <<"vegetation_loss", "new_construction">>,
     <<"bare_soil", "vegetation_loss">>, <<"road">>,
     <<"bare_soil", "bare_soil">>,
     <<"new_construction", "bare_soil", "vegetation_loss">>}

Requests ==
    [tags : TagLists, models : Preferences, cloud : BOOLEAN, urban : {FALSE}]
      \cup [tags : {<<>>}, models : {NoModels}, cloud : {FALSE}, urban : {TRUE}]
=============================================================================
