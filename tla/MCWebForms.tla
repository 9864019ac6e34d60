----------------------------- MODULE MCWebForms -----------------------------
(* Two texts, and three points: enough for a rectangle, a degenerate one   *)
(* and polygons.                                                           *)
EXTENDS WebForms

Corners == {<<0, 0>>, <<1, 1>>, <<0, 1>>}
=============================================================================
