-------------------------- MODULE MCDetectOnIngest --------------------------
(* Instances of DetectOnIngest for TLC. *)
EXTENDS DetectOnIngest, TLC

CONSTANTS c1, c2, k, x, y, z

\* Two calls that meet on y, which the second gives another date.  The newest
\* scene there is may be cloudy.
Meeting == (c1 :> <<x, k, y>>) @@ (c2 :> <<y, z>>)

TwoDates == (c1 :> (x :> 1 @@ k :> 3 @@ y :> 2 @@ z :> 2))
         @@ (c2 :> (x :> 1 @@ k :> 3 @@ y :> 1 @@ z :> 3))
=============================================================================
