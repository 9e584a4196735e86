----------------------------- MODULE MCPricePin -----------------------------
(* Instances of PricePin: prices are numbers small enough to be counted. *)
EXTENDS PricePin, TLC

CONSTANT shirt

\* The full ladder; two steps (no discount price); a dearer list.
ThreeSteps == {<<5, 4, 3>>}
Catalogue == {<<5, 4, 3>>, <<6, None, 4>>}
=============================================================================
