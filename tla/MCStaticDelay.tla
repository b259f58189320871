--------------------------- MODULE MCStaticDelay ---------------------------
(* Values for StaticDelay that a configuration file cannot spell.            *)
EXTENDS StaticDelay

\* The local clock is set back or forth by one unit.
OneUnit == {-1, 1}
=============================================================================
