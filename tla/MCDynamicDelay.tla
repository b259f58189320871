-------------------------- MODULE MCDynamicDelay ---------------------------
(* Values for DynamicDelay that a configuration file cannot spell.            *)
EXTENDS DynamicDelay

\* No pattern, one that rises and one that falls, and two slow ones, where rounding
\* shows: it makes some delays of the last one negative.
Curves == {<< <<>>, 1 >>, << <<0, 2>>, 2 >>, << <<3, 0, 1>>, 1 >>,
           << <<0, 7, 14>>, 23 >>, << <<0, 10, 3, 0>>, 13 >>}

\* --dyn-delays 0 31 --dyn-delay-res 7
Slope31 == {<< <<0, 31>>, 7 >>}
=============================================================================
