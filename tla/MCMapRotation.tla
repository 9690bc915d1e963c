--------------------------- MODULE MCMapRotation ----------------------------
(* Instances of MapRotation for the model checker. *)
EXTENDS MapRotation

CONSTANTS a, b, c, custom, broken

\* Three maps in the rotation, one from outside and one that cannot be loaded.
MCMaps     == {a, b, c, custom, broken}
MCLoadable == MCMaps \ {broken}
MCRotation == <<a, b, c>>
=============================================================================
