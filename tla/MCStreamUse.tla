----------------------------- MODULE MCStreamUse -----------------------------
(* StreamUse for TLC: names of which the long one is cut to a short one.   *)
EXTENDS StreamUse

MCNames == {"camera", "screen", "camera and more", "no kind"}
MCKindless == {"no kind"}
MCStoredName == [n \in MCNames |-> IF n = "camera and more" THEN "camera" ELSE n]
=============================================================================
