----------------------------- MODULE MCMediaHost -----------------------------
(* MediaHost for TLC: two sources, of which the long one is cut to the     *)
(* other.                                                                  *)
EXTENDS MediaHost

MCSources == {"camera", "camera and more"}
MCCutSource == [s \in MCSources |-> "camera"]
MCNames == {MediaName(k, s) : k \in Kinds, s \in MCSources}
MCStoredName == [n \in MCNames |-> MediaName(n.kind, MCCutSource[n.source])]

MCOpenRequests ==
  {[type |-> "open", kind |-> r[1], source |-> r[2], supported |-> r[3]] :
     r \in {<<"video", "camera", TRUE>>, <<"video", "camera and more", TRUE>>,
           <<"audio", "camera", TRUE>>, <<"audio", "camera", FALSE>>}}

\* Besides the first id of either kind: one of the other kind, and a missing one.
MCCloseRequests ==
  {[type |-> "close", kind |-> r[1], id |-> r[2]] :
     r \in {<<"video", VideoBase>>, <<"audio", VideoBase>>, <<"audio", AudioBase>>,
           <<"video", 0>>}}
=============================================================================
