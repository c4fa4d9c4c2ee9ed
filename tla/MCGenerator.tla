------------------------------ MODULE MCGenerator ------------------------------
EXTENDS Generator

(* Every command as it is, and the one for the old layout, which writes   *)
(* everything below one directory.                                        *)
Staging == <<"staging">>

MCCommands ==
  CommandNames \X {None} \cup {<<"generate-registry", Staging>>}

(* The first state is fit for everything, later ones for anything.         *)
MCQualities == {q \in [Versions -> {"unfit", "registry", "protocol"}] : q[0] = "protocol"}
MCDocuments == {d \in [Versions -> BOOLEAN] : d[0]}

ProtocolFileCommands == {"generate", "emit-protocol"} \X {None}
================================================================================
