--------------------------- MODULE MCMethodRegistry ----------------------------
EXTENDS MethodRegistry, MCConformance

Rows == Ids \X Names

(* The registries that validate accepts: no id and no name twice.          *)
MCRegistries ==
  {r \in UNION {[1 .. n -> Rows] : n \in 0 .. 3} :
     \A i, j \in DOMAIN r : i # j => r[i][1] # r[j][1] /\ r[i][2] # r[j][2]}
================================================================================
