--------------------------- MODULE MCVersionFiles ----------------------------
(* Two releases of the specification, and a revision of the runtime.       *)
EXTENDS VersionFiles

V031 == <<"0", "3", "1">>
V0312 == <<"0", "3", "1", "2">>
V032 == <<"0", "3", "2">>

LockOf(v, c) == [tag |-> TagPrefix \o v, version |-> v, commit |-> <<c>>]

MCLocks == {LockOf(V031, "c1"), LockOf(V032, "c2")}
OneLock == {LockOf(V031, "c1")}
MCVersions == {V031, V0312}
MCBuildVersion == V031
MCToolVersions == {<<"0", "1", "0">>, V031}
OneTool == {<<"0", "1", "0">>}

DistinctStamps == <<<<"t1">>, <<"t2">>, <<"t3">>, <<"t4">>>>
PinnedStamps == <<<<"t1">>, <<"t1">>, <<"t1">>, <<"t1">>>>

(* Distinct stamps meet the hypothesis of the theorems, pinned ones do not. *)
ASSUME OnlyDistinctStampsTellRunsApart ==
  StampsTellRunsApart <=> Stamps = DistinctStamps
==============================================================================
