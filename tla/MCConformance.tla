---------------------------- MODULE MCConformance -----------------------------
(***************************************************************************)
(* ConformanceRun over all manifests of a few lines. TLC evaluates these   *)
(* assumptions in the runs of the modules that extend this one.            *)
(***************************************************************************)
EXTENDS Naturals, Sequences, FiniteSets, FiniteSetsExt, SequencesExt

Runner == INSTANCE ConformanceRun WITH LevelCapacity <- 2, CaseCapacity <- 2, StepCapacity <- 2

ProfileOf(required, optional, unsupported) ==
  << [key |-> "runtime", levels |-> <<>>],
     [key |-> "required_levels", levels |-> required],
     [key |-> "optional_levels", levels |-> optional],
     [key |-> "unsupported_levels", levels |-> unsupported] >>

\* One profile in which a level is twice, and one whose list is too long.
Profiles ==
  { ProfileOf(<<"a">>, <<>>, <<"b">>), ProfileOf(<<>>, <<"a">>, <<"b">>),
    ProfileOf(<<>>, <<>>, <<"a", "b">>), ProfileOf(<<"a">>, <<>>, <<>>),
    ProfileOf(<<"a">>, <<"a">>, <<>>), ProfileOf(<<>>, <<>>, <<"a", "b", "c">>) }

Line(kind, name) == [kind |-> kind, name |-> name]

\* What a manifest begins with, and up to four lines of it;
\* and those with two levels of one case each.
Manifests ==
  {<<Line("levels", "")>> \o m :
     m \in SeqOf({Line("top", ""), Line("level", "a"), Line("level", "b"),
                  Line("required_cases", ""), Line("item", "x"), Line("item", "y")}, 4)}
  \cup { <<Line("levels", ""), Line("level", l), Line("required_cases", ""), Line("item", "x"),
           Line("level", k), Line("required_cases", ""), Line("item", i)>> :
         l \in {"a", "b"}, k \in {"a", "b"}, i \in {"x", "y"} }

Complete(id) == <<Line("id", id), Line("steps", ""), Line("step", "s")>>

CaseFiles ==
  [x : {Complete("x"), <<>>, Complete("x") \o <<Line("refers", "t"), Line("step", "t")>>},
   y : {Complete("y")}]

\* The level that a line of the manifest is of, and whether it stands behind
\* a required_cases of that level.
Before(m, i, kinds) == {j \in 1..(i - 1) : m[j].kind \in kinds}
InLevels(m, i) ==
  LET heads == Before(m, i, {"levels", "top"})
  IN heads # {} /\ m[Max(heads)].kind = "levels"
LevelLines(m, i) == {j \in Before(m, i, {"level"}) : InLevels(m, j)}
Selected(m, i) ==
  /\ m[i].kind = "item"
  /\ \E j \in Before(m, i, {"required_cases"}) : \A k \in LevelLines(m, i) : k < j
LevelOf(m, i) == IF LevelLines(m, i) = {} THEN "" ELSE m[Max(LevelLines(m, i))].name

RequirementsOf(m, p, id) ==
  {Runner!Requirement(p, LevelOf(m, i)) : i \in {j \in DOMAIN m : Selected(m, j) /\ m[j].name = id}}

\* Whatever the order of levels and cases, each case that is listed is in the
\* table once, with the strongest of the requirements of its levels.
ASSUME StrongestRequirementCounts ==
  \A p \in Profiles : \A m \in Manifests :
    Runner!ManifestAccepted(m, p) =>
      LET cases == Runner!Loaded(m, p).cases
          listed == {m[i].name : i \in {j \in DOMAIN m : Selected(m, j)}}
      IN /\ Len(cases) = Cardinality(listed)
         /\ \A id \in listed :
              [id |-> id, requirement |-> Min(RequirementsOf(m, p, id))] \in ToSet(cases)

\* README.md:103: "Required failures exit nonzero." As no case is executed, a
\* run ends with success only if nothing that is listed is required, unless it
\* is told to allow that. A case outside of all levels is skipped, and the only
\* one to be.
ASSUME SuccessMeansNothingRequired ==
  \A p \in Profiles : \A m \in Manifests, files \in CaseFiles, strict \in BOOLEAN :
    Runner!ExitCode(m, p, files, FALSE, strict) = 0 =>
      LET report == Runner!Report(m, p, files)
      IN /\ \A i \in DOMAIN m :
              Selected(m, i) => LevelOf(m, i) \notin Runner!ListedIn(p, "required_levels")
         /\ \A i \in DOMAIN report :
              report[i].status = "skipped" <=>
                \A j \in DOMAIN m : Selected(m, j) /\ m[j].name = report[i].id => LevelOf(m, j) = ""

\* A step may only refer to one before it, and to one of those recorded.
ASSUME ReferencesGoBack ==
  LET step(n) == Line("step", n)
      refers(n) == Line("refers", n)
  IN /\ Runner!GraphValid(<<step("a"), step("b"), refers("a"), refers("b")>>)
     /\ ~Runner!GraphValid(<<refers("a"), step("a")>>)
     /\ ~Runner!GraphValid(<<step("a"), step("b"), step("c"), refers("c")>>)
=============================================================================
