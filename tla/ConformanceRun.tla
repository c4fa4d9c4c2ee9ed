---------------------------- MODULE ConformanceRun ----------------------------
(***************************************************************************)
(* The verdict of the conformance runner                                   *)
(* (devtools/conformance/conformance_runner.c): which cases a profile      *)
(* selects from a manifest, what is reported of them, and how the runner   *)
(* exits. No adapter executes a case yet, so that none ever passes.        *)
(*                                                                         *)
(* A file is the sequence of its lines, each by what it is and the name    *)
(* it has; requirements are ordered as in the code, the strongest first.   *)
(***************************************************************************)
EXTENDS Naturals, Sequences, FiniteSets, SequencesExt

CONSTANTS
  LevelCapacity, \* 16: levels of one list
  CaseCapacity,  \* 128
  StepCapacity   \* 64: steps of one case

Required == 0
Optional == 1
NotSelected == 2
Unsupported == 3

Count(lines, kind) == Cardinality({i \in DOMAIN lines : lines[i].kind = kind})

-----------------------------------------------------------------------------
(* The profile: three lists, each once, no level twice.                    *)

Lists == {"required_levels", "optional_levels", "unsupported_levels"}

ListedIn(profile, key) == UNION {ToSet(e.levels) : e \in {f \in ToSet(profile) : f.key = key}}

ProfileAccepted(profile) ==
  LET levels == FoldLeft(LAMBDA all, e : all \o e.levels, <<>>, profile)
      keys == [i \in DOMAIN profile |-> profile[i].key]
  IN /\ IsInjective(keys)
     /\ Lists \subseteq ToSet(keys) /\ ToSet(keys) \subseteq Lists \cup {"runtime", "spec_min"}
     /\ IsInjective(levels)
     /\ \A i \in DOMAIN profile : Len(profile[i].levels) <= LevelCapacity

Requirement(profile, level) ==
  IF level \in ListedIn(profile, "required_levels") THEN Required
  ELSE IF level \in ListedIn(profile, "optional_levels") THEN Optional
  ELSE IF level \in ListedIn(profile, "unsupported_levels") THEN Unsupported
  ELSE NotSelected

-----------------------------------------------------------------------------
(* The manifest, line by line.                                             *)

Beginning == [ok |-> TRUE, inLevels |-> FALSE, inCases |-> FALSE, level |-> "",
              levels |-> <<>>, cases |-> <<>>]

\* A case that stands under several levels keeps the strongest requirement.
AddCase(s, id, requirement) ==
  LET same == {i \in DOMAIN s.cases : s.cases[i].id = id}
  IN IF same # {}
     THEN LET i == CHOOSE i \in same : TRUE
          IN IF requirement < s.cases[i].requirement
             THEN [s EXCEPT !.cases[i].requirement = requirement] ELSE s
     ELSE IF Len(s.cases) >= CaseCapacity THEN [s EXCEPT !.ok = FALSE]
     ELSE [s EXCEPT !.cases = Append(@, [id |-> id, requirement |-> requirement])]

BeginLevel(s, name, profile) ==
  [s EXCEPT !.level = name, !.inCases = FALSE, !.levels = Append(@, name),
            !.ok = /\ @ /\ name \notin ToSet(s.levels) /\ Len(s.levels) < LevelCapacity
                   /\ Requirement(profile, name) # NotSelected]

\* Other sections than required_cases are not told apart: what they list is
\* taken too when it stands behind one.
TakeLine(s, line, profile) ==
  IF ~s.ok THEN s
  ELSE CASE line.kind = "levels" -> [s EXCEPT !.inLevels = TRUE]
         [] line.kind = "top" -> [s EXCEPT !.inLevels = FALSE]
         [] line.kind = "level" /\ s.inLevels -> BeginLevel(s, line.name, profile)
         [] line.kind = "required_cases" -> [s EXCEPT !.inCases = TRUE]
         [] line.kind = "item" /\ s.inCases ->
              AddCase(s, line.name, Requirement(profile, s.level))
         [] OTHER -> s

Loaded(manifest, profile) ==
  FoldLeft(LAMBDA s, line : TakeLine(s, line, profile), Beginning, manifest)

ManifestAccepted(manifest, profile) ==
  LET s == Loaded(manifest, profile)
  IN /\ s.ok /\ s.cases # <<>>
     /\ \A key \in Lists : ListedIn(profile, key) \subseteq ToSet(s.levels)

-----------------------------------------------------------------------------
(* Cases.                                                                  *)

\* A step may answer or follow an earlier one, if that was recorded.
GraphValid(lines) ==
  \A i \in DOMAIN lines :
    lines[i].kind = "refers" =>
      \E j \in 1..(i - 1) :
        /\ lines[j].kind = "step" /\ lines[j].name = lines[i].name
        /\ Count(SubSeq(lines, 1, j), "step") <= StepCapacity

CaseValid(file, id) ==
  /\ file # <<>>
  /\ \E i \in DOMAIN file : file[i].kind = "id" /\ file[i].name = id
  /\ Count(file, "steps") > 0
  /\ GraphValid(file)

\* A case that is still pending is reported as failed.
Status(case, files) ==
  IF ~CaseValid(files[case.id], case.id) /\ case.requirement # NotSelected THEN "failed"
  ELSE CASE case.requirement = Unsupported -> "unsupported"
         [] case.requirement = NotSelected -> "skipped"
         [] OTHER -> "failed"

Report(manifest, profile, files) ==
  LET cases == Loaded(manifest, profile).cases
  IN [i \in DOMAIN cases |-> [id |-> cases[i].id, requirement |-> cases[i].requirement,
                              status |-> Status(cases[i], files)]]

Issue(report, requirement) ==
  \E i \in DOMAIN report : report[i].requirement = requirement /\ report[i].status # "passed"

ExitCode(manifest, profile, files, allowIncomplete, strictOptional) ==
  IF ~(ProfileAccepted(profile) /\ ManifestAccepted(manifest, profile)) THEN 2
  ELSE LET report == Report(manifest, profile, files)
       IN IF \/ Issue(report, Required) /\ ~allowIncomplete
             \/ Issue(report, Optional) /\ strictOptional
          THEN 1 ELSE 0
=============================================================================
