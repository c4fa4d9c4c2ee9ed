---------------------------- MODULE VersionFiles -----------------------------
(***************************************************************************)
(* The version metadata of a checkout (devtools/scripts/axtp-versioning.mjs *)
(* and the shell scripts that call it): a generator run writes two headers, *)
(* then the manifest, then one constant file per target; a check compares  *)
(* what it finds with the sources of the versions.                         *)
(*                                                                         *)
(* People edit the sources, a run stops between two writes or inside one,  *)
(* and a check reads while a run is writing.                               *)
(***************************************************************************)
EXTENDS Naturals, Sequences

CONSTANTS
  Runtime,      \* the repository the scripts run in
  Locks,        \* what AXTP_SPEC.lock.yaml may hold
  VersionTexts, \* what VERSION may hold, and what --tag-version may be
  BuildVersion, \* the version of the build file, read when VERSION is missing
  ToolVersions, \* the generator's package.json
  Checkouts,    \* contents of the specification at AXTP_SPEC_PATH
  Stamps,       \* the time of the n-th run as text, or the pinned AXTP_GENERATED_AT
  None,         \* a file, a value or an option that is not there
  Torn,         \* a file cut off in the middle of a write
  MaxEdits, MaxFailures

Runtimes ==
  {"axtp-c-runtime", "axtp-cpp-runtime", "axtp-flutter-runtime", "axtp-ts-runtime",
   "axtp-python-runtime", "axtp-mock-server"}

ASSUME VersionAssumption ==
  /\ Runtime \in Runtimes
  /\ Stamps \in Seq(Seq(STRING))
  /\ MaxEdits \in Nat /\ MaxFailures \in Nat

(* A text is a sequence of its characters; a version is the sequence of    *)
(* its numbers, which have one digit each here.                            *)
Within(a, b) == \E i \in 0 .. (Len(b) - Len(a)) : SubSeq(b, i + 1, i + Len(a)) = a

TagPrefix == <<"spec/v">>

(* Releases are X.Y.Z or X.Y.Z.R.                                          *)
IsRelease(v) == Len(v) \in {3, 4}
SpecOf(v) == SubSeq(v, 1, 3)

(* Which files carry the constants: constantTargets. An unknown runtime    *)
(* has none, and every command that needs them fails.                      *)
Targets ==
  CASE Runtime = "axtp-c-runtime"       -> <<"c">>
    [] Runtime = "axtp-cpp-runtime"     -> <<"cpp">>
    [] Runtime = "axtp-flutter-runtime" -> <<"dart">>
    [] Runtime = "axtp-ts-runtime"      -> <<"ts">>
    [] Runtime = "axtp-python-runtime"  -> <<"python">>
    [] Runtime = "axtp-mock-server"     -> <<"ts", "cpp">>

TargetSet == {Targets[i] : i \in 1 .. Len(Targets)}

Headers == {"ids", "registry"}
Outputs == Headers \cup {"manifest"} \cup TargetSet

(* The steps of one run, in the order of the scripts.                      *)
RunSteps == <<"ids", "registry", "lock", "inputs", "manifest">> \o Targets

VARIABLES
  sources,  \* lock, version, tool and checkout, as people edit them
  files,    \* what the files of Outputs hold
  run,      \* the generator run: the steps it has left and what it has read
  check,    \* the last check, with what it has read
  notes,    \* the release notes
  dirty,    \* a source was edited, or a run failed, since the last run began
  edits, failures, runs

versionVars == <<sources, files, run, check, notes, dirty, edits, failures, runs>>

-----------------------------------------------------------------------------
(* Reading the sources.                                                    *)

(* readSpecLock refuses a lock with a field missing or another repository. *)
LockReadable(l) == l # None

(* readRuntimeVersion: VERSION wherever it exists. Two runtimes have       *)
(* nothing else to read.                                                   *)
RuntimeVersion(v) ==
  IF v # None THEN v
  ELSE IF Runtime \in {"axtp-cpp-runtime", "axtp-mock-server"} THEN None
  ELSE BuildVersion

Readable(f) == f \notin {None, Torn}

(* The values of the manifest that the constants repeat: versionFields.    *)
FieldNames ==
  {"runtimeVersion", "specVersion", "specTag", "specCommit", "generatorVersion", "generatedAt"}

Fields(m) == [f \in FieldNames |-> m[f]]

(* A rendered constant file contains each field once, and the check asks   *)
(* only whether the text has a value somewhere.                            *)
RenderConstant(m) == Fields(m)
Shows(file, value) == \E f \in FieldNames : Within(value, file[f])

(* Mutant: the runtime version is only rendered, never compared.           *)
AgreesButForTheRuntime(m, s) ==
  /\ m.generatorVersion = s.tool
  /\ m.specTag = s.lock.tag
  /\ m.specVersion = s.lock.version
  /\ m.specCommit = s.lock.commit

(* The comparisons of checkVersionMetadata before the constants.           *)
AgreesWithSources(m, s) ==
  /\ m.runtimeVersion = RuntimeVersion(s.version)
  /\ m.generatorVersion = s.tool
  /\ m.specTag = s.lock.tag
  /\ m.specVersion = s.lock.version
  /\ m.specCommit = s.lock.commit

(* --tag-version: the option missing is None, without a value it is the    *)
(* text "true", which is no release version either (parseArgs).            *)
TagArguments == VersionTexts \cup {None, <<"true">>}

(* Mutant: a tag is compared with the specification alone.                 *)
TagMatchesTheSpec(tag, s) ==
  /\ s.lock.tag # <<"unreleased">>
  /\ IsRelease(tag)
  /\ s.lock.version = SpecOf(tag)
  /\ s.lock.tag = TagPrefix \o SpecOf(tag)

TagMatches(tag, s) ==
  /\ s.lock.tag # <<"unreleased">>
  /\ IsRelease(tag)
  /\ RuntimeVersion(s.version) = tag
  /\ s.lock.version = SpecOf(tag)
  /\ s.lock.tag = TagPrefix \o SpecOf(tag)

-----------------------------------------------------------------------------
(* What the sources may say, apart from the time of a run.                 *)
Texts ==
  VersionTexts \cup {BuildVersion} \cup ToolVersions
    \cup UNION {{l.tag, l.version, l.commit} : l \in Locks}

(* A time of generation stands for one run and is never part of a version, *)
(* a tag or a commit. It is the one thing by which a check can tell which  *)
(* run wrote a file, and a pinned AXTP_GENERATED_AT takes it away.         *)
StampsTellRunsApart ==
  \A i \in 1 .. Len(Stamps) :
    /\ \A j \in 1 .. Len(Stamps) : Within(Stamps[i], Stamps[j]) => i = j
    /\ \A t \in Texts : ~Within(Stamps[i], t)

-----------------------------------------------------------------------------
Idle == run.todo = <<>>

NoRun == [todo |-> <<>>, spec |-> None, m |-> None]

NoCheck == [result |-> "none", todo |-> <<>>, m |-> None, seen |-> <<>>,
            release |-> FALSE, tag |-> None, quiet |-> FALSE]

FailedCheck == [NoCheck EXCEPT !.result = "failed"]

VersionInit ==
  /\ sources \in [lock : Locks, version : VersionTexts \cup {None}, tool : ToolVersions,
                  checkout : Checkouts]
  /\ files = [f \in Outputs |-> None]
  /\ run = NoRun
  /\ check = NoCheck
  /\ notes = None
  /\ dirty = TRUE
  /\ edits = 0 /\ failures = 0 /\ runs = 0

(* A check that is under way, or over, no longer describes the files.      *)
Disturb == check' = [check EXCEPT !.quiet = FALSE]

(* Upgrading the lock (a rename, so never torn), setting the version,      *)
(* bumping the generator and switching the checkout are separate acts.     *)
Edit(f, v) ==
  /\ edits < MaxEdits
  /\ sources[f] # v
  /\ sources' = [sources EXCEPT ![f] = v]
  /\ edits' = edits + 1
  /\ dirty' = TRUE
  /\ Disturb
  /\ UNCHANGED <<files, run, notes, failures, runs>>

EditSources ==
  \/ \E l \in Locks \cup {None} : Edit("lock", l)
  \/ \E v \in VersionTexts \cup {None} : Edit("version", v)
  \/ \E v \in ToolVersions : Edit("tool", v)
  \/ \E c \in Checkouts : Edit("checkout", c)

-----------------------------------------------------------------------------
(* The generator run.                                                      *)

(* generate-axtp-artifacts.sh loads the specification once.                *)
StartRun ==
  /\ Idle /\ dirty
  /\ runs < Len(Stamps)
  /\ run' = [todo |-> RunSteps, spec |-> sources.checkout, m |-> None]
  /\ runs' = runs + 1
  /\ dirty' = FALSE
  /\ Disturb
  /\ UNCHANGED <<sources, files, notes, edits, failures>>

Advance(m) == run' = [run EXCEPT !.todo = Tail(run.todo), !.m = m]
StopRun == run' = NoRun

AtStep(steps) == ~Idle /\ Head(run.todo) \in steps

WriteFile(content) ==
  /\ files' = [files EXCEPT ![Head(run.todo)] = content]
  /\ Advance(run.m)
  /\ Disturb
  /\ UNCHANGED <<sources, notes, dirty, edits, failures, runs>>

WriteHeader == AtStep(Headers) /\ WriteFile(run.spec)

(* readSpecLock and readGeneratorMetadata, and the time of the run.        *)
ReadLock ==
  /\ AtStep({"lock"})
  /\ IF LockReadable(sources.lock)
     THEN Advance([generatorVersion |-> sources.tool,
                   specTag |-> sources.lock.tag,
                   specVersion |-> sources.lock.version,
                   specCommit |-> sources.lock.commit,
                   generatedAt |-> Stamps[runs]])
     ELSE StopRun
  /\ Disturb
  /\ UNCHANGED <<sources, files, notes, dirty, edits, failures, runs>>

(* The runtime version and the hashes of the inputs.                       *)
ReadInputs ==
  /\ AtStep({"inputs"})
  /\ LET v == RuntimeVersion(sources.version)
     IN IF v = None
        THEN StopRun
        ELSE Advance([f \in FieldNames \cup {"inputs"} |->
                        CASE f = "runtimeVersion" -> v
                          [] f = "inputs" -> sources.checkout
                          [] OTHER -> run.m[f]])
  /\ Disturb
  /\ UNCHANGED <<sources, files, notes, dirty, edits, failures, runs>>

(* Mutant: a constant file that is there already is left alone.            *)
WriteMissingConstant ==
  /\ AtStep(TargetSet)
  /\ WriteFile(LET old == files[Head(run.todo)]
               IN IF old = None THEN RenderConstant(run.m) ELSE old)

WriteManifest == AtStep({"manifest"}) /\ WriteFile(run.m)

WriteConstant == AtStep(TargetSet) /\ WriteFile(RenderConstant(run.m))

(* The run is killed, or a write fails: before the next file, or with that *)
(* file truncated and not yet filled.                                      *)
FailRun ==
  /\ ~Idle /\ failures < MaxFailures
  /\ \/ UNCHANGED files
     \/ AtStep(Outputs) /\ files' = [files EXCEPT ![Head(run.todo)] = Torn]
  /\ StopRun
  /\ failures' = failures + 1
  /\ dirty' = TRUE
  /\ Disturb
  /\ UNCHANGED <<sources, notes, edits, runs>>

-----------------------------------------------------------------------------
(* check and release-check.                                                *)

(* The lock, the manifest, the versions; a failure ends the command.       *)
BeginCheck(release, tag) ==
  LET m == files["manifest"]
      accepted == /\ release => tag # None
                  /\ LockReadable(sources.lock)
                  /\ Readable(m)
                  /\ RuntimeVersion(sources.version) # None
                  /\ release => TagMatches(tag, sources)
                  /\ AgreesWithSources(m, sources)
  IN /\ check.result # "reading"
     /\ check' = IF accepted
                 THEN [NoCheck EXCEPT !.result = "reading", !.todo = Targets, !.m = m,
                                      !.release = release, !.tag = tag, !.quiet = Idle]
                 ELSE FailedCheck
     /\ UNCHANGED <<sources, files, run, notes, dirty, edits, failures, runs>>

Check == BeginCheck(FALSE, None)
ReleaseCheck == \E tag \in TagArguments : BeginCheck(TRUE, tag)

(* Mutant: the time of generation is no version.                           *)
ConstantAcceptedOfAnyTime(file, m) ==
  Readable(file) /\ \A f \in FieldNames \ {"generatedAt"} : Shows(file, m[f])

ConstantAccepted(file, m) ==
  Readable(file) /\ \A f \in FieldNames : Shows(file, m[f])

CheckConstant ==
  LET file == files[Head(check.todo)]
  IN /\ check.result = "reading"
     /\ check' = IF ConstantAccepted(file, check.m)
                 THEN [check EXCEPT
                         !.result = IF Len(check.todo) = 1 THEN "ok" ELSE "reading",
                         !.todo = Tail(check.todo),
                         !.seen = Append(check.seen, file)]
                 ELSE FailedCheck
     /\ UNCHANGED <<sources, files, run, notes, dirty, edits, failures, runs>>

(* release-notes copies the manifest and looks at nothing else. The release *)
(* workflow runs it after a release check that succeeded.                  *)
WriteReleaseNotes ==
  /\ check.result = "ok" /\ check.release
  /\ Readable(files["manifest"])
  /\ notes' = [f \in FieldNames \ {"generatedAt"} |-> files["manifest"][f]]
  /\ UNCHANGED <<sources, files, run, check, dirty, edits, failures, runs>>

-----------------------------------------------------------------------------
RunStep == WriteHeader \/ ReadLock \/ ReadInputs \/ WriteManifest \/ WriteConstant

VersionNext ==
  \/ EditSources
  \/ StartRun \/ RunStep \/ FailRun
  \/ Check \/ ReleaseCheck \/ CheckConstant
  \/ WriteReleaseNotes

VersionSpec == VersionInit /\ [][VersionNext]_versionVars

(* A run that has begun goes on, and people run the generator again after  *)
(* an edit or a failure.                                                   *)
LiveSpec == VersionSpec /\ WF_versionVars(StartRun) /\ WF_versionVars(RunStep)

-----------------------------------------------------------------------------
VersionTypeOK ==
  /\ sources \in [lock : Locks \cup {None}, version : VersionTexts \cup {None},
                  tool : ToolVersions, checkout : Checkouts]
  /\ DOMAIN files = Outputs
  /\ \A f \in Headers : files[f] \in Checkouts \cup {None, Torn}
  /\ check.result \in {"none", "reading", "ok", "failed"}
  /\ check.result = "reading" <=> check.todo # <<>>
  /\ Len(run.todo) <= Len(RunSteps)
  /\ runs <= Len(Stamps) /\ edits <= MaxEdits /\ failures <= MaxFailures

(* What an accepted check has read belongs together: every constant file   *)
(* has, field by field, the value that the manifest has. README.md:158     *)
(* promises it. A run that stopped half way, an edit between two runs and  *)
(* a run that writes while the check reads must not go unnoticed.          *)
ConstantsAreAligned ==
  check.result = "ok" =>
    \A i \in 1 .. Len(Targets) : check.seen[i] = Fields(check.m)

(* A release check that succeeds without anything else going on has seen a *)
(* manifest, constants and a lock that all are of the tag, however they    *)
(* came to be there.                                                       *)
ReleaseIsOfItsTag ==
  check.result = "ok" /\ check.release /\ check.quiet =>
    /\ sources.lock.tag = TagPrefix \o SpecOf(check.tag)
    /\ files["manifest"].specVersion = SpecOf(check.tag)
    /\ \A t \in TargetSet : files[t].runtimeVersion = check.tag
    /\ \A t \in TargetSet : files[t].specTag = sources.lock.tag
    /\ \A t \in TargetSet : files[t].generatorVersion = sources.tool

(* Notes written after a release check, with nothing in between, are those *)
(* of the release.                                                         *)
NotesAreOfTheRelease ==
  [][ notes' # notes /\ check.result = "ok" /\ check.release /\ check.quiet =>
        /\ notes'.runtimeVersion = check.tag
        /\ notes'.specVersion = SpecOf(check.tag) ]_versionVars

(* All files come from one run over the sources as they are.               *)
Aligned ==
  /\ \A h \in Headers : files[h] = sources.checkout
  /\ Readable(files["manifest"])
  /\ AgreesWithSources(files["manifest"], sources)
  /\ files["manifest"].inputs = sources.checkout
  /\ \A t \in TargetSet : files[t] = Fields(files["manifest"])

(* Once people stop editing and runs stop failing, the files settle on the *)
(* sources, if the sources can be read at all.                             *)
SettlesOnSources ==
  <>[](LockReadable(sources.lock) /\ RuntimeVersion(sources.version) # None => Aligned)
==============================================================================
