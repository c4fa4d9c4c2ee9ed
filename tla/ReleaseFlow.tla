------------------------------ MODULE ReleaseFlow ------------------------------
(***************************************************************************)
(* How releases come about (.github/workflows): a dispatch of a released   *)
(* specification, or a person who wants a revision, starts a workflow that *)
(* opens a pull request; its merge is a push to main; a push starts a run  *)
(* that tags the commit when its version has no tag yet; the push of a tag *)
(* starts a run that releases it. Pushes by the workflows' own token start *)
(* no run, unless a token of their own is set up for them.                 *)
(*                                                                         *)
(* Workflows run beside each other and on what they checked out when they  *)
(* began. Dispatches come late, twice and in any order, events get lost,   *)
(* tests fail, and people commit and tag by hand.                          *)
(*                                                                         *)
(* A version is the pair of a specification and a revision. Of a commit    *)
(* the model keeps what the checks compare; VersionFiles has the files.    *)
(***************************************************************************)
EXTENDS Naturals, Sequences, SequencesExt

CONSTANTS
  Specs,       \* the released specifications, by number
  MaxRevision, \* the greatest revision anybody asks for
  MaxStarts,   \* runs of the upgrade and of the revision workflow
  MaxWork,     \* commits of other work
  MaxMishaps,  \* lost events, runs that fail, and edits and tags by hand
  Tokens,      \* whether AXTP_RUNTIME_AUTOMATION_TOKEN is set: what may be the case
  Nothing      \* a pull request or a tag that is not there

(* Specifications are numbered as they come; main starts from the first.   *)
ASSUME ReleaseAssumption ==
  /\ Specs \subseteq Nat /\ 1 \in Specs
  /\ Tokens \subseteq BOOLEAN
  /\ MaxRevision \in Nat /\ MaxStarts \in Nat /\ MaxWork \in Nat /\ MaxMishaps \in Nat

Versions == Specs \X (0 .. MaxRevision)

(* The pull requests' branches, which carry the version they are for.      *)
Upgrade(spec) == <<"upgrade", <<spec, 0>>>>
Revision(version) == <<"revision", version>>
Branches == {Upgrade(s) : s \in Specs} \cup {Revision(v) : v \in Specs \X (1 .. MaxRevision)}

VARIABLES
  main,     \* the commits of the main branch
  jobs,     \* upgrade and revision runs that have checked out main
  pulls,    \* the open pull request of each branch
  pushes,   \* commits of main whose push event is still to come
  tagRuns,  \* commits whose tagging run found no tag and nothing wrong
  tags,     \* the commit of each runtime tag
  tagPushes, \* versions whose tag was pushed and whose release is still to come
  released, \* the commit that the GitHub release of each version was made from
  unheard,  \* history: tagged versions whose push started no release, or one that failed
  ownToken, \* whether the workflows have a token of their own, a secret
  starts, work, mishaps

counters == <<starts, work, mishaps>>
releases == <<tagPushes, released, unheard, ownToken>>
vars == <<main, jobs, pulls, pushes, tagRuns, tags, releases, counters>>

Files == {"lock", "version", "manifest"}

Manifest(spec, version, stamp) == [lock |-> spec, version |-> version, generatedAt |-> stamp]

(* check-runtime-release.sh: tag, VERSION, lock and manifest agree.        *)
Fits(commit, version) ==
  /\ commit.version = version
  /\ commit.lock = version[1]
  /\ commit.manifest.lock = commit.lock
  /\ commit.manifest.version = commit.version

Init ==
  /\ main = <<[lock |-> 1, version |-> <<1, 0>>, manifest |-> Manifest(1, <<1, 0>>, 0),
               from |-> "work"]>>
  /\ tags = [v \in Versions |-> Nothing]
  /\ jobs = {} /\ pulls = [b \in Branches |-> Nothing]
  /\ pushes = {} /\ tagRuns = {}
  /\ tagPushes = {} /\ released = [v \in Versions |-> Nothing] /\ unheard = {}
  /\ ownToken \in Tokens
  /\ starts = 0 /\ work = 0 /\ mishaps = 0

-----------------------------------------------------------------------------
(* From a dispatch to a pull request.                                      *)

Start(branch) ==
  /\ starts < MaxStarts
  /\ jobs' = jobs \cup {[branch |-> branch, base |-> Len(main), stamp |-> starts + 1]}
  /\ starts' = starts + 1
  /\ UNCHANGED <<main, pulls, pushes, tagRuns, tags, releases, work, mishaps>>

(* The dispatch of any specification, new or not.                          *)
StartUpgrade == \E s \in Specs : Start(Upgrade(s))

(* prepare-runtime-revision.sh: the next revision, or any later one that   *)
(* is asked for, of the specification that both lock and VERSION name.     *)
RevisionTargets(commit) ==
  {v \in Versions : v[1] = commit.lock /\ v[2] > commit.version[2]}

StartRevision ==
  /\ Last(main).version[1] = Last(main).lock
  /\ \E v \in RevisionTargets(Last(main)) : Start(Revision(v))

(* Mutant: the runtime version is left as it was.                          *)
PreparedWithoutVersion(job) ==
  LET spec == job.branch[2][1]
      version == IF job.branch[1] = "upgrade" THEN main[job.base].version ELSE job.branch[2]
  IN [lock |-> spec, version |-> version, manifest |-> Manifest(spec, version, job.stamp),
      from |-> job.branch[1]]

(* The lock, VERSION and a new manifest, over what was checked out.        *)
Prepared(job) ==
  LET spec == job.branch[2][1]
      version == job.branch[2]
  IN [lock |-> spec, version |-> version, manifest |-> Manifest(spec, version, job.stamp),
      from |-> job.branch[1]]

(* A pull request that is open for the branch is replaced. A run that      *)
(* fails stays among the jobs and opens none.                              *)
OpenPull(job) ==
  /\ job \in jobs
  /\ jobs' = jobs \ {job}
  /\ pulls' = [pulls EXCEPT ![job.branch] = [base |-> job.base, head |-> Prepared(job)]]
  /\ UNCHANGED <<main, pushes, tagRuns, tags, releases, counters>>

-----------------------------------------------------------------------------
(* Commits on main.                                                        *)

Mishap == mishaps < MaxMishaps /\ mishaps' = mishaps + 1

Push(commit) ==
  /\ main' = Append(main, commit)
  /\ pushes' = pushes \cup {Len(main) + 1}

(* git merges file by file; the manifest's time makes every two of them    *)
(* differ.                                                                 *)
Conflict(pull) ==
  \E f \in Files :
    /\ pull.head[f] # main[pull.base][f]
    /\ Last(main)[f] # main[pull.base][f]
    /\ pull.head[f] # Last(main)[f]

Squash(pull) ==
  LET Merged(f) == IF pull.head[f] # main[pull.base][f] THEN pull.head[f] ELSE Last(main)[f]
  IN [lock |-> Merged("lock"), version |-> Merged("version"), manifest |-> Merged("manifest"),
      from |-> pull.head.from]

(* By itself for an upgrade, by a person for a revision. The checks have   *)
(* seen the head of the branch, not what the merge makes of it.            *)
MergePull(b) ==
  /\ pulls[b] # Nothing /\ ~Conflict(pulls[b])
  /\ Push(Squash(pulls[b]))
  /\ pulls' = [pulls EXCEPT ![b] = Nothing]
  /\ UNCHANGED <<jobs, tagRuns, tags, releases, counters>>

Work ==
  /\ work < MaxWork
  /\ Push([Last(main) EXCEPT !.from = "work"])
  /\ work' = work + 1
  /\ UNCHANGED <<jobs, pulls, tagRuns, tags, releases, starts, mishaps>>

(* upgrade-axtp-spec.sh or set-runtime-version.sh, committed without what  *)
(* the generator would write.                                              *)
EditByHand ==
  /\ \/ \E s \in Specs : Push([Last(main) EXCEPT !.lock = s, !.from = "hand"])
     \/ \E v \in Versions : Push([Last(main) EXCEPT !.version = v, !.from = "hand"])
  /\ Mishap
  /\ UNCHANGED <<jobs, pulls, tagRuns, tags, releases, starts, work>>

-----------------------------------------------------------------------------
(* From a push to a tag.                                                   *)

(* Mutant: only pushes that change a version are for release, whoever asks.*)
NeededWhenChanged(c) ==
  /\ tags[main[c].version] = Nothing
  /\ c > 1 /\ \E f \in Files : main[c][f] # main[c - 1][f]

(* Detect release need: a push that changes no version releases too when   *)
(* the tag is missing.                                                     *)
Needed(c) == tags[main[c].version] = Nothing

(* The tag is looked for now; the checks and tests that follow see nothing *)
(* but the commit that was checked out.                                    *)
Detect(c) ==
  /\ tagRuns' = IF Needed(c) /\ Fits(main[c], main[c].version) THEN tagRuns \cup {c} ELSE tagRuns
  /\ UNCHANGED <<main, jobs, pulls, tags, releases, counters>>

StartTagRun(c) ==
  /\ c \in pushes
  /\ pushes' = pushes \ {c}
  /\ Detect(c)

(* An event is lost, or there is none: the merge of an upgrade, which the  *)
(* workflow makes with its token (auto-merge-upgrade-pr.yml:239), starts   *)
(* no run when that is not a token of its own.                             *)
LosePush(c) ==
  /\ c \in pushes
  /\ pushes' = pushes \ {c}
  /\ \/ Mishap
     \/ ~ownToken /\ main[c].from = "upgrade" /\ UNCHANGED mishaps
  /\ UNCHANGED <<main, jobs, pulls, tagRuns, tags, releases, starts, work>>

(* People start the run by hand while the tag is missing.                  *)
Recover ==
  LET c == Len(main)
  IN /\ tags[main[c].version] = Nothing /\ c \notin pushes \cup tagRuns
     /\ Detect(c)
     /\ UNCHANGED pushes

FailTagRun(c) ==
  /\ c \in tagRuns
  /\ tagRuns' = tagRuns \ {c}
  /\ Mishap
  /\ UNCHANGED <<main, jobs, pulls, pushes, tags, releases, starts, work>>

(* Mutant: git push --force, which moves a tag that is there by then.      *)
PushTagForced(c) ==
  LET v == main[c].version
  IN /\ c \in tagRuns
     /\ tagRuns' = tagRuns \ {c}
     /\ tags' = [tags EXCEPT ![v] = c]
     /\ IF ownToken THEN tagPushes' = tagPushes \cup {v} /\ UNCHANGED unheard
        ELSE unheard' = unheard \cup {v} /\ UNCHANGED tagPushes
     /\ UNCHANGED <<main, jobs, pulls, pushes, released, ownToken, counters>>

(* git push refuses a tag that is there by then, and the run fails. The    *)
(* push is made with the token of the checkout (line 20).                  *)
PushTag(c) ==
  LET v == main[c].version
  IN /\ c \in tagRuns
     /\ tagRuns' = tagRuns \ {c}
     /\ \/ tags[v] # Nothing /\ UNCHANGED <<tags, releases>>
        \/ /\ tags[v] = Nothing
           /\ tags' = [tags EXCEPT ![v] = c]
           /\ IF ownToken THEN tagPushes' = tagPushes \cup {v} /\ UNCHANGED unheard
              ELSE unheard' = unheard \cup {v} /\ UNCHANGED tagPushes
           /\ UNCHANGED <<released, ownToken>>
     /\ UNCHANGED <<main, jobs, pulls, pushes, counters>>

(* README.md:165: a release is made from a tag, whoever pushed it.         *)
TagByHand ==
  /\ \E v \in Versions, c \in 1 .. Len(main) :
       /\ tags[v] = Nothing /\ tags' = [tags EXCEPT ![v] = c]
       /\ tagPushes' = tagPushes \cup {v}
  /\ Mishap
  /\ UNCHANGED <<main, jobs, pulls, pushes, tagRuns, released, unheard, ownToken, starts, work>>

-----------------------------------------------------------------------------
(* From a tag to a release. Nothing but the push of the tag starts it.     *)

(* release.yml on the commit of the tag, which its first checks may refuse.*)
Release(v) ==
  /\ v \in tagPushes
  /\ tagPushes' = tagPushes \ {v}
  /\ released' = IF Fits(main[tags[v]], v) THEN [released EXCEPT ![v] = tags[v]] ELSE released
  /\ UNCHANGED <<main, jobs, pulls, pushes, tagRuns, tags, unheard, ownToken, counters>>

(* The event is lost, or a test or a step of the run fails.                *)
LoseRelease(v) ==
  /\ v \in tagPushes
  /\ tagPushes' = tagPushes \ {v}
  /\ unheard' = unheard \cup {v}
  /\ Mishap
  /\ UNCHANGED <<main, jobs, pulls, pushes, tagRuns, tags, released, ownToken, starts, work>>

-----------------------------------------------------------------------------
Next ==
  \/ StartUpgrade \/ StartRevision
  \/ \E j \in jobs : OpenPull(j)
  \/ \E b \in Branches : MergePull(b)
  \/ Work \/ EditByHand \/ TagByHand
  \/ \E c \in pushes : StartTagRun(c) \/ LosePush(c)
  \/ Recover
  \/ \E c \in tagRuns : PushTag(c) \/ FailTagRun(c)
  \/ \E v \in tagPushes : Release(v) \/ LoseRelease(v)

(* Runs that were started go on, unless they fail, and people start the    *)
(* tagging workflow again when a tag is missing. Nothing makes good a      *)
(* release that did not come of its tag's push.                            *)
Spec ==
  /\ Init /\ [][Next]_vars
  /\ WF_vars(\E c \in pushes : StartTagRun(c))
  /\ WF_vars(Recover)
  /\ WF_vars(\E c \in tagRuns : PushTag(c))
  /\ WF_vars(\E v \in tagPushes : Release(v))

-----------------------------------------------------------------------------
Commits ==
  [lock : Specs, version : Versions,
   manifest : [lock : Specs, version : Versions, generatedAt : Nat],
   from : {"work", "hand", "upgrade", "revision"}]

TypeOK ==
  /\ main \in Seq(Commits) /\ main # <<>>
  /\ jobs \subseteq [branch : Branches, base : 1 .. Len(main), stamp : Nat]
  /\ pulls \in [Branches -> [base : 1 .. Len(main), head : Commits] \cup {Nothing}]
  /\ pushes \cup tagRuns \subseteq 1 .. Len(main)
  /\ tags \in [Versions -> 1 .. Len(main) \cup {Nothing}]
  /\ released \in [Versions -> 1 .. Len(main) \cup {Nothing}]
  /\ tagPushes \cup unheard \subseteq Versions /\ ownToken \in BOOLEAN
  /\ starts \in 0 .. MaxStarts /\ work \in 0 .. MaxWork /\ mishaps \in 0 .. MaxMishaps

(* Pull requests that were prepared side by side, merged in any order or   *)
(* opened again, never leave lock, VERSION and manifest of different       *)
(* versions on main, although nothing checks the result of a merge: only   *)
(* an edit by hand can.                                                    *)
MainStaysConsistent ==
  (\A c \in ToSet(main) : c.from # "hand") => \A c \in ToSet(main) : Fits(c, c.version)

(* README.md:172: what a release records is the version of its tag and the *)
(* specification of that version, and its tag is still on the commit it    *)
(* was made from, also when the tag came by hand, was of a commit in       *)
(* between, or two runs found no tag and raced for it.                     *)
ReleasesAreWhatTheySay ==
  \A v \in Versions :
    released[v] # Nothing =>
      /\ tags[v] = released[v]
      /\ LET commit == main[released[v]]
         IN commit.version = v /\ commit.lock = v[1] /\ commit.manifest.version = v

(* A version that is on main in the end has a tag, if it passes the checks *)
(* at all: lost events and failed runs are made good. And a tag that       *)
(* passes them has a release, unless its own push was the one that started *)
(* none or whose run failed.                                               *)
ReleasedUnlessUnheard ==
  <>[](/\ Fits(Last(main), Last(main).version) => tags[Last(main).version] # Nothing
       /\ \A v \in Versions :
            tags[v] # Nothing /\ Fits(main[tags[v]], v) =>
              released[v] # Nothing \/ v \in unheard)

(* README.md:170: "the main branch workflow then creates the matching      *)
(* vX.Y.Z.0 runtime/tool tag, and that tag triggers the GitHub Release".   *)
(* Without a token of its own it does not.                                 *)
EveryTagIsReleased ==
  <>[](\A v \in Versions :
         tags[v] # Nothing /\ Fits(main[tags[v]], v) => released[v] # Nothing)

(* release-runtime-revision.yml:110: "After merge, the existing            *)
(* auto-release workflow will create tag v$TARGET_VERSION". A run for the  *)
(* merge of a revision that finds the tag finds it on that merge, or on a  *)
(* later commit that another run was quicker to tag.                       *)
RevisionsAreTagged ==
  [][ \A c \in pushes :
        StartTagRun(c) /\ main[c].from = "revision" /\ ~Needed(c)
          => tags[main[c].version] >= c ]_vars
================================================================================
