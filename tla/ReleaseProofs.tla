---------------------------- MODULE ReleaseProofs ----------------------------
(***************************************************************************)
(* Theorems about ReleaseFlow, for any number of specifications, runs of   *)
(* the workflows, commits and mishaps.                                     *)
(***************************************************************************)
EXTENDS ReleaseFlow, VersionFiles, SequenceTheorems, TLAPS

\* The branches of the two workflows.
LEMMA BranchTypes ==
  /\ Branches \subseteq {"upgrade", "revision"} \X Versions
  /\ \A s \in Specs : Upgrade(s) \in Branches
  /\ \A v \in Specs \X (1 .. MaxRevision) : Revision(v) \in Branches
<1>1. \A s \in Specs : <<s, 0>> \in Versions
  BY ReleaseAssumption DEF Versions
<1>2. Specs \X (1 .. MaxRevision) \subseteq Versions
  BY ReleaseAssumption DEF Versions
<1> QED
  BY <1>1, <1>2 DEF Branches, Upgrade, Revision

\* A commit that is appended is the last one, and the others stay in place.
LEMMA Appended ==
  ASSUME main \in Seq(Commits), NEW c \in Commits, main' = Append(main, c)
  PROVE  /\ main' \in Seq(Commits) /\ main' # <<>>
         /\ Len(main') = Len(main) + 1 /\ main'[Len(main) + 1] = c
         /\ \A i \in 1 .. Len(main) : main'[i] = main[i]
  OBVIOUS

\* There is a last commit.
LEMMA LastCommit ==
  ASSUME main \in Seq(Commits), main # <<>>
  PROVE  Len(main) \in Nat \ {0} /\ Last(main) = main[Len(main)] /\ Last(main) \in Commits
<1>1. Len(main) \in Nat \ {0}
  OBVIOUS
<1> QED
  BY <1>1 DEF Last

-----------------------------------------------------------------------------
(* Types.                                                                  *)

\* What keeps every type when a commit is pushed and nothing else changes but
\* a pull request and counters.
LEMMA PushTypes ==
  ASSUME TypeOK, NEW c \in Commits, Push(c), UNCHANGED <<jobs, tagRuns, tags, releases>>
  PROVE  /\ main' \in Seq(Commits) /\ main' # <<>>
         /\ 1 .. Len(main) \subseteq 1 .. Len(main')
         /\ jobs' \subseteq [branch : Branches, base : 1 .. Len(main'), stamp : Nat]
         /\ pulls \in [Branches -> [base : 1 .. Len(main'), head : Commits] \cup {Nothing}]
         /\ pushes' \cup tagRuns' \subseteq 1 .. Len(main')
         /\ tags' \in [Versions -> 1 .. Len(main') \cup {Nothing}]
         /\ released' \in [Versions -> 1 .. Len(main') \cup {Nothing}]
         /\ UNCHANGED <<tagPushes, released, unheard, ownToken>>
<1>1. main' \in Seq(Commits) /\ main' # <<>> /\ Len(main') = Len(main) + 1
  BY Appended DEF TypeOK, Push
<1>2. Len(main) \in Nat
  BY DEF TypeOK
<1>3. 1 .. Len(main) \subseteq 1 .. Len(main') /\ Len(main) + 1 \in 1 .. Len(main')
  BY <1>1, <1>2
<1>4. jobs' \subseteq [branch : Branches, base : 1 .. Len(main'), stamp : Nat]
  BY <1>3 DEF TypeOK
<1>5. pulls \in [Branches -> [base : 1 .. Len(main'), head : Commits] \cup {Nothing}]
  <2>1. [base : 1 .. Len(main), head : Commits] \subseteq [base : 1 .. Len(main'), head : Commits]
    BY <1>3
  <2> QED
    BY <2>1 DEF TypeOK
<1>6. pushes' \cup tagRuns' \subseteq 1 .. Len(main')
  BY <1>3 DEF TypeOK, Push
<1>7. tags' \in [Versions -> 1 .. Len(main') \cup {Nothing}]
  BY <1>3 DEF TypeOK
<1>8. UNCHANGED <<tagPushes, released, unheard, ownToken>>
  BY DEF releases
<1>9. released' \in [Versions -> 1 .. Len(main') \cup {Nothing}]
  BY <1>3, <1>8 DEF TypeOK
<1> QED
  BY <1>1, <1>3, <1>4, <1>5, <1>6, <1>7, <1>8, <1>9

\* What a workflow prepares and what a merge makes of it are commits.
LEMMA PreparedType ==
  ASSUME TypeOK, NEW j \in jobs
  PROVE  Prepared(j) \in Commits
<1>1. j.branch \in {"upgrade", "revision"} \X Versions /\ j.stamp \in Nat
  BY BranchTypes DEF TypeOK
<1>2. j.branch[1] \in {"upgrade", "revision"} /\ j.branch[2] \in Versions
  BY <1>1
<1>3. j.branch[2][1] \in Specs
  BY <1>2 DEF Versions
<1> QED
  BY <1>1, <1>2, <1>3 DEF Prepared, Manifest, Commits

LEMMA SquashType ==
  ASSUME TypeOK, NEW b \in Branches, pulls[b] # Nothing
  PROVE  /\ pulls[b] \in [base : 1 .. Len(main), head : Commits]
         /\ Squash(pulls[b]) \in Commits
<1>1. pulls[b] \in [base : 1 .. Len(main), head : Commits]
  BY DEF TypeOK
<1>2. main[pulls[b].base] \in Commits /\ pulls[b].head \in Commits /\ Last(main) \in Commits
  BY <1>1, LastCommit DEF TypeOK
<1> QED
  BY <1>1, <1>2 DEF Squash, Commits

\* An edit by hand pushes one commit, which says so.
LEMMA HandPush ==
  ASSUME TypeOK, EditByHand
  PROVE  /\ \E c \in Commits : Push(c) /\ c.from = "hand"
         /\ Mishap /\ UNCHANGED <<jobs, pulls, tagRuns, tags, releases, starts, work>>
<1>1. ASSUME NEW s \in Specs, Push([Last(main) EXCEPT !.lock = s, !.from = "hand"])
      PROVE  \E c \in Commits : Push(c) /\ c.from = "hand"
  <2>1. /\ [Last(main) EXCEPT !.lock = s, !.from = "hand"] \in Commits
        /\ [Last(main) EXCEPT !.lock = s, !.from = "hand"].from = "hand"
    BY LastCommit DEF TypeOK, Commits
  <2> QED
    BY <1>1, <2>1
<1>2. ASSUME NEW v \in Versions, Push([Last(main) EXCEPT !.version = v, !.from = "hand"])
      PROVE  \E c \in Commits : Push(c) /\ c.from = "hand"
  <2>1. /\ [Last(main) EXCEPT !.version = v, !.from = "hand"] \in Commits
        /\ [Last(main) EXCEPT !.version = v, !.from = "hand"].from = "hand"
    BY LastCommit DEF TypeOK, Commits
  <2> QED
    BY <1>2, <2>1
<1>3. \/ \E s \in Specs : Push([Last(main) EXCEPT !.lock = s, !.from = "hand"])
      \/ \E v \in Versions : Push([Last(main) EXCEPT !.version = v, !.from = "hand"])
  BY Zenon DEF EditByHand
<1>4. \E c \in Commits : Push(c) /\ c.from = "hand"
  BY <1>1, <1>2, <1>3
<1>5. Mishap /\ UNCHANGED <<jobs, pulls, tagRuns, tags, releases, starts, work>>
  BY Zenon DEF EditByHand
<1> QED
  BY <1>4, <1>5, Zenon

\* Every step keeps the types.
LEMMA TypesKept ==
  ASSUME TypeOK, [Next]_vars
  PROVE  TypeOK'
<1> USE ReleaseAssumption
<1>1. ASSUME NEW branch \in Branches, Start(branch)
      PROVE  TypeOK'
  <2>1. Len(main) \in 1 .. Len(main)
    BY LastCommit DEF TypeOK
  <2>2. starts' \in 0 .. MaxStarts /\ starts + 1 \in Nat
    BY <1>1 DEF TypeOK, Start
  <2>3. jobs' \subseteq [branch : Branches, base : 1 .. Len(main), stamp : Nat]
    BY <1>1, <2>1, <2>2 DEF TypeOK, Start
  <2> QED
    BY <1>1, <2>2, <2>3 DEF TypeOK, Start, releases
<1>2. CASE StartUpgrade
  BY <1>1, <1>2, BranchTypes DEF StartUpgrade
<1>3. CASE StartRevision
  <2>1. PICK v \in RevisionTargets(Last(main)) : Start(Revision(v))
    BY <1>3 DEF StartRevision
  <2>2. Last(main).version \in Versions
    BY LastCommit DEF TypeOK, Commits
  <2>3. Last(main).version[2] \in Nat
    BY <2>2 DEF Versions
  <2>4. v \in Versions /\ v[2] > Last(main).version[2]
    BY <2>1 DEF RevisionTargets
  <2>5. v \in Specs \X (1 .. MaxRevision)
    BY <2>3, <2>4 DEF Versions
  <2> QED
    BY <1>1, <2>1, <2>5, BranchTypes
<1>4. ASSUME NEW j \in jobs, OpenPull(j)
      PROVE  TypeOK'
  <2>1. [base |-> j.base, head |-> Prepared(j)] \in [base : 1 .. Len(main), head : Commits]
    BY PreparedType DEF TypeOK
  <2>2. j.branch \in Branches
    BY DEF TypeOK
  <2>3. pulls' \in [Branches -> [base : 1 .. Len(main), head : Commits] \cup {Nothing}]
    BY <1>4, <2>1, <2>2 DEF TypeOK, OpenPull
  <2> QED
    BY <1>4, <2>3 DEF TypeOK, OpenPull, counters, releases
<1>5. ASSUME NEW b \in Branches, MergePull(b)
      PROVE  TypeOK'
  <2>1. Squash(pulls[b]) \in Commits
    BY <1>5, SquashType DEF MergePull
  <2>2. Push(Squash(pulls[b])) /\ UNCHANGED <<jobs, tagRuns, tags, releases>>
    BY <1>5 DEF MergePull
  <2>3. pulls' = [pulls EXCEPT ![b] = Nothing] /\ UNCHANGED counters
    BY <1>5 DEF MergePull
  <2> DEFINE c == Squash(pulls[b])
  <2> HIDE DEF c
  <2>4. c \in Commits /\ Push(c)
    BY <2>1, <2>2 DEF c
  <2>5. pulls' \in [Branches -> [base : 1 .. Len(main'), head : Commits] \cup {Nothing}]
    BY <2>2, <2>3, <2>4, PushTypes
  <2> QED
    BY <2>2, <2>3, <2>4, <2>5, PushTypes DEF TypeOK, counters
<1>6. CASE Work
  <2>1. [Last(main) EXCEPT !.from = "work"] \in Commits
    BY LastCommit DEF TypeOK, Commits
  <2>2. work' \in 0 .. MaxWork /\ UNCHANGED <<jobs, pulls, tagRuns, tags, releases, starts, mishaps>>
    BY <1>6 DEF Work, TypeOK
  <2> QED
    BY <1>6, <2>1, <2>2, PushTypes DEF Work, TypeOK
<1>7. CASE EditByHand
  <2>1. PICK c \in Commits : Push(c)
    BY <1>7, HandPush
  <2>2. Mishap /\ UNCHANGED <<jobs, pulls, tagRuns, tags, releases, starts, work>>
    BY <1>7, HandPush
  <2>3. Push(c) /\ UNCHANGED <<jobs, tagRuns, tags, releases>> /\ UNCHANGED <<pulls, starts, work>>
    BY <2>1, <2>2
  <2>4. mishaps' \in 0 .. MaxMishaps
    BY <2>2 DEF Mishap, TypeOK
  <2> QED
    BY <2>3, <2>4, PushTypes DEF TypeOK
<1>8. CASE TagByHand
  <2>1. tags' \in [Versions -> 1 .. Len(main) \cup {Nothing}]
    BY <1>8 DEF TagByHand, TypeOK
  <2>2. tagPushes' \subseteq Versions
    BY <1>8 DEF TagByHand, TypeOK
  <2> QED
    BY <1>8, <2>1, <2>2 DEF TagByHand, Mishap, TypeOK
<1>9. ASSUME NEW c \in pushes, StartTagRun(c)
      PROVE  TypeOK'
  BY <1>9 DEF StartTagRun, Detect, TypeOK, counters, releases
<1>10. ASSUME NEW c \in pushes, LosePush(c)
       PROVE  TypeOK'
  <2>1. mishaps' \in 0 .. MaxMishaps
    BY <1>10 DEF LosePush, Mishap, TypeOK
  <2> QED
    BY <1>10, <2>1 DEF LosePush, TypeOK, releases
<1>11. CASE Recover
  <2>1. Len(main) \in 1 .. Len(main)
    BY LastCommit DEF TypeOK
  <2> QED
    BY <1>11, <2>1 DEF Recover, Detect, TypeOK, counters, releases
<1>12. ASSUME NEW c \in tagRuns, PushTag(c)
       PROVE  TypeOK'
  <2>1. c \in 1 .. Len(main)
    BY DEF TypeOK
  <2>2. tags' \in [Versions -> 1 .. Len(main) \cup {Nothing}]
    BY <1>12, <2>1 DEF PushTag, TypeOK
  <2>3. main[c].version \in Versions
    <3>1. main[c] \in Commits
      BY <2>1 DEF TypeOK
    <3> QED
      BY <3>1 DEF Commits
  <2>4. tagPushes' \cup unheard' \subseteq Versions /\ UNCHANGED <<released, ownToken>>
    BY <1>12, <2>3 DEF PushTag, TypeOK, releases
  <2> QED
    BY <1>12, <2>2, <2>4 DEF PushTag, TypeOK, counters
<1>13. ASSUME NEW c \in tagRuns, FailTagRun(c)
       PROVE  TypeOK'
  BY <1>13 DEF FailTagRun, Mishap, TypeOK, releases
<1>14. ASSUME NEW v \in tagPushes, Release(v)
       PROVE  TypeOK'
  <2>1. released' \in [Versions -> 1 .. Len(main) \cup {Nothing}]
    BY <1>14 DEF Release, TypeOK
  <2> QED
    BY <1>14, <2>1 DEF Release, TypeOK, counters
<1>15. ASSUME NEW v \in tagPushes, LoseRelease(v)
       PROVE  TypeOK'
  BY <1>15 DEF LoseRelease, Mishap, TypeOK
<1>16. CASE UNCHANGED vars
  BY <1>16 DEF vars, TypeOK, releases, counters
<1> QED
  BY <1>2, <1>3, <1>4, <1>5, <1>6, <1>7, <1>8, <1>9, <1>10, <1>11, <1>12, <1>13, <1>14, <1>15,
     <1>16 DEF Next

\* The first commit, and no pull request, tag or run.
LEMMA TypesInit ==
  ASSUME Init
  PROVE  TypeOK
<1> USE ReleaseAssumption
<1> DEFINE first == [lock |-> 1, version |-> <<1, 0>>, manifest |-> Manifest(1, <<1, 0>>, 0),
                     from |-> "work"]
<1>1. <<1, 0>> \in Versions
  BY DEF Versions
<1>2. first \in Commits
  BY <1>1 DEF Commits, Manifest
<1> HIDE DEF first
<1>3. main = <<first>>
  BY DEF Init, first
<1>4. main \in Seq(Commits) /\ main # <<>> /\ Len(main) = 1
  BY <1>2, <1>3
<1>5. /\ jobs \subseteq [branch : Branches, base : 1 .. Len(main), stamp : Nat]
      /\ pulls \in [Branches -> [base : 1 .. Len(main), head : Commits] \cup {Nothing}]
      /\ pushes \cup tagRuns \subseteq 1 .. Len(main)
      /\ tags \in [Versions -> 1 .. Len(main) \cup {Nothing}]
      /\ released \in [Versions -> 1 .. Len(main) \cup {Nothing}]
      /\ tagPushes \cup unheard \subseteq Versions /\ ownToken \in BOOLEAN
  BY DEF Init
<1>6. starts \in 0 .. MaxStarts /\ work \in 0 .. MaxWork /\ mishaps \in 0 .. MaxMishaps
  BY DEF Init
<1> QED
  BY <1>4, <1>5, <1>6 DEF TypeOK

\* The files, runs, pull requests and tags name versions and commits that are
\* there, in every order of workflows, people and failures.
THEOREM ReleaseTypeCorrect == Spec => []TypeOK
<1>1. Init => TypeOK
  BY TypesInit
<1>2. TypeOK /\ [Next]_vars => TypeOK'
  BY TypesKept
<1> QED
  BY <1>1, <1>2, PTL DEF Spec

-----------------------------------------------------------------------------
(* Consistency of main, and of what is released.                           *)

\* What a pull request would merge is of one version, and so is every commit
\* of main unless somebody edited by hand. The base of a pull request is a
\* commit of main, which is what makes a merge of two consistent commits
\* consistent: where the manifests agree, so does all the rest.
PullsFit ==
  \A b \in Branches : pulls[b] # Nothing => Fits(pulls[b].head, pulls[b].head.version)

MainFits ==
  (\A i \in 1 .. Len(main) : main[i].from # "hand") =>
    \A i \in 1 .. Len(main) : Fits(main[i], main[i].version)

ConsistencyInv == TypeOK /\ PullsFit /\ MainFits

\* A merge that git accepts is one of the two commits that it merges.
LEMMA SquashFits ==
  ASSUME TypeOK, NEW pull \in [base : 1 .. Len(main), head : Commits], ~Conflict(pull),
         Fits(pull.head, pull.head.version),
         Fits(Last(main), Last(main).version),
         Fits(main[pull.base], main[pull.base].version)
  PROVE  Fits(Squash(pull), Squash(pull).version)
<1> DEFINE base == main[pull.base]
           last == Last(main)
           head == pull.head
           merged == Squash(pull)
<1>1. \A f \in Files : head[f] = base[f] \/ last[f] = base[f] \/ head[f] = last[f]
  BY DEF Conflict
<1>2. /\ head.lock = base.lock \/ last.lock = base.lock \/ head.lock = last.lock
      /\ head.version = base.version \/ last.version = base.version \/ head.version = last.version
      /\ head.manifest = base.manifest \/ last.manifest = base.manifest
           \/ head.manifest = last.manifest
  BY <1>1 DEF Files
<1>3. /\ merged.lock = IF head.lock # base.lock THEN head.lock ELSE last.lock
      /\ merged.version = IF head.version # base.version THEN head.version ELSE last.version
      /\ merged.manifest = IF head.manifest # base.manifest THEN head.manifest ELSE last.manifest
  BY DEF Squash
<1>4. /\ Fits(head, head.version) /\ Fits(last, last.version) /\ Fits(base, base.version)
  OBVIOUS
<1> HIDE DEF base, last, head, merged
<1>5. CASE head.manifest = base.manifest
  <2>1. head.lock = base.lock /\ head.version = base.version
    BY <1>4, <1>5 DEF Fits
  <2> QED
    BY <1>3, <1>4, <1>5, <2>1 DEF Fits, merged
<1>6. CASE last.manifest = base.manifest /\ head.manifest # base.manifest
  <2>1. last.lock = base.lock /\ last.version = base.version
    BY <1>4, <1>6 DEF Fits
  <2> QED
    BY <1>3, <1>4, <1>6, <2>1 DEF Fits, merged
<1>7. CASE head.manifest = last.manifest /\ head.manifest # base.manifest
  <2>1. head.lock = last.lock /\ head.version = last.version
    BY <1>4, <1>7 DEF Fits
  <2> QED
    BY <1>3, <1>4, <1>7, <2>1 DEF Fits, merged
<1> QED
  BY <1>2, <1>5, <1>6, <1>7 DEF merged

\* What a workflow prepares is of one version, with a manifest made for it.
LEMMA PreparedFits ==
  ASSUME TypeOK, NEW j \in jobs
  PROVE  Fits(Prepared(j), Prepared(j).version)
  BY DEF Prepared, Manifest, Fits

\* A commit that fits, or one by hand, leaves main as consistent as it was.
LEMMA PushKeepsMain ==
  ASSUME TypeOK, MainFits, NEW c \in Commits, Push(c),
         \/ c.from = "hand"
         \/ (\A i \in 1 .. Len(main) : Fits(main[i], main[i].version)) => Fits(c, c.version)
  PROVE  MainFits'
<1>1. /\ Len(main') = Len(main) + 1 /\ main'[Len(main) + 1] = c
      /\ \A i \in 1 .. Len(main) : main'[i] = main[i]
      /\ Len(main) \in Nat
  BY Appended DEF TypeOK, Push
<1>2. SUFFICES ASSUME \A i \in 1 .. Len(main') : main'[i].from # "hand"
               PROVE  \A i \in 1 .. Len(main') : Fits(main'[i], main'[i].version)
  BY DEF MainFits, Fits
<1>3. c.from # "hand" /\ \A i \in 1 .. Len(main) : main[i].from # "hand"
  BY <1>1, <1>2
<1>4. \A i \in 1 .. Len(main) : Fits(main[i], main[i].version)
  BY <1>3 DEF MainFits
<1>5. Fits(c, c.version)
  BY <1>3, <1>4
<1>6. \A i \in 1 .. Len(main') : i \in 1 .. Len(main) \/ i = Len(main) + 1
  BY <1>1
<1> QED
  BY <1>1, <1>4, <1>5, <1>6

\* Every step keeps main and the pull requests consistent.
LEMMA ConsistencyKept ==
  ASSUME ConsistencyInv, [Next]_vars
  PROVE  PullsFit' /\ MainFits'
<1> USE DEF ConsistencyInv
<1>1. CASE UNCHANGED <<main, pulls>>
  BY <1>1 DEF PullsFit, MainFits, Fits
<1>2. ASSUME NEW j \in jobs, OpenPull(j)
      PROVE  PullsFit' /\ MainFits'
  <2>1. Fits(Prepared(j), Prepared(j).version) /\ j.branch \in Branches
    BY PreparedFits DEF TypeOK
  <2> DEFINE p == Prepared(j)
  <2> HIDE DEF p
  <2>2. Fits(p, p.version)
    BY <2>1 DEF p
  <2>3. pulls' = [pulls EXCEPT ![j.branch] = [base |-> j.base, head |-> p]] /\ UNCHANGED main
    BY <1>2 DEF OpenPull, p
  <2>4. PullsFit'
    <3>1. SUFFICES ASSUME NEW b \in Branches, pulls'[b] # Nothing
                   PROVE  Fits(pulls'[b].head, pulls'[b].head.version)
      BY DEF PullsFit, Fits
    <3>2. CASE b = j.branch
      BY <2>1, <2>2, <2>3, <3>2 DEF TypeOK
    <3>3. CASE b # j.branch
      BY <2>1, <2>3, <3>1, <3>3 DEF PullsFit, TypeOK
    <3> QED
      BY <3>2, <3>3
  <2> QED
    BY <2>3, <2>4 DEF MainFits, Fits
<1>3. ASSUME NEW b \in Branches, MergePull(b)
      PROVE  PullsFit' /\ MainFits'
  <2>1. pulls[b] # Nothing /\ ~Conflict(pulls[b]) /\ Push(Squash(pulls[b]))
        /\ pulls' = [pulls EXCEPT ![b] = Nothing]
    BY <1>3 DEF MergePull
  <2>2. PullsFit'
    BY <2>1 DEF PullsFit, TypeOK, Fits
  <2>3. pulls[b] \in [base : 1 .. Len(main), head : Commits] /\ Squash(pulls[b]) \in Commits
    BY <2>1, SquashType
  <2>4. Fits(pulls[b].head, pulls[b].head.version)
    BY <2>1 DEF PullsFit
  <2>5. (\A i \in 1 .. Len(main) : Fits(main[i], main[i].version))
          => Fits(Squash(pulls[b]), Squash(pulls[b]).version)
    <3>1. SUFFICES ASSUME \A i \in 1 .. Len(main) : Fits(main[i], main[i].version)
                   PROVE  Fits(Squash(pulls[b]), Squash(pulls[b]).version)
      OBVIOUS
    <3>2. Last(main) = main[Len(main)] /\ Len(main) \in 1 .. Len(main)
      BY LastCommit DEF TypeOK
    <3>3. Fits(Last(main), Last(main).version)
      BY <3>1, <3>2
    <3>4. Fits(main[pulls[b].base], main[pulls[b].base].version)
      BY <3>1, <2>3
    <3> QED
      BY <2>1, <2>3, <2>4, <3>3, <3>4, SquashFits
  <2>6. MainFits'
    BY <2>1, <2>3, <2>5, PushKeepsMain
  <2> QED
    BY <2>2, <2>6
<1>4. CASE Work
  <2> DEFINE c == [Last(main) EXCEPT !.from = "work"]
  <2>1. Push(c) /\ UNCHANGED pulls
    BY <1>4 DEF Work
  <2>2. c \in Commits
    BY LastCommit DEF TypeOK, Commits
  <2>3. Last(main) = main[Len(main)] /\ Len(main) \in 1 .. Len(main)
    BY LastCommit DEF TypeOK
  <2>4. Fits(Last(main), Last(main).version) => Fits(c, c.version)
    BY LastCommit DEF Fits, TypeOK, Commits
  <2> HIDE DEF c
  <2>5. (\A i \in 1 .. Len(main) : Fits(main[i], main[i].version)) => Fits(c, c.version)
    BY <2>3, <2>4
  <2>6. MainFits'
    BY <2>1, <2>2, <2>5, PushKeepsMain
  <2> QED
    BY <2>1, <2>6 DEF PullsFit, Fits
<1>5. CASE EditByHand
  <2>1. PICK c \in Commits : Push(c) /\ c.from = "hand"
    BY <1>5, HandPush
  <2>2. UNCHANGED pulls
    BY <1>5, HandPush
  <2>3. MainFits'
    BY <2>1, PushKeepsMain
  <2> QED
    BY <2>2, <2>3 DEF PullsFit, Fits
<1>6. ASSUME NEW branch, Start(branch)
      PROVE  UNCHANGED <<main, pulls>>
  BY <1>6 DEF Start
<1>7. StartUpgrade \/ StartRevision => UNCHANGED <<main, pulls>>
  BY <1>6 DEF StartUpgrade, StartRevision
<1>8. \A c \in pushes : StartTagRun(c) \/ LosePush(c) => UNCHANGED <<main, pulls>>
  BY DEF StartTagRun, Detect, LosePush
<1>9. \A c \in tagRuns : PushTag(c) \/ FailTagRun(c) => UNCHANGED <<main, pulls>>
  BY DEF PushTag, FailTagRun
<1>10. TagByHand \/ Recover \/ UNCHANGED vars => UNCHANGED <<main, pulls>>
  BY DEF TagByHand, Recover, Detect, vars
<1>11. \A v \in tagPushes : Release(v) \/ LoseRelease(v) => UNCHANGED <<main, pulls>>
  BY DEF Release, LoseRelease
<1> QED
  BY <1>1, <1>2, <1>3, <1>4, <1>5, <1>7, <1>8, <1>9, <1>10, <1>11 DEF Next

THEOREM ConsistencyHolds == Spec => []ConsistencyInv
<1>1. Init => ConsistencyInv
  <2>1. SUFFICES ASSUME Init
                 PROVE  ConsistencyInv
    OBVIOUS
  <2>2. PullsFit
    BY <2>1 DEF Init, PullsFit
  <2>3. Len(main) = 1 /\ main[1].lock = 1 /\ main[1].version = <<1, 0>>
        /\ main[1].manifest.lock = 1 /\ main[1].manifest.version = <<1, 0>>
    BY <2>1 DEF Init, Manifest
  <2>4. MainFits
    BY <2>3 DEF MainFits, Fits
  <2> QED
    BY <2>1, <2>2, <2>4, TypesInit DEF ConsistencyInv
<1>2. ConsistencyInv /\ [Next]_vars => ConsistencyInv'
  BY TypesKept, ConsistencyKept DEF ConsistencyInv
<1> QED
  BY <1>1, <1>2, PTL DEF Spec

\* Whatever order the pull requests of the workflows are merged in, main is of
\* one version as long as nobody edits by hand; no check looks at the merge.
THEOREM MainConsistent == Spec => []MainStaysConsistent
<1>1. ConsistencyInv => MainStaysConsistent
  <2>1. SUFFICES ASSUME TypeOK, MainFits, \A c \in ToSet(main) : c.from # "hand",
                        NEW c \in ToSet(main)
                 PROVE  Fits(c, c.version)
    BY DEF ConsistencyInv, MainStaysConsistent
  <2>2. \A i \in 1 .. Len(main) : main[i] \in ToSet(main)
    BY <2>1 DEF ToSet, TypeOK
  <2>3. PICK i \in 1 .. Len(main) : c = main[i]
    BY <2>1 DEF ToSet, TypeOK
  <2> QED
    BY <2>1, <2>2, <2>3 DEF MainFits
<1> QED
  BY <1>1, ConsistencyHolds, PTL

\* A release is of its tag for as long as tags and commits stay where they
\* are, which every way of tagging and pushing has to grant.
ReleasedFit ==
  \A v \in Versions :
    released[v] # Nothing => released[v] = tags[v] /\ Fits(main[tags[v]], v)

\* Tags that are set and commits that are made never change.
LEMMA History ==
  ASSUME TypeOK, [Next]_vars
  PROVE  /\ \A i \in 1 .. Len(main) : main'[i] = main[i]
         /\ \A v \in Versions : tags[v] # Nothing => tags'[v] = tags[v]
<1>1. ASSUME NEW c \in Commits, Push(c)
      PROVE  \A i \in 1 .. Len(main) : main'[i] = main[i]
  BY <1>1, Appended DEF TypeOK, Push
<1>2. UNCHANGED main \/ \E c \in Commits : Push(c)
  <2>1. \A branch : Start(branch) => UNCHANGED main
    BY DEF Start
  <2>2. StartUpgrade \/ StartRevision => UNCHANGED main
    BY <2>1 DEF StartUpgrade, StartRevision
  <2>3. \A j \in jobs : OpenPull(j) => UNCHANGED main
    BY DEF OpenPull
  <2>4. \A b \in Branches : MergePull(b) => \E c \in Commits : Push(c)
    BY SquashType DEF MergePull
  <2>5. Work => \E c \in Commits : Push(c)
    <3>1. [Last(main) EXCEPT !.from = "work"] \in Commits
      BY LastCommit DEF TypeOK, Commits
    <3> QED
      BY <3>1 DEF Work
  <2>6. EditByHand => \E c \in Commits : Push(c)
    BY HandPush
  <2>7. TagByHand \/ Recover \/ UNCHANGED vars => UNCHANGED main
    BY DEF TagByHand, Recover, Detect, vars
  <2>8. \A c \in pushes : StartTagRun(c) \/ LosePush(c) => UNCHANGED main
    BY DEF StartTagRun, Detect, LosePush
  <2>9. \A c \in tagRuns : PushTag(c) \/ FailTagRun(c) => UNCHANGED main
    BY DEF PushTag, FailTagRun
  <2>10. \A v \in tagPushes : Release(v) \/ LoseRelease(v) => UNCHANGED main
    BY DEF Release, LoseRelease
  <2> QED
    BY <2>2, <2>3, <2>4, <2>5, <2>6, <2>7, <2>8, <2>9, <2>10 DEF Next
<1>3. ASSUME NEW c \in tagRuns, PushTag(c), NEW v \in Versions, tags[v] # Nothing
      PROVE  tags'[v] = tags[v]
  <2> DEFINE w == main[c].version
  <2>1. tags' = IF tags[w] = Nothing THEN [tags EXCEPT ![w] = c] ELSE tags
    BY <1>3 DEF PushTag, releases
  <2> HIDE DEF w
  <2> QED
    BY <1>3, <2>1 DEF TypeOK
<1>4. ASSUME TagByHand, NEW v \in Versions, tags[v] # Nothing
      PROVE  tags'[v] = tags[v]
  BY <1>4 DEF TagByHand, TypeOK
<1>5. \/ UNCHANGED tags \/ TagByHand
      \/ \E c \in tagRuns : PushTag(c)
  <2>1. \A branch : Start(branch) => UNCHANGED tags
    BY DEF Start
  <2>2. StartUpgrade \/ StartRevision => UNCHANGED tags
    BY <2>1 DEF StartUpgrade, StartRevision
  <2>3. \A j \in jobs : OpenPull(j) => UNCHANGED tags
    BY DEF OpenPull
  <2>4. \A b \in Branches : MergePull(b) => UNCHANGED tags
    BY DEF MergePull
  <2>5. Work \/ Recover \/ UNCHANGED vars => UNCHANGED tags
    BY DEF Work, Recover, Detect, vars
  <2>6. EditByHand => UNCHANGED tags
    BY HandPush
  <2>7. \A c \in pushes : StartTagRun(c) \/ LosePush(c) => UNCHANGED tags
    BY DEF StartTagRun, Detect, LosePush
  <2>8. \A c \in tagRuns : FailTagRun(c) => UNCHANGED tags
    BY DEF FailTagRun
  <2>9. \A v \in tagPushes : Release(v) \/ LoseRelease(v) => UNCHANGED tags
    BY DEF Release, LoseRelease
  <2> QED
    BY <2>2, <2>3, <2>4, <2>5, <2>6, <2>7, <2>8, <2>9 DEF Next
<1> QED
  BY <1>1, <1>2, <1>3, <1>4, <1>5

\* Only a release adds to what is released, and it looks at the tag first.
LEMMA ReleasedKept ==
  ASSUME TypeOK, ReleasedFit, [Next]_vars
  PROVE  ReleasedFit'
<1>1. ASSUME NEW v \in Versions, tags[v] # Nothing, Fits(main[tags[v]], v)
      PROVE  tags'[v] = tags[v] /\ Fits(main'[tags'[v]], v)
  <2>1. tags[v] \in 1 .. Len(main)
    BY <1>1 DEF TypeOK
  <2>2. tags'[v] = tags[v] /\ main'[tags[v]] = main[tags[v]]
    BY <1>1, <2>1, History
  <2> QED
    BY <1>1, <2>2
<1>2. ASSUME NEW v \in Versions, released'[v] # Nothing,
             released'[v] = released[v] \/ (released'[v] = tags[v] /\ Fits(main[tags[v]], v))
      PROVE  released'[v] = tags'[v] /\ Fits(main'[tags'[v]], v)
  BY <1>1, <1>2 DEF ReleasedFit
<1>3. ASSUME NEW w \in tagPushes, Release(w), NEW v \in Versions
      PROVE  released'[v] = released[v] \/ (released'[v] = tags[v] /\ Fits(main[tags[v]], v))
  BY <1>3 DEF Release, TypeOK
<1>4. UNCHANGED released \/ \E w \in tagPushes : Release(w)
  <2>1. \A branch : Start(branch) => UNCHANGED released
    BY DEF Start, releases
  <2>2. StartUpgrade \/ StartRevision => UNCHANGED released
    BY <2>1 DEF StartUpgrade, StartRevision
  <2>3. \A j \in jobs : OpenPull(j) => UNCHANGED released
    BY DEF OpenPull, releases
  <2>4. \A b \in Branches : MergePull(b) => UNCHANGED released
    BY DEF MergePull, releases
  <2>5. Work \/ TagByHand \/ Recover \/ UNCHANGED vars => UNCHANGED released
    BY DEF Work, TagByHand, Recover, Detect, vars, releases
  <2>6. EditByHand => UNCHANGED released
    BY HandPush DEF releases
  <2>7. \A c \in pushes : StartTagRun(c) \/ LosePush(c) => UNCHANGED released
    BY DEF StartTagRun, Detect, LosePush, releases
  <2>8. \A c \in tagRuns : PushTag(c) \/ FailTagRun(c) => UNCHANGED released
    BY DEF PushTag, FailTagRun, releases
  <2>9. \A w \in tagPushes : LoseRelease(w) => UNCHANGED released
    BY DEF LoseRelease
  <2> QED
    BY <2>2, <2>3, <2>4, <2>5, <2>6, <2>7, <2>8, <2>9 DEF Next
<1>5. ASSUME NEW v \in Versions
      PROVE  released'[v] = released[v] \/ (released'[v] = tags[v] /\ Fits(main[tags[v]], v))
  BY <1>3, <1>4
<1>6. ASSUME NEW v \in Versions, released'[v] # Nothing
      PROVE  released'[v] = tags'[v] /\ Fits(main'[tags'[v]], v)
  BY <1>2, <1>5, <1>6
<1> QED
  BY <1>6 DEF ReleasedFit, Fits

\* A release is of the version and the specification of its tag, which is still
\* where it was, whoever set it, at whatever commit, and however runs raced for it.
THEOREM ReleasesRight == Spec => []ReleasesAreWhatTheySay
<1>1. Init => ReleasedFit
  BY DEF Init, ReleasedFit
<1>2. TypeOK /\ ReleasedFit /\ [Next]_vars => ReleasedFit'
  BY ReleasedKept
<1>3. ReleasedFit => ReleasesAreWhatTheySay
  BY DEF ReleasedFit, ReleasesAreWhatTheySay, Fits
<1> QED
  BY <1>1, <1>2, <1>3, ReleaseTypeCorrect, PTL DEF Spec

-----------------------------------------------------------------------------
(* The version files.                                                      *)

\* What is left of a sequence when k of its elements are done.
From(s, k) == SubSeq(s, k + 1, Len(s))

Filled == {"manifest"} \cup TargetSet

\* The run is to write the manifest or a constant file next.
Writing == run.todo # <<>> /\ Head(run.todo) \in Filled

\* The run has still to read the sources.
Before == run.todo # <<>> /\ Head(run.todo) \notin Filled

ConstantsPlain ==
  \A t \in TargetSet : Readable(files[t]) => files[t] = Fields(files[t])

\* A run does its steps in their order, and what it has read is of itself.
RunInv ==
  /\ DOMAIN run = {"todo", "spec", "m"}
  /\ \E k \in 0 .. Len(RunSteps) : run.todo = From(RunSteps, k)
  /\ run.todo # <<>> => runs \in 1 .. Len(Stamps) /\ run.spec \in Checkouts
  /\ run.todo # <<>> /\ Head(run.todo) = "inputs" =>
       /\ run.m["generatedAt"] = Stamps[runs]
       /\ \A f \in FieldNames \ {"generatedAt", "runtimeVersion"} : run.m[f] \in Texts

SourcesOK ==
  sources \in [lock : Locks \cup {None}, version : VersionTexts \cup {None},
               tool : ToolVersions, checkout : Checkouts]

FileInv ==
  /\ SourcesOK
  /\ files = [o \in Outputs |-> files[o]]
  /\ \A h \in Headers : files[h] \in Checkouts \cup {None, Torn}
  /\ runs \in 0 .. Len(Stamps) /\ edits \in 0 .. MaxEdits /\ failures \in 0 .. MaxFailures
  /\ RunInv
  /\ ConstantsPlain

\* A check goes through the targets in order; what it has accepted are the files
\* as they are, as long as nothing else goes on.
CheckInv ==
  /\ DOMAIN check = DOMAIN NoCheck
  /\ check.result \in {"none", "reading", "ok", "failed"}
  /\ check.result \notin {"reading", "ok"} => check.todo = <<>>
  /\ check.result \in {"reading", "ok"} =>
       /\ check.seen \in Seq(ToSet(check.seen)) /\ Len(check.seen) \in 0 .. Len(Targets)
       /\ check.todo = From(Targets, Len(check.seen))
       /\ check.result = "reading" <=> Len(check.seen) # Len(Targets)
       /\ check.quiet =>
            /\ check.m = files["manifest"]
            /\ AgreesWithSources(check.m, sources)
            /\ check.release => TagMatches(check.tag, sources)
            /\ \A i \in 1 .. Len(check.seen) : check.seen[i] = files[Targets[i]]

\* The manifests and constant files there are, with the manifest that a check
\* keeps and the one that a run is writing.
Sheets ==
  {files[o] : o \in {p \in Filled : Readable(files[p])}}
    \cup (IF check.result \in {"reading", "ok"} THEN {check.m} ELSE {})
    \cup (IF Writing THEN {run.m} ELSE {})

\* It is of a run that has begun, and of none that has still to read the sources.
IsOfARun(x) ==
  /\ \E n \in 1 .. runs : x["generatedAt"] = Stamps[n] /\ (Before => n # runs)
  /\ \A f \in FieldNames \ {"generatedAt"} : x[f] \in Texts

SheetsAreOfRuns == \A x \in Sheets : IsOfARun(x)

\* A run writes the same values everywhere.
OneSheetPerRun ==
  \A x, y \in Sheets : x["generatedAt"] = y["generatedAt"] => Fields(x) = Fields(y)

\* What a check has accepted has the values of the manifest that it keeps.
SeenIsOfTheManifest ==
  check.result \in {"reading", "ok"} =>
    \A i \in 1 .. Len(check.seen) : check.seen[i] = Fields(check.m)

SheetInv == SheetsAreOfRuns /\ OneSheetPerRun /\ SeenIsOfTheManifest

\* What is left of a sequence, and what is left when one more is done.
LEMMA FromParts ==
  ASSUME NEW S, NEW s \in Seq(S), NEW k \in 0 .. Len(s)
  PROVE  /\ From(s, k) = <<>> <=> k = Len(s)
         /\ Len(From(s, k)) = Len(s) - k
         /\ k < Len(s) => Head(From(s, k)) = s[k + 1] /\ Tail(From(s, k)) = From(s, k + 1)
<1> DEFINE t == SubSeq(s, k + 1, Len(s))
<1>1. Len(s) \in Nat /\ \A i \in 1 .. Len(s) : s[i] \in S
  OBVIOUS
<1>2. From(s, k) = t
  BY DEF From
<1>3. t \in Seq(S) /\ Len(t) = Len(s) - k /\ \A i \in 1 .. (Len(s) - k) : t[i] = s[k + i]
  BY <1>1
<1> HIDE DEF t
<1>4. t = <<>> <=> k = Len(s)
  <2>1. \A u \in Seq(S) : u = <<>> <=> Len(u) = 0
    OBVIOUS
  <2>2. t = <<>> <=> Len(t) = 0
    BY <1>3, <2>1, Zenon
  <2> QED
    BY <1>1, <1>3, <2>2
<1>5. ASSUME k < Len(s) PROVE Head(t) = s[k + 1] /\ Tail(t) = SubSeq(s, (k + 1) + 1, Len(s))
  <2>1. 1 \in 1 .. (Len(s) - k) /\ t # <<>>
    BY <1>1, <1>4, <1>5
  <2>2. Head(t) = s[k + 1]
    BY <1>3, <2>1
  <2> DEFINE u == SubSeq(s, (k + 1) + 1, Len(s))
  <2>3. /\ u \in Seq(S) /\ Len(u) = Len(s) - k - 1
        /\ \A i \in 1 .. (Len(s) - k - 1) : u[i] = s[k + 1 + i]
    BY <1>1, <1>5
  <2>4. /\ Tail(t) \in Seq(S) /\ Len(Tail(t)) = Len(s) - k - 1
        /\ \A i \in 1 .. (Len(s) - k - 1) : Tail(t)[i] = t[i + 1]
    BY <1>1, <1>3, <1>5, <2>1
  <2> HIDE DEF u
  <2>5. \A i \in 1 .. (Len(s) - k - 1) : t[i + 1] = s[k + (i + 1)] /\ k + (i + 1) = k + 1 + i
    BY <1>1, <1>3, <1>5
  <2> DEFINE v == Tail(t)
             l == Len(s) - k - 1
  <2>6. /\ u \in Seq(S) /\ v \in Seq(S) /\ Len(u) = l /\ Len(v) = l
        /\ \A i \in 1 .. l : u[i] = v[i]
    BY <2>3, <2>4, <2>5
  <2> HIDE DEF v, l
  <2>7. Tail(t) = u
    BY <2>6 DEF v
  <2> QED
    BY <2>2, <2>7 DEF u
<1> QED
  BY <1>2, <1>3, <1>4, <1>5 DEF From

\* The targets, and the steps of a run.
LEMMA StepNames ==
  /\ TargetSet \subseteq {"c", "cpp", "dart", "ts", "python"}
  /\ Targets \in Seq(TargetSet) /\ Targets # <<>>
  /\ RunSteps \in Seq(Outputs \cup {"lock", "inputs"})
  /\ Len(RunSteps) = 5 + Len(Targets)
  /\ RunSteps[1] = "ids" /\ RunSteps[2] = "registry" /\ RunSteps[3] = "lock"
  /\ RunSteps[4] = "inputs" /\ RunSteps[5] = "manifest"
  /\ \A i \in 6 .. Len(RunSteps) : RunSteps[i] \in TargetSet
<1> DEFINE N == {"c", "cpp", "dart", "ts", "python"}
<1>1. Targets \in Seq(N) /\ Targets # <<>>
  <2>1. CASE Runtime = "axtp-c-runtime"
    BY <2>1 DEF Targets
  <2>2. CASE Runtime = "axtp-cpp-runtime"
    BY <2>2 DEF Targets
  <2>3. CASE Runtime = "axtp-flutter-runtime"
    BY <2>3 DEF Targets
  <2>4. CASE Runtime = "axtp-ts-runtime"
    BY <2>4 DEF Targets
  <2>5. CASE Runtime = "axtp-python-runtime"
    BY <2>5 DEF Targets
  <2>6. CASE Runtime = "axtp-mock-server"
    BY <2>6 DEF Targets
  <2> QED
    BY <2>1, <2>2, <2>3, <2>4, <2>5, <2>6, VersionAssumption DEF Runtimes
<1>2. \A i \in 1 .. Len(Targets) : Targets[i] \in N /\ Targets[i] \in TargetSet
  BY <1>1 DEF TargetSet
<1>3. TargetSet \subseteq N
  BY <1>2 DEF TargetSet
<1>4. Targets \in Seq(TargetSet)
  BY <1>1, <1>2
<1> DEFINE p == <<"ids", "registry", "lock", "inputs", "manifest">>
           O == Outputs \cup {"lock", "inputs"}
<1>5. p \in Seq(O) /\ Len(p) = 5
  BY DEF Outputs, Headers
<1>6. Targets \in Seq(O) /\ Len(Targets) \in Nat
  <2>1. TargetSet \subseteq O
    BY DEF Outputs
  <2> QED
    BY <1>4, <2>1
<1>7. RunSteps = p \o Targets
  BY DEF RunSteps
<1>8. /\ p[1] = "ids" /\ p[2] = "registry" /\ p[3] = "lock" /\ p[4] = "inputs"
      /\ p[5] = "manifest"
  OBVIOUS
<1> HIDE DEF p, O
<1>9. /\ RunSteps \in Seq(O) /\ Len(RunSteps) = 5 + Len(Targets)
      /\ \A i \in 1 .. 5 : RunSteps[i] = p[i]
      /\ \A i \in 6 .. Len(RunSteps) : RunSteps[i] = Targets[i - 5]
  <2>1. p \o Targets \in Seq(O) /\ Len(p \o Targets) = Len(p) + Len(Targets)
    BY <1>5, <1>6, ConcatProperties
  <2>2. \A i \in 1 .. (Len(p) + Len(Targets)) :
          (p \o Targets)[i] = IF i <= Len(p) THEN p[i] ELSE Targets[i - Len(p)]
    BY <1>5, <1>6, ConcatProperties
  <2> QED
    BY <1>5, <1>6, <1>7, <2>1, <2>2
<1>10. \A i \in 6 .. Len(RunSteps) : i - 5 \in 1 .. Len(Targets)
  BY <1>6, <1>9
<1> QED
  BY <1>1, <1>2, <1>3, <1>4, <1>8, <1>9, <1>10 DEF O

\* What a run does after a step.
LEMMA StepAfter ==
  ASSUME NEW todo, todo # <<>>,
         \E k \in 0 .. Len(RunSteps) : todo = From(RunSteps, k)
  PROVE  /\ Head(todo) \in Outputs \cup {"lock", "inputs"}
         /\ \E k \in 0 .. Len(RunSteps) : Tail(todo) = From(RunSteps, k)
         /\ Head(todo) = "ids" => Tail(todo) # <<>> /\ Head(Tail(todo)) = "registry"
         /\ Head(todo) = "registry" => Tail(todo) # <<>> /\ Head(Tail(todo)) = "lock"
         /\ Head(todo) = "lock" => Tail(todo) # <<>> /\ Head(Tail(todo)) = "inputs"
         /\ Head(todo) = "inputs" => Tail(todo) # <<>> /\ Head(Tail(todo)) = "manifest"
         /\ Head(todo) \in Filled => Tail(todo) = <<>> \/ Head(Tail(todo)) \in TargetSet
<1> DEFINE n == Len(RunSteps)
           O == Outputs \cup {"lock", "inputs"}
<1>1. RunSteps \in Seq(O) /\ n \in Nat /\ n >= 6 /\ \A i \in 1 .. n : RunSteps[i] \in O
  <2>1. RunSteps \in Seq(O) /\ n = 5 + Len(Targets) /\ Len(Targets) \in Nat /\ Len(Targets) # 0
    BY StepNames
  <2> HIDE DEF O
  <2> QED
    BY <2>1
<1> HIDE DEF n, O
<1>2. PICK k \in 0 .. n : todo = From(RunSteps, k)
  BY DEF n
<1>3. k < n /\ Head(todo) = RunSteps[k + 1] /\ Tail(todo) = From(RunSteps, k + 1)
  BY <1>1, <1>2, FromParts DEF n
<1>4. k + 1 \in 0 .. n /\ (k + 1) + 1 = k + 2
  BY <1>1, <1>3
<1>5. /\ Tail(todo) = <<>> <=> k + 1 = n
      /\ k + 1 < n => Head(Tail(todo)) = RunSteps[k + 2]
  BY <1>1, <1>3, <1>4, FromParts DEF n
<1>6. Head(todo) \in O
  BY <1>1, <1>3, <1>4
<1>7. /\ RunSteps[1] = "ids" /\ RunSteps[2] = "registry" /\ RunSteps[3] = "lock"
      /\ RunSteps[4] = "inputs" /\ RunSteps[5] = "manifest"
      /\ \A i \in 6 .. n : RunSteps[i] \in {"c", "cpp", "dart", "ts", "python"} \cap TargetSet
  BY StepNames DEF n
<1>8. k \in {0, 1, 2, 3, 4} \/ k + 1 \in 6 .. n
  BY <1>1, <1>3
<1>9. ASSUME k \in {0, 1, 2, 3}
      PROVE  /\ Tail(todo) # <<>> /\ Head(todo) \notin Filled
             /\ Head(todo) = RunSteps[k + 1] /\ Head(Tail(todo)) = RunSteps[k + 2]
  <2>1. k + 1 < n /\ k + 1 # n
    BY <1>1, <1>9
  <2>2. Head(todo) \in {"ids", "registry", "lock", "inputs"}
    BY <1>3, <1>7, <1>9
  <2> QED
    BY <1>3, <1>5, <2>1, <2>2, StepNames DEF Filled
<1>10. ASSUME k \notin {0, 1, 2, 3}
       PROVE  /\ Head(todo) \notin {"ids", "registry", "lock", "inputs"}
              /\ Tail(todo) = <<>> \/ Head(Tail(todo)) \in TargetSet
  <2>1. k = 4 \/ k + 1 \in 6 .. n
    BY <1>8, <1>10
  <2>2. k + 1 # n => k + 2 \in 6 .. n /\ k + 1 < n
    BY <1>1, <1>3, <2>1
  <2>3. Head(todo) \in {"manifest", "c", "cpp", "dart", "ts", "python"}
    BY <1>3, <1>7, <2>1
  <2> QED
    BY <1>5, <1>7, <2>2, <2>3
<1>11. Head(todo) \in O /\ \E j \in 0 .. n : Tail(todo) = From(RunSteps, j)
  BY <1>3, <1>4, <1>6
<1>12. CASE k \in {0, 1, 2, 3}
  <2>1. k = 0 \/ k = 1 \/ k = 2 \/ k = 3
    BY <1>12
  <2>2. /\ k = 0 => Head(todo) = "ids" /\ Head(Tail(todo)) = "registry"
        /\ k = 1 => Head(todo) = "registry" /\ Head(Tail(todo)) = "lock"
        /\ k = 2 => Head(todo) = "lock" /\ Head(Tail(todo)) = "inputs"
        /\ k = 3 => Head(todo) = "inputs" /\ Head(Tail(todo)) = "manifest"
    <3>1. /\ k = 0 => k + 1 = 1 /\ k + 2 = 2
          /\ k = 1 => k + 1 = 2 /\ k + 2 = 3
          /\ k = 2 => k + 1 = 3 /\ k + 2 = 4
          /\ k = 3 => k + 1 = 4 /\ k + 2 = 5
      OBVIOUS
    <3>2. Head(todo) = RunSteps[k + 1] /\ Head(Tail(todo)) = RunSteps[k + 2]
      BY <1>9, <1>12
    <3> QED
      BY <1>7, <3>1, <3>2, Zenon
  <2> QED
    BY <1>9, <1>11, <1>12, <2>1, <2>2 DEF n, O
<1>13. CASE k \notin {0, 1, 2, 3}
  BY <1>10, <1>11, <1>13 DEF n, O
<1> QED
  BY <1>12, <1>13

\* A run that goes on to its next step.
LEMMA RunAdvances ==
  ASSUME FileInv, run.todo # <<>>, NEW m, Advance(m), UNCHANGED runs,
         Head(run.todo) = "lock" =>
           /\ m["generatedAt"] = Stamps[runs]
           /\ \A f \in FieldNames \ {"generatedAt", "runtimeVersion"} : m[f] \in Texts
  PROVE  RunInv' /\ run'.todo = Tail(run.todo) /\ run'.m = m
<1>1. DOMAIN run = {"todo", "spec", "m"}
  BY DEF FileInv, RunInv
<1>2. /\ DOMAIN run' = {"todo", "spec", "m"}
      /\ run'.todo = Tail(run.todo) /\ run'.m = m /\ run'.spec = run.spec
  BY <1>1 DEF Advance
<1>3. \E k \in 0 .. Len(RunSteps) : run.todo = From(RunSteps, k)
  BY DEF FileInv, RunInv
<1>4. /\ Head(run.todo) \in Outputs \cup {"lock", "inputs"}
      /\ \E k \in 0 .. Len(RunSteps) : Tail(run.todo) = From(RunSteps, k)
      /\ Head(run.todo) = "ids" => Head(Tail(run.todo)) = "registry"
      /\ Head(run.todo) = "registry" => Head(Tail(run.todo)) = "lock"
      /\ Head(run.todo) = "inputs" => Head(Tail(run.todo)) = "manifest"
      /\ Head(run.todo) \in Filled => Tail(run.todo) = <<>> \/ Head(Tail(run.todo)) \in TargetSet
  BY <1>3, StepAfter
<1>5. Tail(run.todo) # <<>> /\ Head(Tail(run.todo)) = "inputs" => Head(run.todo) = "lock"
  <2>1. "inputs" \notin TargetSet
    BY StepNames
  <2> QED
    BY <1>4, <2>1 DEF Outputs, Headers, Filled
<1>6. runs \in 1 .. Len(Stamps) /\ run.spec \in Checkouts
  BY DEF FileInv, RunInv
<1> QED
  BY <1>2, <1>4, <1>5, <1>6 DEF RunInv

\* A run that is over.
LEMMA RunStops ==
  ASSUME StopRun
  PROVE  RunInv' /\ run'.todo = <<>>
<1>1. DOMAIN run' = {"todo", "spec", "m"} /\ run'.todo = <<>>
  BY DEF StopRun, NoRun
<1>2. Len(RunSteps) \in 0 .. Len(RunSteps) /\ From(RunSteps, Len(RunSteps)) = <<>>
  <2>1. RunSteps \in Seq(Outputs \cup {"lock", "inputs"})
    BY StepNames
  <2>2. Len(RunSteps) \in 0 .. Len(RunSteps)
    BY <2>1
  <2> QED
    BY <2>1, <2>2, FromParts
<1> QED
  BY <1>1, <1>2 DEF RunInv

\* Writing a file changes that file and no other.
LEMMA WriteEffect ==
  ASSUME FileInv, NEW o \in Outputs, NEW c, files' = [files EXCEPT ![o] = c],
         o \in Headers => c \in Checkouts \cup {None, Torn},
         o \in TargetSet => (Readable(c) => c = Fields(c))
  PROVE  /\ files' = [p \in Outputs |-> files'[p]]
         /\ \A h \in Headers : files'[h] \in Checkouts \cup {None, Torn}
         /\ ConstantsPlain'
         /\ files'[o] = c /\ \A p \in Outputs : p # o => files'[p] = files[p]
<1>1. files = [p \in Outputs |-> files[p]]
  BY DEF FileInv
<1>2. files'[o] = c /\ \A p \in Outputs : p # o => files'[p] = files[p]
  BY <1>1
<1>3. files' = [p \in Outputs |-> files'[p]]
  BY <1>1
<1>4. Headers \subseteq Outputs /\ TargetSet \subseteq Outputs
  BY DEF Outputs
<1>5. \A h \in Headers : files'[h] \in Checkouts \cup {None, Torn}
  BY <1>2, <1>4 DEF FileInv
<1>6. ConstantsPlain'
  <2>1. \A t \in TargetSet : Readable(files'[t]) => files'[t] = Fields(files'[t])
    BY <1>2, <1>4, Zenon DEF FileInv, ConstantsPlain
  <2> QED
    BY <2>1 DEF ConstantsPlain
<1> QED
  BY <1>2, <1>3, <1>5, <1>6

\* The head of a run that is to write a file.
LEMMA WriterIsAt ==
  ASSUME NEW steps, AtStep(steps)
  PROVE  run.todo # <<>> /\ Head(run.todo) \in steps
BY DEF AtStep, Idle

\* An edit keeps the invariant.
LEMMA EditKeepsFiles ==
  ASSUME FileInv, EditSources
  PROVE  FileInv'
<1>1. UNCHANGED <<files, run, failures, runs>>
  BY DEF EditSources, Edit
<1>2. edits' \in 0 .. MaxEdits
  <2>1. edits < MaxEdits /\ edits' = edits + 1
    BY DEF EditSources, Edit
  <2> QED
    BY <2>1, VersionAssumption DEF FileInv
<1>3. SourcesOK'
  <2>1. ASSUME NEW l \in Locks \cup {None}, Edit("lock", l) PROVE SourcesOK'
    BY <2>1 DEF Edit, FileInv, SourcesOK
  <2>2. ASSUME NEW v \in VersionTexts \cup {None}, Edit("version", v) PROVE SourcesOK'
    BY <2>2 DEF Edit, FileInv, SourcesOK
  <2>3. ASSUME NEW v \in ToolVersions, Edit("tool", v) PROVE SourcesOK'
    BY <2>3 DEF Edit, FileInv, SourcesOK
  <2>4. ASSUME NEW v \in Checkouts, Edit("checkout", v) PROVE SourcesOK'
    BY <2>4 DEF Edit, FileInv, SourcesOK
  <2> QED
    BY <2>1, <2>2, <2>3, <2>4 DEF EditSources
<1>4. RunInv' /\ ConstantsPlain'
  BY <1>1, Zenon DEF FileInv, RunInv, ConstantsPlain
<1> QED
  BY <1>1, <1>2, <1>3, <1>4 DEF FileInv

\* What the steps of a run and its failures leave alone.
LEMMA RunKeepsFiles ==
  ASSUME FileInv, UNCHANGED <<sources, edits, runs>>, failures' \in 0 .. MaxFailures, RunInv',
         \/ UNCHANGED files
         \/ \E o \in Outputs : \E c :
              /\ files' = [files EXCEPT ![o] = c]
              /\ o \in Headers => c \in Checkouts \cup {None, Torn}
              /\ o \in TargetSet => (Readable(c) => c = Fields(c))
  PROVE  FileInv'
<1>1. SourcesOK' /\ runs' \in 0 .. Len(Stamps) /\ edits' \in 0 .. MaxEdits
  BY DEF FileInv, SourcesOK
<1>2. CASE UNCHANGED files
  <2>1. ConstantsPlain'
    BY <1>2, Zenon DEF FileInv, ConstantsPlain
  <2> QED
    BY <1>1, <1>2, <2>1 DEF FileInv
<1>3. ASSUME NEW o \in Outputs, NEW c, files' = [files EXCEPT ![o] = c],
             o \in Headers => c \in Checkouts \cup {None, Torn},
             o \in TargetSet => (Readable(c) => c = Fields(c))
      PROVE  FileInv'
  BY <1>1, <1>3, WriteEffect DEF FileInv
<1> QED
  BY <1>2, <1>3

\* The run begins.
LEMMA StartKeepsFiles ==
  ASSUME FileInv, StartRun
  PROVE  FileInv' /\ run'.todo # <<>> /\ Head(run'.todo) = "ids" /\ runs' = runs + 1
<1>1. /\ runs < Len(Stamps) /\ runs' = runs + 1
      /\ run' = [todo |-> RunSteps, spec |-> sources.checkout, m |-> None]
      /\ UNCHANGED <<sources, files, edits, failures>>
  BY DEF StartRun
<1>2. Len(Stamps) \in Nat
  BY VersionAssumption
<1>3. runs' \in 1 .. Len(Stamps) /\ runs' \in 0 .. Len(Stamps)
  BY <1>1, <1>2 DEF FileInv
<1>4. sources.checkout \in Checkouts
  BY DEF FileInv, SourcesOK
<1>5. RunSteps \in Seq(Outputs \cup {"lock", "inputs"}) /\ Len(RunSteps) >= 5
  BY StepNames
<1>6. RunSteps = From(RunSteps, 0) /\ 0 \in 0 .. Len(RunSteps)
  <2>1. SubSeq(RunSteps, 1, Len(RunSteps)) = RunSteps
    BY <1>5, SubSeqFull
  <2> QED
    BY <1>5, <2>1 DEF From
<1>7. RunSteps # <<>> /\ Head(RunSteps) = "ids"
  <2>1. Head(RunSteps) = RunSteps[1]
    BY <1>5
  <2> QED
    BY <1>5, <2>1, StepNames
<1>8. RunInv'
  BY <1>1, <1>3, <1>4, <1>6, <1>7 DEF RunInv
<1>9. SourcesOK' /\ ConstantsPlain'
  BY <1>1, Zenon DEF FileInv, SourcesOK, ConstantsPlain
<1> QED
  BY <1>1, <1>3, <1>7, <1>8, <1>9 DEF FileInv

\* A run writes a header.
LEMMA HeaderKeepsFiles ==
  ASSUME FileInv, WriteHeader
  PROVE  /\ FileInv'
         /\ run.todo # <<>> /\ Head(run.todo) \in Headers /\ run'.todo = Tail(run.todo)
         /\ \A p \in Filled : files'[p] = files[p]
<1> DEFINE o == Head(run.todo)
<1>1. /\ run.todo # <<>> /\ o \in Headers
      /\ files' = [files EXCEPT ![o] = run.spec]
      /\ Advance(run.m) /\ UNCHANGED <<sources, edits, failures, runs>>
  BY WriterIsAt DEF WriteHeader, WriteFile
<1>2. o # "lock" /\ o \in Outputs /\ o \notin TargetSet /\ o # "manifest"
  BY <1>1, StepNames DEF Headers, Outputs
<1>3. RunInv' /\ run'.todo = Tail(run.todo)
  BY <1>1, <1>2, RunAdvances
<1>4. run.spec \in Checkouts \cup {None, Torn}
  BY <1>1 DEF FileInv, RunInv
<1>5. failures' \in 0 .. MaxFailures
  BY <1>1 DEF FileInv
<1>6. FileInv'
  <2> HIDE DEF o
  <2> QED
    BY <1>1, <1>2, <1>3, <1>4, <1>5, RunKeepsFiles
<1>7. \A p \in Filled : files'[p] = files[p]
  <2>1. files = [p \in Outputs |-> files[p]] /\ Filled \subseteq Outputs
    BY DEF FileInv, Filled, Outputs
  <2> QED
    BY <1>1, <1>2, <2>1 DEF Filled
<1> QED
  BY <1>1, <1>3, <1>6, <1>7

\* What the lock says is text of the sources.
LEMMA LockTexts ==
  ASSUME SourcesOK, LockReadable(sources.lock)
  PROVE  /\ sources.lock.tag \in Texts /\ sources.lock.version \in Texts
         /\ sources.lock.commit \in Texts /\ sources.tool \in Texts
<1>1. sources.lock \in Locks /\ sources.tool \in ToolVersions
  BY DEF SourcesOK, LockReadable
<1>2. \A l \in Locks : l.tag \in Texts /\ l.version \in Texts /\ l.commit \in Texts
  BY DEF Texts
<1> QED
  BY <1>1, <1>2 DEF Texts

\* A run reads the lock, or ends.
LEMMA LockKeepsFiles ==
  ASSUME FileInv, ReadLock
  PROVE  /\ FileInv' /\ UNCHANGED <<files, runs>>
         /\ run.todo # <<>> /\ Head(run.todo) = "lock"
         /\ run'.todo = <<>> \/ (run'.todo # <<>> /\ Head(run'.todo) = "inputs")
<1>1. /\ run.todo # <<>> /\ Head(run.todo) = "lock"
      /\ UNCHANGED <<sources, files, edits, failures, runs>>
  BY WriterIsAt DEF ReadLock
<1>2. failures' \in 0 .. MaxFailures
  BY <1>1 DEF FileInv
<1>3. CASE LockReadable(sources.lock)
  <2> DEFINE m == [generatorVersion |-> sources.tool,
                   specTag |-> sources.lock.tag,
                   specVersion |-> sources.lock.version,
                   specCommit |-> sources.lock.commit,
                   generatedAt |-> Stamps[runs]]
  <2>1. Advance(m)
    BY <1>3 DEF ReadLock
  <2>2. /\ m["generatedAt"] = Stamps[runs]
        /\ \A f \in FieldNames \ {"generatedAt", "runtimeVersion"} : m[f] \in Texts
    BY <1>3, LockTexts DEF FieldNames, FileInv
  <2> HIDE DEF m
  <2>3. RunInv' /\ run'.todo = Tail(run.todo)
    BY <1>1, <2>1, <2>2, RunAdvances
  <2>4. Tail(run.todo) # <<>> /\ Head(Tail(run.todo)) = "inputs"
    BY <1>1, StepAfter DEF FileInv, RunInv
  <2> QED
    BY <1>1, <1>2, <2>3, <2>4, RunKeepsFiles
<1>4. CASE ~LockReadable(sources.lock)
  <2>1. RunInv' /\ run'.todo = <<>>
    BY <1>4, RunStops DEF ReadLock
  <2> QED
    BY <1>1, <1>2, <2>1, RunKeepsFiles
<1> QED
  BY <1>3, <1>4

\* A run reads its inputs, or ends.  What it is to write is then complete.
LEMMA InputsKeepFiles ==
  ASSUME FileInv, ReadInputs
  PROVE  /\ FileInv' /\ UNCHANGED <<files, runs>>
         /\ run.todo # <<>> /\ Head(run.todo) = "inputs"
         /\ \/ run'.todo = <<>>
            \/ /\ run'.todo # <<>> /\ Head(run'.todo) = "manifest"
               /\ run'.m["generatedAt"] = Stamps[runs]
               /\ \A f \in FieldNames \ {"generatedAt"} : run'.m[f] \in Texts
<1>1. /\ run.todo # <<>> /\ Head(run.todo) = "inputs"
      /\ UNCHANGED <<sources, files, edits, failures, runs>>
  BY WriterIsAt DEF ReadInputs
<1>2. failures' \in 0 .. MaxFailures
  BY <1>1 DEF FileInv
<1> DEFINE v == RuntimeVersion(sources.version)
<1>3. CASE v # None
  <2> DEFINE m == [f \in FieldNames \cup {"inputs"} |->
                     CASE f = "runtimeVersion" -> v
                       [] f = "inputs" -> sources.checkout
                       [] OTHER -> run.m[f]]
  <2>1. Advance(m)
    BY <1>3 DEF ReadInputs
  <2>2. v \in Texts
    BY <1>3 DEF RuntimeVersion, Texts, FileInv, SourcesOK
  <2>3. /\ run.m["generatedAt"] = Stamps[runs]
        /\ \A f \in FieldNames \ {"generatedAt", "runtimeVersion"} : run.m[f] \in Texts
    BY <1>1 DEF FileInv, RunInv
  <2>4. /\ m["generatedAt"] = Stamps[runs]
        /\ \A f \in FieldNames \ {"generatedAt"} : m[f] \in Texts
    <3> HIDE DEF v
    <3>1. "generatedAt" \in FieldNames /\ "inputs" \notin FieldNames
      BY DEF FieldNames
    <3> QED
      BY <2>2, <2>3, <3>1
  <2> HIDE DEF m
  <2>5. RunInv' /\ run'.todo = Tail(run.todo) /\ run'.m = m
    BY <1>1, <2>1, RunAdvances
  <2>6. Tail(run.todo) # <<>> /\ Head(Tail(run.todo)) = "manifest"
    BY <1>1, StepAfter DEF FileInv, RunInv
  <2> QED
    BY <1>1, <1>2, <2>4, <2>5, <2>6, RunKeepsFiles
<1>4. CASE v = None
  <2>1. RunInv' /\ run'.todo = <<>>
    BY <1>4, RunStops DEF ReadInputs
  <2> QED
    BY <1>1, <1>2, <2>1, RunKeepsFiles
<1> QED
  BY <1>3, <1>4

\* The fields of a rendered file are the file.
LEMMA FieldsOfFields ==
  ASSUME NEW m
  PROVE  Fields(Fields(m)) = Fields(m) /\ \A f \in FieldNames : Fields(m)[f] = m[f]
BY DEF Fields

\* A run writes the manifest or a constant file: what it holds, or the fields of
\* it.
LEMMA FilledKeepsFiles ==
  ASSUME FileInv, WriteManifest \/ WriteConstant
  PROVE  /\ FileInv' /\ UNCHANGED runs
         /\ Writing /\ (run'.todo = <<>> \/ Writing') /\ run'.m = run.m
         /\ \E o \in Filled :
              /\ files'[o] = run.m \/ files'[o] = Fields(run.m)
              /\ \A p \in Filled : p # o => files'[p] = files[p]
<1> DEFINE o == Head(run.todo)
<1>1. PICK c : /\ run.todo # <<>> /\ o \in Filled
               /\ c = run.m \/ c = Fields(run.m)
               /\ o \in TargetSet => c = Fields(run.m)
               /\ files' = [files EXCEPT ![o] = c]
               /\ Advance(run.m) /\ UNCHANGED <<sources, edits, failures, runs>>
  <2>1. CASE WriteManifest
    <3>1. "manifest" \notin TargetSet
      BY StepNames
    <3>2. AtStep({"manifest"}) /\ WriteFile(run.m)
      BY <2>1 DEF WriteManifest
    <3>3. run.todo # <<>> /\ o = "manifest"
      BY <3>2, WriterIsAt
    <3>4. o \in Filled /\ o \notin TargetSet
      BY <3>1, <3>3 DEF Filled
    <3> HIDE DEF o
    <3> QED
      BY <3>2, <3>3, <3>4 DEF WriteFile, o
  <2>2. CASE WriteConstant
    BY <2>2, WriterIsAt DEF WriteConstant, WriteFile, Filled, RenderConstant
  <2> QED
    BY <2>1, <2>2
<1>2. o # "lock" /\ o \in Outputs /\ o \notin Headers
  BY <1>1, StepNames DEF Headers, Outputs, Filled
<1>3. RunInv' /\ run'.todo = Tail(run.todo) /\ run'.m = run.m
  BY <1>1, <1>2, RunAdvances
<1>4. c = Fields(run.m) => c = Fields(c)
  BY FieldsOfFields
<1>5. failures' \in 0 .. MaxFailures
  BY <1>1 DEF FileInv
<1>6. Tail(run.todo) = <<>> \/ Head(Tail(run.todo)) \in TargetSet
  BY <1>1, StepAfter DEF FileInv, RunInv
<1>7. Writing /\ (run'.todo = <<>> \/ Writing')
  BY <1>1, <1>3, <1>6 DEF Writing, Filled
<1>8. files = [p \in Outputs |-> files[p]] /\ Filled \subseteq Outputs
  BY DEF FileInv, Filled, Outputs
<1> HIDE DEF o
<1>9. FileInv'
  BY <1>1, <1>2, <1>3, <1>4, <1>5, RunKeepsFiles
<1>10. files'[o] = c /\ \A p \in Filled : p # o => files'[p] = files[p]
  BY <1>1, <1>2, <1>8
<1> QED
  BY <1>1, <1>3, <1>7, <1>9, <1>10

\* A run fails, and may leave the file that it was writing torn.
LEMMA FailKeepsFiles ==
  ASSUME FileInv, FailRun
  PROVE  /\ FileInv' /\ UNCHANGED runs /\ run'.todo = <<>>
         /\ \A p \in Filled : files'[p] = files[p] \/ files'[p] = Torn
<1>1. /\ failures < MaxFailures /\ failures' = failures + 1
      /\ StopRun /\ UNCHANGED <<sources, edits, runs>>
      /\ UNCHANGED files \/ (AtStep(Outputs) /\ files' = [files EXCEPT ![Head(run.todo)] = Torn])
  BY DEF FailRun
<1>2. failures' \in 0 .. MaxFailures
  BY <1>1, VersionAssumption DEF FileInv
<1>3. RunInv' /\ run'.todo = <<>>
  BY <1>1, RunStops
<1>4. UNCHANGED files \/ \E o \in Outputs : files' = [files EXCEPT ![o] = Torn]
  BY <1>1, WriterIsAt
<1>5. ~Readable(Torn)
  BY DEF Readable
<1>6. FileInv'
  BY <1>1, <1>2, <1>3, <1>4, <1>5, RunKeepsFiles
<1>7. files = [p \in Outputs |-> files[p]] /\ Filled \subseteq Outputs
  BY DEF FileInv, Filled, Outputs
<1>8. \A p \in Filled : files'[p] = files[p] \/ files'[p] = Torn
  BY <1>4, <1>7
<1> QED
  BY <1>1, <1>3, <1>6, <1>8

\* What leaves the files, the sources and the run alone keeps the invariant.
LEMMA NothingWritten ==
  ASSUME FileInv, UNCHANGED <<sources, files, run, edits, failures, runs>>
  PROVE  FileInv'
<1>1. RunInv' /\ SourcesOK' /\ ConstantsPlain'
  BY Zenon DEF FileInv, RunInv, SourcesOK, ConstantsPlain
<1> QED
  BY <1>1 DEF FileInv

\* Nothing but the sources, the files and the check itself bears on the check.
LEMMA CheckUntouched ==
  ASSUME CheckInv, UNCHANGED <<sources, files, check>>
  PROVE  CheckInv'
BY DEF CheckInv

\* A check that is disturbed vouches for nothing but what it has read.
LEMMA DisturbKeepsCheck ==
  ASSUME CheckInv, Disturb
  PROVE  /\ CheckInv'
         /\ check'.result = check.result /\ check'.m = check.m /\ check'.seen = check.seen
<1>1. DOMAIN check = {"result", "todo", "m", "seen", "release", "tag", "quiet"}
  BY DEF CheckInv, NoCheck
<1>2. /\ check'.result = check.result /\ check'.todo = check.todo /\ check'.m = check.m
      /\ check'.seen = check.seen /\ check'.quiet = FALSE
      /\ DOMAIN check' = DOMAIN NoCheck
  BY <1>1 DEF Disturb, NoCheck
<1>3. CheckInv'
  BY <1>2 DEF CheckInv
<1> QED
  BY <1>2, <1>3

\* A check that begins has found the sources and the manifest to agree.
LEMMA BeginKeepsCheck ==
  ASSUME CheckInv, NEW release \in BOOLEAN, NEW tag, BeginCheck(release, tag)
  PROVE  /\ CheckInv' /\ UNCHANGED <<sources, files, run, notes, edits, failures, runs>>
         /\ \/ check'.result = "failed"
            \/ /\ check'.result = "reading" /\ check'.seen = <<>>
               /\ check'.m = files["manifest"] /\ Readable(files["manifest"])
<1> DEFINE m == files["manifest"]
           accepted == /\ release => tag # None
                       /\ LockReadable(sources.lock)
                       /\ Readable(m)
                       /\ RuntimeVersion(sources.version) # None
                       /\ release => TagMatches(tag, sources)
                       /\ AgreesWithSources(m, sources)
<1>1. /\ check' = IF accepted
                  THEN [NoCheck EXCEPT !.result = "reading", !.todo = Targets, !.m = m,
                                       !.release = release, !.tag = tag, !.quiet = Idle]
                  ELSE FailedCheck
      /\ UNCHANGED <<sources, files, run, notes, edits, failures, runs>>
  BY DEF BeginCheck
<1>2. CASE accepted
  <2>1. /\ check'.result = "reading" /\ check'.seen = <<>> /\ check'.m = m
        /\ check'.todo = Targets /\ check'.release = release /\ check'.tag = tag
        /\ DOMAIN check' = DOMAIN NoCheck
    BY <1>1, <1>2 DEF NoCheck
  <2>2. Len(Targets) \in Nat \ {0} /\ Targets \in Seq(TargetSet)
    BY StepNames
  <2>3. Targets = From(Targets, 0)
    BY <2>2, SubSeqFull DEF From
  <2>4. /\ Len(check'.seen) = 0 /\ check'.seen \in Seq(ToSet(check'.seen))
        /\ 0 \in 0 .. Len(Targets) /\ 0 # Len(Targets)
    BY <2>1, <2>2
  <2>5. CheckInv'
    BY <1>1, <1>2, <2>1, <2>3, <2>4 DEF CheckInv
  <2> QED
    BY <1>1, <1>2, <2>1, <2>5
<1>3. CASE ~accepted
  <2>1. check'.result = "failed" /\ check'.todo = <<>> /\ DOMAIN check' = DOMAIN NoCheck
    BY <1>1, <1>3 DEF FailedCheck, NoCheck
  <2>2. CheckInv'
    BY <2>1 DEF CheckInv
  <2> QED
    BY <1>1, <2>1, <2>2
<1> QED
  BY <1>2, <1>3

\* A check accepts a file, and goes on to the next or ends; or it fails.
LEMMA CheckConstantEffect ==
  ASSUME CheckInv, CheckConstant
  PROVE  /\ CheckInv' /\ UNCHANGED <<sources, files, run, notes, edits, failures, runs>>
         /\ check.result = "reading"
         /\ \/ check'.result = "failed"
            \/ \E t \in TargetSet :
                 /\ check'.result \in {"reading", "ok"} /\ check'.m = check.m
                 /\ ConstantAccepted(files[t], check.m)
                 /\ Len(check'.seen) = Len(check.seen) + 1
                 /\ check'.seen[Len(check.seen) + 1] = files[t]
                 /\ \A i \in 1 .. Len(check.seen) : check'.seen[i] = check.seen[i]
<1> DEFINE n == Len(check.seen)
           file == files[Head(check.todo)]
<1>1. /\ check.result = "reading"
      /\ check' = IF ConstantAccepted(file, check.m)
                  THEN [check EXCEPT
                          !.result = IF Len(check.todo) = 1 THEN "ok" ELSE "reading",
                          !.todo = Tail(check.todo),
                          !.seen = Append(check.seen, file)]
                  ELSE FailedCheck
      /\ UNCHANGED <<sources, files, run, notes, edits, failures, runs>>
  BY DEF CheckConstant
<1>2. CASE ConstantAccepted(file, check.m)
  <2>1. DOMAIN check = {"result", "todo", "m", "seen", "release", "tag", "quiet"}
    BY DEF CheckInv, NoCheck
  <2>2. /\ check'.result = IF Len(check.todo) = 1 THEN "ok" ELSE "reading"
        /\ check'.todo = Tail(check.todo) /\ check'.seen = Append(check.seen, file)
        /\ check'.m = check.m /\ check'.release = check.release /\ check'.tag = check.tag
        /\ check'.quiet = check.quiet
        /\ DOMAIN check' = DOMAIN NoCheck
    BY <1>1, <1>2, <2>1 DEF NoCheck
  <2>3. Targets \in Seq(TargetSet) /\ Len(Targets) \in Nat
    BY StepNames
  <2>4. /\ n \in 0 .. Len(Targets) /\ n # Len(Targets) /\ check.seen \in Seq(ToSet(check.seen))
        /\ check.todo = From(Targets, n)
    BY <1>1 DEF CheckInv
  <2> HIDE DEF n
  <2>5. n < Len(Targets) /\ n + 1 \in 1 .. Len(Targets) /\ n + 1 \in 0 .. Len(Targets)
    BY <2>3, <2>4
  <2>6. /\ Head(check.todo) = Targets[n + 1] /\ Tail(check.todo) = From(Targets, n + 1)
        /\ Len(check.todo) = Len(Targets) - n
    BY <2>3, <2>4, <2>5, FromParts
  <2>7. Targets[n + 1] \in TargetSet
    BY <2>3, <2>5
  <2>8. /\ check'.seen \in Seq(ToSet(check'.seen))
        /\ Len(check'.seen) = n + 1 /\ check'.seen[n + 1] = file
        /\ \A i \in 1 .. n : check'.seen[i] = check.seen[i]
    <3> DEFINE s == check.seen
               t == check'.seen
    <3>1. s \in Seq(ToSet(s)) /\ t = Append(s, file)
      BY <2>2, <2>4
    <3> HIDE DEF s, t, file
    <3> DEFINE S == ToSet(s) \cup {file}
    <3>2. s \in Seq(S) /\ file \in S
      BY <3>1
    <3> HIDE DEF S
    <3>3. /\ t \in Seq(S) /\ Len(t) = Len(s) + 1 /\ t[Len(s) + 1] = file
          /\ \A i \in 1 .. Len(s) : t[i] = s[i]
      BY <3>1, <3>2, AppendProperties
    <3>4. Len(t) \in Nat /\ DOMAIN t = 1 .. Len(t) /\ t \in [1 .. Len(t) -> S]
      BY <3>3, LenProperties
    <3>5. \A i \in 1 .. Len(t) : t[i] \in ToSet(t)
      BY <3>4 DEF ToSet
    <3>6. /\ t \in Seq(ToSet(t)) /\ Len(t) = Len(s) + 1 /\ t[Len(s) + 1] = file
          /\ \A i \in 1 .. Len(s) : t[i] = s[i]
      BY <3>3, <3>4, <3>5, IsASeq
    <3> QED
      BY <3>6, Zenon DEF n, s, t
  <2>9. /\ check'.result \in {"reading", "ok"}
        /\ check'.result = "reading" <=> n + 1 # Len(Targets)
    BY <2>2, <2>3, <2>4, <2>6
  <2>10. ASSUME check.quiet
         PROVE  \A i \in 1 .. (n + 1) : check'.seen[i] = files[Targets[i]]
    <3>1. \A i \in 1 .. n : check.seen[i] = files[Targets[i]]
      BY <1>1, <2>10 DEF CheckInv, n
    <3>2. \A i \in 1 .. (n + 1) : i \in 1 .. n \/ i = n + 1
      BY <2>4
    <3> QED
      BY <2>6, <2>8, <3>1, <3>2
  <2>11. CheckInv'
    <3>1. check.quiet => /\ check.m = files["manifest"]
                         /\ AgreesWithSources(check.m, sources)
                         /\ check.release => TagMatches(check.tag, sources)
      BY <1>1 DEF CheckInv
    <3> HIDE DEF file
    <3>2. UNCHANGED <<sources, files>>
      BY <1>1
    <3>3. check'.result \in {"none", "reading", "ok", "failed"}
      BY <2>9
    <3>4. /\ check'.seen \in Seq(ToSet(check'.seen)) /\ Len(check'.seen) \in 0 .. Len(Targets)
          /\ check'.todo = From(Targets, Len(check'.seen))
          /\ check'.result = "reading" <=> Len(check'.seen) # Len(Targets)
      BY <2>2, <2>5, <2>6, <2>8, <2>9, Zenon
    <3>5. ASSUME check'.quiet
          PROVE  /\ check'.m = files'["manifest"]
                 /\ AgreesWithSources(check'.m, sources')
                 /\ check'.release => TagMatches(check'.tag, sources')
                 /\ \A i \in 1 .. Len(check'.seen) : check'.seen[i] = files'[Targets[i]]
      BY <2>2, <2>8, <2>10, <3>1, <3>2, <3>5, Zenon
    <3> QED
      BY <2>2, <2>9, <3>3, <3>4, <3>5, Zenon DEF CheckInv
  <2> QED
    BY <1>1, <1>2, <2>2, <2>6, <2>7, <2>8, <2>9, <2>11 DEF n
<1>3. CASE ~ConstantAccepted(file, check.m)
  <2>1. check'.result = "failed" /\ check'.todo = <<>> /\ DOMAIN check' = DOMAIN NoCheck
    BY <1>1, <1>3 DEF FailedCheck, NoCheck
  <2>2. CheckInv'
    BY <2>1 DEF CheckInv
  <2> QED
    BY <1>1, <2>1, <2>2
<1> QED
  BY <1>2, <1>3

\* Every step of the scripts and of the people is one of these.
LEMMA VersionInvStep ==
  ASSUME FileInv, CheckInv, [VersionNext]_versionVars
  PROVE  FileInv' /\ CheckInv'
<1>1. ASSUME Disturb PROVE CheckInv'
  BY <1>1, DisturbKeepsCheck
<1>2. CASE EditSources
  <2>1. Disturb
    BY <1>2 DEF EditSources, Edit
  <2> QED
    BY <1>1, <1>2, <2>1, EditKeepsFiles
<1>3. CASE StartRun
  BY <1>1, <1>3, StartKeepsFiles DEF StartRun
<1>4. CASE WriteHeader
  BY <1>1, <1>4, HeaderKeepsFiles DEF WriteHeader, WriteFile
<1>5. CASE ReadLock
  BY <1>1, <1>5, LockKeepsFiles DEF ReadLock
<1>6. CASE ReadInputs
  BY <1>1, <1>6, InputsKeepFiles DEF ReadInputs
<1>7. CASE WriteManifest \/ WriteConstant
  BY <1>1, <1>7, FilledKeepsFiles DEF WriteManifest, WriteConstant, WriteFile
<1>8. CASE FailRun
  BY <1>1, <1>8, FailKeepsFiles DEF FailRun
<1>9. ASSUME NEW release \in BOOLEAN, NEW tag, BeginCheck(release, tag)
      PROVE  FileInv' /\ CheckInv'
  BY <1>9, BeginKeepsCheck, NothingWritten
<1>10. CASE CheckConstant
  BY <1>10, CheckConstantEffect, NothingWritten
<1>11. CASE WriteReleaseNotes
  BY <1>11, CheckUntouched, NothingWritten DEF WriteReleaseNotes
<1>12. CASE UNCHANGED versionVars
  BY <1>12, CheckUntouched, NothingWritten DEF versionVars
<1> QED
  BY <1>2, <1>3, <1>4, <1>5, <1>6, <1>7, <1>8, <1>9, <1>10, <1>11, <1>12
     DEF VersionNext, RunStep, Check, ReleaseCheck

LEMMA VersionInvInit ==
  ASSUME VersionInit
  PROVE  FileInv /\ CheckInv
<1>1. SourcesOK /\ edits \in 0 .. MaxEdits /\ failures \in 0 .. MaxFailures
      /\ runs \in 0 .. Len(Stamps)
  BY VersionAssumption DEF VersionInit, SourcesOK
<1>2. files = [o \in Outputs |-> None] /\ Headers \subseteq Outputs /\ TargetSet \subseteq Outputs
  BY DEF VersionInit, Outputs
<1>3. ~Readable(None)
  BY DEF Readable
<1>4. ConstantsPlain /\ files = [o \in Outputs |-> files[o]] /\ \A h \in Headers : files[h] = None
  BY <1>2, <1>3 DEF ConstantsPlain
<1>5. RunInv
  <2>1. RunSteps \in Seq(Outputs \cup {"lock", "inputs"})
    BY StepNames
  <2>2. Len(RunSteps) \in 0 .. Len(RunSteps) /\ From(RunSteps, Len(RunSteps)) = <<>>
    <3>1. Len(RunSteps) \in 0 .. Len(RunSteps)
      BY <2>1
    <3> QED
      BY <2>1, <3>1, FromParts
  <2> QED
    BY <2>2 DEF RunInv, VersionInit, NoRun
<1>6. CheckInv
  BY DEF CheckInv, VersionInit, NoCheck
<1> QED
  BY <1>1, <1>4, <1>5, <1>6 DEF FileInv

\* The version files, a run and a check are what they seem at any time, and a
\* check that nothing has disturbed vouches for the files and the sources.
THEOREM VersionInvHolds == VersionSpec => [](FileInv /\ CheckInv)
<1>1. VersionInit => FileInv /\ CheckInv
  BY VersionInvInit
<1>2. (FileInv /\ CheckInv) /\ [VersionNext]_versionVars => (FileInv /\ CheckInv)'
  BY VersionInvStep
<1> QED
  BY <1>1, <1>2, PTL DEF VersionSpec

\* The sources, the steps of a run and those of a check have their types
\* (axtp-versioning.mjs:297, 350).
THEOREM VersionTypeCorrect == VersionSpec => []VersionTypeOK
<1>1. FileInv /\ CheckInv => VersionTypeOK
  <2> SUFFICES ASSUME FileInv, CheckInv PROVE VersionTypeOK
    OBVIOUS
  <2>1. SourcesOK /\ DOMAIN files = Outputs /\ \A h \in Headers : files[h] \in Checkouts \cup {None, Torn}
    BY DEF FileInv
  <2>2. runs <= Len(Stamps) /\ edits <= MaxEdits /\ failures <= MaxFailures
    BY VersionAssumption DEF FileInv
  <2>3. Len(run.todo) <= Len(RunSteps)
    <3>1. RunSteps \in Seq(Outputs \cup {"lock", "inputs"}) /\ Len(RunSteps) \in Nat
      BY StepNames
    <3>2. PICK k \in 0 .. Len(RunSteps) : run.todo = From(RunSteps, k)
      BY DEF FileInv, RunInv
    <3>3. Len(run.todo) = Len(RunSteps) - k
      BY <3>1, <3>2, FromParts
    <3> QED
      BY <3>1, <3>3
  <2>4. /\ check.result \in {"none", "reading", "ok", "failed"}
        /\ check.result = "reading" <=> check.todo # <<>>
    <3>1. Targets \in Seq(TargetSet)
      BY StepNames
    <3>2. check.result \in {"reading", "ok"} =>
            (check.todo = <<>> <=> Len(check.seen) = Len(Targets))
      BY <3>1, FromParts DEF CheckInv
    <3> QED
      BY <3>2 DEF CheckInv
  <2> QED
    BY <2>1, <2>2, <2>3, <2>4 DEF VersionTypeOK, SourcesOK
<1> QED
  BY <1>1, VersionInvHolds, PTL

\* Notes that are written after a release check, with nothing in between, give
\* the version of the tag and its specification, although writing them compares
\* nothing (axtp-versioning.mjs:392).
THEOREM NotesTellTheRelease == VersionSpec => NotesAreOfTheRelease
<1>1. FileInv /\ CheckInv /\ [VersionNext]_versionVars =>
        [ notes' # notes /\ check.result = "ok" /\ check.release /\ check.quiet =>
            /\ notes'.runtimeVersion = check.tag
            /\ notes'.specVersion = SpecOf(check.tag) ]_versionVars
  <2> SUFFICES ASSUME FileInv, CheckInv, [VersionNext]_versionVars,
                      notes' # notes, check.result = "ok", check.release, check.quiet
               PROVE  /\ notes'.runtimeVersion = check.tag
                      /\ notes'.specVersion = SpecOf(check.tag)
    OBVIOUS
  <2>1. WriteReleaseNotes
    <3>1. EditSources => UNCHANGED notes
      BY DEF EditSources, Edit
    <3>2. StartRun \/ RunStep \/ FailRun => UNCHANGED notes
      BY DEF StartRun, RunStep, FailRun, WriteHeader, ReadLock, ReadInputs, WriteManifest,
             WriteConstant, WriteFile
    <3>3. Check \/ ReleaseCheck \/ CheckConstant => UNCHANGED notes
      BY DEF Check, ReleaseCheck, BeginCheck, CheckConstant
    <3>4. UNCHANGED versionVars => UNCHANGED notes
      BY DEF versionVars
    <3> QED
      BY <3>1, <3>2, <3>3, <3>4 DEF VersionNext
  <2>2. /\ notes'.runtimeVersion = files["manifest"].runtimeVersion
        /\ notes'.specVersion = files["manifest"].specVersion
    BY <2>1 DEF WriteReleaseNotes, FieldNames
  <2>3. /\ check.m = files["manifest"]
        /\ AgreesWithSources(check.m, sources) /\ TagMatches(check.tag, sources)
    BY DEF CheckInv
  <2> QED
    BY <2>2, <2>3 DEF AgreesWithSources, TagMatches
<1> QED
  BY <1>1, VersionInvHolds, PTL DEF VersionSpec, NotesAreOfTheRelease

\* Two sheets with the same fields have the same value in each of them.
LEMMA SameFields ==
  ASSUME NEW x, NEW y, Fields(x) = Fields(y), NEW f \in FieldNames
  PROVE  x[f] = y[f]
BY DEF Fields

\* There is a sheet with these values already.
Known(x) == \E y \in Sheets : Fields(x) = Fields(y)

\* A sheet is one of the files, the manifest of the check or the one of the run.
LEMMA SheetKnown ==
  ASSUME NEW x,
         \/ \E o \in Filled : Readable(files[o]) /\ x = files[o]
         \/ check.result \in {"reading", "ok"} /\ x = check.m
         \/ Writing /\ x = run.m
  PROVE  x \in Sheets /\ Known(x)
<1>1. x \in Sheets
  BY DEF Sheets
<1> QED
  BY <1>1 DEF Known

\* A step that brings no sheet with other values, on which no run goes back.
LEMMA SheetsKept ==
  ASSUME SheetsAreOfRuns, OneSheetPerRun, runs \in Nat,
         \A x \in Sheets' : Known(x),
         \/ UNCHANGED runs /\ (Before' => Before)
         \/ runs' = runs + 1
  PROVE  SheetsAreOfRuns' /\ OneSheetPerRun'
<1>1. SheetsAreOfRuns'
  <2>1. ASSUME NEW x \in Sheets' PROVE IsOfARun(x)'
    <3>1. PICK y \in Sheets : Fields(x) = Fields(y)
      BY <2>1 DEF Known
    <3>2. \A f \in FieldNames : x[f] = y[f]
      BY <3>1, SameFields
    <3>3. "generatedAt" \in FieldNames
      BY DEF FieldNames
    <3>4. PICK n \in 1 .. runs : y["generatedAt"] = Stamps[n] /\ (Before => n # runs)
      BY DEF SheetsAreOfRuns, IsOfARun
    <3>5. \A f \in FieldNames \ {"generatedAt"} : y[f] \in Texts
      BY DEF SheetsAreOfRuns, IsOfARun
    <3>6. n \in 1 .. runs' /\ (Before' => n # runs')
      BY <3>4
    <3>7. \A f \in FieldNames \ {"generatedAt"} : x[f] \in Texts
      BY <3>2, <3>5
    <3>8. x["generatedAt"] = Stamps[n]
      BY <3>2, <3>3, <3>4
    <3> QED
      BY <3>6, <3>7, <3>8 DEF IsOfARun
  <2> QED
    BY <2>1 DEF SheetsAreOfRuns
<1>2. OneSheetPerRun'
  <2>1. ASSUME NEW x \in Sheets', NEW y \in Sheets', x["generatedAt"] = y["generatedAt"]
        PROVE  Fields(x) = Fields(y)
    <3>1. PICK a \in Sheets : Fields(x) = Fields(a)
      BY <2>1 DEF Known
    <3>2. PICK b \in Sheets : Fields(y) = Fields(b)
      BY <2>1 DEF Known
    <3>3. a["generatedAt"] = b["generatedAt"]
      BY <2>1, <3>1, <3>2, SameFields DEF FieldNames
    <3> QED
      BY <3>1, <3>2, <3>3 DEF OneSheetPerRun
  <2> QED
    BY <2>1 DEF OneSheetPerRun
<1> QED
  BY <1>1, <1>2

\* The sheets after a step, by where they are.
LEMMA SheetsAfter ==
  ASSUME \A o \in Filled : Readable(files'[o]) => Known(files'[o]),
         check'.result \in {"reading", "ok"} => Known(check'.m)
  PROVE  \A x \in Sheets' : Known(x) \/ (Writing' /\ x = run'.m)
<1> TAKE x \in Sheets'
<1>1. \/ \E o \in Filled : Readable(files'[o]) /\ x = files'[o]
      \/ check'.result \in {"reading", "ok"} /\ x = check'.m
      \/ Writing' /\ x = run'.m
  BY DEF Sheets
<1> QED
  BY <1>1

\* Files and a check that are as they were.
LEMMA NoNewSheet ==
  ASSUME \A p \in Filled : files'[p] = files[p] \/ files'[p] = Torn,
         check'.result = check.result, check'.m = check.m,
         Writing' => Writing /\ run'.m = run.m
  PROVE  \A x \in Sheets' : Known(x)
<1>1. ~Readable(Torn)
  BY DEF Readable
<1>2. \A o \in Filled : Readable(files'[o]) => Known(files'[o])
  BY <1>1, SheetKnown
<1>3. check'.result \in {"reading", "ok"} => Known(check'.m)
  BY SheetKnown
<1>4. Writing' => Known(run'.m)
  BY SheetKnown
<1> QED
  BY <1>2, <1>3, <1>4, SheetsAfter

\* A step that leaves what a check has accepted alone.
LEMMA SeenKept ==
  ASSUME SeenIsOfTheManifest,
         check'.result = check.result, check'.m = check.m, check'.seen = check.seen
  PROVE  SeenIsOfTheManifest'
<1>1. check'.result \in {"reading", "ok"} =>
        \A i \in 1 .. Len(check'.seen) : check'.seen[i] = Fields(check'.m)
  BY DEF SeenIsOfTheManifest
<1> QED
  BY <1>1 DEF SeenIsOfTheManifest

\* Under the hypothesis, the stamps of two runs differ.
LEMMA StampsDiffer ==
  ASSUME StampsTellRunsApart, NEW i \in 1 .. Len(Stamps), NEW j \in 1 .. Len(Stamps),
         Stamps[i] = Stamps[j]
  PROVE  i = j
<1> DEFINE s == Stamps[i]
<1>1. s \in Seq(STRING)
  BY VersionAssumption
<1>2. Within(s, s)
  <2> HIDE DEF s
  <2>1. Len(s) \in Nat /\ SubSeq(s, 1, Len(s)) = s
    BY <1>1, SubSeqFull
  <2>2. 0 \in 0 .. (Len(s) - Len(s)) /\ SubSeq(s, 0 + 1, 0 + Len(s)) = s
    BY <2>1
  <2> QED
    BY <2>2 DEF Within
<1> QED
  BY <1>2 DEF StampsTellRunsApart

\* A disturbed check keeps its manifest and what it has accepted.
LEMMA DisturbedSheets ==
  ASSUME FileInv, CheckInv, SheetInv, Disturb,
         \A p \in Filled : files'[p] = files[p] \/ files'[p] = Torn,
         Writing' => Writing /\ run'.m = run.m,
         \/ UNCHANGED runs /\ (Before' => Before)
         \/ runs' = runs + 1
  PROVE  SheetInv'
<1>1. check'.result = check.result /\ check'.m = check.m /\ check'.seen = check.seen
  BY DisturbKeepsCheck
<1>2. \A x \in Sheets' : Known(x)
  BY <1>1, NoNewSheet
<1>3. runs \in Nat
  BY VersionAssumption DEF FileInv
<1>4. SheetsAreOfRuns' /\ OneSheetPerRun'
  BY <1>2, <1>3, SheetsKept DEF SheetInv
<1>5. SeenIsOfTheManifest'
  BY <1>1, SeenKept DEF SheetInv
<1> QED
  BY <1>4, <1>5 DEF SheetInv

\* Neither a header nor a reading is a sheet.
LEMMA HeadsNotFilled == {"ids", "registry", "lock", "inputs"} \cap Filled = {}
BY StepNames DEF Filled

\* A run writes a header.
LEMMA HeaderKeepsSheets ==
  ASSUME FileInv, CheckInv, SheetInv, WriteHeader
  PROVE  SheetInv'
<1>1. /\ run.todo # <<>> /\ Head(run.todo) \in Headers /\ run'.todo = Tail(run.todo)
      /\ \A p \in Filled : files'[p] = files[p]
  BY HeaderKeepsFiles
<1>2. Disturb /\ UNCHANGED runs
  BY DEF WriteHeader, WriteFile
<1>3. Head(run'.todo) \in {"registry", "lock"}
  BY <1>1, StepAfter DEF FileInv, RunInv, Headers
<1>4. Before /\ ~Writing'
  BY <1>1, <1>3, HeadsNotFilled DEF Before, Writing, Headers
<1> QED
  BY <1>1, <1>2, <1>4, DisturbedSheets

\* A run reads the lock.
LEMMA LockKeepsSheets ==
  ASSUME FileInv, CheckInv, SheetInv, ReadLock
  PROVE  SheetInv'
<1>1. /\ UNCHANGED <<files, runs>> /\ run.todo # <<>> /\ Head(run.todo) = "lock"
      /\ run'.todo = <<>> \/ (run'.todo # <<>> /\ Head(run'.todo) = "inputs")
  BY LockKeepsFiles
<1>2. Disturb
  BY DEF ReadLock
<1>3. Before /\ ~Writing'
  BY <1>1, HeadsNotFilled DEF Before, Writing
<1> QED
  BY <1>1, <1>2, <1>3, DisturbedSheets

\* A run reads its inputs: the one step that brings a sheet with values of its
\* own, and no other sheet is of that run.
LEMMA InputsKeepSheets ==
  ASSUME StampsTellRunsApart, FileInv, CheckInv, SheetInv, ReadInputs
  PROVE  SheetInv'
<1>1. /\ UNCHANGED <<files, runs>> /\ run.todo # <<>> /\ Head(run.todo) = "inputs"
      /\ \/ run'.todo = <<>>
         \/ /\ run'.todo # <<>> /\ Head(run'.todo) = "manifest"
            /\ run'.m["generatedAt"] = Stamps[runs]
            /\ \A f \in FieldNames \ {"generatedAt"} : run'.m[f] \in Texts
  BY InputsKeepFiles
<1>2. Disturb
  BY DEF ReadInputs
<1>3. Before /\ ~Before'
  BY <1>1, HeadsNotFilled DEF Before, Filled
<1>4. CASE run'.todo = <<>>
  <2>1. ~Writing'
    BY <1>4 DEF Writing
  <2> QED
    BY <1>1, <1>2, <1>3, <2>1, DisturbedSheets
<1>5. CASE run'.todo # <<>>
  <2>1. check'.result = check.result /\ check'.m = check.m /\ check'.seen = check.seen
    BY <1>2, DisturbKeepsCheck
  <2>2. \A x \in Sheets' : Known(x) \/ x = run'.m
    <3>1. \A o \in Filled : Readable(files'[o]) => Known(files'[o])
      BY <1>1, SheetKnown
    <3>2. check'.result \in {"reading", "ok"} => Known(check'.m)
      BY <2>1, SheetKnown
    <3> QED
      BY <3>1, <3>2, SheetsAfter
  <2>3. runs \in 1 .. Len(Stamps) /\ runs \in 1 .. runs /\ Len(Stamps) \in Nat /\ runs' = runs
    BY <1>1, VersionAssumption DEF FileInv, RunInv
  <2>4. ASSUME NEW x, Known(x)
        PROVE  /\ x["generatedAt"] # Stamps[runs]
               /\ IsOfARun(x)'
               /\ \E y \in Sheets : Fields(x) = Fields(y)
    <3>1. PICK y \in Sheets : Fields(x) = Fields(y)
      BY <2>4 DEF Known
    <3>2. \A f \in FieldNames : x[f] = y[f]
      BY <3>1, SameFields
    <3>3. "generatedAt" \in FieldNames
      BY DEF FieldNames
    <3>4. PICK n \in 1 .. runs : y["generatedAt"] = Stamps[n] /\ n # runs
      BY <1>3 DEF SheetInv, SheetsAreOfRuns, IsOfARun
    <3>5. \A f \in FieldNames \ {"generatedAt"} : y[f] \in Texts
      BY DEF SheetInv, SheetsAreOfRuns, IsOfARun
    <3>6. n \in 1 .. Len(Stamps)
      BY <2>3, <3>4
    <3>7. x["generatedAt"] = Stamps[n]
      BY <3>2, <3>3, <3>4
    <3>8. x["generatedAt"] # Stamps[runs]
      BY <2>3, <3>4, <3>6, <3>7, StampsDiffer
    <3>9. IsOfARun(x)'
      BY <1>1, <1>3, <3>2, <3>4, <3>5, <3>7 DEF IsOfARun
    <3> QED
      BY <3>1, <3>8, <3>9
  <2>5. ASSUME NEW x, x = run'.m PROVE IsOfARun(x)'
    BY <1>1, <1>3, <1>5, <2>3, <2>5 DEF IsOfARun
  <2>6. SheetsAreOfRuns'
    BY <2>2, <2>4, <2>5 DEF SheetsAreOfRuns
  <2>7. OneSheetPerRun'
    <3>1. ASSUME NEW x \in Sheets', NEW y \in Sheets', x["generatedAt"] = y["generatedAt"]
          PROVE  Fields(x) = Fields(y)
      <4>1. CASE x = run'.m /\ y = run'.m
        BY <4>1
      <4>2. CASE Known(x) /\ Known(y)
        <5>1. PICK a \in Sheets : Fields(x) = Fields(a)
          BY <4>2 DEF Known
        <5>2. PICK b \in Sheets : Fields(y) = Fields(b)
          BY <4>2 DEF Known
        <5>3. a["generatedAt"] = b["generatedAt"]
          BY <3>1, <5>1, <5>2, SameFields DEF FieldNames
        <5> QED
          BY <5>1, <5>2, <5>3 DEF SheetInv, OneSheetPerRun
      <4>3. Known(x) => y # run'.m
        BY <1>1, <1>5, <2>4, <3>1
      <4>4. Known(y) => x # run'.m
        BY <1>1, <1>5, <2>4, <3>1
      <4> QED
        BY <2>2, <4>1, <4>2, <4>3, <4>4
    <3> QED
      BY <3>1 DEF OneSheetPerRun
  <2>8. SeenIsOfTheManifest'
    BY <2>1, SeenKept DEF SheetInv
  <2> QED
    BY <2>6, <2>7, <2>8 DEF SheetInv
<1> QED
  BY <1>4, <1>5

\* A run writes a file.
LEMMA FilledKeepsSheets ==
  ASSUME FileInv, CheckInv, SheetInv, WriteManifest \/ WriteConstant
  PROVE  SheetInv'
<1>1. /\ UNCHANGED runs
      /\ Writing /\ (run'.todo = <<>> \/ Writing') /\ run'.m = run.m
  BY FilledKeepsFiles
<1>2. PICK o \in Filled : /\ files'[o] = run.m \/ files'[o] = Fields(run.m)
                          /\ \A p \in Filled : p # o => files'[p] = files[p]
  BY FilledKeepsFiles
<1>3. Disturb
  BY DEF WriteManifest, WriteConstant, WriteFile
<1>4. check'.result = check.result /\ check'.m = check.m /\ check'.seen = check.seen
  BY <1>3, DisturbKeepsCheck
<1>5. run.m \in Sheets /\ Known(run.m)
  BY <1>1, SheetKnown
<1>6. Known(files'[o])
  BY <1>2, <1>5, FieldsOfFields DEF Known
<1>7. \A p \in Filled : Readable(files'[p]) => Known(files'[p])
  BY <1>2, <1>6, SheetKnown
<1>8. check'.result \in {"reading", "ok"} => Known(check'.m)
  BY <1>4, SheetKnown
<1>9. \A x \in Sheets' : Known(x)
  BY <1>1, <1>5, <1>7, <1>8, SheetsAfter
<1>10. runs \in Nat /\ ~Before'
  BY <1>1, VersionAssumption DEF FileInv, Before, Writing
<1>11. SheetsAreOfRuns' /\ OneSheetPerRun'
  BY <1>1, <1>9, <1>10, SheetsKept DEF SheetInv
<1>12. SeenIsOfTheManifest'
  BY <1>4, SeenKept DEF SheetInv
<1> QED
  BY <1>11, <1>12 DEF SheetInv

\* A check that begins keeps a manifest that is there.
LEMMA BeginKeepsSheets ==
  ASSUME FileInv, CheckInv, SheetInv, NEW release \in BOOLEAN, NEW tag, BeginCheck(release, tag)
  PROVE  SheetInv'
<1>1. /\ UNCHANGED <<files, run, runs>>
      /\ \/ check'.result = "failed"
         \/ /\ check'.result = "reading" /\ check'.seen = <<>>
            /\ check'.m = files["manifest"] /\ Readable(files["manifest"])
  BY BeginKeepsCheck
<1>2. (Before' <=> Before) /\ (Writing' <=> Writing) /\ run'.m = run.m /\ runs \in Nat
  BY <1>1, VersionAssumption DEF Before, Writing, FileInv
<1>3. check'.result \in {"reading", "ok"} => Known(check'.m)
  BY <1>1, SheetKnown DEF Filled
<1>4. \A p \in Filled : Readable(files'[p]) => Known(files'[p])
  BY <1>1, SheetKnown
<1>5. Writing => Known(run.m)
  BY SheetKnown
<1>6. \A x \in Sheets' : Known(x)
  BY <1>2, <1>3, <1>4, <1>5, SheetsAfter
<1>7. SheetsAreOfRuns' /\ OneSheetPerRun'
  BY <1>1, <1>2, <1>6, SheetsKept DEF SheetInv
<1>8. SeenIsOfTheManifest'
  BY <1>1 DEF SeenIsOfTheManifest
<1> QED
  BY <1>7, <1>8 DEF SheetInv

\* A constant file that shows every value of a manifest has been written by the
\* run of that manifest: it shows its stamp, which is nowhere else.
LEMMA AcceptedIsOfTheManifest ==
  ASSUME StampsTellRunsApart, FileInv, SheetInv, check.result = "reading",
         NEW t \in TargetSet, ConstantAccepted(files[t], check.m)
  PROVE  files[t] = Fields(check.m)
<1> DEFINE file == files[t]
           m == check.m
<1>1. Readable(file) /\ t \in Filled
  BY DEF ConstantAccepted, Filled
<1>2. file \in Sheets /\ m \in Sheets
  BY <1>1, SheetKnown
<1>3. file = Fields(file)
  BY <1>1 DEF FileInv, ConstantsPlain
<1>4. PICK i \in 1 .. runs : m["generatedAt"] = Stamps[i]
  BY <1>2 DEF SheetInv, SheetsAreOfRuns, IsOfARun
<1>5. PICK j \in 1 .. runs : file["generatedAt"] = Stamps[j]
  BY <1>2 DEF SheetInv, SheetsAreOfRuns, IsOfARun
<1>6. i \in 1 .. Len(Stamps) /\ j \in 1 .. Len(Stamps)
  BY VersionAssumption DEF FileInv
<1>7. PICK f \in FieldNames : Within(m["generatedAt"], file[f])
  BY DEF ConstantAccepted, Shows, FieldNames
<1>8. f # "generatedAt" => file[f] \in Texts
  BY <1>2 DEF SheetInv, SheetsAreOfRuns, IsOfARun
<1>9. f = "generatedAt"
  BY <1>4, <1>6, <1>7, <1>8 DEF StampsTellRunsApart
<1>10. i = j
  BY <1>4, <1>5, <1>6, <1>7, <1>9 DEF StampsTellRunsApart
<1>11. file["generatedAt"] = m["generatedAt"]
  BY <1>4, <1>5, <1>10
<1>12. Fields(file) = Fields(m)
  BY <1>2, <1>11 DEF SheetInv, OneSheetPerRun
<1> QED
  BY <1>3, <1>12

\* A check goes on, or ends.
LEMMA CheckKeepsSheets ==
  ASSUME StampsTellRunsApart, FileInv, CheckInv, SheetInv, CheckConstant
  PROVE  SheetInv'
<1>1. /\ UNCHANGED <<files, run, runs>> /\ check.result = "reading"
      /\ \/ check'.result = "failed"
         \/ check'.result \in {"reading", "ok"} /\ check'.m = check.m
  BY CheckConstantEffect
<1>2. (Before' <=> Before) /\ (Writing' <=> Writing) /\ run'.m = run.m /\ runs \in Nat
  BY <1>1, VersionAssumption DEF Before, Writing, FileInv
<1>3. check'.result \in {"reading", "ok"} => Known(check'.m)
  BY <1>1, SheetKnown
<1>4. \A p \in Filled : Readable(files'[p]) => Known(files'[p])
  BY <1>1, SheetKnown
<1>5. Writing => Known(run.m)
  BY SheetKnown
<1>6. \A x \in Sheets' : Known(x)
  BY <1>2, <1>3, <1>4, <1>5, SheetsAfter
<1>7. SheetsAreOfRuns' /\ OneSheetPerRun'
  BY <1>1, <1>2, <1>6, SheetsKept DEF SheetInv
<1>8. SeenIsOfTheManifest'
  <2>1. CASE check'.result = "failed"
    BY <2>1 DEF SeenIsOfTheManifest
  <2>2. ASSUME NEW t \in TargetSet,
               check'.m = check.m, ConstantAccepted(files[t], check.m),
               Len(check'.seen) = Len(check.seen) + 1,
               check'.seen[Len(check.seen) + 1] = files[t],
               \A i \in 1 .. Len(check.seen) : check'.seen[i] = check.seen[i]
        PROVE  \A i \in 1 .. Len(check'.seen) : check'.seen[i] = Fields(check'.m)
    <3>1. files[t] = Fields(check.m)
      BY <1>1, <2>2, AcceptedIsOfTheManifest
    <3>2. \A i \in 1 .. Len(check.seen) : check.seen[i] = Fields(check.m)
      BY <1>1 DEF SheetInv, SeenIsOfTheManifest
    <3>3. Len(check.seen) \in Nat
      BY <1>1, StepNames DEF CheckInv
    <3>4. \A i \in 1 .. (Len(check.seen) + 1) :
            i \in 1 .. Len(check.seen) \/ i = Len(check.seen) + 1
      BY <3>3
    <3> QED
      BY <2>2, <3>1, <3>2, <3>4
  <2> QED
    BY <2>1, <2>2, CheckConstantEffect DEF SeenIsOfTheManifest
<1> QED
  BY <1>7, <1>8 DEF SheetInv

\* A step that leaves the files, the run and the check alone.
LEMMA NothingSeen ==
  ASSUME FileInv, SheetInv, UNCHANGED <<files, run, check, runs>>
  PROVE  SheetInv'
<1>1. (Before' <=> Before) /\ (Writing' <=> Writing) /\ run'.m = run.m /\ runs \in Nat
  BY VersionAssumption DEF Before, Writing, FileInv
<1>2. \A x \in Sheets' : Known(x)
  BY <1>1, NoNewSheet
<1>3. SheetsAreOfRuns' /\ OneSheetPerRun'
  BY <1>1, <1>2, SheetsKept DEF SheetInv
<1>4. SeenIsOfTheManifest'
  BY SeenKept DEF SheetInv
<1> QED
  BY <1>3, <1>4 DEF SheetInv

\* When stamps tell runs apart, every step keeps the sheets of a run alike.
LEMMA SheetInvStep ==
  ASSUME StampsTellRunsApart, FileInv, CheckInv, SheetInv, [VersionNext]_versionVars
  PROVE  SheetInv'
<1>1. CASE EditSources
  <2>1. Disturb /\ UNCHANGED <<files, run, runs>>
    BY <1>1 DEF EditSources, Edit
  <2>2. (Before' => Before) /\ (Writing' => Writing)
    BY <2>1 DEF Before, Writing
  <2> QED
    BY <2>1, <2>2, DisturbedSheets
<1>2. CASE StartRun
  <2>1. Disturb /\ UNCHANGED files
    BY <1>2 DEF StartRun
  <2>2. runs' = runs + 1 /\ ~Writing'
    BY <1>2, StartKeepsFiles, HeadsNotFilled DEF Writing
  <2> QED
    BY <2>1, <2>2, DisturbedSheets
<1>3. CASE FailRun
  <2>1. /\ UNCHANGED runs /\ run'.todo = <<>>
        /\ \A p \in Filled : files'[p] = files[p] \/ files'[p] = Torn
    BY <1>3, FailKeepsFiles
  <2>2. Disturb /\ ~Before' /\ ~Writing'
    BY <1>3, <2>1 DEF FailRun, Before, Writing
  <2> QED
    BY <2>1, <2>2, DisturbedSheets
<1>4. ASSUME NEW release \in BOOLEAN, NEW tag, BeginCheck(release, tag) PROVE SheetInv'
  BY <1>4, BeginKeepsSheets
<1>5. CASE WriteReleaseNotes \/ UNCHANGED versionVars
  BY <1>5, NothingSeen DEF WriteReleaseNotes, versionVars
<1> QED
  BY <1>1, <1>2, <1>3, <1>4, <1>5, HeaderKeepsSheets, LockKeepsSheets, InputsKeepSheets,
     FilledKeepsSheets, CheckKeepsSheets
     DEF VersionNext, RunStep, Check, ReleaseCheck

\* At first there is no file, no check and no run.
LEMMA SheetInvInit ==
  ASSUME VersionInit
  PROVE  SheetInv
<1>1. \A o \in Filled : ~Readable(files[o])
  BY DEF VersionInit, Readable, Filled, Outputs
<1>2. ~Writing /\ check.result = "none"
  BY DEF VersionInit, Writing, NoRun, NoCheck
<1>3. Sheets = {}
  BY <1>1, <1>2 DEF Sheets
<1> QED
  BY <1>2, <1>3 DEF SheetInv, SheetsAreOfRuns, OneSheetPerRun, SeenIsOfTheManifest

\* When stamps tell runs apart, the files, the checks and the sheets are right at
\* any time.
LEMMA SheetInvHolds ==
  ASSUME StampsTellRunsApart
  PROVE  VersionSpec => [](FileInv /\ CheckInv /\ SheetInv)
<1>1. VersionInit => FileInv /\ CheckInv /\ SheetInv
  BY VersionInvInit, SheetInvInit
<1>2. (FileInv /\ CheckInv /\ SheetInv) /\ [VersionNext]_versionVars
        => (FileInv /\ CheckInv /\ SheetInv)'
  BY VersionInvStep, SheetInvStep
<1> QED
  BY <1>1, <1>2, PTL DEF VersionSpec

\* An accepted check has read one file per target.
LEMMA AcceptedHasSeenAll ==
  ASSUME CheckInv, check.result = "ok"
  PROVE  Len(check.seen) = Len(Targets)
BY DEF CheckInv

\* As long as stamps tell runs apart, what an accepted check has read belongs
\* together, field by field, whatever was edited, killed or written while it read
\* (README.md:158; checkConstants, axtp-versioning.mjs:375).
THEOREM ConstantsAlignedWhenRunsAreToldApart ==
  ASSUME StampsTellRunsApart
  PROVE  VersionSpec => []ConstantsAreAligned
<1>1. FileInv /\ CheckInv /\ SheetInv => ConstantsAreAligned
  BY AcceptedHasSeenAll DEF SheetInv, SeenIsOfTheManifest, ConstantsAreAligned
<1> QED
  BY <1>1, SheetInvHolds, PTL

\* As long as stamps tell runs apart, a release check that succeeds without
\* anything else going on has seen a manifest, constants and a lock of the tag
\* (checkVersionMetadata, axtp-versioning.mjs:350).
THEOREM ReleaseIsOfItsTagWhenRunsAreToldApart ==
  ASSUME StampsTellRunsApart
  PROVE  VersionSpec => []ReleaseIsOfItsTag
<1>1. FileInv /\ CheckInv /\ SheetInv => ReleaseIsOfItsTag
  <2> SUFFICES ASSUME FileInv, CheckInv, SheetInv,
                      check.result = "ok", check.release, check.quiet
               PROVE  /\ sources.lock.tag = TagPrefix \o SpecOf(check.tag)
                      /\ files["manifest"].specVersion = SpecOf(check.tag)
                      /\ \A t \in TargetSet : files[t].runtimeVersion = check.tag
                      /\ \A t \in TargetSet : files[t].specTag = sources.lock.tag
                      /\ \A t \in TargetSet : files[t].generatorVersion = sources.tool
    BY DEF ReleaseIsOfItsTag
  <2>1. /\ check.m = files["manifest"]
        /\ AgreesWithSources(check.m, sources) /\ TagMatches(check.tag, sources)
        /\ \A i \in 1 .. Len(check.seen) : check.seen[i] = files[Targets[i]]
    BY DEF CheckInv
  <2>2. \A i \in 1 .. Len(Targets) : files[Targets[i]] = Fields(check.m)
    BY <2>1, AcceptedHasSeenAll DEF SheetInv, SeenIsOfTheManifest
  <2>3. \A t \in TargetSet : files[t] = Fields(check.m)
    BY <2>2 DEF TargetSet
  <2>4. \A t \in TargetSet : /\ files[t].runtimeVersion = check.m.runtimeVersion
                             /\ files[t].specTag = check.m.specTag
                             /\ files[t].generatorVersion = check.m.generatorVersion
    <3>1. \A f \in FieldNames : \A t \in TargetSet : files[t][f] = check.m[f]
      BY <2>3, FieldsOfFields, Zenon
    <3> QED
      BY <3>1 DEF FieldNames
  <2>5. /\ check.m.runtimeVersion = check.tag /\ check.m.specVersion = SpecOf(check.tag)
        /\ check.m.specTag = sources.lock.tag /\ check.m.generatorVersion = sources.tool
        /\ sources.lock.tag = TagPrefix \o SpecOf(check.tag)
    BY <2>1 DEF AgreesWithSources, TagMatches
  <2> QED
    BY <2>1, <2>4, <2>5
<1> QED
  BY <1>1, SheetInvHolds, PTL

=============================================================================
