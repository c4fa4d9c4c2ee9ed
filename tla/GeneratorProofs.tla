--------------------------- MODULE GeneratorProofs ---------------------------
(***************************************************************************)
(* Theorems about Generator, for any commands and directories, any states  *)
(* of the sources, and any number of edits, commands and failures.         *)
(***************************************************************************)
EXTENDS Generator, SequenceTheorems, TLAPS

-----------------------------------------------------------------------------
(* Paths.                                                                  *)

\* The parts of paths: those that the commands know, and those of --out.
Words ==
  {"protocol.json", "protocol.md", "registry.md", "registry.json", "ids", "json", "docs",
   "generated", "tooling", "mcp", "test-vectors", "test_vectors", "vectors", "leftover",
   "contract", "protocol", "axtp.protocol.yaml"}

Parts == Words \cup (UNION {ToSet(out) : out \in Outs})

Paths == Seq(Parts)

LastPart(f) == f[Len(f)]

LEMMA WordsAreParts == Words \subseteq Parts
  BY DEF Parts

LEMMA OutsArePaths == Outs \subseteq Paths
<1>1. SUFFICES ASSUME NEW out \in Outs
               PROVE  out \in Seq(Parts)
  BY DEF Paths
<1>2. out \in Seq(ToSet(out)) /\ ToSet(out) \subseteq Parts
  BY GeneratorAssumption DEF Parts
<1> QED
  BY <1>2

\* A directory and a name make a path.
LEMMA OneMore ==
  ASSUME NEW S, NEW dir \in Seq(S), NEW x \in S
  PROVE  /\ Append(dir, x) \in Seq(S) /\ Len(Append(dir, x)) = Len(dir) + 1
         /\ Append(dir, x)[Len(dir) + 1] = x
         /\ \A i \in 1 .. Len(dir) : Append(dir, x)[i] = dir[i]
  OBVIOUS

LEMMA Below ==
  ASSUME NEW dir \in Paths, NEW x \in Parts
  PROVE  /\ dir \o <<x>> \in Paths /\ Len(dir \o <<x>>) = Len(dir) + 1
         /\ (dir \o <<x>>)[Len(dir) + 1] = x
         /\ \A i \in 1 .. Len(dir) : (dir \o <<x>>)[i] = dir[i]
<1>1. dir \o <<x>> = Append(dir, x)
  BY AppendIsConcat DEF Paths
<1>2. /\ Append(dir, x) \in Paths /\ Len(Append(dir, x)) = Len(dir) + 1
      /\ Append(dir, x)[Len(dir) + 1] = x
      /\ \A i \in 1 .. Len(dir) : Append(dir, x)[i] = dir[i]
  BY OneMore DEF Paths
<1> QED
  BY <1>1, <1>2, Zenon

\* What is below a directory agrees with it part by part.
LEMMA PrefixParts ==
  ASSUME NEW dir \in Paths, NEW f \in Paths, IsPrefix(dir, f)
  PROVE  \A i \in 1 .. Len(dir) : i \in 1 .. Len(f) /\ f[i] = dir[i]
<1>1. Len(dir) \in Nat /\ Len(f) \in Nat /\ Len(dir) <= Len(f)
  BY DEF IsPrefix, Paths
<1>2. \A i \in 1 .. Len(dir) : SubSeq(dir, 1, Len(dir))[i] = dir[i] /\ SubSeq(f, 1, Len(dir))[i] = f[i]
  BY <1>1 DEF Paths
<1>3. SubSeq(dir, 1, Len(dir)) = SubSeq(f, 1, Len(dir))
  BY DEF IsPrefix
<1> QED
  BY <1>1, <1>2, <1>3

LEMMA PrefixOfBelow ==
  ASSUME NEW dir \in Paths, NEW x \in Parts
  PROVE  IsPrefix(dir, dir \o <<x>>)
<1> DEFINE f == dir \o <<x>>
<1>1. f \in Paths /\ Len(f) = Len(dir) + 1 /\ \A i \in 1 .. Len(dir) : f[i] = dir[i]
  BY Below
<1>2. Len(dir) \in Nat
  BY DEF Paths
<1> HIDE DEF f
<1>3. SubSeq(dir, 1, Len(dir)) = SubSeq(f, 1, Len(dir))
  BY <1>1, <1>2 DEF Paths
<1> QED
  BY <1>1, <1>2, <1>3 DEF IsPrefix, f

\* The files that are made below a directory, by their parts.
LEMMA FilesBelow ==
  ASSUME NEW dir \in Paths
  PROVE  /\ \A f \in ProtocolDocs(dir) :
              /\ f \in Paths /\ Len(f) = Len(dir) + 1 /\ \A i \in 1 .. Len(dir) : f[i] = dir[i]
              /\ f[Len(dir) + 1] \in {"protocol.json", "protocol.md"}
         /\ \A f \in Tables(dir) :
              /\ f \in Paths /\ Len(f) = Len(dir) + 1 /\ \A i \in 1 .. Len(dir) : f[i] = dir[i]
              /\ f[Len(dir) + 1] = "registry.md"
         /\ \A f \in Json(dir) :
              /\ f \in Paths /\ Len(f) = Len(dir) + 1 /\ \A i \in 1 .. Len(dir) : f[i] = dir[i]
              /\ f[Len(dir) + 1] = "registry.json"
<1>1. {"protocol.json", "protocol.md", "registry.md", "registry.json"} \subseteq Parts
  BY WordsAreParts DEF Words
<1> QED
  BY <1>1, Below DEF ProtocolDocs, Tables, Json

LEMMA AllBelow ==
  ASSUME NEW dir \in Paths, NEW f \in All(dir)
  PROVE  /\ f \in Paths /\ Len(f) \in {Len(dir) + 1, Len(dir) + 2}
         /\ f[Len(dir) + 1] \in {"ids", "json", "docs"}
         /\ LastPart(f) \in {"ids", "registry.json", "registry.md"}
<1>1. Len(dir) \in Nat /\ "ids" \in Parts /\ "json" \in Parts /\ "docs" \in Parts
  BY WordsAreParts DEF Paths, Words
<1>2. CASE f = dir \o <<"ids">>
  BY <1>1, <1>2, Below DEF LastPart
<1>3. CASE f \in Json(dir \o <<"json">>)
  <2>1. /\ dir \o <<"json">> \in Paths /\ Len(dir \o <<"json">>) = Len(dir) + 1
        /\ (dir \o <<"json">>)[Len(dir) + 1] = "json"
    BY <1>1, Below
  <2> DEFINE d == dir \o <<"json">>
  <2> HIDE DEF d
  <2>2. d \in Paths /\ Len(d) = Len(dir) + 1 /\ d[Len(dir) + 1] = "json" /\ f \in Json(d)
    BY <1>3, <2>1 DEF d
  <2>3. f \in Paths /\ Len(f) = Len(d) + 1 /\ f[Len(dir) + 1] = "json" /\ f[Len(d) + 1] = "registry.json"
    BY <1>1, <2>2, FilesBelow
  <2> QED
    BY <1>1, <2>2, <2>3 DEF LastPart
<1>4. CASE f \in Tables(dir \o <<"docs">>)
  <2>1. /\ dir \o <<"docs">> \in Paths /\ Len(dir \o <<"docs">>) = Len(dir) + 1
        /\ (dir \o <<"docs">>)[Len(dir) + 1] = "docs"
    BY <1>1, Below
  <2> DEFINE d == dir \o <<"docs">>
  <2> HIDE DEF d
  <2>2. d \in Paths /\ Len(d) = Len(dir) + 1 /\ d[Len(dir) + 1] = "docs" /\ f \in Tables(d)
    BY <1>4, <2>1 DEF d
  <2>3. f \in Paths /\ Len(f) = Len(d) + 1 /\ f[Len(dir) + 1] = "docs" /\ f[Len(d) + 1] = "registry.md"
    BY <1>1, <2>2, FilesBelow
  <2> QED
    BY <1>1, <2>2, <2>3 DEF LastPart
<1> QED
  BY <1>2, <1>3, <1>4 DEF All

\* The paths that are written out.
LEMMA KnownPaths ==
  /\ Docs \in Paths /\ Len(Docs) = 2 /\ Docs[1] = "docs" /\ Docs[2] = "generated"
  /\ <<"generated">> \in Paths
  /\ <<"tooling", "mcp">> \in Paths /\ Len(<<"tooling", "mcp">>) = 2
  /\ <<"tooling", "mcp">>[1] = "tooling" /\ <<"tooling", "mcp">>[2] = "mcp"
  /\ <<"tooling", "test-vectors">> \in Paths /\ Len(<<"tooling", "test-vectors">>) = 2
  /\ <<"tooling", "test-vectors">>[2] = "test-vectors"
<1>1. {"docs", "generated", "tooling", "mcp", "test-vectors"} \subseteq Parts
  BY WordsAreParts DEF Words
<1> QED
  BY <1>1 DEF Docs, Paths

LEMMA ProtocolPaths ==
  ASSUME NEW p \in ProtocolOuts
  PROVE  /\ p \in Paths /\ Len(p) \in {2, 3} /\ LastPart(p) = "axtp.protocol.yaml"
         /\ \A i \in 1 .. Len(p) : p[i] \in {"contract", "protocol", "axtp.protocol.yaml"}
<1>1. {"contract", "protocol", "axtp.protocol.yaml"} \subseteq Parts
  BY WordsAreParts DEF Words
<1>2. p \in {ContractProtocol, RootProtocol}
  BY DEF ProtocolOuts, Candidates, ToSet
<1>3. CASE p = ContractProtocol
  BY <1>1, <1>3 DEF ContractProtocol, Paths, LastPart
<1>4. CASE p = RootProtocol
  BY <1>1, <1>4 DEF RootProtocol, Paths, LastPart
<1> QED
  BY <1>2, <1>3, <1>4

\* Where the artifacts of a command are, and what their last parts are.
LEMMA ArtifactPlace ==
  ASSUME NEW name, NEW out \in Outs \cup {None}, NEW f \in Artifacts(name, out)
  PROVE  \E dir \in Paths :
           /\ \/ f \in ProtocolDocs(dir) /\ name \in {"generate", "emit-protocol", "generate-protocol"}
              \/ f \in Tables(dir) \/ f \in Json(dir) \/ (f \in All(dir) /\ out # None)
           /\ name \in {"generate", "generate-registry"} =>
                IF out = None THEN dir = Docs \/ dir = <<"tooling", "mcp">>
                ELSE dir = out /\ f \in All(dir) \cup ProtocolDocs(dir)
<1>1. out # None => out \in Paths
  BY OutsArePaths
<1>2. CASE name = "generate-registry"
  BY <1>1, <1>2, KnownPaths DEF Artifacts
<1>3. CASE name = "generate"
  BY <1>1, <1>3, KnownPaths DEF Artifacts
<1>4. CASE name = "emit-protocol"
  BY <1>1, <1>4, KnownPaths DEF Artifacts
<1>5. CASE name = "generate-protocol"
  BY <1>1, <1>5, KnownPaths DEF Artifacts
<1>6. CASE name = "doc"
  BY <1>1, <1>6, KnownPaths DEF Artifacts
<1> QED
  BY <1>2, <1>3, <1>4, <1>5, <1>6 DEF Artifacts

LEMMA ArtifactParts ==
  ASSUME NEW name, NEW out \in Outs \cup {None}, NEW f \in Artifacts(name, out)
  PROVE  /\ f \in Paths
         /\ LastPart(f) \in {"protocol.json", "protocol.md", "ids", "registry.json", "registry.md"}
         /\ LastPart(f) \in {"protocol.json", "protocol.md"} =>
              name \in {"generate", "emit-protocol", "generate-protocol"}
<1>1. PICK dir \in Paths :
        \/ f \in ProtocolDocs(dir) /\ name \in {"generate", "emit-protocol", "generate-protocol"}
        \/ f \in Tables(dir) \/ f \in Json(dir) \/ f \in All(dir)
  BY ArtifactPlace
<1>2. CASE f \in ProtocolDocs(dir) /\ name \in {"generate", "emit-protocol", "generate-protocol"}
  BY <1>2, FilesBelow DEF LastPart
<1>3. CASE f \in Tables(dir) \/ f \in Json(dir)
  BY <1>3, FilesBelow DEF LastPart
<1>4. CASE f \in All(dir)
  BY <1>4, AllBelow
<1> QED
  BY <1>1, <1>2, <1>3, <1>4

\* The directory that a command empties holds nothing else that it writes.
LEMMA VectorDirParts ==
  ASSUME NEW name, NEW out \in Outs \cup {None}, VectorDir(name, out) # None
  PROVE  /\ VectorDir(name, out) \in Paths
         /\ \/ name = "test-vector"
            \/ /\ name \in {"generate", "generate-registry"} /\ out = None
               /\ Len(VectorDir(name, out)) = 2 /\ VectorDir(name, out)[2] = "test-vectors"
            \/ /\ name \in {"generate", "generate-registry"} /\ out # None
               /\ Len(VectorDir(name, out)) = Len(out) + 1
               /\ VectorDir(name, out)[Len(out) + 1] = "test_vectors"
<1>1. out # None => out \in Paths /\ "test_vectors" \in Parts
  BY OutsArePaths, WordsAreParts DEF Words
<1>2. CASE name = "test-vector"
  BY <1>1, <1>2, KnownPaths DEF VectorDir
<1>3. CASE name \in {"generate", "generate-registry"} /\ out = None
  BY <1>3, KnownPaths DEF VectorDir
<1>4. CASE name \in {"generate", "generate-registry"} /\ out # None
  <2>1. VectorDir(name, out) = out \o <<"test_vectors">>
    BY <1>4 DEF VectorDir
  <2> QED
    BY <1>1, <1>4, <2>1, Below
<1> QED
  BY <1>2, <1>3, <1>4 DEF VectorDir

LEMMA NotAmongVectors ==
  ASSUME NEW name, NEW out \in Outs \cup {None}, VectorDir(name, out) # None,
         NEW f, f \in Artifacts(name, out) \/ (name \in WritingProtocol /\ f \in ProtocolOuts)
  PROVE  ~IsPrefix(VectorDir(name, out), f)
<1> DEFINE d == VectorDir(name, out)
<1>1. d \in Paths /\ f \in Paths
  BY VectorDirParts, ArtifactParts, ProtocolPaths
<1>2. \/ name = "test-vector"
      \/ name \in {"generate", "generate-registry"} /\ out = None /\ Len(d) = 2 /\ d[2] = "test-vectors"
      \/ /\ name \in {"generate", "generate-registry"} /\ out # None
         /\ Len(d) = Len(out) + 1 /\ d[Len(out) + 1] = "test_vectors"
  BY VectorDirParts
<1>3. name # "test-vector"
  BY DEF Artifacts, WritingProtocol
<1> HIDE DEF d
<1>4. SUFFICES ASSUME IsPrefix(d, f)
               PROVE  FALSE
  BY DEF d
<1>5. \A i \in 1 .. Len(d) : i \in 1 .. Len(f) /\ f[i] = d[i]
  BY <1>1, <1>4, PrefixParts
<1>6. Len(f) \in Nat /\ (out # None => Len(out) \in Nat)
  BY <1>1, OutsArePaths DEF Paths
<1>7. CASE f \in ProtocolOuts
  <2>1. \E i \in 1 .. Len(d) : d[i] \in {"test-vectors", "test_vectors"}
    BY <1>2, <1>3, <1>6, OutsArePaths DEF Paths
  <2> QED
    BY <1>5, <1>7, <2>1, ProtocolPaths
<1>8. CASE f \in Artifacts(name, out) /\ out = None
  <2>1. d[2] = "test-vectors" /\ Len(d) = 2
    BY <1>2, <1>3, <1>8, OutsArePaths
  <2>2. PICK dir \in Paths :
          /\ f \in ProtocolDocs(dir) \/ f \in Tables(dir) \/ f \in Json(dir)
          /\ dir = Docs \/ dir = <<"tooling", "mcp">>
    BY <1>2, <1>3, <1>8, ArtifactPlace
  <2>3. Len(dir) = 2 /\ dir[2] \in {"generated", "mcp"}
    BY <2>2, KnownPaths
  <2>4. f[2] = dir[2]
    BY <2>2, <2>3, FilesBelow
  <2> QED
    BY <1>5, <2>1, <2>3, <2>4
<1>9. CASE f \in Artifacts(name, out) /\ out # None
  <2>1. out \in Paths /\ d[Len(out) + 1] = "test_vectors" /\ Len(d) = Len(out) + 1
    BY <1>2, <1>3, <1>9, OutsArePaths
  <2>2. f \in All(out) \/ f \in ProtocolDocs(out)
    BY <1>2, <1>3, <1>9, ArtifactPlace
  <2>3. f[Len(out) + 1] \in {"ids", "json", "docs", "protocol.json", "protocol.md"}
    BY <2>1, <2>2, AllBelow, FilesBelow
  <2> QED
    BY <1>5, <1>6, <1>9, <2>1, <2>3
<1> QED
  BY <1>7, <1>8, <1>9

\* What a command writes is among the files, and apart from its directory.
LEMMA CommandFiles ==
  ASSUME NEW name, NEW out, <<name, out>> \in Commands
  PROVE  /\ name \in CommandNames /\ out \in Outs \cup {None}
         /\ Artifacts(name, out) \subseteq Files
         /\ VectorDir(name, out) # None =>
              /\ VectorDir(name, out) \in VectorDirs /\ VectorDir(name, out) \in Paths
              /\ Vectors(VectorDir(name, out)) \in Files
              /\ LastPart(Vectors(VectorDir(name, out))) = "vectors"
              /\ IsPrefix(VectorDir(name, out), Vectors(VectorDir(name, out)))
<1> DEFINE pair == <<name, out>>
           dir == VectorDir(name, out)
<1>1. name \in CommandNames /\ out \in Outs \cup {None}
  BY GeneratorAssumption
<1>2. pair \in Commands /\ pair[1] = name /\ pair[2] = out
  OBVIOUS
<1> HIDE DEF pair
<1>3. Artifacts(name, out) \subseteq Files
  BY <1>2 DEF Files
<1>4. ASSUME dir # None
      PROVE  /\ dir \in VectorDirs /\ dir \in Paths /\ Vectors(dir) \in Files
             /\ LastPart(Vectors(dir)) = "vectors" /\ IsPrefix(dir, Vectors(dir))
  <2>1. dir \in VectorDirs
    BY <1>2, <1>4 DEF VectorDirs
  <2>2. dir \in Paths
    BY <1>1, <1>4, VectorDirParts
  <2> HIDE DEF dir
  <2>3. Vectors(dir) \in Files
    <3>1. {Vectors(dir), Leftover(dir)} \in {{Vectors(d), Leftover(d)} : d \in VectorDirs}
      BY <2>1
    <3> QED
      BY <3>1 DEF Files
  <2>4. "vectors" \in Parts /\ Len(dir) \in Nat
    BY <2>2, WordsAreParts DEF Words, Paths
  <2>5. LastPart(Vectors(dir)) = "vectors" /\ IsPrefix(dir, Vectors(dir))
    BY <2>2, <2>4, Below, PrefixOfBelow DEF Vectors, LastPart
  <2> QED
    BY <2>1, <2>2, <2>3, <2>5
<1> QED
  BY <1>1, <1>3, <1>4

\* A file is no directory of test vectors.
LEMMA FilesNotDirs ==
  ASSUME NEW f \in Files
  PROVE  f \notin VectorDirs
  BY GeneratorAssumption

LEMMA OutsAreFiles == ProtocolOuts \subseteq Files
  BY DEF Files

-----------------------------------------------------------------------------
(* Types, and what the command that runs has still to do.                  *)

MyFiles == Artifacts(cmd.name, cmd.out)
MyDir == VectorDir(cmd.name, cmd.out)

CommandInv ==
  /\ \A p \in ProtocolOuts : disk[p] # Fixed
  /\ cmd.step # "done" =>
       /\ <<cmd.name, cmd.out>> \in Commands
       /\ cmd.name \in WritingProtocol => cmd.to \in ProtocolOuts
       /\ cmd.result = "none" \/ (cmd.result = "failed" /\ AtStep("emit"))
  /\ AtStep("docs") => cmd.name \in SourceCommands \cup ProtocolCommands
  /\ AtStep("protocol") => cmd.name \in WritingProtocol
  /\ AtStep("emit") =>
       cmd.todo \subseteq MyFiles \cup (IF MyDir = None THEN {} ELSE {MyDir, Vectors(MyDir)})

TypeInv == TypeOK /\ CommandInv

SameCommand == cmd'.name = cmd.name /\ cmd'.out = cmd.out /\ cmd'.to = cmd.to
                 /\ cmd'.before = cmd.before

Results == {"none", "refused", "failed", "killed", "ok"}
Steps == {"load", "docs", "protocol", "emit", "done"}

\* The fields of the command, one by one.
LEMMA CommandFields ==
  ASSUME TypeOK
  PROVE  /\ cmd.name \in CommandNames \cup {"none"} /\ cmd.out \in Outs \cup {None}
         /\ cmd.to \in ProtocolOuts \cup {None} /\ cmd.step \in Steps
         /\ cmd.model \in Versions \cup {None, Torn} /\ cmd.todo \subseteq Files \cup VectorDirs
         /\ cmd.result \in Results /\ cmd.before \in Disks
  BY DEF TypeOK, Results, Steps

\* What a command is that passed its checks.
LEMMA CheckedFields ==
  ASSUME TypeOK, NEW model \in Versions \cup {None, Torn}, <<cmd.name, cmd.out>> \in Commands,
         cmd' = Checked([cmd EXCEPT !.model = model])
  PROVE  /\ cmd'.name = cmd.name /\ cmd'.out = cmd.out /\ cmd'.to = cmd.to
         /\ cmd'.model = model /\ cmd'.result = cmd.result /\ cmd'.before = cmd.before
         /\ cmd'.step = IF cmd.name \in WritingProtocol THEN "protocol" ELSE "emit"
         /\ cmd.name \in WritingProtocol => cmd'.todo = cmd.todo
         /\ cmd.name \notin WritingProtocol =>
              cmd'.todo = MyFiles \cup ({MyDir} \ {None})
         /\ cmd' \in [name : CommandNames \cup {"none"}, out : Outs \cup {None},
                      to : ProtocolOuts \cup {None}, step : Steps,
                      model : Versions \cup {None, Torn}, todo : SUBSET (Files \cup VectorDirs),
                      result : Results, before : Disks]
<1>1. MyFiles \cup ({MyDir} \ {None}) \subseteq Files \cup VectorDirs
  BY CommandFiles DEF MyFiles, MyDir
<1>2. CASE cmd.name \in WritingProtocol
  BY <1>2 DEF Checked, TypeOK, Results, Steps
<1>3. CASE cmd.name \notin WritingProtocol
  <2>1. Jobs([cmd EXCEPT !.model = model]) = MyFiles \cup ({MyDir} \ {None})
    BY DEF Jobs, MyFiles, MyDir, TypeOK
  <2>2. cmd' = [[cmd EXCEPT !.model = model] EXCEPT !.step = "emit",
                  !.todo = MyFiles \cup ({MyDir} \ {None})]
    BY <1>3, <2>1 DEF Checked, TypeOK
  <2> QED
    BY <1>1, <1>3, <2>2 DEF TypeOK, Results, Steps
<1> QED
  BY <1>2, <1>3

\* Edits and new commands touch no file.
LEMMA EditEffect ==
  ASSUME TypeInv, Edit
  PROVE  TypeInv' /\ now' = now + 1 /\ UNCHANGED <<quality, disk, cmd>>
<1>1. now' \in Versions
  BY GeneratorAssumption DEF TypeInv, TypeOK, Edit, Versions
<1> QED
  BY <1>1 DEF TypeInv, TypeOK, CommandInv, Edit, AtStep, MyFiles, MyDir

LEMMA StartEffect ==
  ASSUME TypeInv, StartAny
  PROVE  /\ TypeInv' /\ UNCHANGED <<now, quality, disk>>
         /\ cmd'.step = "load" /\ cmd'.model = None /\ cmd'.result = "none" /\ cmd'.before = disk
<1>1. PICK c \in Commands :
        \E to \in IF c[1] \in WritingProtocol THEN ProtocolOuts ELSE {None} : Start(c[1], c[2], to)
  BY DEF StartAny
<1>2. PICK to \in IF c[1] \in WritingProtocol THEN ProtocolOuts ELSE {None} : Start(c[1], c[2], to)
  BY <1>1
<1>3. c[1] \in CommandNames /\ c[2] \in Outs \cup {None} /\ c = <<c[1], c[2]>>
  BY GeneratorAssumption
<1> DEFINE name == c[1]
           out == c[2]
<1> HIDE DEF name, out
<1>4. /\ name \in CommandNames /\ out \in Outs \cup {None} /\ <<name, out>> \in Commands
      /\ to \in ProtocolOuts \cup {None} /\ (name \in WritingProtocol => to \in ProtocolOuts)
      /\ Start(name, out, to)
  BY <1>2, <1>3 DEF name, out
<1>5. cmd' = [name |-> name, out |-> out, to |-> to, step |-> "load", model |-> None,
              todo |-> {}, result |-> "none", before |-> disk]
  BY <1>4 DEF Start
<1>6. UNCHANGED <<now, quality, docs, disk, failures>> /\ commands' = commands + 1
      /\ commands < MaxCommands
  BY <1>4 DEF Start
<1>7. TypeOK'
  BY <1>4, <1>5, <1>6, GeneratorAssumption DEF TypeInv, TypeOK
<1>8. CommandInv'
  BY <1>4, <1>5, <1>6 DEF TypeInv, CommandInv, AtStep
<1> QED
  BY <1>5, <1>6, <1>7, <1>8 DEF TypeInv

\* A refusal ends the command, and that is all.
LEMMA RefuseEffect ==
  ASSUME TypeInv, Refuse, UNCHANGED <<now, quality, docs, disk, commands, failures>>
  PROVE  /\ TypeInv' /\ SameCommand /\ cmd'.step = "done" /\ cmd'.result = "refused"
         /\ cmd'.model = cmd.model
<1>1. /\ SameCommand /\ cmd'.step = "done" /\ cmd'.result = "refused" /\ cmd'.model = cmd.model
      /\ TypeOK'
  BY DEF TypeInv, TypeOK, Refuse, SameCommand
<1> QED
  BY <1>1 DEF TypeInv, CommandInv, AtStep

\* Passing the checks: what is loaded is what will be written.
LEMMA CheckedEffect ==
  ASSUME TypeInv, NEW model \in Versions \cup {None, Torn}, cmd.step \in {"load", "docs"},
         cmd' = Checked([cmd EXCEPT !.model = model]),
         UNCHANGED <<now, quality, docs, disk, commands, failures>>
  PROVE  /\ TypeInv' /\ SameCommand /\ cmd'.model = model /\ cmd'.result = "none"
         /\ \/ cmd'.step = "protocol" /\ cmd.name \in WritingProtocol
            \/ /\ cmd'.step = "emit" /\ cmd.name \notin WritingProtocol
               /\ cmd'.todo = MyFiles \cup ({MyDir} \ {None})
<1>1. <<cmd.name, cmd.out>> \in Commands /\ cmd.result = "none"
  BY DEF TypeInv, CommandInv, AtStep
<1>2. /\ SameCommand /\ cmd'.model = model /\ cmd'.result = "none"
      /\ cmd'.step = IF cmd.name \in WritingProtocol THEN "protocol" ELSE "emit"
      /\ cmd.name \notin WritingProtocol => cmd'.todo = MyFiles \cup ({MyDir} \ {None})
      /\ TypeOK'
  BY <1>1, CheckedFields DEF TypeInv, TypeOK, SameCommand, Results, Steps
<1>3. MyFiles' = MyFiles /\ MyDir' = MyDir
  BY <1>2 DEF MyFiles, MyDir, SameCommand
<1>4. CommandInv'
  BY <1>1, <1>2, <1>3 DEF TypeInv, CommandInv, AtStep, SameCommand
<1> QED
  BY <1>2, <1>4 DEF TypeInv

\* Going on to the documents.
LEMMA ToDocsEffect ==
  ASSUME TypeInv, NEW model \in Versions \cup {None, Torn}, AtStep("load"),
         cmd.name \in SourceCommands \cup ProtocolCommands,
         cmd' = [cmd EXCEPT !.step = "docs", !.model = model],
         UNCHANGED <<now, quality, docs, disk, commands, failures>>
  PROVE  /\ TypeInv' /\ SameCommand /\ cmd'.model = model /\ cmd'.step = "docs"
         /\ cmd'.result = "none"
<1>1. /\ SameCommand /\ cmd'.model = model /\ cmd'.step = "docs" /\ cmd'.result = cmd.result
      /\ TypeOK'
  BY DEF TypeInv, TypeOK, SameCommand
<1>2. <<cmd.name, cmd.out>> \in Commands /\ cmd.result = "none"
  BY DEF TypeInv, CommandInv, AtStep
<1>3. CommandInv'
  BY <1>1, <1>2 DEF TypeInv, CommandInv, AtStep, SameCommand
<1> QED
  BY <1>1, <1>2, <1>3 DEF TypeInv

\* Loading leads to a refusal, to the documents, or past the checks.
LEMMA LoadSourcesEffect ==
  ASSUME TypeInv, LoadSources
  PROVE  /\ UNCHANGED <<now, quality, docs, disk, commands, failures>>
         /\ \/ Refuse
            \/ /\ cmd' = Checked([cmd EXCEPT !.model = now])
               /\ \/ cmd.name \in RegistryCommands /\ quality[now] # "unfit"
                  \/ cmd.name = "build-protocol" /\ quality[now] = "protocol"
            \/ /\ cmd' = [cmd EXCEPT !.step = "docs", !.model = now]
               /\ cmd.name \in SourceCommands
<1>1. UNCHANGED <<now, quality, docs, disk, commands, failures>>
  BY DEF LoadSources
<1>2. CASE cmd.name \in RegistryCommands /\ quality[now] # "unfit"
  BY <1>1, <1>2 DEF LoadSources
<1>3. CASE ~(cmd.name \in RegistryCommands /\ quality[now] # "unfit")
           /\ cmd.name = "build-protocol" /\ quality[now] = "protocol"
  BY <1>1, <1>3 DEF LoadSources
<1>4. CASE /\ ~(cmd.name \in RegistryCommands /\ quality[now] # "unfit")
           /\ ~(cmd.name = "build-protocol" /\ quality[now] = "protocol")
           /\ cmd.name \in SourceCommands /\ quality[now] # "unfit"
  <2>1. cmd' = [[cmd EXCEPT !.model = now] EXCEPT !.step = "docs"]
    BY <1>4 DEF LoadSources
  <2>2. cmd' = [cmd EXCEPT !.step = "docs", !.model = now]
    BY <2>1 DEF TypeInv, TypeOK
  <2> QED
    BY <1>1, <1>4, <2>2
<1>5. CASE /\ ~(cmd.name \in RegistryCommands /\ quality[now] # "unfit")
           /\ ~(cmd.name = "build-protocol" /\ quality[now] = "protocol")
           /\ ~(cmd.name \in SourceCommands /\ quality[now] # "unfit")
  BY <1>1, <1>5 DEF LoadSources
<1> QED
  BY <1>2, <1>3, <1>4, <1>5, Zenon

LEMMA LoadProtocolEffect ==
  ASSUME TypeInv, LoadProtocol
  PROVE  /\ UNCHANGED <<now, quality, docs, disk, commands, failures>>
         /\ \/ Refuse
            \/ \E p \in ProtocolOuts :
                 /\ disk[p] \in Versions \cup {Torn}
                 /\ cmd' = [cmd EXCEPT !.step = "docs", !.model = disk[p]]
<1>1. UNCHANGED <<now, quality, docs, disk, commands, failures>>
  BY DEF LoadProtocol
<1>2. ASSUME NEW i \in DOMAIN Candidates, Existing(i),
             cmd' = [cmd EXCEPT !.step = "docs", !.model = disk[Candidates[i]]]
      PROVE  \E p \in ProtocolOuts :
               /\ disk[p] \in Versions \cup {Torn}
               /\ cmd' = [cmd EXCEPT !.step = "docs", !.model = disk[p]]
  <2>1. Candidates[i] \in ProtocolOuts
    BY DEF ProtocolOuts, ToSet
  <2>2. Candidates[i] \in Files
    BY <2>1, OutsAreFiles
  <2>3. disk[Candidates[i]] # None /\ disk[Candidates[i]] # Fixed
    BY <1>2, <2>1 DEF Existing, TypeInv, CommandInv
  <2>4. disk[Candidates[i]] \in Versions \cup {Torn}
    BY <2>2, <2>3 DEF TypeInv, TypeOK, Disks
  <2> QED
    BY <1>2, <2>1, <2>4
<1>3. \/ Refuse
      \/ \E i \in DOMAIN Candidates :
           Existing(i) /\ cmd' = [cmd EXCEPT !.step = "docs", !.model = disk[Candidates[i]]]
  BY DEF LoadProtocol
<1> QED
  BY <1>1, <1>2, <1>3

LEMMA CheckProtocolEffect ==
  ASSUME TypeInv, CheckProtocol
  PROVE  /\ TypeInv' /\ SameCommand /\ UNCHANGED <<now, quality, disk>> /\ cmd'.model = cmd.model
         /\ cmd.name \in SourceCommands \cup ProtocolCommands
         /\ \/ cmd'.step = "done" /\ cmd'.result = "refused"
            \/ /\ ProtocolValid(cmd.model) /\ cmd'.result = "none"
               /\ \/ cmd'.step = "protocol" /\ cmd.name \in WritingProtocol
                  \/ /\ cmd'.step = "emit" /\ cmd.name \notin WritingProtocol
                     /\ cmd'.todo = MyFiles \cup ({MyDir} \ {None})
<1>1. /\ UNCHANGED <<now, quality, docs, disk, commands, failures>> /\ cmd.step = "docs"
      /\ cmd.name \in SourceCommands \cup ProtocolCommands
  BY DEF CheckProtocol, AtStep, TypeInv, CommandInv
<1>2. Refuse \/ (ProtocolValid(cmd.model) /\ cmd' = Checked(cmd))
  BY DEF CheckProtocol
<1>3. CASE Refuse
  BY <1>1, <1>3, RefuseEffect
<1>4. CASE ProtocolValid(cmd.model) /\ cmd' = Checked(cmd)
  <2>1. cmd.model \in Versions \cup {None, Torn} /\ cmd = [cmd EXCEPT !.model = cmd.model]
    BY DEF TypeInv, TypeOK
  <2> DEFINE model == cmd.model
  <2> HIDE DEF model
  <2>2. model \in Versions \cup {None, Torn} /\ cmd' = Checked([cmd EXCEPT !.model = model])
    BY <1>4, <2>1 DEF model
  <2>3. /\ TypeInv' /\ SameCommand /\ cmd'.model = model /\ cmd'.result = "none"
        /\ \/ cmd'.step = "protocol" /\ cmd.name \in WritingProtocol
           \/ /\ cmd'.step = "emit" /\ cmd.name \notin WritingProtocol
              /\ cmd'.todo = MyFiles \cup ({MyDir} \ {None})
    BY <1>1, <2>2, CheckedEffect
  <2> QED
    BY <1>1, <1>4, <2>3 DEF model
<1> QED
  BY <1>2, <1>3, <1>4

\* The definition is written alone, and everything else after it.
LEMMA WriteProtocolEffect ==
  ASSUME TypeInv, WriteProtocol
  PROVE  /\ TypeInv' /\ SameCommand /\ UNCHANGED <<now, quality>> /\ cmd'.model = cmd.model
         /\ cmd.step = "protocol" /\ cmd'.step = "emit" /\ cmd'.result = "none"
         /\ cmd.name \in WritingProtocol /\ cmd.to \in ProtocolOuts
         /\ cmd'.todo = MyFiles \cup ({MyDir} \ {None})
         /\ disk'[cmd.to] = cmd.model
         /\ \A f \in Files : f # cmd.to => disk'[f] = disk[f]
<1>1. /\ cmd.step = "protocol" /\ cmd.name \in WritingProtocol /\ cmd.to \in ProtocolOuts
      /\ cmd.result = "none" /\ <<cmd.name, cmd.out>> \in Commands
  BY DEF WriteProtocol, TypeInv, CommandInv, AtStep
<1>2. cmd.to \in Files
  BY <1>1, OutsAreFiles
<1>3. /\ disk' \in Disks /\ disk'[cmd.to] = cmd.model
      /\ \A f \in Files : f # cmd.to => disk'[f] = disk[f]
  BY <1>2 DEF WriteProtocol, TypeInv, TypeOK, Disks
<1>4. MyFiles \cup ({MyDir} \ {None}) \subseteq Files \cup VectorDirs
  BY <1>1, CommandFiles DEF MyFiles, MyDir
<1>5. Jobs(cmd) = MyFiles \cup ({MyDir} \ {None})
  BY DEF Jobs, MyFiles, MyDir
<1>6. cmd' = [cmd EXCEPT !.step = "emit", !.todo = MyFiles \cup ({MyDir} \ {None})]
  BY <1>5 DEF WriteProtocol
<1>7. /\ SameCommand /\ cmd'.model = cmd.model /\ cmd'.step = "emit" /\ cmd'.result = "none"
      /\ cmd'.todo = MyFiles \cup ({MyDir} \ {None})
  BY <1>1, <1>6 DEF SameCommand, TypeInv, TypeOK
<1>8. TypeOK'
  BY <1>3, <1>4, <1>6 DEF TypeInv, TypeOK, WriteProtocol
<1>9. \A p \in ProtocolOuts : disk'[p] # Fixed
  <2>1. cmd.model # Fixed
    BY GeneratorAssumption DEF TypeInv, TypeOK
  <2> QED
    BY <1>3, <2>1, OutsAreFiles DEF TypeInv, CommandInv
<1>10. MyFiles' = MyFiles /\ MyDir' = MyDir
  BY <1>7 DEF MyFiles, MyDir, SameCommand
<1>11. CommandInv'
  BY <1>1, <1>7, <1>9, <1>10 DEF CommandInv, AtStep, SameCommand
<1> QED
  BY <1>1, <1>3, <1>7, <1>8, <1>11 DEF TypeInv, WriteProtocol

\* A step of the emitters leaves the command as it is but for what is to do.
LEMMA EmitStep ==
  ASSUME TypeInv, AtStep("emit"), NEW todo,
         todo \subseteq MyFiles \cup (IF MyDir = None THEN {} ELSE {MyDir, Vectors(MyDir)}),
         NEW step \in {"emit", "done"}, NEW result \in Results,
         step = "emit" => result \in {"none", "failed"},
         cmd' = [cmd EXCEPT !.todo = todo, !.step = step, !.result = result],
         disk' \in Disks, \A p \in ProtocolOuts : disk'[p] # Fixed,
         UNCHANGED <<now, quality, docs>>, commands' \in 0 .. MaxCommands,
         failures' \in 0 .. MaxFailures
  PROVE  /\ TypeInv' /\ SameCommand /\ cmd'.model = cmd.model
         /\ cmd'.todo = todo /\ cmd'.step = step /\ cmd'.result = result
<1>1. <<cmd.name, cmd.out>> \in Commands /\ (cmd.name \in WritingProtocol => cmd.to \in ProtocolOuts)
  BY DEF TypeInv, CommandInv, AtStep
<1>2. todo \subseteq Files \cup VectorDirs
  BY <1>1, CommandFiles DEF MyFiles, MyDir
<1>3. /\ SameCommand /\ cmd'.model = cmd.model
      /\ cmd'.todo = todo /\ cmd'.step = step /\ cmd'.result = result
  BY DEF SameCommand, TypeInv, TypeOK
<1>4. TypeOK'
  BY <1>2 DEF TypeInv, TypeOK, Results
<1>5. MyFiles' = MyFiles /\ MyDir' = MyDir
  BY <1>3 DEF MyFiles, MyDir, SameCommand
<1>6. CommandInv'
  BY <1>1, <1>3, <1>5 DEF CommandInv, AtStep, SameCommand
<1> QED
  BY <1>3, <1>4, <1>6 DEF TypeInv

\* What a command may still have to write.
LEMMA ToDo ==
  ASSUME TypeInv, AtStep("emit"), NEW f \in cmd.todo
  PROVE  /\ <<cmd.name, cmd.out>> \in Commands
         /\ f \in Files => \/ f \in MyFiles /\ LastPart(f) # "vectors"
                           \/ MyDir # None /\ f = Vectors(MyDir) /\ LastPart(f) = "vectors"
         /\ f \in Files => f \notin ProtocolOuts
         /\ f \in VectorDirs => f = MyDir /\ MyDir # None
<1>1. /\ <<cmd.name, cmd.out>> \in Commands
      /\ f \in MyFiles \cup (IF MyDir = None THEN {} ELSE {MyDir, Vectors(MyDir)})
  BY DEF TypeInv, CommandInv, AtStep
<1>2. cmd.out \in Outs \cup {None}
  BY <1>1, CommandFiles
<1>3. CASE f \in MyFiles
  <2>1. LastPart(f) \in {"protocol.json", "protocol.md", "ids", "registry.json", "registry.md"}
    BY <1>2, <1>3, ArtifactParts DEF MyFiles
  <2>2. f \in Files
    BY <1>1, <1>3, CommandFiles DEF MyFiles
  <2>3. f \notin ProtocolOuts
    BY <2>1, ProtocolPaths
  <2>4. f \notin VectorDirs
    BY <2>2, FilesNotDirs
  <2> QED
    BY <1>1, <1>3, <2>1, <2>2, <2>3, <2>4
<1>4. CASE f # None /\ MyDir # None /\ f = MyDir
  <2>1. f \in VectorDirs
    BY <1>1, <1>4, CommandFiles DEF MyDir
  <2> QED
    BY <1>1, <1>4, <2>1, FilesNotDirs
<1>5. CASE MyDir # None /\ f = Vectors(MyDir)
  <2>1. f \in Files /\ LastPart(f) = "vectors"
    BY <1>1, <1>5, CommandFiles DEF MyDir
  <2> QED
    BY <1>1, <1>5, <2>1, ProtocolPaths, FilesNotDirs
<1> QED
  BY <1>1, <1>3, <1>4, <1>5

LEMMA WriteArtifactEffect ==
  ASSUME TypeInv, NEW f \in Files, WriteArtifact(f)
  PROVE  /\ TypeInv' /\ SameCommand /\ UNCHANGED <<now, quality>> /\ cmd'.model = cmd.model
         /\ cmd.step = "emit" /\ cmd'.step = "emit" /\ cmd'.result = cmd.result
         /\ f \in cmd.todo /\ cmd'.todo = cmd.todo \ {f}
         /\ disk'[f] = IF LastPart(f) = "vectors" THEN Fixed ELSE cmd.model
         /\ \A g \in Files : g # f => disk'[g] = disk[g]
<1>1. /\ AtStep("emit") /\ f \in cmd.todo /\ disk' = [disk EXCEPT ![f] = Content(f)]
      /\ cmd' = [cmd EXCEPT !.todo = cmd.todo \ {f}]
      /\ UNCHANGED <<now, quality, docs, commands, failures>>
  BY DEF WriteArtifact, AtStep
<1>2. Content(f) = (IF LastPart(f) = "vectors" THEN Fixed ELSE cmd.model)
      /\ Content(f) \in Versions \cup {None, Torn, Fixed}
  BY DEF Content, LastPart, TypeInv, TypeOK
<1>3. /\ disk' \in Disks /\ disk'[f] = Content(f)
      /\ \A g \in Files : g # f => disk'[g] = disk[g]
  BY <1>1, <1>2 DEF TypeInv, TypeOK, Disks
<1>4. f \notin ProtocolOuts
  BY <1>1, ToDo
<1>5. \A p \in ProtocolOuts : disk'[p] # Fixed
  BY <1>3, <1>4, OutsAreFiles DEF TypeInv, CommandInv
<1> DEFINE todo == cmd.todo \ {f}
           step == cmd.step
           result == cmd.result
<1>6. /\ todo \subseteq MyFiles \cup (IF MyDir = None THEN {} ELSE {MyDir, Vectors(MyDir)})
      /\ result \in {"none", "failed"} /\ step = "emit"
  BY <1>1 DEF TypeInv, CommandInv, AtStep
<1>7. cmd' = [cmd EXCEPT !.todo = todo, !.step = step, !.result = result]
  BY <1>1 DEF TypeInv, TypeOK
<1>8. commands' \in 0 .. MaxCommands /\ failures' \in 0 .. MaxFailures /\ result \in Results
  BY <1>1, <1>6 DEF TypeInv, TypeOK, Results
<1> HIDE DEF todo, step, result
<1>9. /\ TypeInv' /\ SameCommand /\ cmd'.model = cmd.model
      /\ cmd'.todo = todo /\ cmd'.step = step /\ cmd'.result = result
  BY <1>1, <1>3, <1>5, <1>6, <1>7, <1>8, EmitStep
<1> QED
  BY <1>1, <1>2, <1>3, <1>6, <1>9 DEF todo, step, result

LEMMA EmptyVectorsEffect ==
  ASSUME TypeInv, NEW d \in VectorDirs, EmptyVectors(d)
  PROVE  /\ TypeInv' /\ SameCommand /\ UNCHANGED <<now, quality>> /\ cmd'.model = cmd.model
         /\ cmd.step = "emit" /\ cmd'.step = "emit" /\ cmd'.result = cmd.result
         /\ d = MyDir /\ MyDir # None /\ cmd'.todo = (cmd.todo \ {d}) \cup {Vectors(d)}
         /\ \A f \in Files : disk'[f] = IF IsPrefix(d, f) THEN None ELSE disk[f]
<1>1. /\ AtStep("emit") /\ d \in cmd.todo
      /\ disk' = [f \in Files |-> IF IsPrefix(d, f) THEN None ELSE disk[f]]
      /\ cmd' = [cmd EXCEPT !.todo = (cmd.todo \ {d}) \cup {Vectors(d)}]
      /\ UNCHANGED <<now, quality, docs, commands, failures>>
  BY DEF EmptyVectors, AtStep
<1>2. d = MyDir /\ MyDir # None
  BY <1>1, ToDo
<1>3. disk' \in Disks
  BY <1>1 DEF TypeInv, TypeOK, Disks
<1>4. \A p \in ProtocolOuts : disk'[p] # Fixed
  BY <1>1, GeneratorAssumption, OutsAreFiles DEF TypeInv, CommandInv
<1> DEFINE todo == (cmd.todo \ {d}) \cup {Vectors(d)}
           step == cmd.step
           result == cmd.result
<1>5. /\ todo \subseteq MyFiles \cup (IF MyDir = None THEN {} ELSE {MyDir, Vectors(MyDir)})
      /\ result \in {"none", "failed"} /\ step = "emit"
  BY <1>1, <1>2 DEF TypeInv, CommandInv, AtStep
<1>6. cmd' = [cmd EXCEPT !.todo = todo, !.step = step, !.result = result]
  BY <1>1 DEF TypeInv, TypeOK
<1>7. commands' \in 0 .. MaxCommands /\ failures' \in 0 .. MaxFailures /\ result \in Results
  BY <1>1, <1>5 DEF TypeInv, TypeOK, Results
<1> HIDE DEF todo, step, result
<1>8. /\ TypeInv' /\ SameCommand /\ cmd'.model = cmd.model
      /\ cmd'.todo = todo /\ cmd'.step = step /\ cmd'.result = result
  BY <1>1, <1>3, <1>4, <1>5, <1>6, <1>7, EmitStep
<1> QED
  BY <1>1, <1>2, <1>5, <1>8 DEF todo, step, result

\* A torn file is the definition, or one that is still to be written.
LEMMA TearsEffect ==
  ASSUME TypeInv, NEW files, Tears(files)
  PROVE  /\ disk' \in Disks /\ \A p \in ProtocolOuts : disk'[p] # Fixed
         /\ \A f \in Files : disk'[f] = disk[f] \/ (disk'[f] = Torn /\ f \in files)
<1>1. CASE UNCHANGED disk
  BY <1>1 DEF TypeInv, TypeOK, CommandInv
<1>2. ASSUME NEW f \in files \cap Files, disk' = [disk EXCEPT ![f] = Torn]
      PROVE  /\ disk' \in Disks /\ \A p \in ProtocolOuts : disk'[p] # Fixed
             /\ \A g \in Files : disk'[g] = disk[g] \/ (disk'[g] = Torn /\ g \in files)
  <2>1. /\ disk' \in Disks /\ \A g \in Files : disk'[g] = disk[g] \/ (disk'[g] = Torn /\ g \in files)
    BY <1>2 DEF TypeInv, TypeOK, Disks
  <2> QED
    BY <2>1, OutsAreFiles, GeneratorAssumption DEF TypeInv, CommandInv
<1> QED
  BY <1>1, <1>2 DEF Tears

LEMMA FailEffect ==
  ASSUME TypeInv,
         FailProtocol \/ (\E f \in Files \cup VectorDirs : FailArtifact(f)) \/ Kill
  PROVE  /\ TypeInv' /\ SameCommand /\ UNCHANGED <<now, quality>> /\ cmd'.model = cmd.model
         /\ cmd'.result \in {"failed", "killed"}
         /\ cmd'.step = "done" \/ (cmd.step = "emit" /\ cmd'.step = "emit" /\ cmd'.result = "failed")
         /\ \A f \in Files : \/ disk'[f] = disk[f]
                             \/ /\ disk'[f] = Torn
                                /\ \/ cmd.step = "protocol" /\ f = cmd.to
                                   \/ cmd.step = "emit" /\ f \in cmd.todo
<1> USE GeneratorAssumption
<1>1. CASE FailProtocol
  <2>1. /\ Tears({cmd.to}) /\ cmd.step = "protocol" /\ UNCHANGED <<now, quality, docs, commands>>
        /\ failures' \in 0 .. MaxFailures
        /\ cmd' = [cmd EXCEPT !.step = "done", !.result = "failed"]
    BY <1>1 DEF FailProtocol, AtStep, TypeInv, TypeOK
  <2>2. /\ disk' \in Disks /\ \A p \in ProtocolOuts : disk'[p] # Fixed
        /\ \A f \in Files : disk'[f] = disk[f] \/ (disk'[f] = Torn /\ f = cmd.to)
    BY <2>1, TearsEffect
  <2>3. /\ SameCommand /\ cmd'.model = cmd.model /\ cmd'.step = "done" /\ cmd'.result = "failed"
        /\ TypeOK'
    BY <2>1, <2>2 DEF TypeInv, TypeOK, SameCommand
  <2>4. CommandInv'
    BY <2>2, <2>3 DEF CommandInv, AtStep
  <2> QED
    BY <2>1, <2>2, <2>3, <2>4 DEF TypeInv
<1>2. ASSUME NEW f \in Files \cup VectorDirs, FailArtifact(f)
      PROVE  /\ TypeInv' /\ SameCommand /\ UNCHANGED <<now, quality>> /\ cmd'.model = cmd.model
             /\ cmd'.result = "failed" /\ cmd.step = "emit" /\ cmd'.step = "emit"
             /\ \A g \in Files : disk'[g] = disk[g] \/ (disk'[g] = Torn /\ g \in cmd.todo)
  <2>1. /\ Tears({f}) /\ AtStep("emit") /\ cmd.step = "emit" /\ UNCHANGED <<now, quality, docs, commands>>
        /\ f \in cmd.todo /\ failures < MaxFailures /\ failures' = failures + 1
        /\ cmd' = [cmd EXCEPT !.todo = cmd.todo \ {f}, !.result = "failed"]
    BY <1>2 DEF FailArtifact, AtStep
  <2>2. /\ disk' \in Disks /\ \A p \in ProtocolOuts : disk'[p] # Fixed
        /\ \A g \in Files : disk'[g] = disk[g] \/ (disk'[g] = Torn /\ g \in {f})
    BY <2>1, TearsEffect
  <2> DEFINE todo == cmd.todo \ {f}
  <2>3. /\ todo \subseteq MyFiles \cup (IF MyDir = None THEN {} ELSE {MyDir, Vectors(MyDir)})
        /\ cmd' = [cmd EXCEPT !.todo = todo, !.step = "emit", !.result = "failed"]
    BY <2>1 DEF TypeInv, TypeOK, CommandInv, AtStep
  <2>5. /\ commands' \in 0 .. MaxCommands /\ failures' \in 0 .. MaxFailures
        /\ "failed" \in Results
    BY <2>1 DEF TypeInv, TypeOK, Results
  <2> HIDE DEF todo
  <2>4. /\ TypeInv' /\ SameCommand /\ cmd'.model = cmd.model /\ cmd'.step = "emit"
        /\ cmd'.result = "failed"
    BY <2>1, <2>2, <2>3, <2>5, EmitStep
  <2> QED
    BY <2>1, <2>2, <2>4
<1>3. CASE Kill
  <2>1. /\ cmd' = [cmd EXCEPT !.step = "done", !.result = "killed"]
        /\ UNCHANGED <<now, quality, docs, commands>> /\ failures' \in 0 .. MaxFailures
    BY <1>3 DEF Kill, TypeInv, TypeOK
  <2>2. /\ disk' \in Disks /\ \A p \in ProtocolOuts : disk'[p] # Fixed
        /\ \A f \in Files : \/ disk'[f] = disk[f]
                            \/ /\ disk'[f] = Torn
                               /\ \/ cmd.step = "protocol" /\ f = cmd.to
                                  \/ cmd.step = "emit" /\ f \in cmd.todo
    <3>1. CASE cmd.step = "emit"
      BY <1>3, <3>1, TearsEffect DEF Kill, AtStep
    <3>2. CASE cmd.step = "protocol"
      BY <1>3, <3>2, TearsEffect DEF Kill, AtStep
    <3>3. CASE cmd.step \notin {"emit", "protocol"}
      BY <1>3, <3>3 DEF Kill, AtStep, TypeInv, TypeOK, CommandInv
    <3> QED
      BY <3>1, <3>2, <3>3
  <2>3. /\ SameCommand /\ cmd'.model = cmd.model /\ cmd'.step = "done" /\ cmd'.result = "killed"
        /\ TypeOK'
    BY <2>1, <2>2 DEF TypeInv, TypeOK, SameCommand
  <2>4. CommandInv'
    BY <2>2, <2>3 DEF CommandInv, AtStep
  <2> QED
    BY <2>1, <2>2, <2>3, <2>4 DEF TypeInv
<1> QED
  BY <1>1, <1>2, <1>3

LEMMA FinishEffect ==
  ASSUME TypeInv, Finish
  PROVE  /\ TypeInv' /\ SameCommand /\ UNCHANGED <<now, quality, disk>> /\ cmd'.model = cmd.model
         /\ cmd.step = "emit" /\ cmd.todo = {} /\ cmd'.step = "done"
         /\ cmd'.result = IF cmd.result = "failed" THEN "failed" ELSE "ok"
<1>1. /\ SameCommand /\ cmd'.model = cmd.model /\ cmd'.step = "done" /\ cmd.step = "emit"
      /\ cmd'.result = IF cmd.result = "failed" THEN "failed" ELSE "ok"
      /\ TypeOK'
  BY DEF TypeInv, TypeOK, SameCommand, Finish, AtStep
<1> QED
  BY <1>1 DEF TypeInv, CommandInv, AtStep, Finish

\* Every step, by what it does to the command.
LEMMA TypesKept ==
  ASSUME TypeInv, [Next]_vars
  PROVE  TypeInv'
<1>1. CASE LoadSources
  <2>1. now \in Versions \cup {None, Torn} /\ AtStep("load")
    BY <1>1 DEF TypeInv, TypeOK, LoadSources
  <2> QED
    BY <1>1, <2>1, LoadSourcesEffect, RefuseEffect, CheckedEffect, ToDocsEffect DEF AtStep
<1>2. CASE LoadProtocol
  <2>1. AtStep("load") /\ cmd.name \in ProtocolCommands
    BY <1>2 DEF LoadProtocol
  <2> QED
    BY <1>2, <2>1, LoadProtocolEffect, RefuseEffect, ToDocsEffect
<1>3. CASE UNCHANGED vars
  BY <1>3 DEF vars, TypeInv, TypeOK, CommandInv, AtStep, MyFiles, MyDir
<1>4. ASSUME NEW f \in Files, WriteArtifact(f)
      PROVE  TypeInv'
  BY <1>4, WriteArtifactEffect
<1>5. ASSUME NEW d \in VectorDirs, EmptyVectors(d)
      PROVE  TypeInv'
  BY <1>5, EmptyVectorsEffect
<1>6. CASE FailProtocol \/ (\E f \in Files \cup VectorDirs : FailArtifact(f)) \/ Kill
  BY <1>6, FailEffect
<1>7. CASE Edit \/ StartAny \/ CheckProtocol \/ WriteProtocol \/ Finish
  BY <1>7, EditEffect, StartEffect, CheckProtocolEffect, WriteProtocolEffect, FinishEffect
<1> QED
  BY <1>1, <1>2, <1>3, <1>4, <1>5, <1>6, <1>7 DEF Next

LEMMA TypesInit ==
  ASSUME Init
  PROVE  TypeInv
<1> USE GeneratorAssumption
<1>1. 0 \in Versions
  BY DEF Versions
<1>2. /\ disk \in Disks
      /\ \A f \in Files : disk[f] \in {None, 0}
  BY <1>1 DEF Init, Disks
<1>3. cmd = [name |-> "none", out |-> None, to |-> None, step |-> "done", model |-> None,
             todo |-> {}, result |-> "none", before |-> disk]
  BY DEF Init
<1>4. TypeOK
  BY <1>1, <1>2, <1>3 DEF Init, TypeOK
<1>5. \A p \in ProtocolOuts : disk[p] # Fixed
  BY <1>1, <1>2, OutsAreFiles
<1>6. CommandInv
  BY <1>3, <1>5 DEF CommandInv, AtStep
<1> QED
  BY <1>4, <1>6 DEF TypeInv

\* Files hold what a command may put there, the definitions never what belongs
\* to the test vectors; and a command only has its own files left to write.
THEOREM GeneratorTypeCorrect == Spec => []TypeInv
<1>1. Init => TypeInv
  BY TypesInit
<1>2. TypeInv /\ [Next]_vars => TypeInv'
  BY TypesKept
<1> QED
  BY <1>1, <1>2, PTL DEF Spec

-----------------------------------------------------------------------------
(* Refusals.                                                               *)

\* A command can only refuse while it has written nothing.
RefusedInv ==
  /\ RefusedChangesNothing
  /\ cmd.step \in {"load", "docs"} => disk = cmd.before

LEMMA RefusedKept ==
  ASSUME TypeInv, RefusedInv, [Next]_vars
  PROVE  RefusedInv'
<1> USE DEF RefusedInv, RefusedChangesNothing, SameCommand
<1>1. CASE LoadSources
  <2>1. now \in Versions \cup {None, Torn} /\ AtStep("load") /\ cmd.step = "load"
    BY <1>1 DEF TypeInv, TypeOK, LoadSources, AtStep
  <2> QED
    BY <1>1, <2>1, LoadSourcesEffect, RefuseEffect, CheckedEffect, ToDocsEffect
<1>2. CASE LoadProtocol
  <2>1. AtStep("load") /\ cmd.name \in ProtocolCommands /\ cmd.step = "load"
    BY <1>2 DEF LoadProtocol, AtStep
  <2> QED
    BY <1>2, <2>1, LoadProtocolEffect, RefuseEffect, ToDocsEffect
<1>3. CASE UNCHANGED vars
  BY <1>3 DEF vars
<1>4. ASSUME NEW f \in Files, WriteArtifact(f)
      PROVE  RefusedInv'
  <2>1. cmd'.step = "emit" /\ cmd'.result = cmd.result /\ cmd.step = "emit"
    BY <1>4, WriteArtifactEffect
  <2> QED
    BY <2>1 DEF TypeInv, CommandInv
<1>5. ASSUME NEW d \in VectorDirs, EmptyVectors(d)
      PROVE  RefusedInv'
  <2>1. cmd'.step = "emit" /\ cmd'.result = cmd.result /\ cmd.step = "emit"
    BY <1>5, EmptyVectorsEffect
  <2> QED
    BY <2>1 DEF TypeInv, CommandInv
<1>6. CASE FailProtocol \/ (\E f \in Files \cup VectorDirs : FailArtifact(f)) \/ Kill
  BY <1>6, FailEffect
<1>7. CASE Edit
  BY <1>7, EditEffect
<1>8. CASE StartAny
  BY <1>8, StartEffect
<1>9. CASE CheckProtocol
  <2>1. cmd.step = "docs"
    BY <1>9 DEF CheckProtocol, AtStep
  <2> QED
    BY <1>9, <2>1, CheckProtocolEffect
<1>10. CASE WriteProtocol
  BY <1>10, WriteProtocolEffect
<1>11. CASE Finish
  BY <1>11, FinishEffect
<1> QED
  BY <1>1, <1>2, <1>3, <1>4, <1>5, <1>6, <1>7, <1>8, <1>9, <1>10, <1>11 DEF Next

\* A command that refuses its input leaves every file as it found it, whatever
\* is edited while it reads and wherever in its checks it refuses.
THEOREM RefusalsChangeNothing == Spec => []RefusedChangesNothing
<1>1. Init => RefusedInv
  BY DEF Init, RefusedInv, RefusedChangesNothing
<1>2. TypeInv /\ RefusedInv /\ [Next]_vars => RefusedInv'
  BY RefusedKept
<1>3. RefusedInv => RefusedChangesNothing
  BY DEF RefusedInv
<1> QED
  BY <1>1, <1>2, <1>3, GeneratorTypeCorrect, PTL DEF Spec

-----------------------------------------------------------------------------
(* Success.                                                                *)

\* Loading, and what comes of it, for every command.
LEMMA LoadEffect ==
  ASSUME TypeInv, LoadSources \/ LoadProtocol
  PROVE  /\ TypeInv' /\ SameCommand /\ UNCHANGED <<now, quality, disk>> /\ cmd.step = "load"
         /\ \/ cmd'.step = "done" /\ cmd'.result = "refused" /\ cmd'.model = cmd.model
            \/ /\ cmd'.step = "docs" /\ cmd'.model = now /\ cmd'.result = "none"
               /\ cmd.name \in SourceCommands
            \/ /\ cmd'.step = "docs" /\ cmd'.result = "none"
               /\ cmd.name \in ProtocolCommands /\ \E p \in ProtocolOuts : cmd'.model = disk[p]
            \/ /\ cmd'.model = now /\ cmd'.result = "none"
               /\ \/ cmd.name \in RegistryCommands /\ quality[now] # "unfit"
                  \/ cmd.name = "build-protocol" /\ quality[now] = "protocol"
               /\ \/ cmd'.step = "protocol" /\ cmd.name \in WritingProtocol
                  \/ /\ cmd'.step = "emit" /\ cmd.name \notin WritingProtocol
                     /\ cmd'.todo = MyFiles \cup ({MyDir} \ {None})
<1>1. CASE LoadSources
  <2>1. now \in Versions \cup {None, Torn} /\ AtStep("load") /\ cmd.step = "load"
    BY <1>1 DEF TypeInv, TypeOK, LoadSources, AtStep
  <2>2. UNCHANGED <<now, quality, docs, disk, commands, failures>>
    BY <1>1, LoadSourcesEffect
  <2>3. CASE Refuse
    BY <2>1, <2>2, <2>3, RefuseEffect
  <2>4. CASE /\ cmd' = Checked([cmd EXCEPT !.model = now])
             /\ \/ cmd.name \in RegistryCommands /\ quality[now] # "unfit"
                \/ cmd.name = "build-protocol" /\ quality[now] = "protocol"
    BY <2>1, <2>2, <2>4, CheckedEffect
  <2>5. CASE cmd' = [cmd EXCEPT !.step = "docs", !.model = now] /\ cmd.name \in SourceCommands
    BY <2>1, <2>2, <2>5, ToDocsEffect
  <2> QED
    BY <1>1, <2>3, <2>4, <2>5, LoadSourcesEffect
<1>2. CASE LoadProtocol
  <2>1. AtStep("load") /\ cmd.name \in ProtocolCommands /\ cmd.step = "load"
    BY <1>2 DEF LoadProtocol, AtStep
  <2>2. UNCHANGED <<now, quality, docs, disk, commands, failures>>
    BY <1>2, LoadProtocolEffect
  <2>3. CASE Refuse
    BY <2>1, <2>2, <2>3, RefuseEffect
  <2>4. ASSUME NEW p \in ProtocolOuts, disk[p] \in Versions \cup {Torn},
               cmd' = [cmd EXCEPT !.step = "docs", !.model = disk[p]]
        PROVE  /\ TypeInv' /\ SameCommand /\ cmd'.step = "docs" /\ cmd'.result = "none"
               /\ cmd'.model = disk[p]
    BY <2>1, <2>2, <2>4, ToDocsEffect
  <2> QED
    BY <1>2, <2>1, <2>2, <2>3, <2>4, LoadProtocolEffect
<1> QED
  BY <1>1, <1>2

\* The definition is on disk before anything else is written.
DefinitionWritten ==
  cmd.step = "emit" /\ cmd.name \in WritingProtocol => disk[cmd.to] = cmd.model

\* Nothing but the new test vectors is in their directory once it was emptied.
VectorsAlone ==
  /\ \A f \in Files : IsPrefix(MyDir, f) /\ disk[f] # None => f = Vectors(MyDir)
  /\ Vectors(MyDir) \in cmd.todo \/ disk[Vectors(MyDir)] = Fixed

\* While nothing failed, what is no longer to do has been written.
Progress ==
  cmd.step = "emit" /\ cmd.result = "none" =>
    /\ \A f \in MyFiles : f \in cmd.todo \/ disk[f] = cmd.model
    /\ MyDir # None => MyDir \in cmd.todo \/ VectorsAlone

SuccessInv == DefinitionWritten /\ Progress /\ SuccessIsComplete

\* A command that has yet to write, or that is over without success.
LEMMA NothingToShow ==
  ASSUME cmd'.step \in {"load", "docs", "protocol"}
           \/ (cmd'.step = "done" /\ cmd'.result \in {"refused", "failed", "killed"})
  PROVE  SuccessInv'
  BY DEF SuccessInv, DefinitionWritten, Progress, SuccessIsComplete

\* A command that writes no definition begins with everything to do.
LEMMA AllToDo ==
  ASSUME SameCommand, cmd'.step = "emit", cmd'.todo = MyFiles \cup ({MyDir} \ {None}),
         cmd.name \in WritingProtocol => disk'[cmd.to] = cmd'.model
  PROVE  SuccessInv'
<1>1. MyFiles' = MyFiles /\ MyDir' = MyDir
  BY DEF MyFiles, MyDir, SameCommand
<1> QED
  BY <1>1 DEF SuccessInv, DefinitionWritten, Progress, SuccessIsComplete, SameCommand

LEMMA WriteArtifactProgress ==
  ASSUME TypeInv, SuccessInv, NEW f \in Files, WriteArtifact(f)
  PROVE  SuccessInv'
<1>1. /\ SameCommand /\ cmd'.model = cmd.model /\ cmd.step = "emit" /\ cmd'.step = "emit"
      /\ cmd'.result = cmd.result /\ f \in cmd.todo /\ cmd'.todo = cmd.todo \ {f}
      /\ disk'[f] = IF LastPart(f) = "vectors" THEN Fixed ELSE cmd.model
      /\ \A g \in Files : g # f => disk'[g] = disk[g]
  BY WriteArtifactEffect
<1>2. /\ <<cmd.name, cmd.out>> \in Commands /\ f \notin ProtocolOuts
      /\ \/ f \in MyFiles /\ LastPart(f) # "vectors"
         \/ MyDir # None /\ f = Vectors(MyDir) /\ LastPart(f) = "vectors"
  BY <1>1, ToDo DEF AtStep
<1>3. MyFiles' = MyFiles /\ MyDir' = MyDir
  BY <1>1 DEF MyFiles, MyDir, SameCommand
<1>4. MyFiles \subseteq Files /\ cmd.out \in Outs \cup {None}
  BY <1>2, CommandFiles DEF MyFiles
<1>5. DefinitionWritten'
  <2>1. cmd.name \in WritingProtocol => cmd.to \in ProtocolOuts /\ cmd.to \in Files
    BY <1>1, OutsAreFiles DEF TypeInv, CommandInv
  <2> QED
    BY <1>1, <1>2, <2>1 DEF SuccessInv, DefinitionWritten, SameCommand
<1>6. SuccessIsComplete'
  BY <1>1 DEF SuccessIsComplete
<1>7. ASSUME cmd.result = "none", NEW g \in MyFiles
      PROVE  g \in cmd'.todo \/ disk'[g] = cmd'.model
  <2>1. LastPart(g) # "vectors"
    BY <1>4, ArtifactParts DEF MyFiles
  <2>2. g \in cmd.todo \/ disk[g] = cmd.model
    BY <1>1, <1>7 DEF SuccessInv, Progress
  <2> QED
    BY <1>1, <1>4, <2>1, <2>2
<1>8. ASSUME cmd.result = "none", MyDir # None
      PROVE  MyDir \in cmd'.todo \/ VectorsAlone'
  <2>1. CASE MyDir \in cmd.todo
    <3>1. MyDir # f
      BY <1>2, <1>8, CommandFiles, FilesNotDirs DEF MyDir
    <3> QED
      BY <1>1, <2>1, <3>1
  <2>2. CASE VectorsAlone
    <3>1. ~(f \in MyFiles /\ IsPrefix(MyDir, f))
      BY <1>4, <1>8, NotAmongVectors DEF MyFiles, MyDir
    <3>2. f = Vectors(MyDir) \/ ~IsPrefix(MyDir, f)
      BY <1>2, <3>1
    <3>3. \A g \in Files : IsPrefix(MyDir, g) /\ disk'[g] # None => g = Vectors(MyDir)
      BY <1>1, <2>2, <3>2 DEF VectorsAlone
    <3>4. Vectors(MyDir) \in Files /\ LastPart(Vectors(MyDir)) = "vectors"
      BY <1>2, <1>8, CommandFiles DEF MyDir
    <3>5. Vectors(MyDir) \in cmd'.todo \/ disk'[Vectors(MyDir)] = Fixed
      BY <1>1, <2>2, <3>4 DEF VectorsAlone
    <3> QED
      BY <1>3, <3>3, <3>5 DEF VectorsAlone
  <2> QED
    BY <1>1, <1>8, <2>1, <2>2 DEF SuccessInv, Progress
<1>9. Progress'
  BY <1>1, <1>3, <1>7, <1>8 DEF Progress
<1> QED
  BY <1>5, <1>6, <1>9 DEF SuccessInv

LEMMA EmptyVectorsProgress ==
  ASSUME TypeInv, SuccessInv, NEW d \in VectorDirs, EmptyVectors(d)
  PROVE  SuccessInv'
<1>1. /\ SameCommand /\ cmd'.model = cmd.model /\ cmd.step = "emit" /\ cmd'.step = "emit"
      /\ cmd'.result = cmd.result /\ d = MyDir /\ MyDir # None
      /\ cmd'.todo = (cmd.todo \ {d}) \cup {Vectors(d)}
      /\ \A f \in Files : disk'[f] = IF IsPrefix(d, f) THEN None ELSE disk[f]
  BY EmptyVectorsEffect
<1>2. /\ <<cmd.name, cmd.out>> \in Commands
      /\ cmd.name \in WritingProtocol => cmd.to \in ProtocolOuts
  BY <1>1 DEF TypeInv, CommandInv
<1>3. MyFiles' = MyFiles /\ MyDir' = MyDir
  BY <1>1 DEF MyFiles, MyDir, SameCommand
<1>4. MyFiles \subseteq Files /\ cmd.out \in Outs \cup {None}
  BY <1>2, CommandFiles DEF MyFiles
<1>5. DefinitionWritten'
  <2>1. cmd.name \in WritingProtocol => cmd.to \in Files /\ ~IsPrefix(d, cmd.to)
    BY <1>2, OutsAreFiles, GeneratorAssumption
  <2> QED
    BY <1>1, <2>1 DEF SuccessInv, DefinitionWritten, SameCommand
<1>6. ASSUME cmd.result = "none", NEW g \in MyFiles
      PROVE  g \in cmd'.todo \/ disk'[g] = cmd'.model
  <2>1. ~IsPrefix(d, g)
    BY <1>1, <1>4, NotAmongVectors DEF MyFiles, MyDir
  <2>2. g \in Files /\ g # d
    BY <1>4, FilesNotDirs
  <2>3. g \in cmd.todo \/ disk[g] = cmd.model
    BY <1>1, <1>6 DEF SuccessInv, Progress
  <2> QED
    BY <1>1, <2>1, <2>2, <2>3
<1>7. VectorsAlone'
  BY <1>1, <1>3 DEF VectorsAlone
<1> QED
  BY <1>1, <1>3, <1>5, <1>6, <1>7 DEF SuccessInv, Progress, SuccessIsComplete

LEMMA FailKeepsDefinition ==
  ASSUME TypeInv, SuccessInv,
         FailProtocol \/ (\E f \in Files \cup VectorDirs : FailArtifact(f)) \/ Kill
  PROVE  SuccessInv'
<1>1. /\ SameCommand /\ cmd'.model = cmd.model /\ cmd'.result \in {"failed", "killed"}
      /\ cmd'.step = "done" \/ (cmd.step = "emit" /\ cmd'.step = "emit")
      /\ \A f \in Files : \/ disk'[f] = disk[f]
                          \/ cmd.step = "protocol" \/ (cmd.step = "emit" /\ f \in cmd.todo)
  BY FailEffect
<1>2. CASE cmd'.step = "done"
  BY <1>1, <1>2, NothingToShow
<1>3. CASE cmd'.step = "emit"
  <2>1. \A f \in ProtocolOuts : disk'[f] = disk[f]
    BY <1>1, <1>3, ToDo, OutsAreFiles DEF AtStep
  <2>2. cmd.name \in WritingProtocol => cmd.to \in ProtocolOuts
    BY <1>1, <1>3 DEF TypeInv, CommandInv
  <2>3. DefinitionWritten'
    BY <1>1, <1>3, <2>1, <2>2 DEF SuccessInv, DefinitionWritten, SameCommand
  <2> QED
    BY <1>1, <1>3, <2>3 DEF SuccessInv, Progress, SuccessIsComplete
<1> QED
  BY <1>1, <1>2, <1>3

LEMMA FinishSucceeds ==
  ASSUME TypeInv, SuccessInv, Finish
  PROVE  SuccessInv'
<1>1. /\ SameCommand /\ UNCHANGED disk /\ cmd'.model = cmd.model
      /\ cmd.step = "emit" /\ cmd.todo = {} /\ cmd'.step = "done"
      /\ cmd'.result = IF cmd.result = "failed" THEN "failed" ELSE "ok"
  BY FinishEffect
<1>2. cmd.result \in {"none", "failed"} /\ <<cmd.name, cmd.out>> \in Commands
  BY <1>1 DEF TypeInv, CommandInv
<1>3. CASE cmd.result = "failed"
  BY <1>1, <1>3, NothingToShow
<1>4. CASE cmd.result = "none"
  <2>1. /\ \A f \in MyFiles : disk[f] = cmd.model
        /\ MyDir # None => VectorsAlone
        /\ cmd.name \in WritingProtocol => disk[cmd.to] = cmd.model
    BY <1>1, <1>4 DEF SuccessInv, Progress, DefinitionWritten
  <2>2. ASSUME MyDir # None
        PROVE  {f \in Files : IsPrefix(MyDir, f) /\ disk[f] # None} = {Vectors(MyDir)}
    <3>1. Vectors(MyDir) \in Files /\ IsPrefix(MyDir, Vectors(MyDir))
      BY <1>2, <2>2, CommandFiles DEF MyDir
    <3>2. disk[Vectors(MyDir)] = Fixed /\ Fixed # None
      BY <1>1, <2>1, <2>2, GeneratorAssumption DEF VectorsAlone
    <3> QED
      BY <2>1, <2>2, <3>1, <3>2 DEF VectorsAlone
  <2>3. SuccessIsComplete'
    BY <1>1, <2>1, <2>2 DEF SuccessIsComplete, MyFiles, MyDir, SameCommand
  <2> QED
    BY <1>1, <2>3 DEF SuccessInv, Progress, DefinitionWritten
<1> QED
  BY <1>2, <1>3, <1>4

LEMMA SuccessKept ==
  ASSUME TypeInv, SuccessInv, [Next]_vars
  PROVE  SuccessInv'
<1>1. CASE LoadSources \/ LoadProtocol
  BY <1>1, LoadEffect, NothingToShow, AllToDo
<1>2. CASE CheckProtocol
  BY <1>2, CheckProtocolEffect, NothingToShow, AllToDo
<1>3. CASE WriteProtocol
  BY <1>3, WriteProtocolEffect, AllToDo
<1>4. ASSUME NEW f \in Files, WriteArtifact(f)
      PROVE  SuccessInv'
  BY <1>4, WriteArtifactProgress
<1>5. ASSUME NEW d \in VectorDirs, EmptyVectors(d)
      PROVE  SuccessInv'
  BY <1>5, EmptyVectorsProgress
<1>6. CASE FailProtocol \/ (\E f \in Files \cup VectorDirs : FailArtifact(f)) \/ Kill
  BY <1>6, FailKeepsDefinition
<1>7. CASE Finish
  BY <1>7, FinishSucceeds
<1>8. CASE StartAny
  BY <1>8, StartEffect, NothingToShow
<1>9. CASE UNCHANGED <<cmd, disk>>
  BY <1>9 DEF SuccessInv, DefinitionWritten, Progress, SuccessIsComplete, VectorsAlone, MyFiles,
              MyDir
<1> QED
  BY <1>1, <1>2, <1>3, <1>4, <1>5, <1>6, <1>7, <1>8, <1>9 DEF Next, Edit, vars

\* A command that ends with success has written all it is for from the one
\* state of the sources that it loaded, in any order of its writes, and only
\* new test vectors are in their directory (emitters/, cli.ts).
THEOREM SuccessesAreComplete == Spec => []SuccessIsComplete
<1>1. Init => SuccessInv
  BY DEF Init, SuccessInv, DefinitionWritten, Progress, SuccessIsComplete
<1>2. TypeInv /\ SuccessInv /\ [Next]_vars => SuccessInv'
  BY SuccessKept
<1>3. SuccessInv => SuccessIsComplete
  BY DEF SuccessInv
<1> QED
  BY <1>1, <1>2, <1>3, GeneratorTypeCorrect, PTL DEF Spec

-----------------------------------------------------------------------------
(* What is written.                                                        *)

\* What every step does to a file: nothing, something that is of no state of
\* the sources, or what the command loaded.
LEMMA DiskStep ==
  ASSUME TypeInv, [Next]_vars, NEW f \in Files
  PROVE  \/ disk'[f] = disk[f]
         \/ disk'[f] \in {None, Torn, Fixed}
         \/ /\ disk'[f] = cmd.model
            /\ \/ cmd.step = "protocol" /\ cmd.name \in WritingProtocol /\ f = cmd.to
               \/ cmd.step = "emit" /\ f \in MyFiles /\ f \notin ProtocolOuts
<1>1. CASE LoadSources \/ LoadProtocol
  BY <1>1, LoadEffect
<1>2. CASE WriteProtocol
  BY <1>2, WriteProtocolEffect
<1>3. ASSUME NEW g \in Files, WriteArtifact(g)
      PROVE  \/ disk'[f] = disk[f] \/ disk'[f] \in {None, Torn, Fixed}
             \/ disk'[f] = cmd.model /\ cmd.step = "emit" /\ f \in MyFiles /\ f \notin ProtocolOuts
  BY <1>3, WriteArtifactEffect, ToDo DEF AtStep
<1>4. ASSUME NEW d \in VectorDirs, EmptyVectors(d)
      PROVE  disk'[f] = disk[f] \/ disk'[f] = None
  BY <1>4, EmptyVectorsEffect
<1>5. CASE FailProtocol \/ (\E g \in Files \cup VectorDirs : FailArtifact(g)) \/ Kill
  BY <1>5, FailEffect
<1>6. CASE UNCHANGED disk
  BY <1>6
<1> QED
  BY <1>1, <1>2, <1>3, <1>4, <1>5, <1>6
     DEF Next, Edit, StartAny, Start, CheckProtocol, Finish, vars

\* What every step does to the command.
LEMMA CommandStep ==
  ASSUME TypeInv, [Next]_vars
  PROVE  /\ quality' = quality /\ now' \in {now, now + 1}
         /\ \/ LoadSources \/ LoadProtocol
            \/ CheckProtocol
            \/ cmd'.step \in {"load", "done"} /\ cmd'.model \in {None, cmd.model}
            \/ SameCommand /\ cmd'.model = cmd.model /\ cmd'.step = cmd.step
            \/ WriteProtocol
<1>1. CASE LoadSources \/ LoadProtocol
  BY <1>1, LoadEffect
<1>2. CASE CheckProtocol
  BY <1>2, CheckProtocolEffect
<1>3. CASE WriteProtocol
  BY <1>3, WriteProtocolEffect
<1>4. ASSUME NEW f \in Files, WriteArtifact(f)
      PROVE  UNCHANGED <<now, quality>> /\ SameCommand /\ cmd'.model = cmd.model /\ cmd'.step = cmd.step
  BY <1>4, WriteArtifactEffect
<1>5. ASSUME NEW d \in VectorDirs, EmptyVectors(d)
      PROVE  UNCHANGED <<now, quality>> /\ SameCommand /\ cmd'.model = cmd.model /\ cmd'.step = cmd.step
  BY <1>5, EmptyVectorsEffect
<1>6. CASE FailProtocol \/ (\E f \in Files \cup VectorDirs : FailArtifact(f)) \/ Kill
  BY <1>6, FailEffect
<1>7. CASE Finish
  BY <1>7, FinishEffect
<1>8. CASE StartAny
  BY <1>8, StartEffect
<1>9. CASE Edit \/ UNCHANGED vars
  BY <1>9 DEF Edit, vars, SameCommand
<1> QED
  BY <1>1, <1>2, <1>3, <1>4, <1>5, <1>6, <1>7, <1>8, <1>9 DEF Next

\* What a command is about to write has passed its checks.
ModelAccepted ==
  cmd.step \in {"protocol", "emit"} /\ cmd.model \in Versions =>
    /\ quality[cmd.model] # "unfit"
    /\ cmd.name \notin RegistryCommands => quality[cmd.model] = "protocol"

AcceptedInv == ModelAccepted /\ OnlyAcceptedIsWritten

LEMMA ModelStaysAccepted ==
  ASSUME TypeInv, ModelAccepted, [Next]_vars
  PROVE  ModelAccepted'
<1>1. quality' = quality /\ None \notin Versions /\ Torn \notin Versions
  BY CommandStep, GeneratorAssumption
<1>2. CASE LoadSources \/ LoadProtocol
  BY <1>1, <1>2, LoadEffect DEF ModelAccepted, SameCommand, RegistryCommands
<1>3. CASE CheckProtocol
  BY <1>1, <1>3, CheckProtocolEffect DEF ModelAccepted, SameCommand, ProtocolValid
<1>4. CASE cmd'.step \in {"load", "done"}
  BY <1>4 DEF ModelAccepted
<1>5. CASE SameCommand /\ cmd'.model = cmd.model /\ cmd'.step = cmd.step
  BY <1>1, <1>5 DEF ModelAccepted, SameCommand
<1>6. CASE WriteProtocol
  BY <1>1, <1>6, WriteProtocolEffect DEF ModelAccepted, SameCommand
<1> QED
  BY <1>2, <1>3, <1>4, <1>5, <1>6, CommandStep

LEMMA AcceptedKept ==
  ASSUME TypeInv, AcceptedInv, [Next]_vars
  PROVE  AcceptedInv'
<1>1. ModelAccepted' /\ quality' = quality
  BY ModelStaysAccepted, CommandStep DEF AcceptedInv
<1>2. ASSUME NEW f \in Files, disk'[f] \in Versions, f # Leftover(<<"tooling", "test-vectors">>)
      PROVE  /\ quality[disk'[f]] # "unfit"
             /\ f \in ProtocolOuts \cup ProtocolDocs(Docs) => quality[disk'[f]] = "protocol"
  <2>1. disk'[f] \notin {None, Torn, Fixed}
    BY <1>2, GeneratorAssumption
  <2>2. CASE disk'[f] = disk[f]
    BY <1>2, <2>2 DEF AcceptedInv, OnlyAcceptedIsWritten
  <2>3. CASE /\ disk'[f] = cmd.model
             /\ cmd.step = "protocol" /\ cmd.name \in WritingProtocol /\ f = cmd.to
    BY <1>2, <2>3 DEF AcceptedInv, ModelAccepted, WritingProtocol, RegistryCommands
  <2>4. CASE disk'[f] = cmd.model /\ cmd.step = "emit" /\ f \in MyFiles /\ f \notin ProtocolOuts
    <3>1. quality[cmd.model] # "unfit"
          /\ (cmd.name \notin RegistryCommands => quality[cmd.model] = "protocol")
      BY <1>2, <2>4 DEF AcceptedInv, ModelAccepted
    <3>2. <<cmd.name, cmd.out>> \in Commands
      BY <2>4 DEF TypeInv, CommandInv
    <3>3. LastPart(f) \in {"protocol.json", "protocol.md"} => cmd.name \notin RegistryCommands
      BY <2>4, <3>2, CommandFiles, ArtifactParts DEF MyFiles, RegistryCommands
    <3>4. f \in ProtocolDocs(Docs) => LastPart(f) \in {"protocol.json", "protocol.md"}
      BY KnownPaths, FilesBelow DEF LastPart
    <3> QED
      BY <2>4, <3>1, <3>3, <3>4
  <2> QED
    BY <2>1, <2>2, <2>3, <2>4, DiskStep
<1> QED
  BY <1>1, <1>2 DEF AcceptedInv, OnlyAcceptedIsWritten

LEMMA AcceptedAtFirst ==
  ASSUME Init
  PROVE  AcceptedInv
<1>1. cmd.step = "done"
  BY DEF Init
<1>2. ASSUME NEW f \in Files, disk[f] \in Versions, f # Leftover(<<"tooling", "test-vectors">>)
      PROVE  quality[disk[f]] = "protocol"
  <2>1. PICK old \in SUBSET {Leftover(<<"tooling", "test-vectors">>), Candidates[1]} :
          disk = [g \in Files |->
                    IF g \notin old THEN None
                    ELSE IF g = Candidates[1] /\ quality[0] # "protocol" THEN None
                    ELSE 0]
    BY DEF Init
  <2>2. disk[f] # None
    BY <1>2, GeneratorAssumption
  <2>3. f = Candidates[1] /\ disk[f] = 0 /\ quality[0] = "protocol"
    BY <1>2, <2>1, <2>2
  <2> QED
    BY <2>3
<1> QED
  BY <1>1, <1>2 DEF AcceptedInv, ModelAccepted, OnlyAcceptedIsWritten

\* No file ever holds a state of the sources that the rules of its command do
\* not accept, although the sources and their documents change while the
\* command runs (cli.ts).
THEOREM AcceptedIsWritten == Spec => []OnlyAcceptedIsWritten
<1>1. TypeInv /\ AcceptedInv /\ [Next]_vars => AcceptedInv'
  BY AcceptedKept
<1>2. AcceptedInv => OnlyAcceptedIsWritten
  BY DEF AcceptedInv
<1> QED
  BY <1>1, <1>2, AcceptedAtFirst, GeneratorTypeCorrect, PTL DEF Spec

-----------------------------------------------------------------------------
(* The definition and the documents made of it.                            *)

\* While a command runs, a definition changes only when it is written, by the
\* one command that is told to write it there.
LEMMA DefinitionStep ==
  ASSUME TypeInv, [Next]_vars, NEW p \in ProtocolOuts
  PROVE  \/ disk'[p] = disk[p]
         \/ cmd.step = "protocol" /\ (WriteProtocol \/ disk'[p] = Torn)
<1>1. CASE LoadSources \/ LoadProtocol
  BY <1>1, LoadEffect
<1>2. CASE WriteProtocol
  BY <1>2, WriteProtocolEffect
<1>3. ASSUME NEW f \in Files, WriteArtifact(f)
      PROVE  disk'[p] = disk[p]
  BY <1>3, WriteArtifactEffect, ToDo, OutsAreFiles DEF AtStep
<1>4. ASSUME NEW d \in VectorDirs, EmptyVectors(d)
      PROVE  disk'[p] = disk[p]
  BY <1>4, EmptyVectorsEffect, OutsAreFiles, GeneratorAssumption
<1>5. CASE FailProtocol \/ (\E f \in Files \cup VectorDirs : FailArtifact(f)) \/ Kill
  BY <1>5, FailEffect, ToDo, OutsAreFiles DEF AtStep
<1>6. CASE UNCHANGED disk
  BY <1>6
<1> QED
  BY <1>1, <1>2, <1>3, <1>4, <1>5, <1>6
     DEF Next, Edit, StartAny, Start, CheckProtocol, Finish, vars

\* No file is newer than the sources, and none newer than a definition that is
\* about to be written. Documents are made of a definition that is on disk.
AllNotNewer(version) == \A f \in Files : disk[f] \in Versions => disk[f] <= version

NewestInv ==
  /\ AllNotNewer(now)
  /\ cmd.model \in Versions => cmd.model <= now
  /\ cmd.step = "protocol" \/ (cmd.step = "docs" /\ cmd.name \in SourceCommands) =>
       cmd.model \in Versions /\ AllNotNewer(cmd.model)
  /\ cmd.step \in {"docs", "emit"} /\ cmd.name \in ProtocolCommands /\ cmd.model \in Versions =>
       \E p \in ProtocolOuts : disk[p] = cmd.model

LEMMA ModelNotNewer ==
  ASSUME TypeInv, NewestInv, [Next]_vars
  PROVE  cmd'.model \in Versions => cmd'.model <= now'
<1>1. now \in Nat /\ now' \in {now, now + 1} /\ Versions \subseteq Nat /\ None \notin Versions
  BY CommandStep, GeneratorAssumption DEF TypeInv, TypeOK, Versions
<1>2. cmd'.model \in {cmd.model, now, None} \/ \E p \in ProtocolOuts : cmd'.model = disk[p]
  BY CommandStep, LoadEffect, CheckProtocolEffect, WriteProtocolEffect
<1>3. /\ cmd.model \in Versions => cmd.model <= now
      /\ \A p \in ProtocolOuts : disk[p] \in Versions => disk[p] <= now
  BY OutsAreFiles DEF NewestInv, AllNotNewer
<1>4. ASSUME cmd'.model \in Versions
      PROVE  cmd'.model \in Nat /\ cmd'.model <= now
  <2>1. CASE cmd'.model = cmd.model
    BY <1>1, <1>3, <1>4, <2>1
  <2>2. CASE cmd'.model = now
    BY <1>1, <2>2
  <2>3. ASSUME NEW p \in ProtocolOuts, cmd'.model = disk[p]
        PROVE  cmd'.model <= now
    BY <1>3, <1>4, <2>3
  <2> QED
    BY <1>1, <1>2, <1>4, <2>1, <2>2, <2>3
<1>5. ASSUME NEW m \in Nat, m <= now
      PROVE  m <= now'
  BY <1>1, <1>5
<1> QED
  BY <1>4, <1>5

\* A command that is not writing its artifacts touches no file unless it ends
\* or goes on to the next step.
LEMMA StepsAside ==
  ASSUME TypeInv, [Next]_vars, cmd.step \in {"docs", "protocol"}, cmd'.step = cmd.step
  PROVE  UNCHANGED disk
<1>1. ~(\E f \in Files : WriteArtifact(f)) /\ ~(\E d \in VectorDirs : EmptyVectors(d))
      /\ ~WriteProtocol
  BY WriteArtifactEffect, EmptyVectorsEffect, WriteProtocolEffect
<1>2. ~(FailProtocol \/ (\E f \in Files \cup VectorDirs : FailArtifact(f)) \/ Kill)
  BY FailEffect
<1>3. LoadSources \/ LoadProtocol => UNCHANGED disk
  BY LoadEffect
<1> QED
  BY <1>1, <1>2, <1>3 DEF Next, Edit, StartAny, Start, CheckProtocol, Finish, vars

LEMMA FilesNotNewer ==
  ASSUME TypeInv, NewestInv, [Next]_vars
  PROVE  AllNotNewer(now)'
<1>1. now \in Nat /\ now' \in {now, now + 1} /\ Versions \subseteq Nat
      /\ {None, Torn, Fixed} \cap Versions = {}
  BY CommandStep, GeneratorAssumption DEF TypeInv, TypeOK, Versions
<1>2. ASSUME NEW f \in Files, disk'[f] \in Versions
      PROVE  disk'[f] \in Nat /\ disk'[f] <= now
  <2>1. disk'[f] = disk[f] \/ disk'[f] = cmd.model
    BY <1>1, <1>2, DiskStep
  <2>2. /\ cmd.model \in Versions => cmd.model <= now
        /\ disk[f] \in Versions => disk[f] <= now
    BY DEF NewestInv, AllNotNewer
  <2> QED
    BY <1>1, <1>2, <2>1, <2>2
<1>3. ASSUME NEW m \in Nat, m <= now
      PROVE  m <= now'
  BY <1>1, <1>3
<1> QED
  BY <1>2, <1>3 DEF AllNotNewer

LEMMA NewestKept ==
  ASSUME TypeInv, NewestInv, [Next]_vars
  PROVE  NewestInv'
<1>1. AllNotNewer(now)' /\ (cmd'.model \in Versions => cmd'.model <= now')
  BY FilesNotNewer, ModelNotNewer
<1>2. /\ SourceCommands \cap ProtocolCommands = {} /\ WritingProtocol \cap ProtocolCommands = {}
      /\ RegistryCommands \cap ProtocolCommands = {} /\ "build-protocol" \notin ProtocolCommands
  BY DEF SourceCommands, ProtocolCommands, WritingProtocol, RegistryCommands
<1>3. CASE cmd'.step \in {"load", "done"}
  BY <1>1, <1>3 DEF NewestInv
<1>4. CASE LoadSources \/ LoadProtocol
  <2>1. now \in Versions /\ UNCHANGED <<now, disk>> /\ SameCommand
    BY <1>4, LoadEffect DEF TypeInv, TypeOK
  <2>2. ASSUME cmd'.model = now
        PROVE  AllNotNewer(cmd.model)'
    BY <1>1, <2>1, <2>2 DEF AllNotNewer
  <2>3. CASE cmd'.step = "docs" /\ cmd'.model = now /\ cmd.name \in SourceCommands
    BY <1>1, <1>2, <2>1, <2>2, <2>3 DEF NewestInv, SameCommand
  <2>4. CASE cmd'.step = "docs" /\ cmd.name \in ProtocolCommands
             /\ \E p \in ProtocolOuts : cmd'.model = disk[p]
    BY <1>1, <1>2, <2>1, <2>4 DEF NewestInv, SameCommand
  <2>5. CASE /\ cmd'.model = now /\ cmd'.step \in {"protocol", "emit"}
             /\ cmd.name \notin ProtocolCommands
    BY <1>1, <2>1, <2>2, <2>5 DEF NewestInv, SameCommand
  <2> QED
    BY <1>2, <1>3, <1>4, <2>3, <2>4, <2>5, LoadEffect
<1>5. CASE CheckProtocol
  <2>1. /\ SameCommand /\ UNCHANGED <<now, disk>> /\ cmd'.model = cmd.model /\ cmd.step = "docs"
        /\ cmd.name \in SourceCommands \cup ProtocolCommands
        /\ cmd'.step = "done" \/ (cmd'.step = "protocol" /\ cmd.name \in WritingProtocol)
             \/ cmd'.step = "emit"
    BY <1>5, CheckProtocolEffect DEF CheckProtocol, AtStep
  <2>2. cmd.name \in SourceCommands => cmd.model \in Versions /\ AllNotNewer(cmd.model)
    BY <2>1 DEF NewestInv
  <2>3. cmd.name \in ProtocolCommands /\ cmd.model \in Versions =>
          \E p \in ProtocolOuts : disk[p] = cmd.model
    BY <2>1 DEF NewestInv
  <2> QED
    BY <1>1, <1>2, <1>3, <2>1, <2>2, <2>3 DEF NewestInv, AllNotNewer, SameCommand
<1>6. CASE WriteProtocol
  <2>1. SameCommand /\ cmd'.step = "emit" /\ cmd.name \in WritingProtocol
    BY <1>6, WriteProtocolEffect
  <2> QED
    BY <1>1, <1>2, <2>1 DEF NewestInv, SameCommand
<1>7. CASE SameCommand /\ cmd'.model = cmd.model /\ cmd'.step = cmd.step /\ ~WriteProtocol
  <2>1. CASE cmd.step \in {"protocol", "docs"}
    <3>1. UNCHANGED disk
      BY <1>7, <2>1, StepsAside
    <3> QED
      BY <1>1, <1>7, <2>1, <3>1 DEF NewestInv, AllNotNewer, SameCommand
  <2>2. CASE cmd.step = "emit"
    <3>1. \A p \in ProtocolOuts : disk'[p] = disk[p]
      BY <2>2, DefinitionStep
    <3> QED
      BY <1>1, <1>7, <2>2, <3>1 DEF NewestInv, SameCommand
  <2> QED
    BY <1>1, <1>7, <2>1, <2>2 DEF NewestInv, SameCommand
<1> QED
  BY <1>3, <1>4, <1>5, <1>6, <1>7, CommandStep

LEMMA DocsParts ==
  ASSUME NEW d \in ProtocolDocs(Docs)
  PROVE  LastPart(d) \in {"protocol.json", "protocol.md"} /\ d \notin ProtocolOuts
<1>1. LastPart(d) \in {"protocol.json", "protocol.md"}
  BY KnownPaths, FilesBelow DEF LastPart
<1> QED
  BY <1>1, ProtocolPaths

LEMMA NotBehindKept ==
  ASSUME TypeInv, DefinitionWritten, NewestInv, ProtocolNotBehindItsDocs, [Next]_vars
  PROVE  ProtocolNotBehindItsDocs'
<1>1. SUFFICES ASSUME \A p \in ProtocolOuts : disk'[p] # Torn,
                      NEW d \in ProtocolDocs(Docs) \cap Files, disk'[d] \in Versions
               PROVE  \E p \in ProtocolOuts : disk'[p] \in Versions /\ disk'[p] >= disk'[d]
  BY DEF ProtocolNotBehindItsDocs
<1>2. /\ Versions \subseteq Nat /\ {None, Torn, Fixed} \cap Versions = {}
      /\ d \notin ProtocolOuts /\ LastPart(d) \in {"protocol.json", "protocol.md"}
  BY GeneratorAssumption, DocsParts DEF Versions
<1>3. CASE WriteProtocol
  <2>1. /\ cmd.step = "protocol" /\ cmd.to \in ProtocolOuts /\ disk'[cmd.to] = cmd.model
        /\ disk'[d] = disk[d]
    BY <1>2, <1>3, WriteProtocolEffect
  <2>2. cmd.model \in Versions /\ AllNotNewer(cmd.model)
    BY <2>1 DEF NewestInv
  <2>3. disk[d] <= cmd.model /\ disk[d] \in Nat /\ cmd.model \in Nat
    BY <1>1, <1>2, <2>1, <2>2 DEF AllNotNewer
  <2>4. disk'[cmd.to] \in Versions /\ disk'[cmd.to] >= disk'[d]
    BY <2>1, <2>2, <2>3
  <2> QED
    BY <2>1, <2>4
<1>4. CASE ~WriteProtocol
  <2>1. \A p \in ProtocolOuts : disk'[p] = disk[p]
    BY <1>1, <1>4, DefinitionStep
  <2>2. CASE disk'[d] = disk[d]
    BY <1>1, <2>1, <2>2 DEF ProtocolNotBehindItsDocs
  <2>3. CASE disk'[d] = cmd.model /\ cmd.step = "emit" /\ d \in MyFiles
    <3>1. <<cmd.name, cmd.out>> \in Commands
          /\ (cmd.name \in WritingProtocol => cmd.to \in ProtocolOuts)
      BY <2>3 DEF TypeInv, CommandInv
    <3>2. cmd.name \in {"generate", "emit-protocol", "generate-protocol"}
      BY <1>2, <2>3, <3>1, CommandFiles, ArtifactParts DEF MyFiles
    <3>3. cmd.name \in WritingProtocol \/ cmd.name \in ProtocolCommands
      BY <3>2 DEF WritingProtocol, ProtocolCommands
    <3>4. PICK p \in ProtocolOuts : disk[p] = cmd.model
      BY <1>1, <2>3, <3>1, <3>3 DEF NewestInv, DefinitionWritten
    <3>5. disk'[p] \in Versions /\ disk'[p] = disk'[d] /\ disk'[d] \in Nat
      BY <1>1, <1>2, <2>1, <2>3, <3>4
    <3> QED
      BY <3>5
  <2>4. ~(cmd.step = "protocol" /\ cmd.name \in WritingProtocol /\ d = cmd.to)
    BY <1>2 DEF TypeInv, CommandInv
  <2> QED
    BY <1>1, <1>2, <2>2, <2>3, <2>4, DiskStep
<1> QED
  BY <1>3, <1>4

LEMMA NewestAtFirst ==
  ASSUME Init
  PROVE  NewestInv /\ ProtocolNotBehindItsDocs
<1>1. /\ cmd.step = "done" /\ cmd.model = None /\ now = 0 /\ None \notin Versions
      /\ \A f \in Files : disk[f] \in {None, 0}
  BY GeneratorAssumption DEF Init
<1>2. NewestInv
  BY <1>1 DEF NewestInv, AllNotNewer
<1>3. \A d \in ProtocolDocs(Docs) \cap Files : disk[d] = None
  <2>1. SUFFICES ASSUME NEW d \in ProtocolDocs(Docs) \cap Files
                 PROVE  disk[d] = None
    OBVIOUS
  <2>2. LastPart(d) \in {"protocol.json", "protocol.md"} /\ d \notin ProtocolOuts
    BY DocsParts
  <2>3. d # Candidates[1]
    BY <2>2 DEF ProtocolOuts, Candidates, ToSet
  <2>4. d # Leftover(<<"tooling", "test-vectors">>)
    <3>1. "leftover" \in Parts
      BY WordsAreParts DEF Words
    <3>2. LastPart(Leftover(<<"tooling", "test-vectors">>)) = "leftover"
      BY <3>1, KnownPaths, Below DEF Leftover, LastPart
    <3> QED
      BY <2>2, <3>2
  <2> QED
    BY <2>3, <2>4 DEF Init
<1> QED
  BY <1>1, <1>2, <1>3 DEF ProtocolNotBehindItsDocs

\* The documents never show a protocol that is newer than every definition on
\* disk, although commands fail and are killed between their writes, as long as
\* no write of a definition was cut short (cli.ts, emitters/).
THEOREM DefinitionsFirst == Spec => []ProtocolNotBehindItsDocs
<1>1. Init => SuccessInv
  BY DEF Init, SuccessInv, DefinitionWritten, Progress, SuccessIsComplete
<1>2. TypeInv /\ SuccessInv /\ [Next]_vars => SuccessInv'
  BY SuccessKept
<1>3. /\ TypeInv /\ SuccessInv /\ NewestInv /\ ProtocolNotBehindItsDocs /\ [Next]_vars
         => NewestInv' /\ ProtocolNotBehindItsDocs'
  BY NewestKept, NotBehindKept DEF SuccessInv
<1> QED
  BY <1>1, <1>2, <1>3, NewestAtFirst, GeneratorTypeCorrect, PTL DEF Spec
=============================================================================
