------------------------------- MODULE Generator -------------------------------
(***************************************************************************)
(* The commands of axtp-gen (cli.ts) and the files they write (emitters/). *)
(* A command loads, checks, writes the protocol definition if it is one    *)
(* that does, and then writes its artifacts in parallel. It awaits in      *)
(* between, so the sources may be edited under it; a write may fail while  *)
(* the others go on; and it may be killed.                                 *)
(*                                                                         *)
(* The n-th state of the sources is the number n. What the rules say about *)
(* it is its quality, what its documents say is docs. A path is the        *)
(* sequence of its parts; one path stands for all files that an emitter    *)
(* writes side by side, so that Torn also means some of them.              *)
(***************************************************************************)
EXTENDS Naturals, Sequences, SequencesExt

CONSTANTS
  Layout,       \* "flat", or "contract": where the registry directory is found
  Commands,     \* the commands people use, each with its --out, None when left out
  None, Torn,
  Fixed,        \* the contents of the test vectors, which no source decides
  Qualities,    \* functions from versions to "unfit", "registry" or "protocol"
  Documents,    \* functions from versions to whether the documents agree
  MaxEdits, MaxCommands, MaxFailures

Versions == 0 .. MaxEdits

-----------------------------------------------------------------------------
(* What each command reads.                                                *)

RegistryCommands == {"validate", "generate-registry", "doc", "test-vector"}
SourceCommands == {"validate-sources", "generate"}
ProtocolCommands == {"validate-protocol", "emit-protocol", "generate-protocol"}
WritingProtocol == {"build-protocol", "generate"}
CommandNames == RegistryCommands \cup SourceCommands \cup ProtocolCommands \cup WritingProtocol

ContractProtocol == <<"contract", "protocol", "axtp.protocol.yaml">>
RootProtocol == <<"protocol", "axtp.protocol.yaml">>

(* Below the contract root first, then below the root that was given.      *)
Candidates ==
  IF Layout = "contract" THEN <<ContractProtocol, RootProtocol>> ELSE <<RootProtocol>>

(* Where build-protocol and generate may be told to write; generate writes *)
(* to the first one when nothing is said.                                  *)
ProtocolOuts == {RootProtocol} \cup ToSet(Candidates)

-----------------------------------------------------------------------------
(* What each command writes.                                               *)

Docs == <<"docs", "generated">>

ProtocolDocs(dir) == {dir \o <<"protocol.json">>, dir \o <<"protocol.md">>}
Tables(dir) == {dir \o <<"registry.md">>}
Json(dir) == {dir \o <<"registry.json">>}

(* emitAll, without its test vectors. The files in C++, Dart and           *)
(* TypeScript are one path here.                                           *)
All(dir) == {dir \o <<"ids">>} \cup Json(dir \o <<"json">>) \cup Tables(dir \o <<"docs">>)

Artifacts(name, out) ==
  CASE name = "generate-registry" ->
         IF out = None THEN Tables(Docs) \cup Json(<<"tooling", "mcp">>) ELSE All(out)
    [] name = "generate" ->
         IF out = None
         THEN ProtocolDocs(Docs) \cup Tables(Docs) \cup Json(<<"tooling", "mcp">>)
         ELSE ProtocolDocs(out) \cup All(out)
    [] name = "emit-protocol" -> ProtocolDocs(IF out = None THEN Docs ELSE out)
    [] name = "generate-protocol" -> ProtocolDocs(IF out = None THEN <<"generated">> ELSE out)
    [] name = "doc" -> Tables(IF out = None THEN Docs ELSE out)
    [] OTHER -> {}

(* The directory of test vectors a command empties and fills, if any.      *)
VectorDir(name, out) ==
  CASE name \in {"generate", "generate-registry"} ->
         IF out = None THEN <<"tooling", "test-vectors">> ELSE out \o <<"test_vectors">>
    [] name = "test-vector" -> IF out = None THEN <<"tooling", "test-vectors">> ELSE out
    [] OTHER -> None

Vectors(dir) == dir \o <<"vectors">>
Leftover(dir) == dir \o <<"leftover">>

Outs == {c[2] : c \in Commands} \ {None}

VectorDirs == {VectorDir(c[1], c[2]) : c \in Commands} \ {None}

Files ==
  ProtocolOuts
    \cup (UNION {Artifacts(c[1], c[2]) : c \in Commands})
    \cup (UNION {{Vectors(d), Leftover(d)} : d \in VectorDirs})

(* A path is a file or a directory; and nobody has test vectors written    *)
(* over the protocol definitions.                                          *)
ASSUME GeneratorAssumption ==
  /\ Layout \in {"flat", "contract"}
  /\ Commands \subseteq CommandNames \X (Outs \cup {None})
  /\ \A out \in Outs : out \in Seq(ToSet(out))
  /\ Qualities \subseteq [Versions -> {"unfit", "registry", "protocol"}]
  /\ Documents \subseteq [Versions -> BOOLEAN]
  /\ {None, Torn, Fixed} \cap Versions = {}
  /\ None # Torn /\ None # Fixed /\ Torn # Fixed
  /\ MaxEdits \in Nat /\ MaxCommands \in Nat /\ MaxFailures \in Nat
  /\ VectorDirs \cap Files = {}
  /\ \A d \in VectorDirs, p \in ProtocolOuts : ~IsPrefix(d, p)

VARIABLES
  now,       \* the state the sources are in
  quality,   \* what the rules say of each state
  docs,      \* whether its documents agree
  disk,      \* what is in the files of Files
  cmd,       \* the command that runs, or ran last
  commands, failures

vars == <<now, quality, docs, disk, cmd, commands, failures>>

-----------------------------------------------------------------------------
Init ==
  /\ now = 0
  /\ quality \in Qualities
  /\ docs \in Documents
  /\ \E old \in SUBSET {Leftover(<<"tooling", "test-vectors">>), Candidates[1]} :
       disk = [f \in Files |->
                 IF f \notin old THEN None
                 ELSE IF f = Candidates[1] /\ quality[0] # "protocol" THEN None
                 ELSE 0]
  /\ cmd = [name |-> "none", out |-> None, to |-> None, step |-> "done", model |-> None,
            todo |-> {}, result |-> "none", before |-> disk]
  /\ commands = 0 /\ failures = 0

(* People edit the sources, the documents among them, at any time.         *)
Edit ==
  /\ now < MaxEdits
  /\ now' = now + 1
  /\ UNCHANGED <<quality, docs, disk, cmd, commands, failures>>

Start(name, out, to) ==
  /\ cmd.step = "done" /\ commands < MaxCommands
  /\ cmd' = [name |-> name, out |-> out, to |-> to, step |-> "load", model |-> None,
             todo |-> {}, result |-> "none", before |-> disk]
  /\ commands' = commands + 1
  /\ UNCHANGED <<now, quality, docs, disk, failures>>

AtStep(s) == cmd.step = s

(* An exception on the way to the first write: a message and exit code 1.  *)
Refuse == cmd' = [cmd EXCEPT !.step = "done", !.result = "refused"]

(* The artifacts all start together, and so does emptying the vectors.     *)
Jobs(c) == Artifacts(c.name, c.out) \cup ({VectorDir(c.name, c.out)} \ {None})

Checked(c) ==
  IF c.name \in WritingProtocol THEN [c EXCEPT !.step = "protocol"]
  ELSE [c EXCEPT !.step = "emit", !.todo = Jobs(c)]

(* loadAndValidate looks at the registry alone, build-protocol also at the *)
(* protocol it builds; the others go on to read the documents.             *)
LoadSources ==
  /\ AtStep("load") /\ cmd.name \notin ProtocolCommands
  /\ LET loaded == [cmd EXCEPT !.model = now]
     IN IF cmd.name \in RegistryCommands /\ quality[now] # "unfit"
        THEN cmd' = Checked(loaded)
        ELSE IF cmd.name = "build-protocol" /\ quality[now] = "protocol"
        THEN cmd' = Checked(loaded)
        ELSE IF cmd.name \in SourceCommands /\ quality[now] # "unfit"
        THEN cmd' = [loaded EXCEPT !.step = "docs"]
        ELSE Refuse
  /\ UNCHANGED <<now, quality, docs, disk, commands, failures>>

(* The definition that is there first; a torn one may still parse.         *)
Existing(i) ==
  disk[Candidates[i]] # None /\ \A j \in 1 .. i - 1 : disk[Candidates[j]] = None

LoadProtocol ==
  /\ AtStep("load") /\ cmd.name \in ProtocolCommands
  /\ \/ (\A i \in DOMAIN Candidates : disk[Candidates[i]] = None) /\ Refuse
     \/ \E i \in DOMAIN Candidates :
          /\ Existing(i)
          /\ \/ cmd' = [cmd EXCEPT !.step = "docs", !.model = disk[Candidates[i]]]
             \/ disk[Candidates[i]] = Torn /\ Refuse
  /\ UNCHANGED <<now, quality, docs, disk, commands, failures>>

(* Mutant: the rules of the protocol are left to validate-protocol.        *)
ProtocolValidAsSources(model) == model = Torn \/ (model # None /\ quality[model] # "unfit")

(* The documents are read as they are by then, and the protocol is checked *)
(* with them.                                                              *)
ProtocolValid(model) == model = Torn \/ (model # None /\ quality[model] = "protocol")

(* Mutant: generate writes the definition before it looks at the documents. *)
CheckProtocolAfterWriting ==
  /\ AtStep("docs")
  /\ disk' = IF cmd.name = "generate" THEN [disk EXCEPT ![cmd.to] = cmd.model] ELSE disk
  /\ IF ProtocolValid(cmd.model) /\ docs[now] THEN cmd' = Checked(cmd) ELSE Refuse
  /\ UNCHANGED <<now, quality, docs, commands, failures>>

CheckProtocol ==
  /\ AtStep("docs")
  /\ IF ProtocolValid(cmd.model) /\ docs[now] THEN cmd' = Checked(cmd) ELSE Refuse
  /\ UNCHANGED <<now, quality, docs, disk, commands, failures>>

-----------------------------------------------------------------------------
(* Writing.                                                                *)

(* Mutant: the definition is written along with the artifacts.             *)
WriteProtocolUnawaited ==
  /\ AtStep("protocol")
  /\ cmd' = [cmd EXCEPT !.step = "emit", !.todo = Jobs(cmd) \cup {cmd.to}]
  /\ UNCHANGED <<now, quality, docs, disk, commands, failures>>

WriteProtocol ==
  /\ AtStep("protocol")
  /\ disk' = [disk EXCEPT ![cmd.to] = cmd.model]
  /\ cmd' = [cmd EXCEPT !.step = "emit", !.todo = Jobs(cmd)]
  /\ UNCHANGED <<now, quality, docs, commands, failures>>

Content(f) == IF f[Len(f)] = "vectors" THEN Fixed ELSE cmd.model

WriteArtifact(f) ==
  /\ AtStep("emit") /\ f \in cmd.todo \cap Files
  /\ disk' = [disk EXCEPT ![f] = Content(f)]
  /\ cmd' = [cmd EXCEPT !.todo = @ \ {f}]
  /\ UNCHANGED <<now, quality, docs, commands, failures>>

(* Mutant: what is in the directory stays.                                 *)
EmptyVectorsNot(dir) ==
  /\ AtStep("emit") /\ dir \in cmd.todo \cap VectorDirs
  /\ cmd' = [cmd EXCEPT !.todo = (@ \ {dir}) \cup {Vectors(dir)}]
  /\ UNCHANGED <<now, quality, docs, disk, commands, failures>>

(* rm -r on whatever the directory is, and only then the vectors.          *)
EmptyVectors(dir) ==
  /\ AtStep("emit") /\ dir \in cmd.todo \cap VectorDirs
  /\ disk' = [f \in Files |-> IF IsPrefix(dir, f) THEN None ELSE disk[f]]
  /\ cmd' = [cmd EXCEPT !.todo = (@ \ {dir}) \cup {Vectors(dir)}]
  /\ UNCHANGED <<now, quality, docs, commands, failures>>

Tears(files) ==
  \/ UNCHANGED disk
  \/ \E f \in files \cap Files : disk' = [disk EXCEPT ![f] = Torn]

(* The protocol definition could not be written: nothing else is.          *)
FailProtocol ==
  /\ AtStep("protocol") /\ failures < MaxFailures
  /\ Tears({cmd.to})
  /\ cmd' = [cmd EXCEPT !.step = "done", !.result = "failed"]
  /\ failures' = failures + 1
  /\ UNCHANGED <<now, quality, docs, commands>>

(* One of the writes fails: the failure is reported at once, and the       *)
(* others go on until the process ends.                                    *)
FailArtifact(f) ==
  /\ AtStep("emit") /\ f \in cmd.todo /\ failures < MaxFailures
  /\ Tears({f})
  /\ cmd' = [cmd EXCEPT !.todo = @ \ {f}, !.result = "failed"]
  /\ failures' = failures + 1
  /\ UNCHANGED <<now, quality, docs, commands>>

Finish ==
  /\ AtStep("emit") /\ cmd.todo = {}
  /\ cmd' = [cmd EXCEPT !.step = "done", !.result = IF @ = "failed" THEN "failed" ELSE "ok"]
  /\ UNCHANGED <<now, quality, docs, disk, commands, failures>>

Kill ==
  /\ ~AtStep("done") /\ failures < MaxFailures
  /\ IF AtStep("emit") THEN Tears(cmd.todo)
     ELSE IF AtStep("protocol") THEN Tears({cmd.to})
     ELSE UNCHANGED disk
  /\ cmd' = [cmd EXCEPT !.step = "done", !.result = "killed"]
  /\ failures' = failures + 1
  /\ UNCHANGED <<now, quality, docs, commands>>

StartAny ==
  \E c \in Commands :
    \E to \in IF c[1] \in WritingProtocol THEN ProtocolOuts ELSE {None} : Start(c[1], c[2], to)

Next ==
  \/ Edit
  \/ StartAny
  \/ LoadSources \/ LoadProtocol \/ CheckProtocol
  \/ WriteProtocol \/ FailProtocol
  \/ \E f \in Files : WriteArtifact(f)
  \/ \E d \in VectorDirs : EmptyVectors(d)
  \/ \E f \in Files \cup VectorDirs : FailArtifact(f)
  \/ Finish
  \/ Kill

Spec == Init /\ [][Next]_vars

-----------------------------------------------------------------------------
Disks == [Files -> Versions \cup {None, Torn, Fixed}]

TypeOK ==
  /\ now \in Versions /\ quality \in Qualities /\ docs \in Documents
  /\ disk \in Disks
  /\ cmd \in [name : CommandNames \cup {"none"}, out : Outs \cup {None},
             to : ProtocolOuts \cup {None}, step : {"load", "docs", "protocol", "emit", "done"},
             model : Versions \cup {None, Torn}, todo : SUBSET (Files \cup VectorDirs),
             result : {"none", "refused", "failed", "killed", "ok"}, before : Disks]
  /\ commands \in 0 .. MaxCommands /\ failures \in 0 .. MaxFailures

(* A command that refuses its input leaves every file as it found it, also *)
(* the test vectors that it would have emptied first.                      *)
RefusedChangesNothing == cmd.result = "refused" => disk = cmd.before

(* A command that ends with success has written all it is for, from the    *)
(* one state of the sources that it loaded, whatever was edited, torn or   *)
(* left over before; and nothing else is among the test vectors.           *)
SuccessIsComplete ==
  cmd.step = "done" /\ cmd.result = "ok" =>
    /\ \A f \in Artifacts(cmd.name, cmd.out) : disk[f] = cmd.model
    /\ cmd.name \in WritingProtocol => disk[cmd.to] = cmd.model
    /\ LET dir == VectorDir(cmd.name, cmd.out)
       IN dir # None =>
            {f \in Files : IsPrefix(dir, f) /\ disk[f] # None} = {Vectors(dir)}

(* Nothing is published that the command's rules had not accepted: tables  *)
(* need a valid registry, protocol files a protocol that is valid too.     *)
OnlyAcceptedIsWritten ==
  \A f \in Files :
    disk[f] \in Versions /\ f # Leftover(<<"tooling", "test-vectors">>) =>
      /\ quality[disk[f]] # "unfit"
      /\ f \in ProtocolOuts \cup ProtocolDocs(Docs) => quality[disk[f]] = "protocol"

(* The definition is written before what is made of it: while no write of  *)
(* a definition was cut short, the documents never show a protocol that is *)
(* newer than every definition on disk, even after a failure or a kill.    *)
ProtocolNotBehindItsDocs ==
  (\A p \in ProtocolOuts : disk[p] # Torn) =>
    \A d \in ProtocolDocs(Docs) \cap Files :
      disk[d] \in Versions =>
        \E p \in ProtocolOuts : disk[p] \in Versions /\ disk[p] >= disk[d]

(* cli.ts:140: "emit protocol JSON and Markdown from                       *)
(* protocol/axtp.protocol.yaml".                                           *)
EmitsFromTheProtocolFile ==
  cmd.name = "emit-protocol" /\ cmd.result = "ok" /\ cmd.out = None
    /\ disk[RootProtocol] # None =>
      \A d \in ProtocolDocs(Docs) : disk[d] = disk[RootProtocol]
==============================================================================
